SPECIFICATION Spec
CONSTANTS
  p = p
  q = q
  t = t
  u = u
  v = v
  big = big
  Procs = {p}
  Tasks <- One
  DependsOn <- OneDeps
  Requests <- Alone
  Inputs <- OneInputs
  Oversized = {}
  Flaky = {}
  Budget = 1
  SweepEvery = 1
  Pushers = {}
  Verify = TRUE
  Calm = FALSE
  WholeCopies = TRUE
  MaxFaults = 2
INVARIANTS
  HitReproduces
