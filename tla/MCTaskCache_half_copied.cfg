SPECIFICATION Spec
CONSTANTS
  p = p
  q = q
  t = t
  u = u
  v = v
  big = big
  Procs = {p, q}
  Tasks <- Two
  DependsOn <- TwoDeps
  Requests <- OneAndTwo
  Inputs <- TwoInputs
  Oversized = {}
  Flaky = {}
  Budget = 1
  SweepEvery = 1
  Pushers = {q}
  Verify = FALSE
  Calm = TRUE
  WholeCopies = FALSE
  MaxFaults = 0
INVARIANTS
  ArchivesWhole
