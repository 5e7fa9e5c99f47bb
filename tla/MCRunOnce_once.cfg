SPECIFICATION FairRunSpec
CONSTANTS
  s = s
  t = t
  u = u
  w = w
  Nodes <- TowerNodes
  DependsOn <- TowerDeps
  Tasks = {t, u}
  Served = {}
  Ported = {}
  Probed = {s}
  Live = {s}
  Misses = 1
  Cacheable = {t}
  Verified = {t}
  OnChange <- IgnoreAll
  Policy <- AlwaysPolicy
  MaxRestarts <- Unlimited
  Slots = 1
  Faults = 1
  KeepGoing = FALSE
  Signals = TRUE
INVARIANTS
  SuccessStands
PROPERTIES
  RunReturns
