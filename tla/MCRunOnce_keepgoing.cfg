SPECIFICATION FairRunSpec
CONSTANTS
  s = s
  t = t
  u = u
  w = w
  Nodes <- BranchNodes
  DependsOn <- BranchDeps
  Tasks = {t, u, w}
  Served = {s}
  Ported = {}
  Probed = {}
  Live = {}
  Misses = 1
  Cacheable = {}
  Verified = {}
  OnChange <- IgnoreAll
  Policy <- AlwaysPolicy
  MaxRestarts <- NoRestarts
  Slots = 2
  Faults = 2
  KeepGoing = TRUE
  Signals = FALSE
PROPERTIES
  RunAnswers
  SettledIsQuiet
CHECK_DEADLOCK FALSE
