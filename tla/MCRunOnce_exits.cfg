SPECIFICATION FairRunSpec
CONSTANTS
  s = s
  t = t
  u = u
  w = w
  Nodes <- PairNodes
  DependsOn <- PairDeps
  Tasks = {t}
  Served = {}
  Ported = {}
  Probed = {s}
  Live = {}
  Misses = 1
  Cacheable = {}
  Verified = {}
  OnChange <- IgnoreAll
  Policy <- NeverPolicy
  MaxRestarts <- NoRestarts
  Slots = 1
  Faults = 1
  KeepGoing = FALSE
  Signals = TRUE
PROPERTIES
  RunAnswers
