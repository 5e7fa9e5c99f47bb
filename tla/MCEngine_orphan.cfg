SPECIFICATION Spec
CONSTANTS
  t = t
  u = u
  a = a
  b = b
  l = l
  Nodes <- ChainNodes
  DependsOn <- ApartDeps
  Tasks = {t, u}
  Served = {}
  Ported = {}
  Probed = {}
  Live = {}
  Misses = 1
  Cacheable = {}
  Verified = {}
  OnChange <- RestartAll
  Policy <- AlwaysPolicy
  MaxRestarts <- OneRestart
  Slots = 1
  Faults = 0
INVARIANTS
  NothingLeft
