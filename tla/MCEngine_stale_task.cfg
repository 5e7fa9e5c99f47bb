SPECIFICATION SettlingSpec
CONSTANTS
  t = t
  u = u
  a = a
  b = b
  l = l
  Nodes <- ChainNodes
  DependsOn <- ChainDeps
  Tasks = {t, u}
  Served = {}
  Ported = {}
  Probed = {}
  Live = {}
  Misses = 1
  Cacheable = {t}
  Verified = {}
  OnChange <- RestartAll
  Policy <- AlwaysPolicy
  MaxRestarts <- OneRestart
  Slots = 2
  Faults = 1
PROPERTIES
  Converges
