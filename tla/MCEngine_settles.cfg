SPECIFICATION FairSpec
CONSTANTS
  t = t
  u = u
  a = a
  b = b
  l = l
  Nodes <- ForkNodes
  DependsOn <- ForkDeps
  Tasks = {t}
  Served = {}
  Ported = {b}
  Probed = {l}
  Live = {l}
  Misses = 1
  Cacheable = {t}
  Verified = {}
  OnChange <- ForkChange
  Policy <- ForkPolicy
  MaxRestarts <- OneRestart
  Slots = 1
  Faults = 1
PROPERTIES
  ShutdownEnds
  ConvergesOnceCommandsEnd
