SPECIFICATION Spec
CONSTANTS
  t = t
  u = u
  a = a
  b = b
  l = l
  Nodes <- TriangleNodes
  DependsOn <- TriangleDeps
  Tasks = {t}
  Served = {}
  Ported = {b}
  Probed = {a}
  Live = {}
  Misses = 1
  Cacheable = {t}
  Verified = {}
  OnChange <- TriangleChange
  Policy <- TrianglePolicy
  MaxRestarts <- OneRestart
  Slots = 1
  Faults = 2
INVARIANTS
  IInv
  BuildLimit
  ReadyIsTrue
  NoLostWakeup
  JoinedIsGone
  StopOrder
  OneResultEach
