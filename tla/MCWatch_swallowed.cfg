SPECIFICATION WatchSpec
CONSTANTS
  f = f
  g = g
  dir = dir
  check = check
  api = api
  Files = {f, g}
  Folder = dir
  InFolder = {g}
  Watchers = {check, api}
  Watched <- TwoWatch
  Feeds <- ApiOnCheck
  Heeds = {api}
  QueueCap = 1
CHECK_DEADLOCK FALSE
INVARIANTS
  HitsPropagate
