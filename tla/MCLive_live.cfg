SPECIFICATION LiveSpec
CONSTANTS
  watcher = watcher
  tui = tui
  f = f
  g = g
  dir = dir
  check = check
  api = api
  Senders = {watcher, tui}
  MaxSends = 4
  Kids = {"server"}
  MaxRequests = 2
  MaxSaid = 3
  MayMiss = TRUE
  MissLimit = 2
  Files = {f, g}
  Folder = dir
  InFolder = {g}
  Watchers = {check, api}
  Watched <- TwoWatch
  Feeds <- ApiOnCheck
  Heeds = {check, api}
  QueueCap = 1
  Parties = {check, api}
  Below <- ApiOnCheck
  Statuses = {"pending", "healthy"}
  ReadyStatuses = {"healthy"}
  MaxWrites = 3
INVARIANTS
  CtlIInv
  StoppedMeansGone
  StatusAgrees
  NoEditLost
PROPERTIES
  NothingInFront
  KeepsPromise
  StopReturns
  ReloadFollowed
  EditsHeard
  PassesAreAtomic
