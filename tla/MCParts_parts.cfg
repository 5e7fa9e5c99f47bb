SPECIFICATION PartSpec
CONSTANTS
  a = a
  b = b
  c = c
  p = p
  q = q
  t = t
  u = u
  v = v
  big = big
  c1 = c1
  c2 = c2
  plain = plain
  B = B
  det = det
  x1 = x1
  x2 = x2
  Procs = {p, q}
  Tasks <- AllTasks
  DependsOn <- AllDeps
  Requests <- TwoOrChain
  Inputs <- AllInputs
  Oversized = {big}
  Flaky = {u, v}
  Budget = 1
  SweepEvery = 1
  Pushers = {q}
  Verify = TRUE
  Calm = TRUE
  WholeCopies = TRUE
  MaxFaults = 2
  Clients = {c1, c2}
  KeyReads <- Reads
  Lead = B
  DetachKey = det
  MaxSteps = 3
  Scrollback = 1
  Backlog = 1
  Outputs = {p, q}
  LineEnds = {"nl", "cr"}
  Cooked = FALSE
  MaxLines <- TwoAndOne
  Killed = {TRUE, FALSE}
  LogCap = 2
  LogPage = 1
  Patient = TRUE
  Recorded = {a, b}
  Statuses = {"starting", "healthy", "failed"}
  ReadyStatuses = {"healthy"}
  FailStatuses = {"failed"}
  Pids = {"1"}
  HistoryCap = 2
  MaxFacts = 4
  BackoffMin = 2
  BackoffMax = 7
  MaxCrashes = 4
  Names = {a, b, c}
  MaxPatterns = 2
  Values = {"", "v"}
  Required <- OneOptional
  Ups = {x1, x2}
SYMMETRY ClientSymmetry
CHECK_DEADLOCK FALSE
INVARIANTS
  CopyReproduces
  ArchivesWhole
  StampTrue
  OvershootCounted
  OneTerminal
  InputIntact
  OutputIntact
  GroupWhole
  FollowedOnce
  RunShowsAll
  HistoryWhole
  CrashLoopBounded
  SelectionRight
  EnvKeyed
  UpAnswers
  SettingsHeard
