\* The components that share no state, one in a behaviour.  A thread of
\* callbacks may block itself for good, exit() ends a process, and strings
\* and dates reach their bounds: the system may stop.
SPECIFICATION MCSpec
CHECK_DEADLOCK FALSE
CONSTANTS
  Expressions <- MCFewExpressions
  StartTimes <- MCStartTimes
  FirstDate = 20191201
  FinalDate = 20210331
  Offsets <- MCOffsets
  Days <- MCDays
  MaxDays = 4
  SecMs = 2
  DaySec = 6
  ClockTimes = {0, 1, 5}
  MaxNow = 40
  Late = 8
  TextChars = {97, 46, 255}
  PatChars = {97, 46, 42}
  MaxText = 4
  MaxPat = 3
  Items = {1, 2, 3, 4}
  Links = {11, 12, 13}
  Null = 0
  Fds = {1, 2}
  EventSets = {{}, {"IN", "OUT"}}
  EvData = {"data"}
  MaxEvents = 3
  HostCo = {1, 2}
  HostNames = {"host1", "host2"}
  Buffers = {1, 2, 3}
  MaxDoubling = 1
  EnvCo = {1, 2}
  EnvNames = {1, 2, 3}
  EnvValues = {"value"}
  EnvLists <- MCEnvLists
  Threads = {"main", "t1", "t2"}
  MainThread = "main"
  MaxObjects = 3
  Processes = {"p1", "p2", "p3"}
  SigThreads = {"t1", "t2"}
  SigNos = {"SIGINT", "SIGTERM"}
  Callbacks = {"callback"}
  MaxCallbacks = 2
  MaxFrames = 3
  FlagType <- MCFlagType
  OtherNames = {}
  MaxInt = 3
  MaxInt64 = 7
  Room = 3
  FileWords = {"print_flags", "dump_metrics", "limit", "path", "=", " ", "#", "quote", "true", "false", "number", "a"}
  FlagFiles <- MCFlagFiles
  ArenaSize = 12
  Align = 4
  Sizes = {0, 1, 4, 7}
  MaxBlocks = 4
INVARIANTS
  FoundMatches
  FirstWhenAligned
  DaysFollow
  PeriodsEnd
  KthOfEachPeriod
  NoDayMissed
  TextPutBack
  MatchesStand
  ListsConsistent
  FiltersFollow
  EntriesMerged
  AnswerIsOwn
  EnvIsPrivate
  OneInstance
  OneProcess
  CallbacksStable
  LoadGivesSaved
  BlocksApart
PROPERTIES
  ImplementsLinkSeqs
