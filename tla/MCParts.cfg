\* Bounds are explained in the README, component by component.
SPECIFICATION PartsSpec
CONSTANTS
  Counts = {0, 2}
  JITTER = 2
  Late = 1
  TimerPool = 2
  Horizon = 6
  MaxStarts = 3
  SEC = 3
  UINT = 13
  Seconds = {1}
  Nsecs = {0, 2}

  MAXHANDLES = 2
  EMU_BUF_SIZE = 1
  Names = {"n"}
  Objects = {"root", "f", "d"}
  Dirs = {"root", "d"}
  RootDir = "root"
  MaxRenames = 2

  Cards = {"a", "b"}
  Talkers = {"a"}
  Addressees = {"b"}
  QLEN = 1
  DROP_ERRORS = 0
  Garbage = {FALSE, TRUE}
  MaxPackets = 2
  MaxCrashes = 1

  Clients = {"g1", "g2", "m1"}
  Debuggers = {"g1", "g2"}
  MAXSELS = 5
  MAXFD = 5

  GDBBUF = 7
  NCpus = 2
  ThreadIds = {0, 10, 11, 12, 255}
  WORD = 2
  Addrs = {3, 4, 5, 6, 7}
  Commands = {"c", "D", "Hg", "M", "g"}
  MaxCommands = 2

  PAGE = 2
  KUDEPTH = 2
  USEG = 4
  KTOP = 8
  UTLBVector = 4
  Vector = 5
  NTLB = 2
  Pids = {0, 1}
  Frames = {"f", "k"}
  Values = {0, 1}
  LockUser = 0
  LockKernel = 7
  LockFrame = "k"
  HiloWait = 2
  Targets = {0}
  Loadable <- SomeEntries

  RPAGE = 2
  RTOP = 8
  Tables <- TableSet
  stvec = 4
  Entrypoint = 5
  Returns = {1}
  Jumps = {7}
  Accesses = {0, 6}
  RValues = {0, 1}
  WordUser = 0
  WordKernel = 6
  RKERN = 4

  W = 4
  SIGN = 8
  Registers <- SomeRegisters
INVARIANTS PartsTypeOK FetchFresh PreciseEpc UserScLinked ReservedSc UserIsolated
  PreciseSepc AluCorrect DecodeCorrect OneHandlePerFile ConnectionsOwned PacketsIntact WritesExactly
PROPERTIES TimerExact PacketsDelivered
CHECK_DEADLOCK FALSE
