SPECIFICATION Spec
CONSTANTS
  UsernameMax = 2
  PasswordMax = 1
  Bytes = {1, 2}
  HeaderValues = {0, 1, 2}
  Letters = {"a"}
  MaxFile = 7
  Ids = {0, 1, 2}
  DropFaults = {"setgroups", "setresgid", "setresuid", "getresuid", "seteuid"}
  Width = 4
  MaximumTimeout = 3
  MaximumMemory = 3
  DefaultTimeout = 2
  Numerals <- EdgeNumerals
  MaxArguments = 5
  CgroupLimits = {0, 1, 2}
  Generations = 2
  Abis = {0, 1, 2, 3}
  HeaderAbis = {1, 3}
  Blocked <- NetworkCalls
  SyscallNumbers <- CallNumbers
  Capacity = 64
  PrctlFails = TRUE
  TicksPerMs = 3
  MsPerSecond = 3
  TimeoutSeconds = 2
  Poll = 2
  StartTimes = {0, 1, 8}
  Horizon = 34
  UMax = 7
  Figures = {0, 3, 7}
  MaxProcesses = 2
  MemoryLimits = {1, 2, 4, 6, 7}
INVARIANTS
  AnswerIsDeserved
  AccountOrNothing
  NothingLeftToRegain
  OptionsMeanWhatTheySay
  GroupIsOwn
  HostOutOfReach
  TargetCanStart
  VerdictFollowsPolicy
  TimeoutIsKept
  SleepIsWhole
  LimitIsNotMissed
