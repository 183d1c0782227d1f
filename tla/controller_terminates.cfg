\* Liveness: two processes, every wait goes round, with and without a cgroup.
SPECIFICATION FairSpec
CONSTANTS
  MaxProcs = 2
  Habits = {}
  Faults <- StartFaults
  MemoryLimited = TRUE
  CgroupModes = {"none", "active"}
  GraceRounds = 1
  KillRounds = 1
  PromptDeath = FALSE
INVARIANTS
  MembersConfined
  SuccessMeansClean
PROPERTIES
  ControllerTerminates
