\* The request that poll_workload() overtakes.
SPECIFICATION Spec
CONSTANTS
  MaxProcs = 1
  Habits = {"detach", "ignore_term"}
  Faults <- NoFault
  MemoryLimited = FALSE
  CgroupModes = {"none"}
  GraceRounds = 0
  KillRounds = 0
  PromptDeath = FALSE
INVARIANTS
  SuccessMeansNoRequest
