\* The leader exits between waitpid() and cgroup.events.
SPECIFICATION Spec
CONSTANTS
  MaxProcs = 1
  Habits = {"detach", "ignore_term"}
  Faults <- NoFault
  MemoryLimited = FALSE
  CgroupModes = {"active"}
  GraceRounds = 0
  KillRounds = 0
  PromptDeath = FALSE
INVARIANTS
  FinishedMeansCollected
