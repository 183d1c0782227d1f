\* The leader never enters the cgroup that is asked about it.
SPECIFICATION Spec
CONSTANTS
  MaxProcs = 1
  Habits = {"detach", "ignore_term"}
  Faults <- AttachFault
  MemoryLimited = FALSE
  CgroupModes = {"active"}
  GraceRounds = 0
  KillRounds = 0
  PromptDeath = FALSE
INVARIANTS
  FinishedMeansGone
