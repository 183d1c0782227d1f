\* Killed processes die within one poll interval.
SPECIFICATION Spec
CONSTANTS
  MaxProcs = 3
  Habits = {"detach", "ignore_term"}
  Faults <- KillFaults
  MemoryLimited = FALSE
  CgroupModes = {"none", "active"}
  GraceRounds = 0
  KillRounds = 3
  PromptDeath = TRUE
INVARIANTS
  ExitMeansGone
  FinishedMeansGone
