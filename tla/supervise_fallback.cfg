\* Process-tree ancestry only, every fault.
SPECIFICATION Spec
CONSTANTS
  MaxProcs = 2
  Habits = {"ignore_term"}
  Faults <- EveryFault
  MemoryLimited = TRUE
  CgroupModes = {"none"}
  GraceRounds = 1
  KillRounds = 1
  PromptDeath = FALSE
INVARIANTS
  TypeOK
  FinishedMeansCollected
  ReasonIsTruthful
PROPERTIES
  RequestIsFinal
