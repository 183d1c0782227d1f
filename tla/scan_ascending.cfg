\* PIDs in order of birth.
SPECIFICATION Spec
CONSTANTS
  MaxProcs = 4
  Habits = {"detach", "ignore_term"}
  Ascending = TRUE
INVARIANTS
  TypeOK
  RootsSampled
  EmptySampleMeansGone
  NoStrangerSampled
  SurvivorsSampled
