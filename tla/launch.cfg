\* Every launch step may fail, and the controller may die at any moment.
SPECIFICATION FairSpec
CONSTANT
  StepFails <- AnyStep
INVARIANTS
  TypeOK
  TargetConfined
  CancelledNeverRuns
PROPERTIES
  NoOrphanTarget
  GateResolves
