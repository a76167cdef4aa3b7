SPECIFICATION RevisionSpec
CONSTANTS
  Actor = {alice, bo}
  NoActor = nobody
  SelfApprover = {bo}
  Target = {1, 2}
  Number = 1
  Other = 2
INVARIANTS
  ActiveIsConfirmed
  SecondPairOfEyes
CHECK_DEADLOCK FALSE
