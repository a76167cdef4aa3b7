SPECIFICATION Spec
CONSTANTS
  alice = alice
  bo = bo
  left = left
  right = right
  Actor = {alice, bo}
  NoActor = nobody
  Target = {1}
  Page = {left, right}
  ActorOf <- MCActorOf
  Author = bo
  Approver = alice
  SelfApprover = {alice}
  Recoverer = {alice}
  Recoverable = {bo}
  MaxRequest = 4
  MaxVersion = 4
PROPERTIES
  LandsOnCurrent
  OverwriteIsInformed
CHECK_DEADLOCK FALSE
