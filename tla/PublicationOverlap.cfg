SPECIFICATION RegimeSpec
CONSTANTS
  Actor = {alice, bo, bootstrap}
  NoActor = nobody
  Target = {1, 2}
  Admin = {alice, bo}
  Bootstrap = bootstrap
  SelfApprover = {bo}
  Owner = {bo}
  Content = {c1, c2}
  NoContent = noContent
  NoDoc = noDoc
  Operation = {"propose", "import", "remove", "resume", "resumeImport", "withdraw", "abandon"}
  MaxRevision = 2
  MaxRequest = 5
  MaxOverlap = 2
  MaxOverlapping = 4
  MaxAlone = 5
INVARIANTS
  ApprovedContentLands
  WithdrawnNeverLands
  ActiveHasLanded
  AloneServesActive
  AloneScreenLeadsOn
SYMMETRY ContentSymmetry
CHECK_DEADLOCK FALSE
