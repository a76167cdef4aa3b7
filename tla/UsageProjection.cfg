SPECIFICATION MCSpec
CONSTANTS
  r1 = r1  r2 = r2  red = red  a = a  b = b  p1 = p1  p2 = p2
  Row = {r1, r2}
  RowData <- MCRowData
  Team = {red}
  NoTeam = noTeam
  Org = organization
  Model = {a, b}
  AllModels = allModels
  Window = {0, 1}
  WindowLength = 1
  IngestionLag = 1
  RowLimit = 2
  Registry <- MCRegistry
  Budget <- MCBudget
  Projector = {p1, p2}
  MaxRuns = 2
  MaxClock = 4
  Absent = absent
  NoWarning = none
  Nobody = nobody
  Reach = {2, 4}
  Withheld = withheld
  Aside <- MCAside
  Target = 100
  Undefined = undefined
SYMMETRY ProjectorSymmetry
INVARIANTS
  CompleteIsExact
  WarningsAreEarned
  ReprojectionAgrees
  OverviewIsExact
  ScreensAgree
  RoomIsReal
  DriftIsReal
CHECK_DEADLOCK FALSE
