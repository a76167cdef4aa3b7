SPECIFICATION RemovalSpec
CONSTANTS
    group = group  vault = vault  site = site  grant = grant  account = account  other = other
    None = None
    Ids <- MCIds
    Kind <- MCKind
    Inside <- MCInside
    Scope <- MCScope
    Owner <- MCOwner
    Home = group
    Inputs <- MCInputs
    FreshFor = 0
    ApprovalLife = 1
    MaxReadings = 1
    Disturbances = 2
INVARIANTS ProtectedIsSpared
PROPERTY OnlyOursIsAuthorized
