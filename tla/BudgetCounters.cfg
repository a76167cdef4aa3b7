SPECIFICATION CountersSpec
CONSTANTS
  ann = ann  bob = bob  app = app  red = red  blue = blue  big = big  small = small
  ModelKey = {big, small}
  AnyModel = allModels
  Organization = organization
  TeamKey = {red, blue}
  NoTeamKey = noTeam
  Hours <- MCHours
  Hop <- MCHop
  DefaultWarn = 90
  NoBudget = noBudget
  NoSet = noSet
  Unused = idle
  Caller <- Both
  Limit <- MCLimit
  BudgetId = {"b"}
  Terms <- MCTerms
  InitialBudgets <- MCInitialBudgets
  Administrator = {a1}
  Slot = {s1, s2}
  MaxTokens = 1
  MaxEdits = 2
  MaxHour = 1
SYMMETRY Symmetric
INVARIANTS
  CountersAreOwn
  OvershootIsInFlight
PROPERTY SoftWarnsInTime
CHECK_DEADLOCK FALSE
