SPECIFICATION RosterSpec
CONSTANTS
  staff = staff
  crew = crew
  ann = ann
  ben = ben
  red = red
  blue = blue
  cli = cli
  small = small
  large = large
  huge = huge
  Host = {h1}
  GovernedGroup = {staff, crew}
  Person = {ann, ben}
  Catalogue <- MCCatalogue
  Start0 <- MCStart
  MaxMembers = 1
  MaxAge = 1
  MaxTime = 2
  MaxChanges = 1
  NoSnapshot = NoSnapshot
  Team = {red, blue}
  TeamOf <- MCTeamOf
  KnownTeam = {red}
  Application = {cli}
  Model = {small, large, huge}
  Binding <- MCBinding
  Everyone = everyone
  NoTeam = noTeam
  NoApplication = noApplication
PROPERTIES
  CompleteIsWhole
  RosterCatchesUp
  RosterShowsPolicy
CHECK_DEADLOCK FALSE
