SPECIFICATION AuthoringSpec
CONSTANTS
  a1 = a1
  a2 = a2
  team = team
  g1 = g1
  g2 = g2
  other = other
  person = person
  organization = organization
  m1 = m1
  m2 = m2
  served = served
  Revisions = 3
  Administrator = {a1, a2}
  Importer = importer
  Team = {team, other}
  Group = {g1, g2}
  Person = {person}
  Organization = organization
  Everywhere = everywhere
  Model = {m1, m2}
  Fact = {served}
  Unserved = unserved
  Import <- MCImport
  Standing <- MCStanding
  Reading <- MCReading
  PlanOffer <- MCPlans
  AllowOffer <- MCAllow
  Misordered <- MCMisordered
  MisorderedIds <- MCMisorderedIds
  MaxRevisions <- MCRevisions
  Absent = Absent
  NoOne = NoOne
  Nothing = Nothing
SYMMETRY Symmetry
INVARIANTS BindingsResolve RemovalLeavesNothing PlannedIsPossible FormsAreAccepted
CHECK_DEADLOCK FALSE
