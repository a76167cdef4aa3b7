SPECIFICATION Spec
CONSTANTS
  staff = staff
  crew = crew
  s1 = s1
  s2 = s2
  Group = {staff, crew}
  Entitled = {staff}
  Slot = {s1, s2}
  MaxGroups = 1
  TokenLife = 1
  CredentialLife = 1
  ReadingAge = 1
  RosterAge = 1
  Timeout = 1
  Ttl = 2
SYMMETRY SlotSymmetry
INVARIANTS
  LeavingTakesEffect
PROPERTY
  RefusalIsAnAnswer
