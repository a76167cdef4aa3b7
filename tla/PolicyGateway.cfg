SPECIFICATION Spec
CONSTANTS
  a = a  b = b
  chat = chat  responses = responses
  staff = staff  crew = crew
  ann = ann  app = app
  s1 = s1  s2 = s2
  Model = {a, b}
  Family = {chat, responses}
  Team = {staff, crew}
  Subject = {ann}
  Application = {app}
  Organization = organization
  AllModels = allModels
  Caller <- MCCaller
  Slot = {s1, s2}
  Ttl = 2
  Timeout = 1
  MaxEdits = 1
  InitialSet <- MCInitialSet
  Grant <- MCGrant
  Downgrade <- MCDowngrade
  Cap <- MCCap
  Reading <- MCReading
SYMMETRY SlotSymmetry
INVARIANTS
  WithdrawnWithinBound
  SubstituteAnswersRoute
  ListedIsDeployed
