CONSTANTS
  Parts = {"workspace", "routing", "credentials"}
  P = P  Q = Q  R = R
  Entries = {a}
  LdMaxClicks = 3
  LdBacklog = 2
  RouteIds = {i, j}
  SavedOrder <- MCOrder
  ReModels = {"m1", "m2"}
  ReStored <- MCStored
  ReMaxSteps = 2
  WsJobs = {j1}
  WsFallbacks = {f1}
  WsMaxSteps = 3
  ExMax = 2  ExSuffixes = 1  ExOthers = 1
  SiMax = 2  SiCap = 1  SiPages = 2  SiPipe = 1
  DbDirs = {1, 2, 3}  DbOthers = 2
  CrSlots <- MCSlots
  CrValues = {1, 2}
  CrMaxClicks = 3
INIT MCInit
NEXT MCNext
INVARIANT WindowSurvives
CHECK_DEADLOCK FALSE
