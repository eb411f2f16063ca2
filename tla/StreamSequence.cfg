SPECIFICATION Spec
CONSTANTS
  A = A
  B = B
  C = C
  m1 = m1
  m2 = m2
  None = None
  Providers = {A, B, C}
  Models = {m1, m2}
  Routes <- LongRoutes
  Active = A
  ActiveModel = m1
  Fallbacks = {B}
  Threshold = 2
  MaxRequests = 1
  MaxText = 2
CHECK_DEADLOCK FALSE
PROPERTY ImplementsContract
