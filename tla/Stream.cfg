SPECIFICATION Spec
CONSTANTS
  A = A
  B = B
  C = C
  m1 = m1
  m2 = m2
  None = None
  Providers = {A, B, C}
  Models = {m1, m2}
  Routes <- ShortRoutes
  Active = A
  ActiveModel = m1
  Fallbacks = {B, C}
  Threshold = 2
  MaxRequests = 3
  MaxText = 2
CHECK_DEADLOCK FALSE
INVARIANT RecordedIsShown
INVARIANT SentInOrder
PROPERTY ImplementsContract
PROPERTY CircuitRests
PROPERTY TranslationEnds
