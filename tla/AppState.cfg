SPECIFICATION Spec
CONSTANTS
  Ids = {i1, i2}
  Cfgs = {c1}
  Disabled = {}
  Models = {m1}
  Secrets = {"none"}
  None = None
  MaxSequence = 1
SYMMETRY IdSymmetry
INVARIANTS TypeOK SavedLinks ModelLinks StorageLinks ConnectingHasPending
PROPERTY AtomicSwitch
