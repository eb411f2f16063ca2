SPECIFICATION Spec
CONSTANTS
  Ids = {i1, i2}
  Cfgs = {c1}
  Disabled = {}
  Models = {m1}
  Secrets = {"none"}
  None = None
  MaxOps = 4
  MaxCrashes = 0
  CmdCap = 4
  Unawaited = {"test"}
CHECK_DEADLOCK FALSE
INVARIANT ServedByShown
