SPECIFICATION Spec
CONSTANTS
  Callers = {c1}
  Helpers = {}
  NServers = 1
  Scheme <- MCProxy
  MaxDials = 2
  MaxId = 2
  Threshold = 1
  NoOne = NoOne
  NoMsg = NoMsg
CHECK_DEADLOCK FALSE
PROPERTY ClosedForGood
