SPECIFICATION Spec
CONSTANTS
  Callers = {}
  Helpers = {}
  NServers = 1
  Scheme <- MCProxy
  MaxDials = 3
  MaxId = 1
  Threshold = 1
  NoOne = NoOne
  NoMsg = NoMsg
CONSTRAINT NoDagChange
CHECK_DEADLOCK FALSE
PROPERTY
  RedialAlone
