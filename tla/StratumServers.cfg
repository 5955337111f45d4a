SPECIFICATION Spec
CONSTANTS
  Callers = {}
  Helpers = {}
  NServers = 3
  Scheme <- MCServers
  MaxDials = 2
  MaxId = 2
  Threshold = 1
  NoOne = NoOne
  NoMsg = NoMsg
CHECK_DEADLOCK FALSE
PROPERTY
  FailoverAlone
