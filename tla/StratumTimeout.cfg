SPECIFICATION FairSpec
CONSTANTS
  Callers = {c1}
  Helpers = {h1}
  NServers = 1
  Scheme <- MCStratum
  MaxDials = 1
  MaxId = 3
  Threshold = 1
  NoOne = NoOne
  NoMsg = NoMsg
CHECK_DEADLOCK FALSE
PROPERTY ResponseTimeout
