SPECIFICATION FairSpec
CONSTANTS
  N = 2
  Works <- MCWorks
  FirstWorks <- MCFirst
CHECK_DEADLOCK FALSE
INVARIANTS
  TypeOK
  RebuildAlone
  WorkIsCurrent
  DagMatchesWork
PROPERTIES
  StopCompletes
  WorkDelivered
