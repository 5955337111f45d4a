SPECIFICATION FairSpec
CONSTANTS
  N = 2
  Works <- MCWorks
  FirstWorks <- MCFirst
CHECK_DEADLOCK FALSE
PROPERTY MiningResumes
