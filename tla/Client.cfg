SPECIFICATION FairSpec
CONSTANTS
  SIZE_MAX_MESSAGE = 3
  MaxChats = 1
  MaxKeys = 4
CHECK_DEADLOCK FALSE
INVARIANTS
  TypeOK
  DrawsAlone
  LineIsClean
PROPERTIES
  ThreadsEnd
  EndsWithServer
