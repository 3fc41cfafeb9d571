SPECIFICATION FairSpec
CONSTANTS
  Command <- MCCommand
  Byte = {"f1", "f2", "a1", "a2", "s1", "s2", "s3"}
  FileBytes <- MCFileBytes
  ArgBytes <- MCArgBytes
  StdinBytes <- MCStdinBytes
  Part = {"p1", "p2", "e1", "e2"}
  Answer <- MCAnswer
INVARIANTS
  BodyWhole
  RetriesAsAsked
  OutputClean
  OutputWhole
PROPERTIES
  EndsInTime
CHECK_DEADLOCK FALSE
