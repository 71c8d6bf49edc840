CONSTANTS
  Names = {n1, n2}
  NoName = NoName
  MaxHandle = 3
  MaxArity = 2
  MaxFailures = 1
  STI_LOW = 0
  STI_HIGH = 1
  MIN_STI = 0
  CallerSTIs = {0}
  LTIs = {0}
SPECIFICATION TeardownSpec
INVARIANT HashSetAgrees
PROPERTIES DestructorEnds ImplementsAtomSet
CHECK_DEADLOCK FALSE
