\* The collector on three addresses: its safety, that it implements the
\* abstract heap and that every collection ends.
CONSTANTS
  Object <- MCObject
  MaxStackSize = 2
  MaxObjBeforeGC = 2
SPECIFICATION Spec
INVARIANTS
  TypeOK
  NoDangling
  ListExact
  ThresholdHolds
  MarksCleared
  WorkBounded
  NothingLeaks
PROPERTIES
  CollectsExactly
  ImplementsHeap
  CollectionEnds
\* The machine exits on a stack error and stops when it is freed; and malloc
\* may have no address left.
CHECK_DEADLOCK FALSE
