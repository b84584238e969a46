\* Frames of up to 3 bytes, a header of 2, and small slices.
SPECIFICATION Spec
CONSTANTS
  MaxHeader = 2
  MaxFrame = 3
  MinReadSlice = 2
  MinReadHeadroom = 1
  MaxBytes = 9
  MaxStreams = 2
INVARIANTS TypeOK BytesInPlace ReadHasRoom MemoryBounded
PROPERTY ImplementsFifo
\* The last stream of the instance may end.
CHECK_DEADLOCK FALSE
