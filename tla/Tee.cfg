SPECIFICATION TeeSpec
CONSTANTS
  Readers = {i1, i2}
  Chunks = {1, 2}
  Kinds = {"file", "memory"}
  MaxTotal = 3
INVARIANT
  ReadsWhatWasWritten
PROPERTY
  ReadReturns
CHECK_DEADLOCK FALSE
