SPECIFICATION TeeSpec
CONSTANTS
  Readers = {i1, i2}
  Chunks = {1}
  Kinds = {"file"}
  MaxTotal = 3
PROPERTY
  WriteReleased
CHECK_DEADLOCK FALSE
