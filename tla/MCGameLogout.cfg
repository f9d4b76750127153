SPECIFICATION Spec
CONSTANTS
  MaxConns = 2
  MaxPackets = 2
  HANDSHAKE_LEN = 1
  HEADER_LENGTH = 2
  LengthOf <- TwoLengths
  Start <- TwoStarts
  Fragile = {}
  MaxWrites = 1
CHECK_DEADLOCK FALSE
INVARIANTS
  DroppedBytesAreOld
