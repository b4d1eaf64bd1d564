SPECIFICATION Spec
CONSTANTS
  Value <- MCValue
  Chunks <- MCChunks
  MaxChunks = 5
  ByteBits = 2
  PortBits = 3
INVARIANTS DocumentedAccepted AcceptedNamesItsStart FamilyMatches
CHECK_DEADLOCK FALSE
