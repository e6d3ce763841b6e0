SPECIFICATION Spec
CONSTANTS
  MaxFaults = 1
  Offsets <- MCOffsets
INVARIANTS
  ActiveTokenIsReal
