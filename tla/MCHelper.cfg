SPECIFICATION Spec
CONSTANTS
  MaxFaults = 3
  Offsets <- MCOffsets
INVARIANTS
  TypeOK
  NothingHeld
  SyscallStateRestored
  NvsAnswerOfOffset
  EnsoAnswerIsReal
  MbrKept
PROPERTIES
  NeverStopsOnceAnswered
