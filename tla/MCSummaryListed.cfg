SPECIFICATION Spec
CONSTANTS
  MX = 68
  MY = 34
  Devices <- MCDevices
INVARIANTS
  AllAnomaliesListed
CHECK_DEADLOCK FALSE
