\* Every page, and whether an anomaly may only be a missing helper.
SPECIFICATION Spec
CONSTANTS
  MX = 68
  MY = 34
  Devices <- MCDevices
INVARIANT AnomaliesAreReal
