\* Every page, and whether censored mode hides what identifies the unit.
SPECIFICATION Spec
CONSTANTS
  MX = 68
  MY = 34
  Devices <- MCDevices
INVARIANT CrucialHidden
