\* Every page, and whether a kit that was never activated is told apart.
SPECIFICATION Spec
CONSTANTS
  MX = 68
  MY = 34
  Devices <- MCDevices
INVARIANT NeverActivatedIsSaid
