SPECIFICATION Spec
CONSTANTS
  Names <- MCNames
  Table <- ReportTable
  Devices <- MCDevices
  Probed <- MCNoProbes
  MaxSaves = 1
  MaxFaults = 1
INVARIANTS
  SavedReportIsComplete
CHECK_DEADLOCK FALSE
