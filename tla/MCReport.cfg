SPECIFICATION Spec
CONSTANTS
  Names <- MCNames
  Table <- MCTable
  Devices <- MCDevices
  Probed <- ReportProbed
  MaxSaves = 3
  MaxFaults = 3
INVARIANTS
  TypeOK
  LinesInOrder
  LatestOnly
  OnlyFailedLinesMissing
  DescriptorsClosed
  NotifiedFileExists
PROPERTIES
  SaveEnds
CHECK_DEADLOCK FALSE
