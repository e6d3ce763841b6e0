\* Every page of the application, on the screen of the code.
SPECIFICATION MenuSpec
CONSTANTS
  MX = 68
  MY = 34
  Devices <- MCDevices
  Units <- MCUnits
  Items <- MCItems
  MaxFaults = 2
  MaxStray = 2
INVARIANTS
  MenuTypeOK
  ShownIsOwn
  ErrorIsOwn
  MaskedHidden
  RowsKept
  ClaimsFollowReads
  NoHelperSaysSo
  NothingDroppedSilently
  CellsBelongToRow
  AllGoodIffNothingFound
  AnomaliesKeepRows
PROPERTIES
  PageEnds
\* The summary is drawn once and ends.
CHECK_DEADLOCK FALSE
