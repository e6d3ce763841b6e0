SPECIFICATION Spec
CONSTANTS
  LastPage = 2
  Hold = 2
  Samples <- MCSamples
INVARIANTS
  TypeOK
  ModesExclusive
  ScreenCurrent
  ReportNeedsHold
  HelperStatus
PROPERTIES
  ReportsSpaced
  ImplementsViewer
  HoldingSaves
  ComboExits
