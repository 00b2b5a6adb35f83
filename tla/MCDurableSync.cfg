SPECIFICATION Spec
CONSTANTS
  Server = {p1, p2}
  Device = {d1}
  Rules <- MCRules
  HistoryMax = 2
  Event = {e1}
  EventMax = 1
  MaxSession = 3
  None = none
SYMMETRY Symmetry
INVARIANTS
  AckedIsStored
  PagesInOrder
PROPERTIES
  ImplementsLedger
  ReportedAfterDownload
