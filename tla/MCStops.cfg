SPECIFICATION Spec
CONSTANTS
  rajasthan = rajasthan
  nepal = nepal
  fort = fort
  lake = lake
  temple = temple
  None = None
  Hops = 3
  Tours = {rajasthan, nepal}
  FirstCatalog <- MCCatalog
  FirstStatus <- MCStatus
  IdRows <- MCIdRows
  At <- MCAt
  Books <- MCBooks
  MaxEvents = 4
  MaxChanges = 2
INVARIANTS NothingVanishes GoneIsExplained LegsCoverTheTrip NoTextToldTwice
CHECK_DEADLOCK FALSE
