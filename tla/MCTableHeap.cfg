\* Two frames for the header page and two pages of the table, of two slots each.
CONSTANTS
  MaxPages = 3
  PoolSize = 2
  Clients = {"cur", "new", "header"}
  Contents <- Images
  Zero <- ZeroImage
  Absent = Absent
  Tuples = {"s", "l"}
  NoTuple = NoTuple
  Size <- TwoPerPage
  PageSpace = 4
  SlotSize = 1
  MaxSlots = 2
SPECIFICATION ContractSpec
INVARIANTS
  NoPinIsLeft
  ListIsLinked
  TableIsIntact
  NoFrameIsLost
PROPERTIES
  InsertReturnsFreshRid
  ScanIsComplete
