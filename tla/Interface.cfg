CONSTANTS
  Dev <- Disks
  Start <- Starts
  Adapter <- Adapters
  Home <- Homes
  Size <- Sizes
  First <- Firsts
  MaxChanges = 2
SPECIFICATION Spec
INVARIANT TypeOK
INVARIANT RecordCurrent
INVARIANT ZonesOfRecord
INVARIANT SelectionListed
PROPERTY TablesKept
PROPERTY SelectionKept
CHECK_DEADLOCK TRUE

