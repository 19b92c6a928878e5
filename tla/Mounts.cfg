CONSTANTS
  Dev <- Devices
  Disks <- Whole
  Removable <- Sticks
  Virtual <- Tmpfs
  Path <- Paths
  Above <- Ancestors
  Prefixed <- Beginnings
  Odd <- NotAscii
  MaxMounts = 3
  MaxChanges = 3
SPECIFICATION Spec
INVARIANT TypeOK
INVARIANT Current
INVARIANT TargetHere
PROPERTY RootWritten
CHECK_DEADLOCK TRUE
