CONSTANTS
  Dev <- Devices
  Disks <- Whole
  Removable <- Sticks
  Virtual <- Tmpfs
  Path <- Paths
  Above <- Ancestors
  Prefixed <- Beginnings
  Odd <- NotAscii
  MaxMounts = 2
  MaxChanges = 4
SPECIFICATION Spec
INVARIANT TargetOpen
CHECK_DEADLOCK TRUE
