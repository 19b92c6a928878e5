CONSTANTS
  scan = scan
  udev = udev
  ui = ui
  sda = sda
  sda1 = sda1
  md0 = md0
  NoThread = NoThread
  Thread <- Threads2
  Name <- Names
  DiskOf <- Disks
  Slaves <- OnPartition
  Mounts <- Root
  Ops <- AllOps
SPECIFICATION FairSpec
INVARIANT TypeOK
INVARIANT CountMatchesOwner
INVARIANT RefreshHoldsLock
INVARIANT ActiveMatchesCalls
PROPERTY NoCreateDuringRefresh
PROPERTY CallsReturnOrSpin
CHECK_DEADLOCK TRUE
