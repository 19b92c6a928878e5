CONSTANTS
  scan = scan
  udev = udev
  ui = ui
  sda = sda
  sda1 = sda1
  md0 = md0
  NoThread = NoThread
  Thread <- Threads3
  Name <- Names
  DiskOf <- Disks
  Slaves <- OnDisk
  Mounts <- Root
  Ops <- BareOps
SPECIFICATION FairSpec
INVARIANT UniqueRecords
PROPERTY KeepsPromise
PROPERTY CallsReturn
CHECK_DEADLOCK TRUE
