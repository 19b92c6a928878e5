CONSTANTS
  sda = sda
  sdb = sdb
  Dirs = 3
  Timed <- FirstTimed
  Link <- LinkNames
  Links <- TwoEach
  Hung <- DiskHung
  Wakeups = 0
SPECIFICATION FairLife
PROPERTY TimedWaitEnds
