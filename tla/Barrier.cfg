CONSTANTS
  sda = sda
  sdb = sdb
  Dirs = 3
  Timed <- FirstTimed
  Link <- LinkNames
  Links <- TwoEach
  Hung <- DiskHung
  Wakeups = 2
SPECIFICATION FairLife
INVARIANT TypeOK
INVARIANT CountExact
INVARIANT UntimedJoins
INVARIANT AssertionUnlessWoken
INVARIANT FreedAlone
PROPERTY InitEndsUnlessHung
PROPERTY StopReturns
CHECK_DEADLOCK TRUE
