CONSTANTS
  N = 2
  Extents <- Ranges
  Names <- AnyName
  TooLong <- LongNames
  Kinds <- All
  MayFail <- Anything
  MaxOps = 4
  MaxCrashes = 2
SPECIFICATION Spec
INVARIANT TypeOK
INVARIANT ViewsAgree
PROPERTY AddUndone
PROPERTY DurableAtomically
CHECK_DEADLOCK TRUE
