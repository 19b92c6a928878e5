CONSTANTS
  Size = 3
  MaxLogged = 8
  MayFail <- Memory
SPECIFICATION Spec
INVARIANT TypeOK
INVARIANT RingInOrder
INVARIANT NoRepeats
PROPERTY IsHistory
CHECK_DEADLOCK FALSE
