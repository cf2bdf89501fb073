SPECIFICATION Spec
CONSTANTS
  Max = 2
  Window = 3
  MaxTime = 10
  MaxSent = 8
INVARIANTS TypeOK AtMostTwiceTheRate
PROPERTIES NoUndueDrop
CHECK_DEADLOCK FALSE
