SPECIFICATION Spec
CONSTANTS
  Half64 = 16
  Half32 = 2
  Second = 3
  Day = 6
  Unit = {1, 3, 5}
  MaxLen = 2
INVARIANT NoOverflowUnnoticed
CHECK_DEADLOCK FALSE
