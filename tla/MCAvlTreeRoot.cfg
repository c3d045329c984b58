SPECIFICATION AvlSpec
CONSTANTS
  Null = Null
  AvlElements <- MCElements
  Key <- MCKey
  Values <- MCValues
  Less <- MCLess
  EraseInwardRoot = TRUE
INVARIANT CheckInvariants
CHECK_DEADLOCK FALSE
