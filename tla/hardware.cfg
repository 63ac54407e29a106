SPECIFICATION Spec
CONSTANTS
  Setups <- MCSetups
  Unset = Unset
  Turn = 4
  Reach = 7
INVARIANT AxesBound
PROPERTY NoLurch
CHECK_DEADLOCK FALSE
