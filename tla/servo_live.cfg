CONSTANTS
  m1 = m1
  m2 = m2
  p0 = p0
  p1 = p1
  Modules <- OneModule
  Pos = {p0}
  Home = p0
  Ops <- LiveOps
  HwLoop = FALSE
  Unposed <- FirstAxes
  MaxFaults = 0
  SdoMayFail = TRUE
  MayShutdown = TRUE
SPECIFICATION FairSpec
PROPERTY ServiceAnswers
\* rclcpp may have shut down for good.
CHECK_DEADLOCK FALSE
