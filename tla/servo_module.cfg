CONSTANTS
  m1 = m1
  m2 = m2
  p0 = p0
  p1 = p1
  Modules <- OneModule
  Pos = {p0, p1}
  Home = p0
  Ops <- ModuleOps
  HwLoop = TRUE
  Unposed <- NoAxes
  MaxFaults = 1
  SdoMayFail = FALSE
  MayShutdown = TRUE
SPECIFICATION Spec
INVARIANT TypeOK
INVARIANT QuietWhenIdle
PROPERTY NoJump
PROPERTY PairedRise
\* rclcpp may have shut down for good.
CHECK_DEADLOCK FALSE
