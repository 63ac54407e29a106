CONSTANTS
  m1 = m1
  m2 = m2
  p0 = p0
  p1 = p1
  Modules <- TwoModules
  Pos = {p0}
  Home = p0
  Ops <- RobotOps
  HwLoop = FALSE
  Unposed <- NoAxes
  MaxFaults = 1
  SdoMayFail = FALSE
  MayShutdown = FALSE
SPECIFICATION Spec
SYMMETRY Symmetry
PROPERTY EnabledReplyTruthful
PROPERTY ClearLeavesDisarmed
