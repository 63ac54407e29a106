SPECIFICATION FairGuiSpec
CONSTANTS
  None = None
  Callers <- MCCallers
  Joints <- MCJoints
  Starts <- MCStarts
  Lower <- MCLower
  Upper = 2
  Speeds = {0, 1, 2}
  JointStep = 2
  Reach = 2
  CartSteps = 2
  MaxTries = 1
  Scenes <- MCScenes
  Frames = {"flange"}
  Links = {"ref"}
  MaxPoints = 7
  Buttons <- MCButtons
  Clicks <- MCClicks
  Servo <- MCServo
  Others <- MCOthers
  UseFakeRobot = FALSE
  MaxInputs = 2
INVARIANT GoalsSound ReleasedMeansStopped
PROPERTY CallsReturn ReleaseStops
CHECK_DEADLOCK FALSE
