SPECIFICATION BusSpec
CONSTANTS
  Buses <- MCBuses
  Device <- MCDevice
  MaxSlave = 5
  MaxSm = 8
  MaxSegment = 6
  MaxIoSegments = 2
  Half = 32
  SyncDelay = 3
  SyncTimes = {0, 6}
INVARIANT ParentRight
INVARIANT SizesRight
INVARIANT ImageSound
INVARIANT ClocksAgree
CHECK_DEADLOCK FALSE
