SPECIFICATION Spec
CONSTANTS
  MaxElist = 1
  MaxMbxCnt = 7
  MaxLost = 1
  Clients <- MCClients
  InitData = 2
  Sizes <- MCSizes
  Dictionary <- MCDictionary
  MaxODlist = 4
  MaxFile = 3
  MaxData = 5
  Block = 2
  Stamp = 1
  FrameNos = 16
  FileSize = 6
  IdnSize = 11
  FrameSizes = {4, 6}
  MaxFrames = 2
INVARIANT RingKeepsNewest
INVARIANT NoFalseAlarm
INVARIANT FramesWhole
PROPERTY Implements
PROPERTY TransfersWhole
PROPERTY CallsReturn
CHECK_DEADLOCK FALSE
