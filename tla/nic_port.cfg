CONSTANTS
  cycle = cycle
  sdo = sdo
  MaxBuf = 3
  Threads = {cycle, sdo}
  Cycle = cycle
  Slaves = 2
  Layouts <- TwoLayouts
  RedModes = {"none", "double"}
  Depth = 2
  SendFails = TRUE
SPECIFICATION Spec
CONSTRAINT Clean
INVARIANT IndexesKept
INVARIANT AnswerOwn
INVARIANT RedundantComplete
INVARIANT ShortIffMissing
