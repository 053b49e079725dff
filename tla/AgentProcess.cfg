SPECIFICATION Spec
CONSTANTS
  Sessions = {s1}
  Runs = {r1, r2}
  Items = {1, 2}
  Workers = {w1, w2}
  Slots = {k1, k2}
  Home <- TwoProcesses
  k1 = k1
  k2 = k2
  w1 = w1
  w2 = w2
  NoSession = NoSession
  NoRun = NoRun
  NoItem = NoItem
  NoSlot = NoSlot
  LeaseTime = 2
  RunTime = 3
  QueueTime = 1
  MaxFaults = 1
SYMMETRY RowSymmetry
INVARIANTS
  OneOpenRun
  OneExecutor
  
  ReceiptsClosed
  
PROPERTIES
  ExpiredRunsOnlyFail
  RecognitionKept
