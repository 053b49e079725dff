SPECIFICATION FairSpec
CONSTANTS
  Sessions = {s1}
  Runs = {r1, r2}
  Items = {1,2}
  Workers = {w1}
  Slots = {k1}
  Home <- Lonely
  k1 = k1
  k2 = k2
  w1 = w1
  w2 = w2
  NoSession = NoSession
  NoRun = NoRun
  NoItem = NoItem
  NoSlot = NoSlot
  LeaseTime = 1
  RunTime = 2
  QueueTime = 1
  MaxFaults = 1
PROPERTIES
  EveryRunEnds
  
