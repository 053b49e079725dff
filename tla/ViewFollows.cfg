SPECIFICATION FairSpec
CONSTANTS
  w1 = w1
  w2 = w2
  r1 = r1
  r2 = r2
  Writer = {w1, w2}
  Request = {r1, r2}
  Page = 2
  MaxSeq = 3
PROPERTIES
  NoEventSkipped
  StreamDelivers
  ScreenFollowsLog
