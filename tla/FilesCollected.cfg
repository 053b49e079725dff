SPECIFICATION FairSpec
CONSTANTS
  k1 = k1
  s1 = s1
  w1 = w1
  w2 = w2
  Key = {k1}
  Session = {s1}
  Watchdog = {w1, w2}
  SessionOf <- OneUpload
INVARIANTS
  PicturesInUse
  GoneWithItsFiles
PROPERTIES
  OrphansCollected
  DeletionCompletes
CHECK_DEADLOCK FALSE
