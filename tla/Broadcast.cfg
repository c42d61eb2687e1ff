SPECIFICATION FairSpec
CONSTANTS
  u1 = u1
  u2 = u2
  Users = {u1, u2}
  Casts = {1, 2}
  NoCast = NoCast
  ProgressEvery = 2
  MaxEdits = 3
  MaxFaults = 1
INVARIANTS
  TypeOK
  Delivered
PROPERTY Drained
CHECK_DEADLOCK FALSE
