SPECIFICATION FairSpec
CONSTANTS
  u1 = u1
  u2 = u2
  Nobody = Nobody
  NoConfig = NoConfig
  Users = {u1, u2}
  Bodies <- TwoBodies
  MinUsd = 1
  MaxUsd = 1
  Cooldown = 2
  InitialBalance = 1
  MaxBalance = 2
  MaxTime = 2
  MaxEdits = 2
  MaxFaults = 1
INVARIANTS
  TypeOK
PROPERTIES
  Paced
  DueServed
CHECK_DEADLOCK FALSE
