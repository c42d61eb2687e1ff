\* One listing, a request of its seller, and ticks that may die.  Windows
\* are one unit, so that within the horizon a deadline is open or over, a stamp
\* fresh or stale, and a broken listing can recover and break again.
SPECIFICATION FairSpec
CONSTANTS
  Listings = {l1}
  NoRow = NoRow
  Requests = {r1}
  NoRequest = NoRequest
  GateWindow = 1
  BrokenAfter = 1
  BrokenProbe = 1
  NotifyCap = 1
  MaxTime = 2
  MaxSamples = 2
INVARIANTS
  TypeOK
  StampsFollowSamples
PROPERTIES
  SoldOnEvidence
  StillUp
  DeletionHolds
  HealthSettles
