SPECIFICATION FairSpec
CONSTANTS
  c1 = c1
  c2 = c2
  b1 = b1
  l1 = l1
  Idle = Idle
  Configs = {c1}
  Listings = {l1}
  Buyers = {b1}
  HostOf <- OneListing
  OwnerOf <- OneBuyer
  MaxConfigs = 1
  Prices = {1, 2}
  Wishes = {TRUE, FALSE}
  Moves = {"active", "pending", "off"}
  Sessions = {1}
  MaxFaults = 1
INVARIANTS
  TypeOK
  NoFreeRide
  NoDeadConfig
PROPERTIES
  MovesLegal
  PriceRiseStops
  BrokeStops
  PaidResumes
