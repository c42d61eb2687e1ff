SPECIFICATION FairSpec
CONSTANTS
  c1 = c1
  c2 = c2
  c3 = c3
  Listings = {1, 2}
  Configs = {c1, c2, c3}
  HostOf <- TwoAndOne
  Callers = {"poll"}
  NoListing = 0
  Cap <- FirstCapped
  MinBillable = 2
  MaxUsed <- BusyFirst
  MaxFaults = 2
INVARIANTS
  TypeOK
  BuyerNeverOverbilled
  SellerNeverOvercredited
  NothingLost
PROPERTIES
  CapStops
