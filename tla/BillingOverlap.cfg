\* The balance job runs a cycle of its own while the poll job runs one.
SPECIFICATION Spec
CONSTANTS
  c1 = c1
  c2 = c2
  c3 = c3
  Listings = {1, 2}
  Configs = {c1, c2, c3}
  HostOf <- TwoAndOne
  Callers = {"poll", "enforce"}
  NoListing = 0
  Cap <- FirstCapped
  MinBillable = 1
  MaxUsed <- BusyFirst
  MaxFaults = 0
INVARIANT BuyerNeverOverbilled
