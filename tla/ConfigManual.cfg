SPECIFICATION Spec
CONSTANTS
  c1 = c1
  c2 = c2
  b1 = b1
  l1 = l1
  Idle = Idle
  Configs = {c1}
  Listings = {l1}
  Buyers = {b1}
  HostOf <- OneListing
  OwnerOf <- OneBuyer
  MaxConfigs = 1
  Prices = {1}
  Wishes = {FALSE}
  Moves = {"active", "off"}
  Sessions = {1}
  MaxFaults = 0
PROPERTIES
  ManualUnmarked
