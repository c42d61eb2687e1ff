SPECIFICATION Spec
CONSTANTS
  u1 = u1
  u2 = u2
  p1 = p1
  p2 = p2
  Nil = Nobody
  Sellers = {u1, u2}
  Ports = {p1, p2}
  Sessions = {1, 2}
  MaxListings = 1
  MaxIds = 3
  MaxFaults = 2
INVARIANTS
  TypeOK
  NoOrphan
  Served
  CapHeld
