SPECIFICATION FairSpec
CONSTANTS
  u1 = u1
  u2 = u2
  s1 = s1
  Users = {u1, u2}
  NoUser = NoUser
  Requests = {1, 2}
  Sessions = {s1}
  Amounts = {1}
  DailyCap = 1
  InitialBalance = 2
  SubmitLimit = 1
  ConfirmLimit = 2
  MaxNonce = 1
  MaxCharges = 0
  MaxCrashes = 1
PROPERTIES
  RequestProcessed
  MinedSettles
