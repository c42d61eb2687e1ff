\* Three requests of two users through two concurrent sessions, a batch of two,
\* one worker crash, one traffic charge per wallet.
SPECIFICATION Spec
CONSTANTS
  u1 = u1
  u2 = u2
  s1 = s1
  s2 = s2
  Users = {u1, u2}
  NoUser = NoUser
  Requests = {1, 2, 3}
  Sessions = {s1, s2}
  Amounts = {2}
  DailyCap = 4
  InitialBalance = 6
  SubmitLimit = 2
  ConfirmLimit = 3
  MaxNonce = 2
  MaxCharges = 2
  MaxCrashes = 1
SYMMETRY Symmetry
INVARIANTS
  TypeOK
  PaidAtMostOnce
  NeverPaidAndRefunded
  OneInFlight
  MoneyKept
PROPERTIES
  PromiseKept
