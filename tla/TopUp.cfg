\* Two orders, two concurrent requests, one of which may die.  An underpaid
\* callback is worth dust, a part of the invoice, or by its rate more.
SPECIFICATION FairSpec
CONSTANTS
  Orders = {1, 2}
  Amounts = {2, 4}
  Worths = {1, 3}
  MinCredit = 2
  Handlers = {"h1", "h2"}
  NoMessage = NoMessage
  MaxFailures = 1
INVARIANTS
  TypeOK
  LedgerSound
PROPERTIES
  ReportSettles
  SettlementKept
