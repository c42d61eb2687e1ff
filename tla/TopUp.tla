------------------------------- MODULE TopUp -------------------------------
(***************************************************************************)
(* Wallet top-ups: the bot records a payment intent and asks a gateway for *)
(* an invoice; the gateway reports on the invoice by callbacks, which are  *)
(* retried, duplicated and reordered; each callback locks the intent,      *)
(* settles it if nobody has, and commits.                                  *)
(*                                                                         *)
(* NowPayments and Plisio run the same protocol under other names:         *)
(*   "finished"   finished; completed                                      *)
(*   "failed"     failed, refunded, expired; error, cancelled              *)
(*   "underpaid"  partially_paid; expired, with what arrived so far        *)
(* A callback in any other state changes nothing and is left out.          *)
(***************************************************************************)
EXTENDS Integers, FiniteSets, FiniteSetsExt

CONSTANTS
  Orders,      \* external_ref of the intents
  Amounts,     \* invoice amounts, in USD
  Worths,      \* what an underpaid callback's crypto is worth at its rate
  MinCredit,   \* _PARTIAL_MIN_CREDIT_USD
  Handlers,    \* concurrent callback requests
  NoMessage,   \* a handler without a callback
  MaxFailures  \* bound: requests that die before their commit

ASSUME TopUpAssumption ==
  /\ Amounts \subseteq Nat \ {0}
  /\ Worths \subseteq Nat
  /\ MinCredit \in Nat \ {0}
  /\ MaxFailures \in Nat

VARIABLES
  status,    \* payment_intents.status; "absent" before the insert
  amount,    \* payment_intents.amount
  topups,    \* ledger rows of type topup
  invoice,   \* the gateway's invoice of an order; 0 when it has none
  sent,      \* callbacks the gateway has sent, and may send again
  handling,  \* the callback each request settles, holding the intent's row lock
  failures   \* failed requests so far

vars == <<status, amount, topups, invoice, sent, handling, failures>>

-----------------------------------------------------------------------------

Statuses == {"absent", "pending", "confirmed", "failed"}
Final    == {"confirmed", "failed"}

Callback == [order : Orders, kind : {"finished", "failed"}, worth : {0}]
              \cup [order : Orders, kind : {"underpaid"}, worth : Worths]
Row      == [order : Orders, amount : Nat]

\* Mutant of Clamp: rate drift and over-payment are credited.
ClampNothing(usd, o) == usd

\* The value of an underpaid callback, never above the invoice.
Clamp(usd, o) == IF usd > amount[o] THEN amount[o] ELSE usd

\* Mutant of Locked: the intent is read without FOR UPDATE.
NeverLocked(o) == FALSE

\* A request holds the lock on the intent's row from its read to its commit.
Locked(o) == \E h \in Handlers : handling[h] # NoMessage /\ handling[h].order = o

Init ==
  /\ status = [o \in Orders |-> "absent"]
  /\ amount = [o \in Orders |-> 0]
  /\ topups = {}
  /\ invoice = [o \in Orders |-> 0]
  /\ sent = {}
  /\ handling = [h \in Handlers |-> NoMessage]
  /\ failures = 0

-----------------------------------------------------------------------------
(* The bot.                                                                *)

\* The intent is committed before the gateway hears of it.
RecordIntent(o, a) ==
  /\ status[o] = "absent"
  /\ status' = [status EXCEPT ![o] = "pending"]
  /\ amount' = [amount EXCEPT ![o] = a]
  /\ UNCHANGED <<topups, invoice, sent, handling, failures>>

\* create_invoice reaches the gateway, whether or not its answer comes back.
\* A call that never arrives changes nothing.
CreateInvoice(o) ==
  /\ status[o] = "pending"
  /\ invoice[o] = 0
  /\ invoice' = [invoice EXCEPT ![o] = amount[o]]
  /\ UNCHANGED <<status, amount, topups, sent, handling, failures>>

-----------------------------------------------------------------------------
(* The gateway.                                                            *)

Report(m) ==
  /\ invoice[m.order] > 0
  /\ sent' = sent \cup {m}
  /\ UNCHANGED <<status, amount, topups, invoice, handling, failures>>

-----------------------------------------------------------------------------
(* nowpayments_ipn and plisio_ipn.                                         *)

\* Lock the intent and read it.  A settled intent ends the request.
Receive(h, m) ==
  /\ handling[h] = NoMessage
  /\ m \in sent
  /\ ~Locked(m.order)
  /\ status[m.order] = "pending"
  /\ handling' = [handling EXCEPT ![h] = m]
  /\ UNCHANGED <<status, amount, topups, invoice, sent, failures>>

\* One commit inserts the ledger row, whose idempotency key admits one row per
\* order, and closes the intent.
CreditTo(o, usd, final) ==
  /\ \A row \in topups : row.order # o
  /\ topups' = topups \cup {[order |-> o, amount |-> usd]}
  /\ status' = [status EXCEPT ![o] = final]
  /\ amount' = [amount EXCEPT ![o] = usd]

\* Mutant of Credit: the intent is not closed.
CreditOpen(o, usd) == CreditTo(o, usd, "pending")

\* Mutant of Credit: the intent gets a status of its own.
CreditPartial(o, usd) == CreditTo(o, usd, "partial")

Credit(o, usd) == CreditTo(o, usd, "confirmed")

Close(o) ==
  /\ status' = [status EXCEPT ![o] = "failed"]
  /\ UNCHANGED <<amount, topups>>

\* Credit the invoice, or what arrived of it unless that is dust, or fail.
Settle(h) ==
  LET m == handling[h]
      o == m.order
      part == Clamp(m.worth, o)
  IN
  /\ m # NoMessage
  /\ \/ m.kind = "finished" /\ Credit(o, amount[o])
     \/ m.kind = "underpaid" /\ part >= MinCredit /\ Credit(o, part)
     \/ m.kind = "underpaid" /\ part < MinCredit /\ Close(o)
     \/ m.kind = "failed" /\ Close(o)
  /\ handling' = [handling EXCEPT ![h] = NoMessage]
  /\ UNCHANGED <<invoice, sent, failures>>

\* The request dies, and the gateway will call again.
Fail(h) ==
  /\ handling[h] # NoMessage
  /\ failures < MaxFailures
  /\ failures' = failures + 1
  /\ handling' = [handling EXCEPT ![h] = NoMessage]
  /\ UNCHANGED <<status, amount, topups, invoice, sent>>

-----------------------------------------------------------------------------

Next ==
  \/ \E o \in Orders : CreateInvoice(o) \/ \E a \in Amounts : RecordIntent(o, a)
  \/ \E m \in Callback : Report(m)
  \/ \E h \in Handlers : Settle(h) \/ Fail(h) \/ \E m \in Callback : Receive(h, m)

Spec == Init /\ [][Next]_vars

\* The gateway repeats a callback until it is answered, and a request that has
\* read its intent ends.
FairSpec ==
  /\ Spec
  /\ \A h \in Handlers : WF_vars(Settle(h))
  /\ \A m \in Callback : WF_vars(\E h \in Handlers : Receive(h, m))

-----------------------------------------------------------------------------
(* Properties.                                                             *)

TypeOK ==
  /\ status \in [Orders -> Statuses]
  /\ amount \in [Orders -> Nat]
  /\ topups \subseteq Row
  /\ invoice \in [Orders -> Nat]
  /\ sent \subseteq Callback
  /\ handling \in [Handlers -> Callback \cup {NoMessage}]
  /\ failures \in Nat

\* The intent and the ledger agree at every commit, under duplicated and racing
\* callbacks: confirmed exactly when one row credits it, for its amount.
LedgerAgrees ==
  \A o \in Orders :
    LET rows == {row \in topups : row.order = o} IN
    rows = IF status[o] = "confirmed" THEN {[order |-> o, amount |-> amount[o]]} ELSE {}

\* Nobody is credited more than was invoiced, nor without a callback that says
\* the invoice was paid or at least so much of it arrived.
CreditBacked ==
  \A row \in topups :
    /\ row.amount <= invoice[row.order]
    /\ \E m \in sent :
         /\ m.order = row.order
         /\ \/ m.kind = "finished"
            \/ m.kind = "underpaid" /\ m.worth >= row.amount /\ row.amount >= MinCredit

\* The ledger is right whatever the gateway repeats and reorders: one credit per
\* confirmed intent, and none that no payment covers.
LedgerSound == LedgerAgrees /\ CreditBacked

\* A settled intent stays as it was settled, whatever arrives later.
FinalStays ==
  [][\A o \in Orders :
       status[o] \in Final => status'[o] = status[o] /\ amount'[o] = amount[o]]_vars

\* A reported invoice is settled, though requests die on the way.
ReportSettles ==
  \A o \in Orders : (\E m \in sent : m.order = o) ~> status[o] \in Final

\* Where an order stands, for the abstract specification.
FateOf(o) ==
  CASE status[o] = "absent"    -> "none"
    [] status[o] = "pending"   -> "waiting"
    [] status[o] = "confirmed" -> "credited"
    [] status[o] = "failed"    -> "declined"

\* The price of an order: a credit overwrites the intent's amount, the invoice
\* keeps it.
DueOf(o) == IF status[o] \in Final THEN invoice[o] ELSE amount[o]

\* How much of the price a callback says arrived.
Named(m) ==
  IF m.kind = "finished" \/ m.worth > DueOf(m.order) THEN DueOf(m.order) ELSE m.worth

Fate    == [o \in Orders |-> FateOf(o)]
Due     == [o \in Orders |-> DueOf(o)]
Arrived == [o \in Orders |-> {Named(m) : m \in {n \in sent : n.order = o}}]

Promise == INSTANCE TopUpPromise
             WITH fate <- Fate, due <- Due, arrived <- Arrived, ledger <- topups

\* Every behaviour keeps the promise of TopUpPromise: each order is settled once,
\* in one step, for good, and as a callback that was really sent says.
SettlementKept == Promise!Spec
=============================================================================
