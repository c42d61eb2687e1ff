---------------------------- MODULE TopUpProofs ----------------------------
(***************************************************************************)
(* Proofs about TopUp.  The inductive invariant says what the row lock     *)
(* gives: an order that a request is settling is pending and no other      *)
(* request has it, and while an intent is pending the gateway's invoice is *)
(* for the amount on the intent.                                           *)
(***************************************************************************)
EXTENDS TopUp, TLAPS

LEMMA AmountsNat == \A a \in Amounts : a \in Nat /\ a > 0
  BY TopUpAssumption DEF TopUpAssumption

LEMMA ClampType ==
  ASSUME TypeOK, NEW usd \in Nat, NEW o \in Orders
  PROVE  Clamp(usd, o) \in Nat /\ Clamp(usd, o) <= usd /\ Clamp(usd, o) <= amount[o]
  BY DEF Clamp, TypeOK

LEMMA CallbackType ==
  ASSUME NEW m \in Callback
  PROVE  /\ m.order \in Orders /\ m.worth \in Nat
         /\ m.kind \in {"finished", "failed", "underpaid"}
<1>1. CASE m \in [order : Orders, kind : {"finished", "failed"}, worth : {0}]
  BY <1>1
<1>2. CASE m \in [order : Orders, kind : {"underpaid"}, worth : Worths]
  BY <1>2, TopUpAssumption DEF TopUpAssumption
<1>3. QED
  BY <1>1, <1>2 DEF Callback

\* What Settle does to the order it settles: credit it, or close it.
Settled(h, o) ==
  \/ \E usd \in Nat : Credit(o, usd) /\ usd <= amount[o]
  \/ Close(o)

LEMMA SettleCases ==
  ASSUME TypeOK, NEW h \in Handlers, Settle(h)
  PROVE  /\ handling[h] \in Callback /\ handling[h].order \in Orders
         /\ Settled(h, handling[h].order)
<1>1. handling[h] \in Callback
  BY DEF Settle, TypeOK
<1>2. handling[h].order \in Orders /\ handling[h].worth \in Nat
  BY <1>1, CallbackType
<1>3. amount[handling[h].order] \in Nat
  BY <1>2 DEF TypeOK
<1>4. /\ Clamp(handling[h].worth, handling[h].order) \in Nat
      /\ Clamp(handling[h].worth, handling[h].order) <= amount[handling[h].order]
  BY <1>2, ClampType
<1>5. QED
  BY <1>1, <1>2, <1>3, <1>4 DEF Settle, Settled

LEMMA TypePreserved == TypeOK /\ [Next]_vars => TypeOK'
<1> SUFFICES ASSUME TypeOK, [Next]_vars PROVE TypeOK'
  OBVIOUS
<1>1. ASSUME NEW o \in Orders, NEW a \in Amounts, RecordIntent(o, a) PROVE TypeOK'
  BY <1>1, AmountsNat DEF RecordIntent, TypeOK, Statuses
<1>2. ASSUME NEW o \in Orders, CreateInvoice(o) PROVE TypeOK'
  BY <1>2 DEF CreateInvoice, TypeOK
<1>3. ASSUME NEW m \in Callback, Report(m) PROVE TypeOK'
  BY <1>3 DEF Report, TypeOK
<1>4. ASSUME NEW h \in Handlers, NEW m \in Callback, Receive(h, m) PROVE TypeOK'
  BY <1>4 DEF Receive, TypeOK
<1>5. ASSUME NEW h \in Handlers, Fail(h) PROVE TypeOK'
  BY <1>5 DEF Fail, TypeOK
<1>6. ASSUME NEW h \in Handlers, Settle(h) PROVE TypeOK'
  <2>1. /\ invoice' = invoice /\ sent' = sent /\ failures' = failures
        /\ handling' \in [Handlers -> Callback \cup {NoMessage}]
    BY <1>6 DEF Settle, TypeOK
  <2>2. /\ status' \in [Orders -> Statuses]
        /\ amount' \in [Orders -> Nat]
        /\ topups' \subseteq Row
    BY <1>6, SettleCases DEF Settled, Credit, CreditTo, Close, TypeOK, Statuses, Row
  <2>3. QED
    BY <2>1, <2>2 DEF TypeOK
<1>7. CASE UNCHANGED vars
  BY <1>7 DEF vars, TypeOK
<1>8. QED
  BY <1>1, <1>2, <1>3, <1>4, <1>5, <1>6, <1>7 DEF Next

\* Every variable keeps its type: the intents of models.py never leave the
\* statuses of PaymentStatus.
THEOREM TypeCorrect == Spec => []TypeOK
<1>1. Init => TypeOK
  BY TopUpAssumption DEF Init, TypeOK, Statuses, TopUpAssumption
<1>2. QED
  BY <1>1, TypePreserved, PTL DEF Spec

-----------------------------------------------------------------------------
(* The inductive invariant.                                                *)

\* A request that settles an order has it to itself, and the order is pending.
LockInv ==
  \A h \in Handlers :
    handling[h] # NoMessage =>
      /\ status[handling[h].order] = "pending"
      /\ handling[h] \in sent
      /\ \A g \in Handlers :
           handling[g] # NoMessage /\ handling[g].order = handling[h].order => g = h

\* The invoice of a pending intent is for the amount on the intent, and only
\* an invoiced order is reported on.
InvoiceInv ==
  /\ \A o \in Orders :
       /\ status[o] = "absent" => invoice[o] = 0
       /\ status[o] = "pending" => invoice[o] \in {0, amount[o]}
  /\ \A m \in sent : invoice[m.order] > 0

IInv == TypeOK /\ LockInv /\ InvoiceInv /\ LedgerAgrees /\ CreditBacked

LEMMA LockPreserved == IInv /\ [Next]_vars => LockInv'
<1> SUFFICES ASSUME IInv, [Next]_vars PROVE LockInv'
  OBVIOUS
<1>1. ASSUME NEW o \in Orders, NEW a \in Amounts, RecordIntent(o, a) PROVE LockInv'
  BY <1>1 DEF RecordIntent, IInv, LockInv, TypeOK
<1>2. ASSUME NEW o \in Orders, CreateInvoice(o) PROVE LockInv'
  BY <1>2 DEF CreateInvoice, IInv, LockInv
<1>3. ASSUME NEW m \in Callback, Report(m) PROVE LockInv'
  BY <1>3 DEF Report, IInv, LockInv
<1>4. ASSUME NEW h \in Handlers, NEW m \in Callback, Receive(h, m) PROVE LockInv'
  BY <1>4 DEF Receive, IInv, LockInv, TypeOK, Locked
<1>5. ASSUME NEW h \in Handlers, Fail(h) PROVE LockInv'
  BY <1>5 DEF Fail, IInv, LockInv, TypeOK
<1>6. ASSUME NEW h \in Handlers, Settle(h) PROVE LockInv'
  <2> DEFINE o == handling[h].order
  <2>1. /\ handling' = [handling EXCEPT ![h] = NoMessage] /\ sent' = sent
        /\ handling[h] # NoMessage
    BY <1>6 DEF Settle
  <2>2. \A p \in Orders : p # o => status'[p] = status[p]
    BY <1>6, SettleCases DEF Settled, Credit, CreditTo, Close, IInv, TypeOK
  <2> SUFFICES ASSUME NEW g \in Handlers, handling'[g] # NoMessage
               PROVE  /\ status'[handling'[g].order] = "pending"
                      /\ handling'[g] \in sent'
                      /\ \A f \in Handlers :
                           handling'[f] # NoMessage /\ handling'[f].order = handling'[g].order
                             => f = g
    BY DEF LockInv
  <2>3. g # h /\ handling'[g] = handling[g]
    BY <2>1 DEF IInv, TypeOK
  <2>4. handling[g] \in Callback /\ handling[g].order \in Orders
    BY <2>3, CallbackType DEF IInv, TypeOK
  <2>5. handling[g].order # o
    BY <2>1, <2>3 DEF IInv, LockInv
  <2>6. \A f \in Handlers : handling'[f] # NoMessage => handling'[f] = handling[f]
    BY <2>1 DEF IInv, TypeOK
  <2>7. QED
    BY <2>1, <2>2, <2>3, <2>4, <2>5, <2>6 DEF IInv, LockInv
<1>7. CASE UNCHANGED vars
  BY <1>7 DEF vars, IInv, LockInv
<1>8. QED
  BY <1>1, <1>2, <1>3, <1>4, <1>5, <1>6, <1>7 DEF Next

LEMMA InvoicePreserved == IInv /\ [Next]_vars => InvoiceInv'
<1> SUFFICES ASSUME IInv, [Next]_vars PROVE InvoiceInv'
  OBVIOUS
<1>1. ASSUME NEW o \in Orders, NEW a \in Amounts, RecordIntent(o, a) PROVE InvoiceInv'
  BY <1>1 DEF RecordIntent, IInv, InvoiceInv, TypeOK
<1>2. ASSUME NEW o \in Orders, CreateInvoice(o) PROVE InvoiceInv'
  <2>1. invoice' = [invoice EXCEPT ![o] = amount[o]] /\ amount[o] \in Nat /\ sent' = sent
    BY <1>2 DEF CreateInvoice, IInv, TypeOK
  <2>2. status' = status /\ amount' = amount /\ status[o] = "pending" /\ invoice[o] = 0
    BY <1>2 DEF CreateInvoice
  <2>3. \A m \in sent : m.order \in Orders /\ m.order # o
    BY <2>2, CallbackType DEF IInv, TypeOK, InvoiceInv
  <2>4. QED
    BY <2>1, <2>2, <2>3 DEF IInv, InvoiceInv, TypeOK
<1>3. ASSUME NEW m \in Callback, Report(m) PROVE InvoiceInv'
  BY <1>3 DEF Report, IInv, InvoiceInv
<1>4. ASSUME NEW h \in Handlers, NEW m \in Callback, Receive(h, m) PROVE InvoiceInv'
  BY <1>4 DEF Receive, IInv, InvoiceInv
<1>5. ASSUME NEW h \in Handlers, Fail(h) PROVE InvoiceInv'
  BY <1>5 DEF Fail, IInv, InvoiceInv
<1>6. ASSUME NEW h \in Handlers, Settle(h) PROVE InvoiceInv'
  <2>1. invoice' = invoice /\ sent' = sent
    BY <1>6 DEF Settle
  <2>2. \A p \in Orders :
          \/ status'[p] = status[p] /\ amount'[p] = amount[p]
          \/ status'[p] \in Final
    BY <1>6, SettleCases DEF Settled, Credit, CreditTo, Close, IInv, TypeOK, Final
  <2>3. QED
    BY <2>1, <2>2 DEF IInv, InvoiceInv, Final
<1>7. CASE UNCHANGED vars
  BY <1>7 DEF vars, IInv, InvoiceInv
<1>8. QED
  BY <1>1, <1>2, <1>3, <1>4, <1>5, <1>6, <1>7 DEF Next

\* The rows of order p, in the form LedgerAgrees states them.
RowsOf(p) == {row \in topups : row.order = p}

Agrees(p) ==
  RowsOf(p) = IF status[p] = "confirmed" THEN {[order |-> p, amount |-> amount[p]]} ELSE {}

LEMMA LedgerPreserved == IInv /\ [Next]_vars => LedgerAgrees'
<1> SUFFICES ASSUME IInv, [Next]_vars, NEW p \in Orders PROVE Agrees(p)'
  BY DEF LedgerAgrees, Agrees, RowsOf
<1>a. Agrees(p)
  BY DEF IInv, LedgerAgrees, Agrees, RowsOf
<1>1. ASSUME NEW o \in Orders, NEW a \in Amounts, RecordIntent(o, a) PROVE Agrees(p)'
  BY <1>a, <1>1 DEF RecordIntent, Agrees, RowsOf, IInv, TypeOK
<1>2. CASE UNCHANGED <<status, amount, topups>>
  BY <1>a, <1>2 DEF Agrees, RowsOf
<1>3. ASSUME NEW h \in Handlers, Settle(h) PROVE Agrees(p)'
  <2> DEFINE o == handling[h].order
  <2>1. o \in Orders /\ Settled(h, o) /\ status[o] = "pending"
    BY <1>3, SettleCases DEF IInv, LockInv, Settle
  <2>2. CASE p # o
    <3>1. status'[p] = status[p] /\ amount'[p] = amount[p]
      BY <2>1, <2>2 DEF Settled, Credit, CreditTo, Close, IInv, TypeOK
    <3>2. RowsOf(p)' = RowsOf(p)
      BY <2>1, <2>2 DEF Settled, Credit, CreditTo, Close, RowsOf
    <3>3. QED
      BY <1>a, <3>1, <3>2 DEF Agrees
  <2>3. CASE p = o
    <3>1. RowsOf(p) = {}
      BY <1>a, <2>1, <2>3 DEF Agrees
    <3>2. CASE Close(o)
      BY <2>1, <2>3, <3>1, <3>2 DEF Close, Agrees, RowsOf, IInv, TypeOK
    <3>3. ASSUME NEW usd \in Nat, Credit(o, usd) PROVE Agrees(p)'
      <4>1. RowsOf(p)' = {[order |-> p, amount |-> usd]}
        BY <2>3, <3>1, <3>3 DEF Credit, CreditTo, RowsOf
      <4>2. status'[p] = "confirmed" /\ amount'[p] = usd
        BY <2>1, <2>3, <3>3 DEF Credit, CreditTo, IInv, TypeOK
      <4>3. QED
        BY <4>1, <4>2 DEF Agrees
    <3>4. QED
      BY <2>1, <3>2, <3>3 DEF Settled
  <2>4. QED
    BY <2>2, <2>3
<1>4. QED
  BY <1>1, <1>2, <1>3 DEF Next, vars, CreateInvoice, Report, Receive, Fail

LEMMA BackedPreserved == IInv /\ [Next]_vars => CreditBacked'
<1> SUFFICES ASSUME IInv, [Next]_vars PROVE CreditBacked'
  OBVIOUS
<1>1. CASE UNCHANGED <<topups, invoice>> /\ sent \subseteq sent'
  BY <1>1 DEF IInv, CreditBacked
<1>2. ASSUME NEW o \in Orders, CreateInvoice(o) PROVE CreditBacked'
  <2>1. invoice' = [invoice EXCEPT ![o] = amount[o]] /\ invoice[o] = 0 /\ amount[o] \in Nat
    BY <1>2 DEF CreateInvoice, IInv, TypeOK
  <2>2. \A p \in Orders : invoice[p] <= invoice'[p]
    BY <2>1 DEF IInv, TypeOK
  <2>3. \A row \in topups : row.order \in Orders /\ row.amount \in Nat
    BY DEF IInv, TypeOK, Row
  <2>4. \A row \in topups : row.amount <= invoice'[row.order]
    <3> SUFFICES ASSUME NEW row \in topups PROVE row.amount <= invoice'[row.order]
      OBVIOUS
    <3>1. row.amount <= invoice[row.order]
      BY DEF IInv, CreditBacked
    <3>2. invoice[row.order] \in Nat /\ invoice'[row.order] \in Nat
      BY <2>1, <2>3 DEF IInv, TypeOK
    <3>3. QED
      BY <2>2, <2>3, <3>1, <3>2
  <2>5. topups' = topups /\ sent' = sent
    BY <1>2 DEF CreateInvoice
  <2>6. QED
    BY <2>4, <2>5 DEF IInv, CreditBacked
<1>3. ASSUME NEW h \in Handlers, Settle(h) PROVE CreditBacked'
  <2> DEFINE m == handling[h]
             o == m.order
  <2>1. m \in sent /\ m \in Callback /\ o \in Orders /\ status[o] = "pending"
    BY <1>3, SettleCases DEF IInv, LockInv, Settle
  <2>2. invoice' = invoice /\ sent' = sent /\ invoice[o] = amount[o] /\ amount[o] \in Nat
    BY <1>3, <2>1 DEF Settle, IInv, InvoiceInv, TypeOK
  <2>3. CASE topups' = topups
    BY <2>2, <2>3 DEF IInv, CreditBacked
  <2>4. CASE m.kind = "finished" /\ topups' = topups \cup {[order |-> o, amount |-> amount[o]]}
    BY <2>1, <2>2, <2>4 DEF IInv, CreditBacked
  <2>5. CASE /\ m.kind = "underpaid" /\ Clamp(m.worth, o) >= MinCredit
             /\ topups' = topups \cup {[order |-> o, amount |-> Clamp(m.worth, o)]}
    <3>1. /\ Clamp(m.worth, o) \in Nat
          /\ Clamp(m.worth, o) <= amount[o] /\ Clamp(m.worth, o) <= m.worth
      BY <2>1, CallbackType, ClampType DEF IInv
    <3>2. MinCredit \in Nat /\ m.worth \in Nat
      BY <2>1, CallbackType, TopUpAssumption DEF TopUpAssumption
    <3>3. QED
      BY <2>1, <2>2, <2>5, <3>1, <3>2 DEF IInv, CreditBacked
  <2>6. QED
    BY <1>3, <2>3, <2>4, <2>5 DEF Settle, Credit, CreditTo, Close
<1>4. QED
  BY <1>1, <1>2, <1>3 DEF Next, vars, RecordIntent, Report, Receive, Fail

LEMMA Invariant == Spec => []IInv
<1>1. Init => IInv
  <2>1. Init => TypeOK
    BY TopUpAssumption DEF Init, TypeOK, Statuses, TopUpAssumption
  <2>2. Init => LockInv /\ InvoiceInv /\ LedgerAgrees /\ CreditBacked
    BY DEF Init, LockInv, InvoiceInv, LedgerAgrees, CreditBacked
  <2>3. QED
    BY <2>1, <2>2 DEF IInv
<1>2. IInv /\ [Next]_vars => IInv'
  BY TypePreserved, LockPreserved, InvoicePreserved, LedgerPreserved, BackedPreserved DEF IInv
<1>3. QED
  BY <1>1, <1>2, PTL DEF Spec

-----------------------------------------------------------------------------

\* Duplicated and racing callbacks credit an order at most once, and the
\* intent's status and amount agree with the ledger at every commit.
THEOREM CreditedOnce == Spec => []LedgerAgrees
<1>1. IInv => LedgerAgrees
  BY DEF IInv
<1>2. QED
  BY <1>1, Invariant, PTL

\* Every credit stays within its invoice and has a callback behind it.
THEOREM NoFreeCredit == Spec => []CreditBacked
<1>1. IInv => CreditBacked
  BY DEF IInv
<1>2. QED
  BY <1>1, Invariant, PTL

\* Once settled, an intent never changes again.
THEOREM SettledForGood == Spec => FinalStays
<1>1. ASSUME IInv, [Next]_vars, NEW p \in Orders, status[p] \in Final
      PROVE  status'[p] = status[p] /\ amount'[p] = amount[p]
  <2>1. ASSUME NEW o \in Orders, NEW a \in Amounts, RecordIntent(o, a)
        PROVE  status'[p] = status[p] /\ amount'[p] = amount[p]
    BY <1>1, <2>1 DEF RecordIntent, Final, IInv, TypeOK
  <2>2. ASSUME NEW h \in Handlers, Settle(h)
        PROVE  status'[p] = status[p] /\ amount'[p] = amount[p]
    <3>1. status[handling[h].order] = "pending" /\ p # handling[h].order
      BY <1>1, <2>2 DEF Settle, IInv, LockInv, Final
    <3>2. QED
      BY <1>1, <2>2, <3>1, SettleCases DEF Settled, Credit, CreditTo, Close, IInv, TypeOK
  <2>3. CASE UNCHANGED <<status, amount>>
    BY <2>3
  <2>4. QED
    BY <1>1, <2>1, <2>2, <2>3 DEF Next, vars, CreateInvoice, Report, Receive, Fail
<1>2. IInv /\ [Next]_vars =>
        [\A o \in Orders :
           status[o] \in Final => status'[o] = status[o] /\ amount'[o] = amount[o]]_vars
  BY <1>1
<1>3. QED
  BY <1>2, Invariant, PTL DEF Spec, FinalStays
-----------------------------------------------------------------------------
(* Refinement.                                                             *)

\* The ledger is right: one credit per confirmed intent, within the invoice and
\* backed by a callback.
THEOREM LedgerIsSound == Spec => []LedgerSound
<1>1. IInv => LedgerSound
  BY DEF IInv, LedgerSound
<1>2. QED
  BY <1>1, Invariant, PTL

\* Prices are natural numbers, and a callback names a part of its order's price.
LEMMA NamedType ==
  ASSUME TypeOK
  PROVE  /\ \A o \in Orders : DueOf(o) \in Nat
         /\ \A m \in Callback : Named(m) \in 0..DueOf(m.order)
<1>1. \A o \in Orders : DueOf(o) \in Nat
  BY DEF DueOf, TypeOK
<1>2. ASSUME NEW m \in Callback PROVE Named(m) \in 0..DueOf(m.order)
  <2>1. m.worth \in Nat /\ DueOf(m.order) \in Nat
    BY <1>1, CallbackType
  <2>2. QED
    BY <2>1 DEF Named
<1>3. QED
  BY <1>1, <1>2

\* Callbacks keep naming the same amount while the price stays.
LEMMA ArrivedKept ==
  ASSUME sent' = sent, \A m \in sent : m.order \in Orders,
         \A o \in Orders : DueOf(o)' = DueOf(o)
  PROVE  Arrived' = Arrived
<1>1. ASSUME NEW m \in sent PROVE Named(m)' = Named(m)
  <2>1. \A d \in Orders : d = m.order => DueOf(d)' = DueOf(d)
    OBVIOUS
  <2>2. QED
    BY <2>1 DEF Named
<1>2. ASSUME NEW o \in Orders
      PROVE  {Named(m) : m \in {n \in sent : n.order = o}}'
               = {Named(m) : m \in {n \in sent : n.order = o}}
  BY <1>1
<1>3. QED
  BY <1>2 DEF Arrived

\* A step that moves neither an intent, nor an invoice's price, nor a callback
\* is invisible to the user.
LEMMA Invisible ==
  ASSUME TypeOK, UNCHANGED <<status, topups, sent>>,
         \A o \in Orders : DueOf(o)' = DueOf(o)
  PROVE  UNCHANGED <<Fate, Due, Arrived, topups>>
<1>1. \A m \in sent : m.order \in Orders
  BY CallbackType DEF TypeOK
<1>2. Arrived' = Arrived
  BY <1>1, ArrivedKept
<1>3. Fate' = Fate /\ Due' = Due
  BY DEF Fate, FateOf, Due
<1>4. QED
  BY <1>2, <1>3

\* The webhook handlers implement the promise: each step asks, names, credits
\* or declines one order, or changes nothing the user can see.
THEOREM KeepsPromise == Spec => SettlementKept
<1> DEFINE Visible == UNCHANGED <<Fate, Due, Arrived, topups>>
           PromiseStep == Promise!Next \/ Visible
<1>1. Init => Promise!Init
  BY DEF Init, Promise!Init, Fate, FateOf, Due, DueOf, Arrived, Final
<1>2. ASSUME IInv, [Next]_vars PROVE PromiseStep
  <2>0. /\ TypeOK /\ LockInv /\ InvoiceInv
        /\ \A m \in sent : m \in Callback /\ m.order \in Orders
    BY <1>2, CallbackType DEF IInv, TypeOK
  <2>1. ASSUME NEW o \in Orders, NEW a \in Amounts, RecordIntent(o, a)
        PROVE  PromiseStep
    <3>1. /\ status[o] = "absent" /\ status'[o] = "pending" /\ amount'[o] = a
          /\ \A p \in Orders : p # o => status'[p] = status[p] /\ amount'[p] = amount[p]
          /\ UNCHANGED <<invoice, sent, topups>>
      BY <2>0, <2>1 DEF RecordIntent, TypeOK
    <3>2. FateOf(o) = "none" /\ FateOf(o)' = "waiting" /\ DueOf(o)' = a
      BY <3>1 DEF FateOf, DueOf, Final
    <3>3. \A p \in Orders : p # o => FateOf(p)' = FateOf(p) /\ DueOf(p)' = DueOf(p)
      BY <3>1 DEF FateOf, DueOf
    <3>4. \A m \in sent : m.order # o
      BY <2>0, <3>1 DEF InvoiceInv
    <3>5. Arrived' = Arrived
      <4>1. ASSUME NEW m \in sent PROVE Named(m)' = Named(m)
        <5>1. \A d \in Orders : d = m.order => DueOf(d)' = DueOf(d)
          BY <3>3, <3>4
        <5>2. m.order \in Orders
          BY <2>0
        <5>3. QED
          BY <5>1, <5>2 DEF Named
      <4>2. QED
        BY <3>1, <4>1 DEF Arrived
    <3>6. /\ Fate[o] = "none" /\ Fate' = [Fate EXCEPT ![o] = "waiting"]
          /\ Due' = [Due EXCEPT ![o] = a]
      BY <3>2, <3>3 DEF Fate, Due
    <3>7. Promise!Ask(o, a)
      BY <3>1, <3>5, <3>6 DEF Promise!Ask
    <3>8. QED
      BY <3>7 DEF Promise!Next
  <2>2. ASSUME NEW o \in Orders, CreateInvoice(o) PROVE Visible
    <3>1. /\ status[o] = "pending" /\ UNCHANGED <<status, amount, topups, sent>>
          /\ \A p \in Orders : p # o => invoice'[p] = invoice[p]
      BY <2>0, <2>2 DEF CreateInvoice, TypeOK
    <3>2. \A p \in Orders : DueOf(p)' = DueOf(p)
      BY <3>1 DEF DueOf, Final
    <3>3. QED
      BY <2>0, <3>1, <3>2, Invisible
  <2>3. ASSUME NEW m \in Callback, Report(m) PROVE PromiseStep
    <3>1. /\ invoice[m.order] > 0 /\ sent' = sent \cup {m}
          /\ UNCHANGED <<status, amount, topups, invoice>>
      BY <2>3 DEF Report
    <3>2. PICK o \in Orders : o = m.order
      BY CallbackType
    <3>3. PICK x \in 0..DueOf(o) : x = Named(m)
      BY <2>0, <3>2, NamedType
    <3>4. UNCHANGED <<Fate, Due>>
      BY <3>1 DEF Fate, FateOf, Due, DueOf
    <3>5. status[o] # "absent"
      BY <2>0, <3>1, <3>2 DEF InvoiceInv, TypeOK
    <3>6. Fate[o] # "none" /\ Due[o] = DueOf(o)
      BY <2>0, <3>5 DEF Fate, FateOf, Due, TypeOK, Statuses
    <3>7. \A n : Named(n)' = Named(n)
      BY <3>1 DEF Named, DueOf
    <3>8. Arrived' = [Arrived EXCEPT ![o] = @ \cup {x}]
      BY <3>1, <3>2, <3>3, <3>7 DEF Arrived
    <3>9. Promise!Name(o, x)
      BY <3>1, <3>4, <3>6, <3>8 DEF Promise!Name
    <3>10. QED
      BY <3>3, <3>6, <3>9 DEF Promise!Next
  <2>4. ASSUME NEW h \in Handlers, Settle(h) PROVE PromiseStep
    <3>1. PICK m \in Callback : m = handling[h] /\ m \in sent
      BY <2>0, <2>4, SettleCases DEF LockInv, Settle
    <3>2. PICK o \in Orders : o = m.order
      BY CallbackType
    <3>3. status[o] = "pending" /\ invoice[o] = amount[o]
      BY <2>0, <2>4, <3>1, <3>2 DEF Settle, LockInv, InvoiceInv
    <3>4. UNCHANGED <<invoice, sent>>
      BY <2>4 DEF Settle
    <3>5. DueOf(o) = amount[o] /\ amount[o] \in Nat
      BY <2>0, <3>3 DEF DueOf, Final, TypeOK
    <3>6. ASSUME NEW f, status' = [status EXCEPT ![o] = f], f \in Final,
                 \A p \in Orders : p # o => amount'[p] = amount[p]
          PROVE  /\ Due' = Due /\ Arrived' = Arrived
                 /\ Fate' = [Fate EXCEPT ![o] = FateOf(o)']
      <4>1. status'[o] = f /\ \A p \in Orders : p # o => status'[p] = status[p]
        BY <2>0, <3>6 DEF TypeOK
      <4>2. \A p \in Orders : DueOf(p)' = DueOf(p)
        BY <3>3, <3>4, <3>5, <3>6, <4>1 DEF DueOf
      <4>3. \A p \in Orders : p # o => FateOf(p)' = FateOf(p)
        BY <4>1 DEF FateOf
      <4>4. QED
        BY <2>0, <3>4, <4>2, <4>3, ArrivedKept DEF Due, Fate
    <3>7. Named(m) \in Arrived[o]
      BY <3>1, <3>2 DEF Arrived
    <3>8. /\ Fate[o] = "waiting" /\ Due[o] = amount[o]
          /\ Named(m) \in 0..Due[o]
      BY <2>0, <3>2, <3>3, <3>5, NamedType DEF Fate, FateOf, Due
    <3>9. ASSUME NEW x \in 0..Due[o], Credit(o, x), x \in Arrived[o],
                 x = Due[o] \/ x >= MinCredit
          PROVE  PromiseStep
      <4>1. /\ status' = [status EXCEPT ![o] = "confirmed"]
            /\ topups' = topups \cup {[order |-> o, amount |-> x]}
            /\ \A p \in Orders : p # o => amount'[p] = amount[p]
        BY <2>0, <3>9 DEF Credit, CreditTo, TypeOK
      <4>2. Due' = Due /\ Arrived' = Arrived /\ Fate' = [Fate EXCEPT ![o] = FateOf(o)']
        BY <3>6, <4>1 DEF Final
      <4>3. FateOf(o)' = "credited"
        BY <2>0, <4>1 DEF FateOf, TypeOK
      <4>4. Promise!Credit(o, x)
        BY <3>8, <3>9, <4>1, <4>2, <4>3 DEF Promise!Credit
      <4>5. QED
        BY <3>9, <4>4 DEF Promise!Next
    <3>10. ASSUME Close(o), Named(m) < MinCredit PROVE PromiseStep
      <4>1. status' = [status EXCEPT ![o] = "failed"] /\ UNCHANGED <<amount, topups>>
        BY <3>10 DEF Close
      <4>2. Due' = Due /\ Arrived' = Arrived /\ Fate' = [Fate EXCEPT ![o] = FateOf(o)']
        BY <3>6, <4>1 DEF Final
      <4>3. FateOf(o)' = "declined"
        BY <2>0, <4>1 DEF FateOf, TypeOK
      <4>4. Promise!Decline(o)
        BY <3>7, <3>8, <3>10, <4>1, <4>2, <4>3 DEF Promise!Decline
      <4>5. QED
        BY <4>4 DEF Promise!Next
    <3>11. /\ m.kind = "finished" => Named(m) = amount[o]
           /\ m.kind = "underpaid" => Named(m) = Clamp(m.worth, o)
           /\ m.kind = "failed" => Named(m) < MinCredit
      <4>1. m.kind = "failed" => m.worth = 0
        BY DEF Callback
      <4>2. MinCredit \in Nat /\ MinCredit > 0
        BY TopUpAssumption DEF TopUpAssumption
      <4>3. m.worth \in Nat
        BY CallbackType
      <4>4. QED
        BY <3>2, <3>5, <4>1, <4>2, <4>3 DEF Named, Clamp
    <3>12. \/ m.kind = "finished" /\ Credit(o, amount[o])
           \/ m.kind = "underpaid" /\ Clamp(m.worth, o) >= MinCredit
                /\ Credit(o, Clamp(m.worth, o))
           \/ m.kind = "underpaid" /\ Clamp(m.worth, o) < MinCredit /\ Close(o)
           \/ m.kind = "failed" /\ Close(o)
      BY <2>4, <3>1, <3>2 DEF Settle
    <3>13. QED
      BY <3>7, <3>8, <3>9, <3>10, <3>11, <3>12
  <2>5. ASSUME UNCHANGED <<status, amount, topups, invoice, sent>> PROVE Visible
    BY <2>0, <2>5, Invisible DEF DueOf
  <2>6. QED
    BY <1>2, <2>1, <2>2, <2>3, <2>4, <2>5 DEF Next, Receive, Fail, vars
<1>3. IInv /\ [Next]_vars => [Promise!Next]_(Promise!promiseVars)
  BY <1>2 DEF Promise!promiseVars
<1>4. QED
  BY <1>1, <1>3, Invariant, PTL DEF Spec, SettlementKept, Promise!Spec
=============================================================================
