------------------------- MODULE WithdrawalsProofs -------------------------
(***************************************************************************)
(* Theorems of Withdrawals, for every number of users, requests, sessions, *)
(* crashes and charges.                                                    *)
(***************************************************************************)
EXTENDS Withdrawals, FiniteSetTheorems, TLAPS

-----------------------------------------------------------------------------
(* Helpers.                                                                *)

\* ORDER BY id LIMIT n returns rows of the set it is given.
LEMMA LowestSubset ==
  ASSUME NEW S, NEW n
  PROVE  Lowest(S, n) \subseteq S
BY DEF Lowest

\* Amounts are positive integers.
LEMMA AmountsPositive == \A a \in Amounts : a \in Int /\ a > 0
BY ConstantsAssumption DEF ConstantsAssumption

LEMMA AmountsNatural == \A a \in Amounts \cup {0} : a \in Nat
BY AmountsPositive

\* A refund keeps the types of what it writes.
LEMMA RefundTypes ==
  ASSUME TypeOK, NEW r \in Requests, Refund(r)
  PROVE  /\ status' \in [Requests -> Statuses]
         /\ refundRows' \subseteq Requests
         /\ balance' \in [Users -> Int]
         /\ aged' \subseteq Requests
<1>1. amount[r] \in Int
  BY AmountsPositive DEF TypeOK
<1>2. \A u \in Users : balance[u] + amount[r] \in Int
  BY <1>1 DEF TypeOK
<1>3. balance' \in [Users -> Int]
  BY <1>2 DEF TypeOK, Refund
<1>4. QED
  BY <1>3 DEF TypeOK, Refund, Statuses

-----------------------------------------------------------------------------
(* Sums over finite sets.                                                  *)

\* The units of a finite set of amounts are finitely many.
LEMMA UnitsFinite ==
  ASSUME NEW S, IsFiniteSet(S), NEW f, \A x \in S : f[x] \in Nat
  PROVE  IsFiniteSet(Units(f, S))
<1> DEFINE UnitsOf == [x \in S |-> {x} \X (1..f[x])]
           All == {{x} \X (1..f[x]) : x \in S}
<1>1. UnitsOf \in Surjection(S, All)
  BY DEF Surjection
<1>2. IsFiniteSet(All)
  BY <1>1, FS_Surjection
<1>3. ASSUME NEW x \in S PROVE IsFiniteSet({x} \X (1..f[x]))
  <2>1. IsFiniteSet({x})
    BY FS_Singleton, Zenon
  <2>2. IsFiniteSet(1..f[x])
    BY FS_Interval
  <2>3. QED
    BY <2>1, <2>2, FS_Product
<1>4. IsFiniteSet(UNION All)
  BY <1>2, <1>3, FS_UNION
<1>5. QED
  BY <1>4 DEF Units

\* The sum of natural numbers over a finite set is a natural number.
LEMMA SumType ==
  ASSUME NEW S, IsFiniteSet(S), NEW f, \A x \in S : f[x] \in Nat
  PROVE  SumOver(f, S) \in Nat
BY UnitsFinite, FS_CardinalityType DEF SumOver

\* The sum over no rows is zero.
LEMMA SumEmpty == ASSUME NEW f PROVE SumOver(f, {}) = 0
<1>1. Units(f, {}) = {}
  BY DEF Units
<1>2. QED
  BY <1>1, FS_EmptySet DEF SumOver

\* One more row adds its amount.
LEMMA SumAdd ==
  ASSUME NEW S, IsFiniteSet(S), NEW f, NEW x, x \notin S,
         \A y \in S \cup {x} : f[y] \in Nat
  PROVE  SumOver(f, S \cup {x}) = SumOver(f, S) + f[x]
<1> DEFINE mine == {x} \X (1..f[x])
           rest == Units(f, S)
<1>1. IsFiniteSet(rest) /\ Cardinality(rest) \in Nat
  BY UnitsFinite, FS_CardinalityType
<1>2. IsFiniteSet(mine) /\ Cardinality(mine) = f[x]
  <2>1. IsFiniteSet({x}) /\ Cardinality({x}) = 1
    BY FS_Singleton, Zenon
  <2>2. /\ IsFiniteSet(1..f[x]) /\ f[x] \in Nat
        /\ Cardinality(1..f[x]) = IF 1 > f[x] THEN 0 ELSE f[x] - 1 + 1
    BY FS_Interval
  <2>3. IsFiniteSet(mine) /\ Cardinality(mine) = Cardinality({x}) * Cardinality(1..f[x])
    BY <2>1, <2>2, FS_Product
  <2>4. QED
    BY <2>1, <2>2, <2>3
<1>3. Units(f, S \cup {x}) = rest \cup mine
  BY DEF Units
<1>4. rest \cap mine = {}
  BY DEF Units
<1>5. Cardinality(rest \cup mine) = Cardinality(rest) + Cardinality(mine) - 0
  BY <1>1, <1>2, <1>4, FS_Union, FS_EmptySet
<1> HIDE DEF mine, rest
<1>6. SumOver(f, S \cup {x}) = Cardinality(rest) + f[x]
  <2>1. f[x] \in Nat
    OBVIOUS
  <2>2. SumOver(f, S \cup {x}) = Cardinality(rest \cup mine)
    BY <1>3 DEF SumOver
  <2>3. Cardinality(rest \cup mine) = Cardinality(rest) + f[x]
    BY <1>1, <1>2, <1>5, <2>1
  <2>4. QED
    BY <2>2, <2>3
<1>7. QED
  BY <1>6 DEF SumOver, rest

\* One row fewer takes its amount away.
LEMMA SumRemove ==
  ASSUME NEW S, IsFiniteSet(S), NEW f, NEW x \in S, \A y \in S : f[y] \in Nat
  PROVE  SumOver(f, S \ {x}) = SumOver(f, S) - f[x]
<1> DEFINE rest == S \ {x}
<1>1. IsFiniteSet(rest) /\ x \notin rest /\ S = rest \cup {x}
  BY FS_Subset
<1>2. SumOver(f, rest \cup {x}) = SumOver(f, rest) + f[x]
  <2> HIDE DEF rest
  <2>1. QED
    BY <1>1, SumAdd
<1>3. SumOver(f, rest) \in Nat /\ f[x] \in Nat
  BY <1>1, SumType
<1>4. QED
  BY <1>1, <1>2, <1>3

\* The sum depends on the amounts of the rows it is over, and on no others.
LEMMA SumSame ==
  ASSUME NEW S, NEW f, NEW g, \A x \in S : f[x] = g[x]
  PROVE  SumOver(f, S) = SumOver(g, S)
<1>1. Units(f, S) = Units(g, S)
  BY DEF Units
<1>2. QED
  BY <1>1 DEF SumOver

\* A sum over fewer rows is no larger.
LEMMA SumMonotone ==
  ASSUME NEW S, IsFiniteSet(S), NEW T, T \subseteq S,
         NEW f, \A x \in S : f[x] \in Nat
  PROVE  SumOver(f, T) <= SumOver(f, S)
<1>1. Units(f, T) \subseteq Units(f, S)
  BY DEF Units
<1>2. QED
  BY <1>1, UnitsFinite, FS_Subset DEF SumOver

-----------------------------------------------------------------------------

\* No step breaks the types.
LEMMA TypePreserved == TypeOK /\ [Next]_vars => TypeOK'
<1> USE ConstantsAssumption
    DEF ConstantsAssumption, Statuses, NonTerminal, Nonces, NoHash, Tx, NoTx,
        Receipt, Idle, PcStates
<1> SUFFICES ASSUME TypeOK, [Next]_vars PROVE TypeOK'
  OBVIOUS
<1> USE DEF TypeOK
<1>1. ASSUME NEW s \in Sessions, NEW u \in Users, NEW a \in Amounts,
             OpenRequest(s, u, a)
      PROVE  TypeOK'
  BY <1>1 DEF OpenRequest, rowVars, ledgerVars, workerVars, chainVars
<1>2. ASSUME NEW s \in Sessions, RejectRequest(s) PROVE TypeOK'
  BY <1>2 DEF RejectRequest, rowVars, ledgerVars, workerVars, chainVars
<1>3. ASSUME NEW s \in Sessions, NEW r \in Requests, CommitRequest(s, r)
      PROVE  TypeOK'
  <2>1. session[s] \in [user : Users, amount : Amounts]
    BY <1>3 DEF CommitRequest
  <2>2. session[s].user \in Users /\ session[s].amount \in Amounts
    BY <2>1
  <2>3. owner' \in [Requests -> Users \cup {NoUser}]
    BY <1>3, <2>2 DEF CommitRequest
  <2>4. session[s].amount \in Int
    BY <2>2, AmountsPositive
  <2>5. balance' \in [Users -> Int]
    BY <1>3, <2>2, <2>4 DEF CommitRequest
  <2>6. amount' \in [Requests -> Amounts \cup {0}]
    BY <1>3, <2>2 DEF CommitRequest
  <2>7. status' \in [Requests -> Statuses]
    BY <1>3 DEF CommitRequest
  <2>8. session' \in [Sessions -> {Idle} \cup [user : Users, amount : Amounts]]
    BY <1>3 DEF CommitRequest
  <2>9. QED
    BY <1>3, <2>3, <2>5, <2>6, <2>7, <2>8 DEF CommitRequest, workerVars, chainVars
<1>4. ASSUME NEW u \in Users, NEW a \in Amounts, Charge(u, a) PROVE TypeOK'
  BY <1>4 DEF Charge, rowVars, workerVars, chainVars
<1>5. CASE StartTick
  BY <1>5 DEF StartTick, ledgerVars, chainVars, RowsIn
<1>6. CASE Claim
  <2>1. Lowest(RowsIn("pending"), SubmitLimit) \subseteq Requests
    BY LowestSubset DEF RowsIn
  <2>2. QED
    BY <1>6, <2>1 DEF Claim, ledgerVars, chainVars
<1>7. ASSUME NEW r \in Requests, SignFails(r) PROVE TypeOK'
  <2>1. Refund(r)
    BY <1>7 DEF SignFails
  <2>2. QED
    BY <1>7, <2>1, RefundTypes DEF SignFails, chainVars
<1>8. ASSUME NEW r \in Requests, NEW n \in Nonces, Sign(r, n) PROVE TypeOK'
  BY <1>8 DEF Sign, rowVars, ledgerVars, chainVars
<1>9. CASE Persist
  <2>1. signed.nonce \in Nonces \cup {NoHash}
    OBVIOUS
  <2>2. hash' \in [Requests -> Nonces \cup {NoHash}]
    BY <1>9, <2>1 DEF Persist
  <2>3. status' \in [Requests -> Statuses]
    BY <1>9 DEF Persist
  <2>4. QED
    BY <1>9, <2>2, <2>3 DEF Persist, ledgerVars, chainVars
<1>10. CASE Broadcast
  <2>1. signed.nonce >= chainNonce => signed \in Tx
    OBVIOUS
  <2>2. mempool' \subseteq Tx
    BY <1>10, <2>1 DEF Broadcast
  <2>3. QED
    BY <1>10, <2>2 DEF Broadcast, rowVars, ledgerVars
<1>11. CASE Poll
  <2>1. Lowest(RowsIn("submitted"), ConfirmLimit) \subseteq Requests
    BY LowestSubset DEF RowsIn
  <2>2. QED
    BY <1>11, <2>1 DEF Poll, rowVars, ledgerVars, chainVars
<1>12. ASSUME NEW r \in Requests, ReceiptFound(r) PROVE TypeOK'
  <2>1. CASE Refund(r)
    BY <1>12, <2>1, RefundTypes DEF ReceiptFound, chainVars
  <2>2. CASE /\ status' = [status EXCEPT ![r] = "confirmed"]
             /\ aged' = aged \ {r}
             /\ UNCHANGED <<refundRows, balance>>
    BY <1>12, <2>2 DEF ReceiptFound, chainVars
  <2>3. QED
    BY <1>12, <2>1, <2>2 DEF ReceiptFound
<1>13. ASSUME NEW r \in Requests, ReceiptMissing(r) PROVE TypeOK'
  BY <1>13 DEF ReceiptMissing, ledgerVars, chainVars
<1>14. CASE EndTick
  BY <1>14 DEF EndTick, rowVars, ledgerVars, chainVars
<1>15. CASE Crash
  BY <1>15 DEF Crash, rowVars, ledgerVars, chainVars
<1>16. ASSUME NEW t \in Tx, NEW ok \in BOOLEAN, Mine(t, ok) PROVE TypeOK'
  BY <1>16 DEF Mine, rowVars, ledgerVars, workerVars
<1>17. ASSUME NEW t \in Tx, Drop(t) PROVE TypeOK'
  BY <1>17 DEF Drop, rowVars, ledgerVars, workerVars
<1>18. ASSUME NEW r \in Requests, AgeRow(r) PROVE TypeOK'
  BY <1>18 DEF AgeRow, ledgerVars, workerVars, chainVars
<1>19. ASSUME NEW r \in Requests, LeaveDay(r) PROVE TypeOK'
  BY <1>19 DEF LeaveDay, ledgerVars, workerVars, chainVars
<1>20. CASE UNCHANGED vars
  BY <1>20 DEF vars, rowVars, ledgerVars, workerVars, chainVars
<1>21. QED
  BY <1>1, <1>2, <1>3, <1>4, <1>5, <1>6, <1>7, <1>8, <1>9, <1>10, <1>11, <1>12,
     <1>13, <1>14, <1>15, <1>16, <1>17, <1>18, <1>19, <1>20
  DEF Next, Worker, Api, Environment

\* The types hold in every behaviour: in particular no commit leaves a row in
\* the status "failed".
THEOREM TypeCorrect == Spec => []TypeOK
<1>1. Init => TypeOK
  BY ConstantsAssumption
  DEF Init, TypeOK, ConstantsAssumption, Statuses, NonTerminal, Nonces, NoHash, Tx,
      NoTx, Receipt, Idle, PcStates
<1>2. QED
  BY <1>1, TypePreserved, PTL DEF Spec

-----------------------------------------------------------------------------
(* The inductive invariant.                                                *)

\* A transfer the network has seen is the one recorded for its request, and a
\* nonce is mined once.
ChainInv ==
  /\ \A t \in mempool : t.nonce >= chainNonce /\ hash[t.req] = t.nonce
  /\ \A x \in receipts : x.tx.nonce < chainNonce /\ hash[x.tx.req] = x.tx.nonce
  /\ \A x, y \in receipts : x.tx.nonce = y.tx.nonce => x = y

\* What each status says about the recorded hash and the chain.
RowInv ==
  \A r \in Requests :
    /\ status[r] \in {"absent", "pending", "submitting"} => hash[r] = NoHash
    /\ status[r] \in {"submitted", "confirmed"} => hash[r] # NoHash
    /\ status[r] = "confirmed" => Paid(r)
    /\ status[r] = "refunded" <=> r \in refundRows
    /\ status[r] = "refunded" /\ hash[r] # NoHash
         => \E x \in receipts : x.tx.req = r /\ ~x.ok
    /\ status[r] = "absent" <=> owner[r] = NoUser

\* The rows a tick holds in memory are in the status it left them in: nobody
\* else moves them.
WorkerInv ==
  /\ pc \in {"idle", "claim"} => queue = {}
  /\ pc \in {"submit", "persist"} => \A r \in queue : status[r] = "submitting"
  /\ pc = "persist" => signed \in Tx /\ signed.req \in queue
  /\ pc = "broadcast" =>
       /\ signed \in Tx
       /\ status[signed.req] = "submitted" /\ hash[signed.req] = signed.nonce
       /\ \A r \in queue \ {signed.req} : status[r] = "submitting"
  /\ pc = "confirm" => \A r \in queue : status[r] = "submitted"

\* What a session checked under the lock stays true until it commits.
LockInv ==
  /\ \A s, t \in Sessions :
       session[s] # Idle /\ session[t] # Idle /\ session[s].user = session[t].user
       => s = t
  /\ \A s \in Sessions :
       session[s] # Idle =>
         LET u == session[s].user IN
         /\ ~InFlight(u)
         /\ balance[u] + charged[u] >= session[s].amount

IInv ==
  /\ TypeOK
  /\ ChainInv
  /\ RowInv
  /\ WorkerInv
  /\ LockInv
  /\ OneInFlight
  /\ WithdrawalsCovered

-----------------------------------------------------------------------------
(* Each part of the invariant is kept by every step.                       *)

\* Who moves the hash of a request and the state of the chain.
LEMMA ChainSteps ==
  ASSUME [Next]_vars
  PROVE  \/ Persist \/ Broadcast
         \/ \E t \in Tx : Drop(t) \/ \E ok \in BOOLEAN : Mine(t, ok)
         \/ UNCHANGED <<hash, mempool, receipts, chainNonce>>
BY DEF Next, Worker, Api, Environment, OpenRequest, RejectRequest, CommitRequest,
       Charge, StartTick, Claim, SignFails, Sign, Poll, ReceiptFound,
       ReceiptMissing, EndTick, Crash, AgeRow, LeaveDay, vars, rowVars, chainVars

LEMMA ChainPreserved == IInv /\ [Next]_vars => ChainInv'
<1> SUFFICES ASSUME IInv, [Next]_vars PROVE ChainInv'
  OBVIOUS
<1> USE DEF ChainInv
<1>0. /\ mempool \subseteq Tx /\ receipts \subseteq Receipt
      /\ chainNonce \in Nat /\ hash \in [Requests -> Int]
  BY ConstantsAssumption
  DEF IInv, TypeOK, ConstantsAssumption, Nonces, NoHash
<1>1. CASE Persist
  <2>1. signed.req \in Requests /\ hash[signed.req] = NoHash
    BY <1>1 DEF Persist, IInv, TypeOK, WorkerInv, RowInv, Tx
  <2>2. \A t \in mempool : t.req # signed.req
    BY <1>0, <2>1 DEF IInv, Tx, Nonces, NoHash
  <2>3. \A x \in receipts : x.tx.req # signed.req
    BY <1>0, <2>1 DEF IInv, Receipt, Tx, Nonces, NoHash
  <2>4. \A r \in Requests : r # signed.req => hash'[r] = hash[r]
    BY <1>0, <1>1 DEF Persist
  <2>5. UNCHANGED <<mempool, receipts, chainNonce>>
    BY <1>1 DEF Persist, chainVars
  <2>6. QED
    BY <1>0, <2>2, <2>3, <2>4, <2>5 DEF IInv, Tx, Receipt
<1>2. CASE Broadcast
  <2>1. hash[signed.req] = signed.nonce
    BY <1>2 DEF Broadcast, IInv, WorkerInv
  <2>2. \A t \in mempool' : t \in mempool \/ (t = signed /\ signed.nonce >= chainNonce)
    <3>1. CASE mempool' = mempool
      BY <3>1
    <3>2. CASE /\ signed.nonce >= chainNonce
               /\ mempool' = {t \in mempool : t.nonce # signed.nonce} \cup {signed}
      BY <3>2
    <3>3. QED
      BY <1>2, <3>1, <3>2 DEF Broadcast
  <2>3. UNCHANGED <<hash, receipts, chainNonce>>
    BY <1>2 DEF Broadcast, rowVars
  <2>4. QED
    BY <2>1, <2>2, <2>3 DEF IInv
<1>3. ASSUME NEW t \in Tx, Drop(t) PROVE ChainInv'
  BY <1>3 DEF Drop, IInv, rowVars
<1>4. ASSUME NEW t \in Tx, NEW ok \in BOOLEAN, Mine(t, ok) PROVE ChainInv'
  <2>1. \A x \in receipts' : x \in receipts \/ x = [tx |-> t, ok |-> ok]
    BY <1>4 DEF Mine
  <2>2. t \in mempool /\ t.nonce = chainNonce /\ hash[t.req] = t.nonce
    BY <1>4 DEF Mine, IInv
  <2>3. chainNonce' = chainNonce + 1 /\ hash' = hash
    BY <1>4 DEF Mine, rowVars
  <2>4. \A x \in mempool' : x \in mempool /\ x.nonce # chainNonce /\ x.nonce \in Int
    BY <1>0, <1>4, <2>2 DEF Mine, Tx, Nonces
  <2>5. \A x \in receipts : x.tx.nonce \in Int
    BY <1>0 DEF Receipt, Tx, Nonces
  <2>6. \A x, y \in receipts' : x.tx.nonce = y.tx.nonce => x = y
    BY <1>0, <2>1, <2>2, <2>5 DEF IInv
  <2>7. \A x \in receipts' : x.tx.nonce < chainNonce' /\ hash'[x.tx.req] = x.tx.nonce
    BY <1>0, <2>1, <2>2, <2>3, <2>5 DEF IInv
  <2>8. \A x \in mempool' : x.nonce >= chainNonce' /\ hash'[x.req] = x.nonce
    BY <1>0, <2>3, <2>4 DEF IInv
  <2>9. QED
    BY <2>6, <2>7, <2>8
<1>5. CASE UNCHANGED <<hash, mempool, receipts, chainNonce>>
  BY <1>5 DEF IInv
<1>6. QED
  BY <1>1, <1>2, <1>3, <1>4, <1>5, ChainSteps

\* A refund leaves a row that says so.
LEMMA RefundRow ==
  ASSUME TypeOK, RowInv, NEW r \in Requests, Refund(r),
         UNCHANGED <<hash, owner, receipts>>,
         owner[r] # NoUser,
         hash[r] # NoHash => \E x \in receipts : x.tx.req = r /\ ~x.ok
  PROVE  RowInv'
BY DEF TypeOK, RowInv, Refund, Paid

\* Who writes the columns and ledger rows RowInv speaks of.
LEMMA RowSteps ==
  ASSUME [Next]_vars
  PROVE  \/ \E s \in Sessions, r \in Requests : CommitRequest(s, r)
         \/ StartTick \/ Claim \/ Persist
         \/ \E r \in Requests : SignFails(r) \/ ReceiptFound(r)
         \/ \E t \in Tx, ok \in BOOLEAN : Mine(t, ok)
         \/ UNCHANGED <<status, hash, owner, refundRows, receipts>>
BY DEF Next, Worker, Api, Environment, OpenRequest, RejectRequest, Charge, Sign,
       Broadcast, Poll, ReceiptMissing, EndTick, Crash, Drop, AgeRow, LeaveDay, vars,
       rowVars, ledgerVars, chainVars

LEMMA RowPreserved == IInv /\ [Next]_vars => RowInv'
<1> SUFFICES ASSUME IInv, [Next]_vars PROVE RowInv'
  OBVIOUS
<1>0. TypeOK /\ RowInv /\ ChainInv
  BY DEF IInv
<1>1. ASSUME NEW s \in Sessions, NEW r \in Requests, CommitRequest(s, r)
      PROVE  RowInv'
  <2>1. session[s].user \in Users
    BY <1>0, <1>1 DEF CommitRequest, TypeOK
  <2>2. session[s].user # NoUser
    BY <2>1, ConstantsAssumption DEF ConstantsAssumption
  <2>3. r \notin refundRows /\ hash[r] = NoHash
    BY <1>0, <1>1 DEF CommitRequest, RowInv
  <2>4. QED
    BY <1>0, <1>1, <2>2, <2>3 DEF CommitRequest, TypeOK, RowInv, Paid, chainVars
<1>2. CASE StartTick
  BY <1>0, <1>2 DEF StartTick, RowsIn, TypeOK, RowInv, Paid, ledgerVars, chainVars
<1>3. CASE Claim
  <2>1. Lowest(RowsIn("pending"), SubmitLimit) \subseteq RowsIn("pending")
    BY LowestSubset
  <2>2. QED
    BY <1>0, <1>3, <2>1
    DEF Claim, RowsIn, TypeOK, RowInv, Paid, ledgerVars, chainVars
<1>4. CASE Persist
  <2>1. signed \in Tx /\ status[signed.req] = "submitting"
    BY <1>4 DEF Persist, IInv, WorkerInv
  <2>2. signed.nonce # NoHash /\ signed.req \in Requests
    BY <2>1 DEF Tx, Nonces, NoHash
  <2>3. QED
    BY <1>0, <1>4, <2>1, <2>2
    DEF Persist, TypeOK, RowInv, Paid, ledgerVars, chainVars
<1>5. ASSUME NEW r \in Requests, SignFails(r) PROVE RowInv'
  <2>1. status[r] = "submitting"
    BY <1>5, LowestSubset DEF SignFails, IInv, WorkerInv
  <2>2. hash[r] = NoHash /\ owner[r] # NoUser
    BY <1>0, <2>1 DEF RowInv
  <2>3. QED
    BY <1>0, <1>5, <2>2, RefundRow DEF SignFails, chainVars
<1>6. ASSUME NEW r \in Requests, ReceiptFound(r) PROVE RowInv'
  <2>1. status[r] = "submitted"
    BY <1>6, LowestSubset DEF ReceiptFound, IInv, WorkerInv
  <2>2. hash[r] # NoHash /\ owner[r] # NoUser
    BY <1>0, <2>1 DEF RowInv
  <2>3. PICK x \in receipts :
          /\ x.tx = [req |-> r, nonce |-> hash[r]]
          /\ \/ /\ x.ok
                /\ status' = [status EXCEPT ![r] = "confirmed"]
                /\ UNCHANGED refundRows
             \/ ~x.ok /\ Refund(r)
    BY <1>6 DEF ReceiptFound
  <2>4. x.tx.req = r
    BY <2>3
  <2>5. CASE ~x.ok /\ Refund(r)
    BY <1>0, <1>6, <2>2, <2>4, <2>5, RefundRow DEF ReceiptFound, chainVars
  <2>6. CASE /\ x.ok
             /\ status' = [status EXCEPT ![r] = "confirmed"]
             /\ UNCHANGED refundRows
    BY <1>0, <1>6, <2>1, <2>2, <2>4, <2>6
    DEF ReceiptFound, TypeOK, RowInv, Paid, chainVars
  <2>7. QED
    BY <2>3, <2>5, <2>6
<1>7. ASSUME NEW t \in Tx, NEW ok \in BOOLEAN, Mine(t, ok) PROVE RowInv'
  <2>1. receipts \subseteq receipts'
    BY <1>7 DEF Mine
  <2>2. QED
    BY <1>0, <1>7, <2>1 DEF Mine, RowInv, Paid, rowVars, ledgerVars
<1>8. CASE UNCHANGED <<status, hash, owner, refundRows, receipts>>
  BY <1>0, <1>8 DEF RowInv, Paid
<1>9. QED
  BY <1>1, <1>2, <1>3, <1>4, <1>5, <1>6, <1>7, <1>8, RowSteps

\* Who touches the tick's memory or the columns it relies on.
LEMMA WorkerSteps ==
  ASSUME [Next]_vars
  PROVE  \/ \E s \in Sessions, r \in Requests : CommitRequest(s, r)
         \/ StartTick \/ Claim \/ Persist \/ Broadcast \/ Poll \/ EndTick \/ Crash
         \/ \E r \in Requests : \/ SignFails(r) \/ ReceiptFound(r)
                              \/ ReceiptMissing(r)
                              \/ \E n \in Nonces : Sign(r, n)
         \/ UNCHANGED <<status, hash, pc, queue, signed>>
BY DEF Next, Worker, Api, Environment, OpenRequest, RejectRequest, Charge, Mine,
       Drop, AgeRow, LeaveDay, vars, rowVars, workerVars

LEMMA WorkerPreserved == IInv /\ [Next]_vars => WorkerInv'
<1> SUFFICES ASSUME IInv, [Next]_vars PROVE WorkerInv'
  OBVIOUS
<1>0. TypeOK /\ RowInv /\ WorkerInv
  BY DEF IInv
<1>1. ASSUME NEW s \in Sessions, NEW r \in Requests, CommitRequest(s, r)
      PROVE  WorkerInv'
  <2>1. r \notin queue /\ (pc = "broadcast" => signed.req # r)
    BY <1>0, <1>1 DEF CommitRequest, WorkerInv, PcStates, TypeOK
  <2>2. \A q \in Requests : q # r => status'[q] = status[q]
    BY <1>0, <1>1 DEF CommitRequest, TypeOK
  <2>3. UNCHANGED <<hash, pc, queue, signed>>
    BY <1>1 DEF CommitRequest, workerVars
  <2>4. pc = "broadcast" => signed.req \in Requests
    BY <1>0 DEF WorkerInv, Tx
  <2>5. QED
    BY <1>0, <2>1, <2>2, <2>3, <2>4 DEF WorkerInv, TypeOK
<1>2. CASE StartTick
  BY <1>0, <1>2 DEF StartTick, WorkerInv
<1>3. CASE Claim
  <2>1. Lowest(RowsIn("pending"), SubmitLimit) \subseteq Requests
    BY LowestSubset DEF RowsIn
  <2>2. QED
    BY <1>0, <1>3, <2>1 DEF Claim, WorkerInv
<1>4. ASSUME NEW r \in Requests, SignFails(r) PROVE WorkerInv'
  <2>1. \A q \in queue' : q \in queue /\ q \in Requests /\ status'[q] = status[q]
    BY <1>0, <1>4 DEF SignFails, Refund, TypeOK
  <2>2. pc = "submit" /\ pc' = "submit"
    BY <1>4 DEF SignFails
  <2>3. QED
    BY <1>0, <2>1, <2>2 DEF WorkerInv
<1>5. ASSUME NEW r \in Requests, NEW n \in Nonces, Sign(r, n) PROVE WorkerInv'
  <2>1. r \in queue
    BY <1>5, LowestSubset DEF Sign
  <2>2. signed' = [req |-> r, nonce |-> n]
    BY <1>5 DEF Sign
  <2>3. signed' \in Tx /\ signed'.req = r
    BY <2>2 DEF Tx
  <2>4. pc = "submit" /\ pc' = "persist" /\ UNCHANGED <<queue, status>>
    BY <1>5 DEF Sign, rowVars
  <2>5. QED
    BY <1>0, <2>1, <2>3, <2>4 DEF WorkerInv
<1>6. CASE Persist
  <2>1. signed \in Tx /\ signed.req \in Requests
    BY <1>0, <1>6 DEF Persist, WorkerInv, Tx
  <2>2. /\ status'[signed.req] = "submitted" /\ hash'[signed.req] = signed.nonce
        /\ \A q \in Requests : q # signed.req => status'[q] = status[q]
    BY <1>0, <1>6, <2>1 DEF Persist, TypeOK
  <2>3. pc = "persist" /\ pc' = "broadcast" /\ UNCHANGED <<queue, signed>>
    BY <1>6 DEF Persist
  <2>4. QED
    BY <1>0, <2>1, <2>2, <2>3 DEF WorkerInv, TypeOK
<1>7. CASE Broadcast
  BY <1>0, <1>7 DEF Broadcast, WorkerInv, rowVars
<1>8. CASE Poll
  <2>1. Lowest(RowsIn("submitted"), ConfirmLimit) \subseteq RowsIn("submitted")
    BY LowestSubset
  <2>2. QED
    BY <1>0, <1>8, <2>1 DEF Poll, WorkerInv, RowsIn, rowVars
<1>9. ASSUME NEW r \in Requests, ReceiptFound(r) PROVE WorkerInv'
  <2>1. \A q \in queue' : q \in queue /\ q \in Requests /\ q # r
    BY <1>0, <1>9 DEF ReceiptFound, TypeOK
  <2>2. \A q \in Requests : q # r => status'[q] = status[q]
    BY <1>0, <1>9 DEF ReceiptFound, Refund, TypeOK
  <2>3. pc = "confirm" /\ pc' = "confirm"
    BY <1>9 DEF ReceiptFound
  <2>4. QED
    BY <1>0, <2>1, <2>2, <2>3 DEF WorkerInv
<1>10. ASSUME NEW r \in Requests, ReceiptMissing(r) PROVE WorkerInv'
  BY <1>0, <1>10 DEF ReceiptMissing, WorkerInv
<1>11. CASE EndTick
  BY <1>0, <1>11 DEF EndTick, WorkerInv
<1>12. CASE Crash
  BY <1>12 DEF Crash, WorkerInv
<1>13. CASE UNCHANGED <<status, hash, pc, queue, signed>>
  BY <1>0, <1>13 DEF WorkerInv
<1>14. QED
  BY <1>1, <1>2, <1>3, <1>4, <1>5, <1>6, <1>7, <1>8, <1>9, <1>10, <1>11, <1>12,
     <1>13, WorkerSteps

-----------------------------------------------------------------------------
(* The lock.                                                               *)

\* What the guarantees of the lock are about: for every step but the commit of
\* a request, requests in flight stay so or end, no owner changes, and the
\* credit "balance + charged" of a wallet does not shrink.
Settling ==
  /\ owner' = owner
  /\ \A r \in Requests : status'[r] \in NonTerminal => status[r] \in NonTerminal
  /\ \A u \in Users : balance'[u] + charged'[u] >= balance[u] + charged[u]

\* Refunding a request only adds to its owner's wallet.
LEMMA RefundSettles ==
  ASSUME TypeOK, NEW r \in Requests, Refund(r), UNCHANGED <<owner, charged>>
  PROVE  Settling
<1>1. amount[r] \in Int /\ amount[r] >= 0
  BY AmountsPositive DEF TypeOK
<1>2. \A u \in Users : /\ balance[u] \in Int /\ charged[u] \in Int
                       /\ balance'[u] = balance[u] \/ balance'[u] = balance[u] + amount[r]
  BY ConstantsAssumption DEF TypeOK, Refund, ConstantsAssumption
<1>3. \A u \in Users : balance'[u] + charged[u] >= balance[u] + charged[u]
  BY <1>1, <1>2
<1>4. \A q \in Requests : status'[q] \in NonTerminal => status[q] \in NonTerminal
  BY DEF TypeOK, Refund, NonTerminal
<1>5. QED
  BY <1>3, <1>4 DEF Settling

LEMMA SettlingSteps ==
  ASSUME IInv, [Next]_vars
  PROVE  \/ \E s \in Sessions, r \in Requests : CommitRequest(s, r)
         \/ /\ Settling
            /\ \/ UNCHANGED session
               \/ \E s \in Sessions : RejectRequest(s)
               \/ \E s \in Sessions, u \in Users, a \in Amounts : OpenRequest(s, u, a)
<1>0. TypeOK /\ WorkerInv
  BY DEF IInv
<1>a. \A u \in Users : balance[u] \in Int /\ charged[u] \in Int
  BY <1>0, ConstantsAssumption DEF TypeOK, ConstantsAssumption
<1>1. ASSUME NEW u \in Users, NEW a \in Amounts, Charge(u, a)
      PROVE  Settling /\ UNCHANGED session
  <2>1. \A w \in Users : balance'[w] + charged'[w] = balance[w] + charged[w]
    BY <1>0, <1>1, <1>a, AmountsPositive DEF Charge, TypeOK
  <2>2. \A w \in Users : balance'[w] \in Int /\ charged'[w] \in Int
    BY <1>0, <1>1, <1>a, AmountsPositive DEF Charge, TypeOK
  <2>3. QED
    BY <1>1, <1>a, <2>1, <2>2 DEF Charge, Settling, rowVars
<1>2. CASE StartTick
  BY <1>0, <1>2, <1>a DEF StartTick, RowsIn, TypeOK, Settling, NonTerminal, ledgerVars
<1>3. CASE Claim
  <2>1. Lowest(RowsIn("pending"), SubmitLimit) \subseteq RowsIn("pending")
    BY LowestSubset
  <2>2. QED
    BY <1>0, <1>3, <1>a, <2>1
    DEF Claim, RowsIn, TypeOK, Settling, NonTerminal, ledgerVars
<1>4. ASSUME NEW r \in Requests, SignFails(r) PROVE Settling /\ UNCHANGED session
  BY <1>0, <1>4, RefundSettles DEF SignFails
<1>5. CASE Persist
  <2>1. status[signed.req] = "submitting" /\ signed.req \in Requests
    BY <1>0, <1>5 DEF Persist, WorkerInv, Tx
  <2>2. QED
    BY <1>0, <1>5, <1>a, <2>1 DEF Persist, TypeOK, Settling, NonTerminal, ledgerVars
<1>6. ASSUME NEW r \in Requests, ReceiptFound(r) PROVE Settling /\ UNCHANGED session
  <2>1. CASE Refund(r)
    BY <1>0, <1>6, <2>1, RefundSettles DEF ReceiptFound
  <2>2. CASE status' = [status EXCEPT ![r] = "confirmed"] /\ UNCHANGED balance
    BY <1>0, <1>6, <1>a, <2>2 DEF ReceiptFound, TypeOK, Settling, NonTerminal
  <2>3. QED
    BY <1>6, <2>1, <2>2 DEF ReceiptFound
<1>7. ASSUME UNCHANGED <<status, owner, balance, charged>> PROVE Settling
  BY <1>a, <1>7 DEF Settling
<1>8. QED
  BY <1>1, <1>2, <1>3, <1>4, <1>5, <1>6, <1>7
  DEF Next, Worker, Api, Environment, OpenRequest, RejectRequest, StartTick, Claim,
      Sign, Persist, Broadcast, Poll, ReceiptMissing, EndTick, Crash, Mine, Drop,
      AgeRow, LeaveDay, vars, rowVars, ledgerVars
\* Everything the lock guarantees: no stacking, and withdrawals covered by
\* what was put in.
LockedFacts == LockInv /\ OneInFlight /\ WithdrawalsCovered

LEMMA LockPreserved == IInv /\ [Next]_vars => LockedFacts'
<1> SUFFICES ASSUME IInv, [Next]_vars PROVE LockedFacts'
  OBVIOUS
<1>0. TypeOK /\ RowInv /\ LockInv /\ OneInFlight /\ WithdrawalsCovered
  BY DEF IInv
<1>a. \A u \in Users : balance[u] \in Int /\ charged[u] \in Int /\ charged[u] >= 0
  BY <1>0, ConstantsAssumption DEF TypeOK, ConstantsAssumption
<1>b. TypeOK'
  BY <1>0, TypePreserved
<1>c. \A u \in Users : balance'[u] \in Int /\ charged'[u] \in Int
  BY <1>b, ConstantsAssumption DEF TypeOK, ConstantsAssumption
<1>d. \A s \in Sessions : session[s] # Idle =>
        session[s].user \in Users /\ session[s].amount \in Amounts
  BY <1>0 DEF TypeOK
<1>1. ASSUME Settling
      PROVE  /\ OneInFlight' /\ WithdrawalsCovered'
             /\ \A u \in Users : ~InFlight(u) =>
                  \A q \in Requests : ~(owner'[q] = u /\ status'[q] \in NonTerminal)
             /\ \A u \in Users : balance'[u] + charged'[u] >= balance[u] + charged[u]
  <2>1. OneInFlight'
    BY <1>0, <1>1 DEF Settling, OneInFlight
  <2>2. WithdrawalsCovered'
    BY <1>0, <1>1, <1>a, <1>c DEF Settling, WithdrawalsCovered
  <2>3. QED
    BY <1>1, <2>1, <2>2 DEF Settling, InFlight
<1>2. ASSUME Settling,
             \A t \in Sessions : session'[t] # Idle => session'[t] = session[t]
      PROVE  LockedFacts'
  <2>1. \A t \in Sessions : session[t] # Idle =>
          /\ \A q \in Requests :
               ~(owner'[q] = session[t].user /\ status'[q] \in NonTerminal)
          /\ balance'[session[t].user] + charged'[session[t].user] >= session[t].amount
    BY <1>0, <1>1, <1>2, <1>a, <1>c, <1>d, AmountsPositive DEF LockInv
  <2>2. \A t \in Sessions : session'[t] # Idle =>
          /\ \A q \in Requests :
               ~(owner'[q] = session'[t].user /\ status'[q] \in NonTerminal)
          /\ balance'[session'[t].user] + charged'[session'[t].user]
               >= session'[t].amount
    BY <1>2, <2>1
  <2>3. QED
    BY <1>0, <1>1, <1>2, <2>2 DEF LockedFacts, LockInv, InFlight
<1>3. ASSUME NEW s \in Sessions, RejectRequest(s), Settling PROVE LockedFacts'
  <2>1. \A t \in Sessions : session'[t] # Idle => session'[t] = session[t]
    BY <1>0, <1>3 DEF RejectRequest, TypeOK
  <2>2. QED
    BY <1>2, <1>3, <2>1
<1>4. ASSUME NEW s \in Sessions, NEW u \in Users, NEW a \in Amounts,
             OpenRequest(s, u, a), Settling
      PROVE  LockedFacts'
  <2>1. /\ session'[s] = [user |-> u, amount |-> a]
        /\ \A t \in Sessions : t # s => session'[t] = session[t] /\ session[t].user # u
    BY <1>0, <1>4 DEF OpenRequest, TypeOK, Locked
  <2>2. UNCHANGED <<balance, charged, status, owner>>
    BY <1>4 DEF OpenRequest, rowVars, ledgerVars
  <2>3. ~InFlight(u) /\ balance[u] + charged[u] >= a
    BY <1>4, <1>a, AmountsPositive DEF OpenRequest
  <2>4. \A t \in Sessions : session'[t] # Idle =>
          /\ ~InFlight(session'[t].user)
          /\ balance[session'[t].user] + charged[session'[t].user] >= session'[t].amount
    BY <1>0, <2>1, <2>3 DEF LockInv
  <2>5. \A t, v \in Sessions :
          session'[t] # Idle /\ session'[v] # Idle /\ session'[t].user = session'[v].user
          => t = v
    BY <1>0, <2>1 DEF LockInv
  <2>6. QED
    BY <1>1, <1>4, <2>2, <2>4, <2>5 DEF LockedFacts, LockInv, InFlight
<1>5. ASSUME NEW s \in Sessions, NEW r \in Requests, CommitRequest(s, r)
      PROVE  LockedFacts'
  <2> DEFINE u == session[s].user
             a == session[s].amount
  <2>1. u \in Users /\ a \in Int /\ session[s] # Idle
    BY <1>5, <1>d, AmountsPositive DEF CommitRequest
  <2>2. ~InFlight(u) /\ balance[u] + charged[u] >= a
    BY <1>0, <2>1 DEF LockInv
  <2>3. /\ status'[r] = "pending" /\ owner'[r] = u /\ status[r] = "absent"
        /\ \A q \in Requests : q # r => status'[q] = status[q] /\ owner'[q] = owner[q]
    BY <1>0, <1>5 DEF CommitRequest, TypeOK
  <2>4. /\ charged' = charged
        /\ balance'[u] = balance[u] - a
        /\ \A w \in Users : w # u => balance'[w] = balance[w]
    BY <1>0, <1>5, <2>1 DEF CommitRequest, TypeOK
  <2>5. \A t \in Sessions : session'[t] # Idle =>
          t # s /\ session'[t] = session[t] /\ session[t].user # u
    BY <1>0, <1>5, <2>1 DEF CommitRequest, TypeOK, LockInv
  <2>6. OneInFlight'
    BY <1>0, <2>2, <2>3 DEF OneInFlight, InFlight
  <2>7. WithdrawalsCovered'
    BY <1>0, <1>a, <2>1, <2>2, <2>4 DEF WithdrawalsCovered
  <2>8. \A w \in Users : w # u /\ ~InFlight(w) =>
          \A q \in Requests : ~(owner'[q] = w /\ status'[q] \in NonTerminal)
    BY <2>3 DEF InFlight
  <2>9. \A t \in Sessions : session'[t] # Idle =>
          /\ \A q \in Requests :
               ~(owner'[q] = session'[t].user /\ status'[q] \in NonTerminal)
          /\ balance'[session'[t].user] + charged'[session'[t].user]
               >= session'[t].amount
    BY <1>0, <1>d, <2>4, <2>5, <2>8 DEF LockInv
  <2>10. QED
    BY <1>0, <2>5, <2>6, <2>7, <2>9 DEF LockedFacts, LockInv, InFlight
<1>6. QED
  <2>1. CASE Settling /\ UNCHANGED session
    BY <1>2, <2>1
  <2>2. QED
    BY <1>3, <1>4, <1>5, <2>1, SettlingSteps

-----------------------------------------------------------------------------
(* Theorems.                                                               *)

\* The invariant is inductive.
THEOREM Invariant == Spec => []IInv
<1>1. Init => IInv
  <2> SUFFICES ASSUME Init PROVE IInv
    OBVIOUS
  <2>1. TypeOK
    BY ConstantsAssumption
    DEF Init, TypeOK, ConstantsAssumption, Statuses, NonTerminal, Nonces, NoHash, Tx,
        NoTx, Receipt, Idle, PcStates
  <2>2. ChainInv /\ RowInv /\ WorkerInv /\ LockInv
    BY DEF Init, ChainInv, RowInv, WorkerInv, LockInv, Paid
  <2>3. OneInFlight /\ WithdrawalsCovered
    BY ConstantsAssumption
    DEF Init, OneInFlight, WithdrawalsCovered, ConstantsAssumption
  <2>4. QED
    BY <2>1, <2>2, <2>3 DEF IInv
<1>2. IInv /\ [Next]_vars => IInv'
  BY TypePreserved, ChainPreserved, RowPreserved, WorkerPreserved, LockPreserved
  DEF IInv, LockedFacts
<1>3. QED
  BY <1>1, <1>2, PTL DEF Spec

\* Transfers of one request: the invariant leaves room for one, and for none
\* once the user is refunded.
LEMMA InvariantSafe == IInv => PaidAtMostOnce /\ NeverPaidAndRefunded
<1> SUFFICES ASSUME IInv PROVE PaidAtMostOnce /\ NeverPaidAndRefunded
  OBVIOUS
<1>1. /\ \A t \in mempool : t.req \in Requests /\ t.nonce \in Int
      /\ \A x \in receipts : x.tx.req \in Requests /\ x.tx.nonce \in Int
                            /\ x.tx.nonce # NoHash
      /\ chainNonce \in Int
  BY ConstantsAssumption
  DEF IInv, TypeOK, Receipt, Tx, Nonces, NoHash, ConstantsAssumption
<1>2. \A x, y \in receipts : x.tx.req = y.tx.req => x = y
  BY DEF IInv, ChainInv
<1>3. \A t \in mempool, x \in receipts : t.req # x.tx.req
  BY <1>1 DEF IInv, ChainInv
<1>4. PaidAtMostOnce
  BY <1>2, <1>3 DEF PaidAtMostOnce, Paid
<1>5. ASSUME NEW r \in refundRows PROVE ~Paid(r) /\ \A t \in mempool : t.req # r
  <2>1. r \in Requests /\ status[r] = "refunded"
    BY DEF IInv, TypeOK, RowInv
  <2>2. CASE hash[r] = NoHash
    BY <1>1, <2>2 DEF IInv, ChainInv, Paid, TypeOK, Tx, Nonces, NoHash
  <2>3. CASE hash[r] # NoHash
    <3>1. PICK x \in receipts : x.tx.req = r /\ ~x.ok
      BY <2>1, <2>3 DEF IInv, RowInv
    <3>2. QED
      BY <1>2, <1>3, <3>1 DEF Paid
  <2>4. QED
    BY <2>2, <2>3
<1>6. QED
  BY <1>4, <1>5 DEF NeverPaidAndRefunded

\* However often the worker crashes and signs again, a request is paid once.
THEOREM PaidOnce == Spec => []PaidAtMostOnce
BY Invariant, InvariantSafe, PTL

\* A refunded request was not paid and has no transfer left that could be mined.
THEOREM RefundExcludesPayment == Spec => []NeverPaidAndRefunded
BY Invariant, InvariantSafe, PTL

\* The advisory lock leaves a user at most one withdrawal in flight.
THEOREM NoStacking == Spec => []OneInFlight
<1>1. IInv => OneInFlight
  BY DEF IInv
<1>2. QED
  BY Invariant, <1>1, PTL

\* Concurrent withdrawals cannot spend the same balance twice.
THEOREM Covered == Spec => []WithdrawalsCovered
<1>1. IInv => WithdrawalsCovered
  BY DEF IInv
<1>2. QED
  BY Invariant, <1>1, PTL
\* A recorded hash binds its request to one transfer for good.
THEOREM HashFixed == Spec => RecordedHashFixed
<1> DEFINE Bound(r) == hash[r] # NoHash =>
                         /\ hash'[r] = hash[r]
                         /\ status'[r] \in {"submitted", "confirmed", "refunded"}
<1>1. ASSUME IInv, [Next]_vars PROVE \A r \in Requests : Bound(r)
  <2>0. TypeOK /\ RowInv /\ WorkerInv
    BY <1>1 DEF IInv
  <2>a. \A r \in Requests : hash[r] # NoHash =>
          status[r] \in {"submitted", "confirmed", "refunded"}
    BY <2>0 DEF TypeOK, RowInv, Statuses, NonTerminal
  <2>1. ASSUME NEW s \in Sessions, NEW q \in Requests, CommitRequest(s, q)
        PROVE  \A r \in Requests : Bound(r)
    BY <2>0, <2>a, <2>1 DEF CommitRequest, TypeOK
  <2>2. CASE StartTick
    BY <2>0, <2>a, <2>2 DEF StartTick, RowsIn, TypeOK
  <2>3. CASE Claim
    <3>1. Lowest(RowsIn("pending"), SubmitLimit) \subseteq RowsIn("pending")
      BY LowestSubset
    <3>2. QED
      BY <2>0, <2>a, <2>3, <3>1 DEF Claim, RowsIn, TypeOK
  <2>4. CASE Persist
    <3>1. signed.req \in Requests /\ hash[signed.req] = NoHash
      BY <2>0, <2>4 DEF Persist, WorkerInv, RowInv, Tx
    <3>2. QED
      BY <2>0, <2>a, <2>4, <3>1 DEF Persist, TypeOK
  <2>5. ASSUME NEW q \in Requests, SignFails(q) \/ ReceiptFound(q)
        PROVE  \A r \in Requests : Bound(r)
    BY <2>0, <2>a, <2>5 DEF SignFails, ReceiptFound, Refund, TypeOK
  <2>6. ASSUME NEW t \in Tx, NEW ok \in BOOLEAN, Mine(t, ok)
        PROVE  \A r \in Requests : Bound(r)
    BY <2>a, <2>6 DEF Mine, rowVars
  <2>7. CASE UNCHANGED <<status, hash, owner, refundRows, receipts>>
    BY <2>a, <2>7
  <2>8. QED
    BY <1>1, <2>1, <2>2, <2>3, <2>4, <2>5, <2>6, <2>7, RowSteps
<1>2. IInv /\ [Next]_vars => [\A r \in Requests : Bound(r)]_vars
  BY <1>1
<1>3. QED
  BY <1>2, Invariant, PTL DEF Spec, RecordedHashFixed

-----------------------------------------------------------------------------
(* The money.                                                              *)

\* The rows a wallet is short of, and those that count towards its day.
Kept(u) == {r \in Requests : owner[r] = u /\ status[r] # "refunded"}
Today(u) == {r \in recent : owner[r] = u /\ status[r] # "refunded"}

\* What a session saw of the cap stays true until it commits: under the lock
\* nobody else adds to what its user has spent, and time and refunds only
\* take away from it.
CapInv ==
  /\ \A r \in recent : owner[r] # NoUser
  /\ \A s \in Sessions :
       session[s] # Idle =>
         SpentInDay(session[s].user) + session[s].amount <= DailyCap

MoneyInv == DailyCapHeld /\ MoneyConserved /\ CapInv

\* The sums are over finitely many natural numbers.
SumsOK ==
  /\ \A r \in Requests : amount[r] \in Nat
  /\ \A u \in Users : /\ IsFiniteSet(Kept(u)) /\ IsFiniteSet(Today(u))
                      /\ Kept(u) \subseteq Requests
                      /\ Today(u) \subseteq Requests
                      /\ SumOver(amount, Kept(u)) \in Nat
                      /\ SumOver(amount, Today(u)) \in Nat

LEMMA SumsTyped == TypeOK => SumsOK
<1> SUFFICES ASSUME TypeOK PROVE SumsOK
  OBVIOUS
<1>1. \A r \in Requests : amount[r] \in Nat
  BY AmountsNatural DEF TypeOK
<1>2. ASSUME NEW u \in Users
      PROVE  /\ Kept(u) \subseteq Requests /\ Today(u) \subseteq Requests
             /\ IsFiniteSet(Kept(u)) /\ IsFiniteSet(Today(u))
  <2>1. Kept(u) \subseteq Requests /\ Today(u) \subseteq Requests
    BY DEF Kept, Today, TypeOK
  <2>2. IsFiniteSet(Requests)
    BY ConstantsAssumption DEF ConstantsAssumption
  <2>3. QED
    BY <2>1, <2>2, FS_Subset
<1>3. ASSUME NEW u \in Users
      PROVE  /\ SumOver(amount, Kept(u)) \in Nat
             /\ SumOver(amount, Today(u)) \in Nat
  BY <1>1, <1>2, SumType
<1>4. QED
  BY <1>1, <1>2, <1>3 DEF SumsOK

LEMMA SumsTypedNext == TypeOK' => SumsOK'
BY SumsTyped, PTL

\* The four ways a step touches the money: a commit, a charge, a refund, or not
\* at all, when rows may leave the day and a session may open or end.
LEMMA MoneySteps ==
  ASSUME IInv, [Next]_vars
  PROVE  \/ \E s \in Sessions, r \in Requests : CommitRequest(s, r)
         \/ \E u \in Users, a \in Amounts : Charge(u, a)
         \/ \E r \in Requests :
              /\ Refund(r) /\ owner[r] # NoUser
              /\ UNCHANGED <<owner, amount, charged, recent, session>>
         \/ /\ UNCHANGED <<owner, amount, balance, charged>>
            /\ recent' \subseteq recent
            /\ \A r \in Requests : status'[r] = "refunded" <=> status[r] = "refunded"
            /\ \/ UNCHANGED session
               \/ \E s \in Sessions : RejectRequest(s)
               \/ \E s \in Sessions, u \in Users, a \in Amounts : OpenRequest(s, u, a)
<1> DEFINE Quiet == /\ UNCHANGED <<owner, amount, balance, charged, session>>
                    /\ recent' \subseteq recent
                    /\ \A r \in Requests :
                         status'[r] = "refunded" <=> status[r] = "refunded"
           Returned(r) == /\ Refund(r) /\ owner[r] # NoUser
                          /\ UNCHANGED <<owner, amount, charged, recent, session>>
<1>0. TypeOK /\ RowInv /\ WorkerInv
  BY DEF IInv
<1>1. CASE StartTick
  <2>1. Quiet
    BY <1>0, <1>1 DEF StartTick, RowsIn, TypeOK, ledgerVars
  <2>2. QED
    BY <2>1
<1>2. CASE Claim
  <2>1. Lowest(RowsIn("pending"), SubmitLimit) \subseteq RowsIn("pending")
    BY LowestSubset
  <2>2. Quiet
    BY <1>0, <1>2, <2>1 DEF Claim, RowsIn, TypeOK, ledgerVars
  <2>3. QED
    BY <2>2
<1>3. CASE Persist
  <2>1. status[signed.req] = "submitting" /\ signed.req \in Requests
    BY <1>0, <1>3 DEF Persist, WorkerInv, Tx
  <2>2. Quiet
    BY <1>0, <1>3, <2>1 DEF Persist, TypeOK, ledgerVars
  <2>3. QED
    BY <2>2
<1>4. ASSUME NEW r \in Requests, SignFails(r) PROVE Returned(r)
  <2>1. status[r] = "submitting"
    BY <1>0, <1>4, LowestSubset DEF SignFails, WorkerInv
  <2>2. QED
    BY <1>0, <1>4, <2>1 DEF SignFails, RowInv
<1>5. ASSUME NEW r \in Requests, ReceiptFound(r) PROVE Returned(r) \/ Quiet
  <2>1. status[r] = "submitted"
    BY <1>0, <1>5, LowestSubset DEF ReceiptFound, WorkerInv
  <2>2. CASE Refund(r)
    BY <1>0, <1>5, <2>1, <2>2 DEF ReceiptFound, RowInv
  <2>3. CASE status' = [status EXCEPT ![r] = "confirmed"] /\ UNCHANGED balance
    BY <1>0, <1>5, <2>1, <2>3 DEF ReceiptFound, TypeOK
  <2>4. QED
    BY <1>5, <2>2, <2>3 DEF ReceiptFound
<1>6. ASSUME NEW r \in Requests, LeaveDay(r) PROVE Quiet
  BY <1>6 DEF LeaveDay, ledgerVars
<1> HIDE DEF Quiet, Returned
<1>7. ASSUME UNCHANGED <<status, owner, amount, recent, balance, charged, session>>
      PROVE  Quiet
  BY <1>7 DEF Quiet
<1>8. \/ \E s \in Sessions, r \in Requests : CommitRequest(s, r)
      \/ \E u \in Users, a \in Amounts : Charge(u, a)
      \/ StartTick \/ Claim \/ Persist
      \/ \E r \in Requests : SignFails(r) \/ ReceiptFound(r) \/ LeaveDay(r)
      \/ \E s \in Sessions : RejectRequest(s)
      \/ \E s \in Sessions, u \in Users, a \in Amounts : OpenRequest(s, u, a)
      \/ UNCHANGED <<status, owner, amount, recent, balance, charged, session>>
  BY DEF Next, Worker, Api, Environment, Sign, Broadcast, Poll, ReceiptMissing,
         EndTick, Crash, Mine, Drop, AgeRow, vars, rowVars, ledgerVars
<1>9. ASSUME NEW s \in Sessions,
             \/ RejectRequest(s)
             \/ \E u \in Users, a \in Amounts : OpenRequest(s, u, a)
      PROVE  UNCHANGED <<status, owner, amount, recent, balance, charged>>
  BY <1>9 DEF RejectRequest, OpenRequest, rowVars, ledgerVars
<1>10. QED
  BY <1>1, <1>2, <1>3, <1>4, <1>5, <1>6, <1>7, <1>8, <1>9 DEF Quiet, Returned

\* A commit adds its row, with its amount, to what its user has had paid out
\* and spent today, and to nobody else's.
LEMMA CommitSums ==
  ASSUME IInv, MoneyInv, NEW s \in Sessions, NEW r \in Requests, CommitRequest(s, r),
         NEW u \in Users, u = session[s].user
  PROVE  /\ SumOver(amount, Kept(u))' = SumOver(amount, Kept(u)) + session[s].amount
         /\ SumOver(amount, Today(u))' = SumOver(amount, Today(u)) + session[s].amount
         /\ \A w \in Users : w # u =>
              /\ SumOver(amount, Kept(w))' = SumOver(amount, Kept(w))
              /\ SumOver(amount, Today(w))' = SumOver(amount, Today(w))
<1>0. TypeOK /\ RowInv /\ (\A q \in recent : owner[q] # NoUser)
  BY DEF IInv, MoneyInv, CapInv
<1>1. session[s].amount \in Nat
  BY <1>0, AmountsNatural DEF CommitRequest, TypeOK
<1>2. owner[r] = NoUser /\ r \notin recent /\ \A w \in Users : w # NoUser
  BY <1>0, ConstantsAssumption DEF CommitRequest, RowInv, ConstantsAssumption
<1>3. /\ status'[r] = "pending" /\ owner'[r] = u /\ amount'[r] = session[s].amount
      /\ recent' = recent \cup {r} /\ recent \subseteq Requests
      /\ \A q \in Requests : q # r => /\ status'[q] = status[q]
                                      /\ owner'[q] = owner[q]
                                      /\ amount'[q] = amount[q]
  BY <1>0 DEF CommitRequest, TypeOK
<1>4. \A w \in Users : r \notin Kept(w) /\ r \notin Today(w)
  BY <1>2 DEF Kept, Today
<1>5. Kept(u)' = Kept(u) \cup {r} /\ Today(u)' = Today(u) \cup {r}
  <2>1. \A q : q \in Kept(u)' <=> q \in Kept(u) \/ q = r
    BY <1>3 DEF Kept
  <2>2. \A q : q \in Today(u)' <=> q \in Today(u) \/ q = r
    BY <1>3 DEF Today
  <2>3. QED
    BY <2>1, <2>2
<1>6. ASSUME NEW w \in Users, w # u
      PROVE  Kept(w)' = Kept(w) /\ Today(w)' = Today(w)
  BY <1>2, <1>3, <1>6 DEF Kept, Today
<1>7. /\ \A q \in Requests : amount[q] \in Nat
      /\ \A w \in Users : /\ IsFiniteSet(Kept(w)) /\ IsFiniteSet(Today(w))
                          /\ Kept(w) \subseteq Requests /\ Today(w) \subseteq Requests
  BY <1>0, SumsTyped DEF SumsOK
<1>8. ASSUME NEW S, S \subseteq Requests, r \notin S
      PROVE  SumOver(amount', S) = SumOver(amount, S)
  BY <1>3, <1>8, SumSame
<1>9. ASSUME NEW S, S \subseteq Requests, IsFiniteSet(S), r \notin S
      PROVE  SumOver(amount', S \cup {r}) = SumOver(amount, S) + session[s].amount
  <2>1. \A q \in S \cup {r} : amount'[q] \in Nat
    BY <1>1, <1>3, <1>7, <1>9
  <2>2. SumOver(amount', S \cup {r}) = SumOver(amount', S) + amount'[r]
    BY <1>9, <2>1, SumAdd
  <2>3. QED
    BY <1>3, <1>8, <1>9, <2>2
<1>10. /\ SumOver(amount, Kept(u))' = SumOver(amount, Kept(u)) + session[s].amount
       /\ SumOver(amount, Today(u))' = SumOver(amount, Today(u)) + session[s].amount
  BY <1>4, <1>5, <1>7, <1>9
<1>11. \A w \in Users : w # u =>
         /\ SumOver(amount, Kept(w))' = SumOver(amount, Kept(w))
         /\ SumOver(amount, Today(w))' = SumOver(amount, Today(w))
  BY <1>4, <1>6, <1>7, <1>8
<1>12. QED
  BY <1>10, <1>11

\* A refund takes its row, with its amount, out of what its owner has had paid
\* out, and adds to nobody's day.
LEMMA RefundSums ==
  ASSUME IInv, NEW r \in Requests, Refund(r), NEW u \in Users, owner[r] = u,
         UNCHANGED <<owner, amount, recent>>
  PROVE  /\ SumOver(amount, Kept(u))' = SumOver(amount, Kept(u)) - amount[r]
         /\ \A w \in Users : w # u =>
              SumOver(amount, Kept(w))' = SumOver(amount, Kept(w))
         /\ \A w \in Users : Today(w)' \subseteq Today(w)
<1>0. TypeOK /\ RowInv
  BY DEF IInv
<1>1. status[r] # "refunded"
  BY <1>0 DEF RowInv, Refund
<1>2. /\ status'[r] = "refunded"
      /\ \A q \in Requests : q # r => status'[q] = status[q]
  BY <1>0 DEF TypeOK, Refund
<1>3. Kept(u)' = Kept(u) \ {r} /\ r \in Kept(u)
  BY <1>1, <1>2 DEF Kept
<1>4. \A w \in Users : w # u => Kept(w)' = Kept(w)
  BY <1>2 DEF Kept
<1>5. \A w \in Users : Today(w)' \subseteq Today(w)
  BY <1>0, <1>2 DEF Today, TypeOK
<1>6. /\ IsFiniteSet(Kept(u)) /\ Kept(u) \subseteq Requests
      /\ \A q \in Requests : amount[q] \in Nat
  BY <1>0, SumsTyped DEF SumsOK
<1>7. SumOver(amount, Kept(u) \ {r}) = SumOver(amount, Kept(u)) - amount[r]
  BY <1>3, <1>6, SumRemove
<1>8. QED
  BY <1>3, <1>4, <1>5, <1>7

\* Rows that leave the day take away from what its user has spent.
LEMMA LessToday ==
  ASSUME TypeOK, amount' = amount, NEW u \in Users, Today(u)' \subseteq Today(u)
  PROVE  SumOver(amount, Today(u))' <= SumOver(amount, Today(u))
BY SumsTyped, SumMonotone DEF SumsOK

\* What the sessions know of the cap survives a step that adds to nobody's day.
LEMMA CapKept ==
  ASSUME IInv, TypeOK', MoneyInv, owner' = owner, recent' \subseteq recent,
         \A u \in Users :
           SumOver(amount, Today(u))' <= SumOver(amount, Today(u)),
         \/ UNCHANGED session
         \/ \E s \in Sessions : RejectRequest(s)
         \/ \E s \in Sessions, u \in Users, a \in Amounts : OpenRequest(s, u, a)
  PROVE  DailyCapHeld' /\ CapInv'
<1> DEFINE Spent(u) == SumOver(amount, Today(u))
<1>0. TypeOK /\ DailyCapHeld /\ CapInv /\ DailyCap \in Nat
  BY ConstantsAssumption DEF IInv, MoneyInv, ConstantsAssumption
<1>1. \A u : SpentInDay(u) = Spent(u) /\ SpentInDay(u)' = Spent(u)'
  BY DEF SpentInDay, Total, Today
<1>2. \A u \in Users : Spent(u) \in Nat /\ Spent(u)' \in Nat
  BY <1>0, SumsTyped, SumsTypedNext DEF SumsOK
<1>3. \A u \in Users : Spent(u)' <= Spent(u)
  OBVIOUS
<1> HIDE DEF Spent
<1>4. DailyCapHeld'
  BY <1>0, <1>1, <1>2, <1>3 DEF DailyCapHeld
<1>5. ASSUME NEW t \in Sessions, session'[t] # Idle
      PROVE  /\ session'[t].user \in Users /\ session'[t].amount \in Nat
             /\ Spent(session'[t].user) + session'[t].amount <= DailyCap
  <2>1. session'[t].user \in Users /\ session'[t].amount \in Nat
    BY <1>5, AmountsNatural DEF TypeOK
  <2>2. CASE session'[t] = session[t]
    BY <1>0, <1>1, <1>5, <2>1, <2>2 DEF CapInv
  <2>3. ASSUME NEW u \in Users, NEW a \in Amounts, OpenRequest(t, u, a)
        PROVE  Spent(session'[t].user) + session'[t].amount <= DailyCap
    BY <1>0, <1>1, <2>3 DEF OpenRequest, TypeOK
  <2>4. \/ session'[t] = session[t]
        \/ \E u \in Users, a \in Amounts : OpenRequest(t, u, a)
    BY <1>0, <1>5 DEF OpenRequest, RejectRequest, TypeOK
  <2>5. QED
    BY <2>1, <2>2, <2>3, <2>4
<1>6. ASSUME NEW t \in Sessions, session'[t] # Idle,
             NEW u \in Users, u = session'[t].user
      PROVE  Spent(u)' + session'[t].amount <= DailyCap
  BY <1>0, <1>2, <1>3, <1>5, <1>6
<1>7. QED
  BY <1>0, <1>1, <1>4, <1>5, <1>6 DEF CapInv

LEMMA MoneyPreserved == IInv /\ MoneyInv /\ [Next]_vars => MoneyInv'
<1> SUFFICES ASSUME IInv, MoneyInv, [Next]_vars PROVE MoneyInv'
  OBVIOUS
<1>0. TypeOK /\ TypeOK' /\ LockInv /\ DailyCapHeld /\ MoneyConserved /\ CapInv
  BY TypePreserved DEF IInv, MoneyInv
<1>a. \A u : /\ SpentInDay(u) = SumOver(amount, Today(u))
             /\ SpentInDay(u)' = SumOver(amount, Today(u))'
  BY DEF SpentInDay, Total, Today
<1>b. MoneyConserved <=>
        \A u \in Users :
          balance[u] = InitialBalance - charged[u] - SumOver(amount, Kept(u))
  BY DEF MoneyConserved, Total, Kept
<1>c. MoneyConserved' <=>
        \A u \in Users :
          balance'[u] = InitialBalance - charged'[u] - SumOver(amount, Kept(u))'
  BY DEF MoneyConserved, Total, Kept
<1>d. /\ \A u \in Users : balance[u] \in Int /\ charged[u] \in Int
      /\ InitialBalance \in Int /\ DailyCap \in Int
  BY <1>0, ConstantsAssumption DEF TypeOK, ConstantsAssumption
<1>e. /\ \A u \in Users : SumOver(amount, Kept(u)) \in Nat
      /\ \A u \in Users : SumOver(amount, Today(u)) \in Nat
      /\ \A r \in Requests : amount[r] \in Nat
  BY <1>0, SumsTyped DEF SumsOK
<1>1. ASSUME NEW s \in Sessions, NEW r \in Requests, CommitRequest(s, r)
      PROVE  MoneyInv'
  <2>1. PICK u \in Users, a \in Nat : session[s] = [user |-> u, amount |-> a]
    BY <1>0, <1>1, AmountsNatural DEF CommitRequest, TypeOK
  <2>a. u = session[s].user /\ a = session[s].amount /\ session[s] # Idle
    BY <1>1, <2>1 DEF CommitRequest
  <2>2. /\ SumOver(amount, Kept(u))' = SumOver(amount, Kept(u)) + a
        /\ SumOver(amount, Today(u))' = SumOver(amount, Today(u)) + a
        /\ \A w \in Users : w # u =>
             /\ SumOver(amount, Kept(w))' = SumOver(amount, Kept(w))
             /\ SumOver(amount, Today(w))' = SumOver(amount, Today(w))
    BY <1>1, <2>a, CommitSums
  <2>3. /\ charged' = charged
        /\ balance'[u] = balance[u] - a
        /\ \A w \in Users : w # u => balance'[w] = balance[w]
    BY <1>0, <1>1, <2>a DEF CommitRequest, TypeOK
  <2>4. \A t \in Sessions : session'[t] # Idle =>
          t # s /\ session'[t] = session[t] /\ session[t].user # u
    BY <1>0, <1>1, <2>a DEF CommitRequest, TypeOK, LockInv
  <2>5. SumOver(amount, Today(u)) + a <= DailyCap
    BY <1>0, <1>a, <2>a DEF CapInv
  <2>6. \A t \in Sessions : session[t] # Idle => session[t].user \in Users
    BY <1>0 DEF TypeOK
  <2>7. \A q \in recent' : owner'[q] # NoUser
    <3>1. recent' = recent \cup {r} /\ owner' = [owner EXCEPT ![r] = u]
      BY <1>1, <2>a DEF CommitRequest
    <3>2. QED
      BY <1>0, <2>1, <3>1, ConstantsAssumption DEF TypeOK, CapInv, ConstantsAssumption
  <2>8. MoneyConserved'
    BY <1>0, <1>b, <1>c, <1>d, <1>e, <2>1, <2>2, <2>3
  <2>9. DailyCapHeld'
    BY <1>0, <1>a, <2>1, <2>2, <2>5 DEF DailyCapHeld
  <2>10. CapInv'
    BY <1>0, <1>a, <2>2, <2>4, <2>6, <2>7 DEF CapInv
  <2>11. QED
    BY <2>8, <2>9, <2>10 DEF MoneyInv
<1>2. ASSUME NEW u \in Users, NEW a \in Amounts, Charge(u, a) PROVE MoneyInv'
  <2>1. UNCHANGED <<owner, status, amount, recent, session>> /\ a \in Nat
    BY <1>2, AmountsNatural DEF Charge, rowVars
  <2>2. \A w \in Users : Kept(w)' = Kept(w) /\ Today(w)' = Today(w)
    BY <2>1 DEF Kept, Today
  <2>3. \A w \in Users : \/ balance'[w] = balance[w] /\ charged'[w] = charged[w]
                         \/ balance'[w] = balance[w] - a /\ charged'[w] = charged[w] + a
    BY <1>0, <1>2 DEF Charge, TypeOK
  <2>4. MoneyConserved'
    BY <1>0, <1>b, <1>c, <1>d, <1>e, <2>1, <2>2, <2>3
  <2>5. DailyCapHeld' /\ CapInv'
    BY <1>0, <1>e, <2>1, <2>2, CapKept
  <2>6. QED
    BY <2>4, <2>5 DEF MoneyInv
<1>3. ASSUME NEW r \in Requests, Refund(r), owner[r] # NoUser,
             UNCHANGED <<owner, amount, charged, recent, session>>
      PROVE  MoneyInv'
  <2>1. PICK u \in Users : owner[r] = u
    BY <1>0, <1>3 DEF TypeOK
  <2>2. /\ SumOver(amount, Kept(u))' = SumOver(amount, Kept(u)) - amount[r]
        /\ \A w \in Users : w # u =>
             SumOver(amount, Kept(w))' = SumOver(amount, Kept(w))
        /\ \A w \in Users : Today(w)' \subseteq Today(w)
    BY <1>3, <2>1, RefundSums
  <2>3. /\ balance'[u] = balance[u] + amount[r]
        /\ \A w \in Users : w # u => balance'[w] = balance[w]
    BY <1>0, <1>3, <2>1 DEF Refund, TypeOK
  <2>4. MoneyConserved'
    BY <1>0, <1>3, <1>b, <1>c, <1>d, <1>e, <2>1, <2>2, <2>3
  <2>5. \A w \in Users : SumOver(amount, Today(w))' <= SumOver(amount, Today(w))
    BY <1>0, <1>3, <2>2, LessToday
  <2>6. DailyCapHeld' /\ CapInv'
    BY <1>0, <1>3, <2>5, CapKept
  <2>7. QED
    BY <2>4, <2>6 DEF MoneyInv
<1>4. ASSUME UNCHANGED <<owner, amount, balance, charged>>, recent' \subseteq recent,
             \A r \in Requests : status'[r] = "refunded" <=> status[r] = "refunded",
             \/ UNCHANGED session
             \/ \E s \in Sessions : RejectRequest(s)
             \/ \E s \in Sessions, u \in Users, a \in Amounts : OpenRequest(s, u, a)
      PROVE  MoneyInv'
  <2>1. \A u \in Users : Kept(u)' = Kept(u)
    BY <1>4 DEF Kept
  <2>2. \A u \in Users : Today(u)' \subseteq Today(u)
    BY <1>0, <1>4 DEF Today, TypeOK
  <2>3. MoneyConserved'
    BY <1>0, <1>4, <1>b, <1>c, <2>1
  <2>4. \A u \in Users : SumOver(amount, Today(u))' <= SumOver(amount, Today(u))
    BY <1>0, <1>4, <2>2, LessToday
  <2>5. DailyCapHeld' /\ CapInv'
    BY <1>0, <1>4, <2>4, CapKept
  <2>6. QED
    BY <2>3, <2>5 DEF MoneyInv
<1>5. QED
  BY <1>1, <1>2, <1>3, <1>4, MoneySteps

\* Withdrawals and refunds account for every unit of a wallet that billing did
\* not take, nobody is paid more than the cap in a day, and no wallet is
\* overdrawn by withdrawals: through crashes, refunds and concurrent requests.
THEOREM MoneyIsKept == Spec => []MoneyKept
<1>1. Init => MoneyInv
  <2> SUFFICES ASSUME Init PROVE MoneyInv
    OBVIOUS
  <2>1. \A u \in Users : Kept(u) = {} /\ Today(u) = {}
    BY ConstantsAssumption DEF Init, Kept, Today, ConstantsAssumption
  <2>2. \A u \in Users : SumOver(amount, Kept(u)) = 0 /\ SumOver(amount, Today(u)) = 0
    BY <2>1, SumEmpty
  <2>3. MoneyConserved
    <3>1. \A u \in Users : balance[u] = InitialBalance /\ charged[u] = 0
      BY DEF Init
    <3>2. InitialBalance \in Int
      BY ConstantsAssumption DEF ConstantsAssumption
    <3>3. QED
      BY <2>2, <3>1, <3>2 DEF MoneyConserved, Total, Kept
  <2>4. DailyCapHeld
    BY <2>2, ConstantsAssumption
    DEF DailyCapHeld, SpentInDay, Total, Today, ConstantsAssumption
  <2>5. CapInv
    BY DEF Init, CapInv
  <2>6. QED
    BY <2>3, <2>4, <2>5 DEF MoneyInv
<1>2. IInv /\ MoneyInv => MoneyKept
  BY DEF IInv, MoneyInv, MoneyKept
<1>3. QED
  BY <1>1, <1>2, MoneyPreserved, Invariant, PTL DEF Spec

-----------------------------------------------------------------------------
(* Refinement.                                                             *)

\* A request whose money is in escrow is one whose user may not open another.
LEMMA EscrowInFlight ==
  ASSUME IInv, NEW r \in Requests, Fate[r] = "escrow"
  PROVE  status[r] \in NonTerminal
<1>1. status[r] \notin {"absent", "refunded"} /\ ~Paid(r)
  BY DEF Fate, FateOf
<1>2. status[r] # "confirmed"
  BY <1>1 DEF IInv, RowInv
<1>3. QED
  BY <1>1, <1>2 DEF IInv, TypeOK, Statuses, NonTerminal

\* The fate of a request changes only with its status or its receipts.
LEMMA FateOfKept ==
  ASSUME NEW r \in Requests,
         Paid(r)' <=> Paid(r),
         \/ status'[r] = status[r]
         \/ status[r] \in NonTerminal /\ status'[r] \in NonTerminal
  PROVE  FateOf(r)' = FateOf(r)
<1>1. CASE status'[r] = status[r]
  BY <1>1 DEF FateOf
<1>2. CASE status[r] \in NonTerminal /\ status'[r] \in NonTerminal
  BY <1>2 DEF FateOf, NonTerminal
<1>3. QED
  BY <1>1, <1>2

\* Statuses that move among the non-terminal ones leave the money where it is.
LEMMA FateKept ==
  ASSUME receipts' = receipts, NEW r \in Requests,
         \/ status'[r] = status[r]
         \/ status[r] \in NonTerminal /\ status'[r] \in NonTerminal
  PROVE  FateOf(r)' = FateOf(r)
<1>1. Paid(r)' <=> Paid(r)
  BY DEF Paid
<1>2. QED
  BY <1>1, FateOfKept

\* Fates are updated one request at a time.
LEMMA FateUpdated ==
  ASSUME NEW r \in Requests, NEW f, FateOf(r)' = f,
         \A q \in Requests : q # r => FateOf(q)' = FateOf(q)
  PROVE  Fate' = [Fate EXCEPT ![r] = f]
BY DEF Fate

\* A refund of money in escrow is the promise's Return.
LEMMA RefundReturns ==
  ASSUME TypeOK, NEW r \in Requests, Refund(r), receipts' = receipts,
         owner' = owner, amount' = amount, Fate[r] = "escrow"
  PROVE  Promise!Return(r)
<1>1. /\ status'[r] = "refunded"
      /\ \A q \in Requests : q # r => status'[q] = status[q]
  BY DEF TypeOK, Refund
<1>2. FateOf(r)' = "returned"
  BY <1>1 DEF FateOf
<1>3. \A q \in Requests : Paid(q)' <=> Paid(q)
  BY DEF Paid
<1>4. \A q \in Requests : q # r => FateOf(q)' = FateOf(q)
  BY <1>1, <1>3, FateOfKept
<1>5. Fate' = [Fate EXCEPT ![r] = "returned"]
  BY <1>2, <1>4, FateUpdated
<1>6. QED
  BY <1>5 DEF Promise!Return, Refund

LEMMA PromiseSteps ==
  ASSUME [Next]_vars
  PROVE  \/ \E s \in Sessions, r \in Requests : CommitRequest(s, r)
         \/ \E u \in Users, a \in Amounts : Charge(u, a)
         \/ StartTick \/ Claim \/ Persist
         \/ \E r \in Requests : SignFails(r) \/ ReceiptFound(r)
         \/ \E t \in Tx, ok \in BOOLEAN : Mine(t, ok)
         \/ UNCHANGED <<status, owner, amount, balance, receipts>>
BY DEF Next, Worker, Api, Environment, OpenRequest, RejectRequest, Sign,
       Broadcast, Poll, ReceiptMissing, EndTick, Crash, Drop, AgeRow, LeaveDay, vars,
       rowVars, ledgerVars, chainVars

\* The detailed withdrawal implements the promise: each step opens, pays or
\* returns one amount, charges a wallet, or changes nothing the user can see.
THEOREM KeepsPromise == Spec => PromiseKept
<1> DEFINE APromiseStep == Promise!Next \/ UNCHANGED <<Fate, owner, amount, balance>>
<1>1. Init => Promise!Init
  BY ConstantsAssumption DEF Init, Promise!Init, Fate, FateOf, ConstantsAssumption
<1>2. ASSUME IInv, [Next]_vars PROVE APromiseStep
  <2>0. TypeOK /\ RowInv /\ WorkerInv /\ ChainInv /\ LockInv
    BY <1>2 DEF IInv
  <2>a. PaidAtMostOnce /\ NeverPaidAndRefunded
    BY <1>2, InvariantSafe
  <2>b. \A x \in receipts : hash[x.tx.req] # NoHash /\ x.tx.req \in Requests
    BY <2>0 DEF ChainInv, TypeOK, Receipt, Tx, Nonces, NoHash
  <2>1. ASSUME NEW s \in Sessions, NEW r \in Requests, CommitRequest(s, r)
        PROVE  APromiseStep
    <3> DEFINE u == session[s].user
               a == session[s].amount
    <3>1. session[s] # Idle /\ u \in Users /\ a \in Amounts /\ ~InFlight(u)
      BY <2>0, <2>1 DEF CommitRequest, TypeOK, LockInv
    <3>2. /\ status[r] = "absent" /\ status'[r] = "pending" /\ hash[r] = NoHash
          /\ \A q \in Requests : q # r => status'[q] = status[q]
      BY <2>0, <2>1 DEF CommitRequest, TypeOK, RowInv
    <3>3. ~Paid(r) /\ UNCHANGED receipts
      BY <2>1, <2>b, <3>2 DEF CommitRequest, Paid, chainVars
    <3>8. Fate[r] = "none" /\ FateOf(r)' = "escrow"
      BY <3>2, <3>3 DEF Fate, FateOf, Paid
    <3>9. \A q \in Requests : Paid(q)' <=> Paid(q)
      BY <3>3 DEF Paid
    <3>10. \A q \in Requests : q # r => FateOf(q)' = FateOf(q)
      BY <3>2, <3>9, FateOfKept
    <3>4. Fate[r] = "none" /\ Fate' = [Fate EXCEPT ![r] = "escrow"]
      BY <3>8, <3>10, FateUpdated
    <3>5. \A q \in Requests : owner[q] = u => Fate[q] # "escrow"
      BY <1>2, <3>1, EscrowInFlight DEF InFlight
    <3>6. Promise!Open(r, u, a)
      BY <2>1, <3>4, <3>5 DEF CommitRequest, Promise!Open
    <3>7. QED
      BY <3>1, <3>6 DEF Promise!Next
  <2>2. ASSUME NEW u \in Users, NEW a \in Amounts, Charge(u, a)
        PROVE  APromiseStep
    <3>0. status' = status /\ receipts' = receipts
      BY <2>2 DEF Charge, rowVars, chainVars
    <3>1. Fate' = Fate /\ owner' = owner /\ amount' = amount
      BY <2>2, <3>0, FateKept DEF Fate, Charge, rowVars
    <3>2. balance'[u] = balance[u] - a /\ balance[u] \in Int /\ a \in Int /\ a > 0
      BY <2>0, <2>2, AmountsPositive DEF Charge, TypeOK
    <3>3. balance' = [balance EXCEPT ![u] = balance'[u]]
      BY <2>2, <3>2 DEF Charge
    <3>4. balance'[u] <= balance[u]
      BY <3>2
    <3>5. Promise!Charge(u)
      BY <3>1, <3>3, <3>4 DEF Promise!Charge
    <3>6. QED
      BY <3>5 DEF Promise!Next
  <2>3. CASE StartTick
    <3>0. /\ receipts' = receipts
          /\ \A r \in Requests :
               \/ status'[r] = status[r]
               \/ status[r] \in NonTerminal /\ status'[r] \in NonTerminal
      BY <2>3 DEF StartTick, RowsIn, NonTerminal, chainVars
    <3>1. Fate' = Fate
      BY <3>0, FateKept DEF Fate
    <3>2. QED
      BY <2>3, <3>1 DEF StartTick, ledgerVars
  <2>4. CASE Claim
    <3>1. Lowest(RowsIn("pending"), SubmitLimit) \subseteq RowsIn("pending")
      BY LowestSubset
    <3>0. /\ receipts' = receipts
          /\ \A r \in Requests :
               \/ status'[r] = status[r]
               \/ status[r] \in NonTerminal /\ status'[r] \in NonTerminal
      BY <2>4, <3>1 DEF Claim, RowsIn, NonTerminal, chainVars
    <3>2. Fate' = Fate
      BY <3>0, FateKept DEF Fate
    <3>3. QED
      BY <2>4, <3>2 DEF Claim, ledgerVars
  <2>5. CASE Persist
    <3>1. signed.req \in Requests /\ status[signed.req] = "submitting"
      BY <2>0, <2>5 DEF Persist, WorkerInv, Tx
    <3>0. /\ receipts' = receipts
          /\ \A r \in Requests :
               \/ status'[r] = status[r]
               \/ status[r] \in NonTerminal /\ status'[r] \in NonTerminal
      BY <2>0, <2>5, <3>1 DEF Persist, TypeOK, NonTerminal, chainVars
    <3>2. Fate' = Fate
      BY <3>0, FateKept DEF Fate
    <3>3. QED
      BY <2>5, <3>2 DEF Persist, ledgerVars
  <2>6. ASSUME NEW r \in Requests, SignFails(r) PROVE APromiseStep
    <3>1. status[r] = "submitting"
      BY <2>0, <2>6, LowestSubset DEF SignFails, WorkerInv
    <3>2. ~Paid(r)
      BY <2>0, <2>b, <3>1 DEF Paid, RowInv
    <3>3. Fate[r] = "escrow"
      BY <3>1, <3>2 DEF Fate, FateOf
    <3>4. Promise!Return(r)
      BY <2>0, <2>6, <3>3, RefundReturns DEF SignFails, chainVars
    <3>5. QED
      BY <3>4 DEF Promise!Next
  <2>7. ASSUME NEW r \in Requests, ReceiptFound(r) PROVE APromiseStep
    <3>1. status[r] = "submitted"
      BY <2>0, <2>7, LowestSubset DEF ReceiptFound, WorkerInv
    <3>2. PICK x \in receipts :
            /\ x.tx = [req |-> r, nonce |-> hash[r]]
            /\ \/ /\ x.ok
                  /\ status' = [status EXCEPT ![r] = "confirmed"]
                  /\ UNCHANGED balance
               \/ ~x.ok /\ Refund(r)
      BY <2>7 DEF ReceiptFound
    <3>3. x.tx.req = r /\ UNCHANGED <<owner, amount, receipts>>
      BY <2>7, <3>2 DEF ReceiptFound, chainVars
    <3>4. CASE ~x.ok /\ Refund(r)
      <4>1. \A y \in receipts : y.tx.req = r => y = x
        BY <2>0, <3>3 DEF ChainInv
      <4>2. Fate[r] = "escrow"
        BY <3>1, <3>4, <4>1 DEF Fate, FateOf, Paid
      <4>3. QED
        BY <2>0, <3>3, <3>4, <4>2, RefundReturns DEF Promise!Next
    <3>5. CASE /\ x.ok
               /\ status' = [status EXCEPT ![r] = "confirmed"]
               /\ UNCHANGED balance
      <4>1. Paid(r) /\ Paid(r)'
        BY <3>3, <3>5 DEF Paid
      <4>2. /\ status'[r] = "confirmed"
            /\ \A q \in Requests : q # r => status'[q] = status[q]
        BY <2>0, <3>5 DEF TypeOK
      <4>3. \A q \in Requests : Paid(q)' <=> Paid(q)
        BY <3>3 DEF Paid
      <4>6. FateOf(r)' = Fate[r] /\ FateOf(r) = Fate[r]
        BY <3>1, <4>1, <4>2 DEF Fate, FateOf
      <4>7. \A q \in Requests : q # r => FateOf(q)' = FateOf(q)
        BY <4>2, <4>3, FateOfKept
      <4>8. \A q \in Requests : FateOf(q)' = FateOf(q)
        BY <4>6, <4>7
      <4>4. Fate' = Fate
        BY <4>8 DEF Fate
      <4>5. QED
        BY <3>3, <3>5, <4>4
    <3>6. QED
      BY <3>2, <3>4, <3>5
  <2>8. ASSUME NEW t \in Tx, NEW ok \in BOOLEAN, Mine(t, ok) PROVE APromiseStep
    <3> DEFINE r == t.req
    <3>1. /\ t \in mempool /\ receipts' = receipts \cup {[tx |-> t, ok |-> ok]}
          /\ UNCHANGED <<status, owner, amount, balance>>
      BY <2>8 DEF Mine, rowVars, ledgerVars
    <3>2. r \in Requests /\ hash[r] # NoHash
      BY <2>0, <3>1 DEF ChainInv, Tx, Nonces, NoHash
    <3>3. ~Paid(r) /\ status[r] \notin {"absent", "refunded"}
      BY <2>0, <2>a, <3>1, <3>2 DEF PaidAtMostOnce, NeverPaidAndRefunded, RowInv
    <3>4. Fate[r] = "escrow"
      BY <3>2, <3>3 DEF Fate, FateOf
    <3>5. \A q \in Requests : Paid(q)' <=> Paid(q) \/ (ok /\ q = r)
      <4> DEFINE x == [tx |-> t, ok |-> ok]
      <4>1. x.tx.req = r /\ x.ok = ok
        OBVIOUS
      <4>2. receipts' = receipts \cup {x}
        BY <3>1
      <4> HIDE DEF x, r
      <4>3. ASSUME NEW q \in Requests PROVE Paid(q)' <=> Paid(q) \/ (ok /\ q = r)
        BY <4>1, <4>2 DEF Paid
      <4>4. QED
        BY <4>3
    <3>6. CASE ok
      <4>4. FateOf(r)' = "paid"
        BY <3>1, <3>2, <3>3, <3>5, <3>6 DEF FateOf
      <4>5. \A q \in Requests : q # r => FateOf(q)' = FateOf(q)
        BY <3>1, <3>5, FateOfKept
      <4>1. Fate' = [Fate EXCEPT ![r] = "paid"]
        BY <3>2, <4>4, <4>5, FateUpdated
      <4>2. Promise!Pay(r)
        BY <3>1, <3>4, <4>1 DEF Promise!Pay
      <4>3. QED
        BY <3>2, <4>2 DEF Promise!Next
    <3>7. CASE ~ok
      <4>3. \A q \in Requests : FateOf(q)' = FateOf(q)
        BY <3>1, <3>5, <3>7, FateOfKept
      <4>1. Fate' = Fate
        BY <4>3 DEF Fate
      <4>2. QED
        BY <3>1, <4>1
    <3>8. QED
      BY <3>6, <3>7
  <2>9. CASE UNCHANGED <<status, owner, amount, balance, receipts>>
    <3>1. Fate' = Fate
      BY <2>9, FateKept DEF Fate
    <3>2. QED
      BY <2>9, <3>1
  <2>10. QED
    BY <1>2, <2>1, <2>2, <2>3, <2>4, <2>5, <2>6, <2>7, <2>8, <2>9, PromiseSteps
<1>3. IInv /\ [Next]_vars => [Promise!Next]_(Promise!promiseVars)
  BY <1>2 DEF Promise!promiseVars
<1>4. QED
  BY <1>1, <1>3, Invariant, PTL DEF Spec, PromiseKept, Promise!Spec
=============================================================================
