---------------------------- MODULE Withdrawals ----------------------------
(***************************************************************************)
(* USDT withdrawals: the requests users open, the wallet ledger they are   *)
(* debited from, the single worker that signs, records, broadcasts and     *)
(* confirms the transfers, and the blockchain as that worker sees it.      *)
(*                                                                         *)
(* Sessions are the database transactions of create_withdrawal: HTTP       *)
(* requests and the auto-withdraw job run the same code.  The worker is    *)
(* one process that runs one tick of process_withdrawals_once at a time;   *)
(* Crash stands for the process dying and for an exception that ends the   *)
(* tick, both of which lose what the tick held in memory.                  *)
(*                                                                         *)
(* Time is two sets: "aged", the rows whose updated_at is further back     *)
(* than the recovery or alert window of their status, and "recent", the    *)
(* rows created within the last 24 hours.                                  *)
(*                                                                         *)
(* A signed transfer is the pair (request, nonce): its hash is a function  *)
(* of destination, amount, gas price and nonce, and no two requests are    *)
(* taken to agree on the first three.                                      *)
(***************************************************************************)
EXTENDS Integers, FiniteSets

CONSTANTS
  Users,            \* telegram ids
  NoUser,           \* the owner of a row that is not inserted yet
  Requests,         \* ids of withdrawal_requests, in order of insertion
  Sessions,         \* concurrent callers of create_withdrawal
  Amounts,          \* gross amounts within the per-request minimum and maximum
  DailyCap,         \* settings.withdrawal_max_usd_per_day
  InitialBalance,   \* what each wallet starts with
  SubmitLimit,      \* pending rows claimed per tick (20)
  ConfirmLimit,     \* submitted rows polled per tick (50)
  MaxNonce,         \* bound: highest nonce the hot wallet reaches
  MaxCharges,       \* bound: what billing debits from one wallet
  MaxCrashes        \* bound: worker crashes in one behaviour

ASSUME ConstantsAssumption ==
  /\ NoUser \notin Users
  /\ Requests \subseteq Nat /\ IsFiniteSet(Requests)
  /\ Amounts \subseteq Nat \ {0}
  /\ DailyCap \in Nat
  /\ InitialBalance \in Nat
  /\ SubmitLimit \in Nat \ {0}
  /\ ConfirmLimit \in Nat \ {0}
  /\ MaxNonce \in Nat
  /\ MaxCharges \in Nat
  /\ MaxCrashes \in Nat

VARIABLES
  status,      \* withdrawal_requests.status; "absent" before the insert
  owner,       \* withdrawal_requests.user_id
  amount,      \* withdrawal_requests.amount_usd
  hash,        \* the nonce of the transfer whose hash is in tx_hash
  aged,        \* rows whose updated_at is outside their status's window
  recent,      \* rows whose created_at is within 24 hours
  balance,     \* SUM(amount) of a user's wallet_transactions
  refundRows,  \* requests with a withdraw-refund-<id> ledger row
  charged,     \* what billing and administrators have debited
  session,     \* the open create_withdrawal transaction of each session
  pc,          \* where the worker's tick stands
  queue,       \* rows the tick still has to submit or poll
  signed,      \* the transfer signed for the row being submitted
  mempool,     \* transfers the network knows and has not mined
  receipts,    \* transfers mined, with their outcome
  chainNonce,  \* the hot wallet's next nonce on chain
  crashes      \* worker crashes so far

rowVars    == <<status, owner, amount, hash, aged, recent>>
ledgerVars == <<balance, refundRows, charged>>
workerVars == <<pc, queue, signed, crashes>>
chainVars  == <<mempool, receipts, chainNonce>>
vars == <<rowVars, ledgerVars, session, workerVars, chainVars>>

-----------------------------------------------------------------------------

NonTerminal == {"pending", "submitting", "submitted"}
Statuses    == {"absent", "confirmed", "refunded"} \cup NonTerminal

Nonces  == 0..MaxNonce
NoHash  == -1
Tx      == [req : Requests, nonce : Nonces]
NoTx    == [req |-> NoHash, nonce |-> NoHash]
Receipt == [tx : Tx, ok : BOOLEAN]

Idle == [user |-> NoUser, amount |-> 0]

PcStates == {"idle", "claim", "submit", "persist", "broadcast", "confirm"}

\* The n lowest ids of a set: ORDER BY id LIMIT n.
Lowest(S, n) == {r \in S : Cardinality({q \in S : q < r}) < n}

RowsIn(s) == {r \in Requests : status[r] = s}

\* Mutant of Locked: the advisory lock is not taken.
NeverLocked(u) == FALSE

\* The advisory lock (1, user) is held from its acquisition to the end of the
\* transaction that took it.
Locked(u) == \E s \in Sessions : session[s].user = u

\* Mutant of InFlight: a row whose transfer is out no longer counts.
InFlightUnlessSubmitted(u) ==
  \E r \in Requests : owner[r] = u /\ status[r] \in {"pending", "submitting"}

InFlight(u) == \E r \in Requests : owner[r] = u /\ status[r] \in NonTerminal

\* SELECT SUM(...): the sum of f over S, counted one unit at a time.  Proofs can
\* reason about a cardinality, not about a fold.
Units(f, S) == UNION {{r} \X (1..f[r]) : r \in S}
SumOver(f, S) == Cardinality(Units(f, S))

Total(S) == SumOver(amount, S)

SpentInDay(u) ==
  Total({r \in recent : owner[r] = u /\ status[r] # "refunded"})

\* Transfers of one request that were mined successfully.
Paid(r) == \E x \in receipts : x.tx.req = r /\ x.ok

\* eth_getTransactionCount(hot wallet, "pending"): mined transfers, then the
\* unbroken run of nonces the node holds in its mempool.
IsPendingCount(n) ==
  /\ n >= chainNonce
  /\ \A t \in mempool : t.nonce # n
  /\ \A k \in chainNonce..(n - 1) : \E t \in mempool : t.nonce = k

Init ==
  /\ status = [r \in Requests |-> "absent"]
  /\ owner = [r \in Requests |-> NoUser]
  /\ amount = [r \in Requests |-> 0]
  /\ hash = [r \in Requests |-> NoHash]
  /\ aged = {} /\ recent = {}
  /\ balance = [u \in Users |-> InitialBalance]
  /\ refundRows = {}
  /\ charged = [u \in Users |-> 0]
  /\ session = [s \in Sessions |-> Idle]
  /\ pc = "idle" /\ queue = {} /\ signed = NoTx
  /\ mempool = {} /\ receipts = {} /\ chainNonce = 0
  /\ crashes = 0

-----------------------------------------------------------------------------
(* create_withdrawal, up to the caller's commit.  The checks of the input  *)
(* alone (address, minimum, maximum, blocked user) only refuse a request   *)
(* and are passed by every (u, a) here.                                    *)

\* Mutant of OpenRequest: the cap is compared with what was spent before.
OpenOverCap(s, u, a) ==
  /\ session[s] = Idle
  /\ ~Locked(u)
  /\ ~InFlight(u)
  /\ SpentInDay(u) <= DailyCap
  /\ balance[u] >= a
  /\ session' = [session EXCEPT ![s] = [user |-> u, amount |-> a]]
  /\ UNCHANGED <<rowVars, ledgerVars, workerVars, chainVars>>

\* Take the user's lock and run the three checks it protects.
OpenRequest(s, u, a) ==
  /\ session[s] = Idle
  /\ ~Locked(u)
  /\ ~InFlight(u)
  /\ SpentInDay(u) + a <= DailyCap
  /\ balance[u] >= a
  /\ session' = [session EXCEPT ![s] = [user |-> u, amount |-> a]]
  /\ UNCHANGED <<rowVars, ledgerVars, workerVars, chainVars>>

\* The fee quote or the hot wallet's liquidity refuses the request, or the
\* process dies: the transaction rolls back and the lock is released.
RejectRequest(s) ==
  /\ session[s] # Idle
  /\ session' = [session EXCEPT ![s] = Idle]
  /\ UNCHANGED <<rowVars, ledgerVars, workerVars, chainVars>>

\* Insert the request and its payout debit in one transaction, and commit.
CommitRequest(s, r) ==
  LET u == session[s].user
      a == session[s].amount
  IN
  /\ session[s] # Idle
  /\ status[r] = "absent"
  /\ \A q \in Requests : q < r => status[q] # "absent"
  /\ status' = [status EXCEPT ![r] = "pending"]
  /\ owner' = [owner EXCEPT ![r] = u]
  /\ amount' = [amount EXCEPT ![r] = a]
  /\ recent' = recent \cup {r}
  /\ balance' = [balance EXCEPT ![u] = @ - a]
  /\ session' = [session EXCEPT ![s] = Idle]
  /\ UNCHANGED <<hash, aged, refundRows, charged, workerVars, chainVars>>

\* A traffic debit or an administrator's adjustment: neither takes the lock.
Charge(u, a) ==
  /\ charged[u] + a <= MaxCharges
  /\ charged' = [charged EXCEPT ![u] = @ + a]
  /\ balance' = [balance EXCEPT ![u] = @ - a]
  /\ UNCHANGED <<refundRows, rowVars, session, workerVars, chainVars>>

-----------------------------------------------------------------------------
(* process_withdrawals_once.                                               *)

\* Mutant of StartTick: nothing is recovered.
StartTickNoRecovery ==
  /\ pc = "idle"
  /\ pc' = "claim"
  /\ UNCHANGED <<rowVars, ledgerVars, session, queue, signed, crashes, chainVars>>

\* Recovery: rows left in "submitting" by a tick that died go back to
\* "pending" once the recovery window has passed.
StartTick ==
  LET stuck == RowsIn("submitting") \cap aged IN
  /\ pc = "idle"
  /\ pc' = "claim"
  /\ status' = [r \in Requests |-> IF r \in stuck THEN "pending" ELSE status[r]]
  /\ aged' = aged \ stuck
  /\ UNCHANGED <<owner, amount, hash, recent, ledgerVars, session, queue, signed,
                 crashes, chainVars>>

\* Claim a batch: one commit moves every row of it to "submitting".
Claim ==
  LET batch == Lowest(RowsIn("pending"), SubmitLimit) IN
  /\ pc = "claim"
  /\ pc' = "submit"
  /\ queue' = batch
  /\ status' = [r \in Requests |-> IF r \in batch THEN "submitting" ELSE status[r]]
  /\ aged' = aged \ batch
  /\ UNCHANGED <<owner, amount, hash, recent, ledgerVars, session, signed,
                 crashes, chainVars>>

\* Mutant of Refund: the row is left in "failed".
RefundLeavesFailed(r) ==
  /\ r \notin refundRows
  /\ status' = [status EXCEPT ![r] = "failed"]
  /\ refundRows' = refundRows \cup {r}
  /\ balance' = [balance EXCEPT ![owner[r]] = @ + amount[r]]
  /\ aged' = aged \ {r}

\* refund_failed_withdrawal and the caller's commit: the row goes through
\* "failed" to "refunded" inside the transaction that inserts the refund.  A
\* second refund row of one request violates the key and aborts.
Refund(r) ==
  /\ r \notin refundRows
  /\ status' = [status EXCEPT ![r] = "refunded"]
  /\ refundRows' = refundRows \cup {r}
  /\ balance' = [balance EXCEPT ![owner[r]] = @ + amount[r]]
  /\ aged' = aged \ {r}

\* Signing fails (RPC error, build error): nothing is on chain, refund.
SignFails(r) ==
  /\ pc = "submit"
  /\ r \in Lowest(queue, 1)
  /\ Refund(r)
  /\ queue' = queue \ {r}
  /\ UNCHANGED <<owner, amount, hash, recent, charged, session, pc, signed,
                 crashes, chainVars>>

\* Mutant of Sign: the signed transfer is sent before it is recorded.
SignAndSend(r, n) ==
  /\ pc = "submit"
  /\ r \in Lowest(queue, 1)
  /\ IsPendingCount(n)
  /\ signed' = [req |-> r, nonce |-> n]
  /\ mempool' = mempool \cup {[req |-> r, nonce |-> n]}
  /\ pc' = "persist"
  /\ UNCHANGED <<rowVars, ledgerVars, session, queue, crashes, receipts, chainNonce>>

\* Sign locally with the nonce the node reports.
Sign(r, n) ==
  /\ pc = "submit"
  /\ r \in Lowest(queue, 1)
  /\ IsPendingCount(n)
  /\ signed' = [req |-> r, nonce |-> n]
  /\ pc' = "persist"
  /\ UNCHANGED <<rowVars, ledgerVars, session, queue, crashes, chainVars>>

\* Record the hash and "submitted" before the network is touched.
Persist ==
  LET r == signed.req IN
  /\ pc = "persist"
  /\ hash' = [hash EXCEPT ![r] = signed.nonce]
  /\ status' = [status EXCEPT ![r] = "submitted"]
  /\ aged' = aged \ {r}
  /\ pc' = "broadcast"
  /\ UNCHANGED <<owner, amount, recent, ledgerVars, session, queue, signed,
                 crashes, chainVars>>

\* send_raw_transaction: the network takes the transfer, displacing one with
\* the same nonce, or it never gets there.  Whether the call raises changes
\* nothing.
Broadcast ==
  /\ pc = "broadcast"
  /\ \/ /\ signed.nonce >= chainNonce
        /\ mempool' = {t \in mempool : t.nonce # signed.nonce} \cup {signed}
     \/ UNCHANGED mempool
  /\ queue' = queue \ {signed.req}
  /\ signed' = NoTx
  /\ pc' = "submit"
  /\ UNCHANGED <<rowVars, ledgerVars, session, crashes, receipts, chainNonce>>

\* The batch is done: list the submitted rows to poll.
Poll ==
  /\ pc = "submit"
  /\ queue = {}
  /\ queue' = Lowest(RowsIn("submitted"), ConfirmLimit)
  /\ pc' = "confirm"
  /\ UNCHANGED <<rowVars, ledgerVars, session, signed, crashes, chainVars>>

\* Mutant of ReceiptFound: a reverted transfer is not told from a missing one.
ReceiptOnlyIfOk(r) ==
  /\ pc = "confirm"
  /\ r \in Lowest(queue, 1)
  /\ [tx |-> [req |-> r, nonce |-> hash[r]], ok |-> TRUE] \in receipts
  /\ status' = [status EXCEPT ![r] = "confirmed"]
  /\ aged' = aged \ {r}
  /\ queue' = queue \ {r}
  /\ UNCHANGED <<owner, amount, hash, recent, ledgerVars, session, pc, signed,
                 crashes, chainVars>>

\* _check_receipt finds the receipt of the recorded hash: confirmed, or
\* reverted and refunded.
ReceiptFound(r) ==
  /\ pc = "confirm"
  /\ r \in Lowest(queue, 1)
  /\ \E x \in receipts :
       /\ x.tx = [req |-> r, nonce |-> hash[r]]
       /\ \/ /\ x.ok
             /\ status' = [status EXCEPT ![r] = "confirmed"]
             /\ aged' = aged \ {r}
             /\ UNCHANGED <<refundRows, balance>>
          \/ /\ ~x.ok
             /\ Refund(r)
  /\ queue' = queue \ {r}
  /\ UNCHANGED <<owner, amount, hash, recent, charged, session, pc, signed,
                 crashes, chainVars>>

\* Mutant of ReceiptMissing: past the alert window the user is refunded.
ReceiptMissingRefunds(r) ==
  /\ pc = "confirm"
  /\ r \in Lowest(queue, 1)
  /\ IF r \in aged
     THEN Refund(r)
     ELSE UNCHANGED <<status, refundRows, balance, aged>>
  /\ queue' = queue \ {r}
  /\ UNCHANGED <<owner, amount, hash, recent, charged, session, pc, signed,
                 crashes, chainVars>>

\* No receipt: not mined, or the RPC failed.  Past the alert window a transfer
\* the node does not know is stamped, which touches updated_at; it is never
\* refunded.
ReceiptMissing(r) ==
  /\ pc = "confirm"
  /\ r \in Lowest(queue, 1)
  /\ aged' = aged \ {r} \/ aged' = aged
  /\ queue' = queue \ {r}
  /\ UNCHANGED <<status, owner, amount, hash, recent, ledgerVars, session, pc,
                 signed, crashes, chainVars>>

EndTick ==
  /\ pc = "confirm"
  /\ queue = {}
  /\ pc' = "idle"
  /\ UNCHANGED <<rowVars, ledgerVars, session, queue, signed, crashes, chainVars>>

\* The process dies, or an exception ends the tick: the queue and the signed
\* transfer are lost, the database keeps what was committed.
Crash ==
  /\ pc # "idle"
  /\ crashes < MaxCrashes
  /\ pc' = "idle" /\ queue' = {} /\ signed' = NoTx
  /\ crashes' = crashes + 1
  /\ UNCHANGED <<rowVars, ledgerVars, session, chainVars>>

-----------------------------------------------------------------------------
(* The blockchain and the clock.                                           *)

\* The next nonce is mined, whether the transfer succeeds or reverts (the hot
\* wallet ran dry); anything else with that nonce can never be mined.
Mine(t, ok) ==
  /\ t \in mempool
  /\ t.nonce = chainNonce
  /\ receipts' = receipts \cup {[tx |-> t, ok |-> ok]}
  /\ chainNonce' = chainNonce + 1
  /\ mempool' = {x \in mempool : x.nonce # t.nonce}
  /\ UNCHANGED <<rowVars, ledgerVars, session, workerVars>>

\* The network forgets a transfer it has not mined.
Drop(t) ==
  /\ t \in mempool
  /\ mempool' = mempool \ {t}
  /\ UNCHANGED <<rowVars, ledgerVars, session, workerVars, receipts, chainNonce>>

\* A row's status window passes without the row being touched.
AgeRow(r) ==
  /\ status[r] \in {"submitting", "submitted"}
  /\ r \notin aged
  /\ aged' = aged \cup {r}
  /\ UNCHANGED <<status, owner, amount, hash, recent, ledgerVars, session,
                 workerVars, chainVars>>

\* 24 hours pass since row r was created, so they pass for every older row.
LeaveDay(r) ==
  /\ r \in recent
  /\ recent' = {q \in recent : q > r}
  /\ UNCHANGED <<status, owner, amount, hash, aged, ledgerVars, session,
                 workerVars, chainVars>>

-----------------------------------------------------------------------------

Worker ==
  \/ StartTick \/ Claim \/ Persist \/ Broadcast \/ Poll \/ EndTick
  \/ \E r \in Requests :
       \/ SignFails(r)
       \/ \E n \in Nonces : Sign(r, n)
       \/ ReceiptFound(r)
       \/ ReceiptMissing(r)

Api ==
  \/ \E s \in Sessions :
       \/ \E u \in Users, a \in Amounts : OpenRequest(s, u, a)
       \/ RejectRequest(s)
       \/ \E r \in Requests : CommitRequest(s, r)
  \/ \E u \in Users, a \in Amounts : Charge(u, a)

Environment ==
  \/ \E t \in Tx : Drop(t) \/ \E ok \in BOOLEAN : Mine(t, ok)
  \/ \E r \in Requests : AgeRow(r) \/ LeaveDay(r)

Next == Worker \/ Crash \/ Api \/ Environment

Spec == Init /\ [][Next]_vars

\* The worker restarts and its scheduler keeps running the job; time passes;
\* the RPC endpoint does not fail on the same receipt for ever.
Fairness ==
  /\ WF_vars(Worker)
  /\ \A r \in Requests : WF_vars(AgeRow(r)) /\ SF_vars(ReceiptFound(r))

FairSpec == Spec /\ Fairness

-----------------------------------------------------------------------------
(* Properties.                                                             *)

TypeOK ==
  /\ status \in [Requests -> Statuses]
  /\ owner \in [Requests -> Users \cup {NoUser}]
  /\ amount \in [Requests -> Amounts \cup {0}]
  /\ hash \in [Requests -> Nonces \cup {NoHash}]
  /\ aged \subseteq Requests
  /\ recent \subseteq Requests
  /\ balance \in [Users -> Int]
  /\ refundRows \subseteq Requests
  /\ charged \in [Users -> 0..MaxCharges]
  /\ session \in [Sessions -> {Idle} \cup [user : Users, amount : Amounts]]
  /\ pc \in PcStates
  /\ queue \subseteq Requests
  /\ signed \in Tx \cup {NoTx}
  /\ mempool \subseteq Tx
  /\ receipts \subseteq Receipt
  /\ chainNonce \in 0..(MaxNonce + 1)
  /\ crashes \in 0..MaxCrashes

\* The hot wallet never pays one request twice, whatever the worker crashed
\* through: at most one of the transfers signed for it is ever mined with
\* success, and once one is, no other is left that could be.
PaidAtMostOnce ==
  /\ \A x, y \in receipts : x.ok /\ y.ok /\ x.tx.req = y.tx.req => x = y
  /\ \A t \in mempool : ~Paid(t.req)

\* A user who got the amount back never gets it on chain as well: neither now
\* nor by a transfer that is still waiting to be mined.
NeverPaidAndRefunded ==
  \A r \in refundRows : ~Paid(r) /\ \A t \in mempool : t.req # r

\* The per-user lock keeps withdrawals from stacking: one in flight per user.
OneInFlight ==
  \A q, r \in Requests :
    /\ owner[q] = owner[r] /\ owner[q] # NoUser
    /\ status[q] \in NonTerminal /\ status[r] \in NonTerminal
    => q = r

\* Withdrawals alone never take out more than was put in: whatever a wallet is
\* short of, billing has charged.  Two concurrent requests cannot both spend
\* the same balance.
WithdrawalsCovered ==
  \A u \in Users : balance[u] + charged[u] >= 0

\* The rolling cap bounds what leaves per user and day, under concurrent
\* requests and with refunds giving their share of the cap back.
DailyCapHeld ==
  \A u \in Users : SpentInDay(u) <= DailyCap

\* The ledger and the requests tell the same story at every commit: a wallet
\* is what it started with, less charges, less every request not refunded.
MoneyConserved ==
  \A u \in Users :
    balance[u] = InitialBalance - charged[u]
                 - Total({r \in Requests : owner[r] = u /\ status[r] # "refunded"})

\* The money is where it should be: no overdraft by withdrawals, the cap held,
\* nothing created or destroyed.
MoneyKept == WithdrawalsCovered /\ DailyCapHeld /\ MoneyConserved

\* Once a hash is recorded the request is bound to that transfer for good: it
\* is never signed again and never loses track of a transfer it may have sent.
RecordedHashFixed ==
  [][\A r \in Requests :
       hash[r] # NoHash =>
         /\ hash'[r] = hash[r]
         /\ status'[r] \in {"submitted", "confirmed", "refunded"}]_vars

\* No accepted request is left waiting: crashes and recoveries included, it is
\* handed to the network or refunded.
RequestProcessed ==
  \A r \in Requests :
    status[r] \in {"pending", "submitting"}
      ~> status[r] \in {"submitted", "confirmed", "refunded"}

\* What the chain decided reaches the user: a mined transfer ends its request.
MinedSettles ==
  \A r \in Requests :
    (\E x \in receipts : x.tx.req = r) ~> status[r] \in {"confirmed", "refunded"}

\* Where the money of a request is, for the abstract specification.
FateOf(r) ==
  IF status[r] = "absent" THEN "none"
  ELSE IF status[r] = "refunded" THEN "returned"
  ELSE IF Paid(r) THEN "paid"
  ELSE "escrow"

Fate == [r \in Requests |-> FateOf(r)]

Promise == INSTANCE PayoutPromise WITH fate <- Fate

\* Every behaviour keeps the promise of PayoutPromise: out of escrow exactly
\* once, to the chain or back to the wallet, one amount in escrow per user.
PromiseKept == Promise!Spec
=============================================================================
