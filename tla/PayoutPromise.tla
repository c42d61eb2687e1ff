--------------------------- MODULE PayoutPromise ---------------------------
(***************************************************************************)
(* What a withdrawal promises its user, with no worker, no signing, no     *)
(* blockchain nonce and no crash in sight.                                 *)
(*                                                                         *)
(* The gross amount leaves the wallet when the request is accepted and is  *)
(* held in escrow.  From there it goes exactly one way: out of the hot     *)
(* wallet to the user's address, or back into the user's wallet.  A user   *)
(* has at most one amount in escrow.  Withdrawals implements this          *)
(* specification under the mapping given there.                            *)
(***************************************************************************)
EXTENDS Integers

CONSTANTS Users,      \* wallet owners
          NoUser,     \* the owner of a request that does not exist yet
          Requests,   \* identifiers of withdrawal requests
          Amounts     \* gross amounts a user may ask for

VARIABLES fate,       \* where the money of a request is
          owner,      \* the user who asked
          amount,     \* the gross amount asked for
          balance     \* the wallet of each user

promiseVars == <<fate, owner, amount, balance>>

Fates == {"none", "escrow", "paid", "returned"}

Init ==
  /\ fate = [r \in Requests |-> "none"]
  /\ owner = [r \in Requests |-> NoUser]
  /\ amount = [r \in Requests |-> 0]
  /\ balance \in [Users -> Int]

\* A request is accepted: its amount moves from the wallet to escrow.
Open(r, u, a) ==
  /\ fate[r] = "none"
  /\ \A q \in Requests : owner[q] = u => fate[q] # "escrow"
  /\ fate' = [fate EXCEPT ![r] = "escrow"]
  /\ owner' = [owner EXCEPT ![r] = u]
  /\ amount' = [amount EXCEPT ![r] = a]
  /\ balance' = [balance EXCEPT ![u] = @ - a]

\* The transfer to the user's address happens on chain.
Pay(r) ==
  /\ fate[r] = "escrow"
  /\ fate' = [fate EXCEPT ![r] = "paid"]
  /\ UNCHANGED <<owner, amount, balance>>

\* The amount goes back to the wallet it came from.
Return(r) ==
  /\ fate[r] = "escrow"
  /\ fate' = [fate EXCEPT ![r] = "returned"]
  /\ balance' = [balance EXCEPT ![owner[r]] = @ + amount[r]]
  /\ UNCHANGED <<owner, amount>>

\* Something else the user pays for: traffic, or an administrator's adjustment.
Charge(u) ==
  /\ balance'[u] <= balance[u]
  /\ balance' = [balance EXCEPT ![u] = balance'[u]]
  /\ UNCHANGED <<fate, owner, amount>>

Next ==
  \/ \E r \in Requests, u \in Users, a \in Amounts : Open(r, u, a)
  \/ \E r \in Requests : Pay(r) \/ Return(r)
  \/ \E u \in Users : Charge(u)

Spec == Init /\ [][Next]_promiseVars
=============================================================================
