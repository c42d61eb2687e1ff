---------------------------- MODULE TopUpPromise ----------------------------
(***************************************************************************)
(* What a top-up promises its user, with no callback repeated, no request  *)
(* racing another, no lock and no gateway vocabulary in sight.             *)
(*                                                                         *)
(* An order has a price.  The gateway says, as often and in any order it   *)
(* likes, how much of the price arrived.  The order is settled once, in    *)
(* one step and for good: credited with an amount the gateway named, or    *)
(* declined because it named less than is worth crediting.  TopUp          *)
(* implements this specification under the mapping given there.            *)
(***************************************************************************)
EXTENDS Integers

CONSTANTS Orders,     \* identifiers of top-ups
          Amounts,    \* prices
          MinCredit   \* less than this is not credited, short of the price

VARIABLES fate,       \* where an order stands
          due,        \* its price
          arrived,    \* the amounts the gateway has named for it
          ledger      \* what wallets were credited with

promiseVars == <<fate, due, arrived, ledger>>

Init ==
  /\ fate = [o \in Orders |-> "none"]
  /\ due = [o \in Orders |-> 0]
  /\ arrived = [o \in Orders |-> {}]
  /\ ledger = {}

\* The user asks for a top-up.
Ask(o, a) ==
  /\ fate[o] = "none"
  /\ fate' = [fate EXCEPT ![o] = "waiting"]
  /\ due' = [due EXCEPT ![o] = a]
  /\ UNCHANGED <<arrived, ledger>>

\* The gateway names what arrived: anything from nothing to the price.
Name(o, x) ==
  /\ fate[o] # "none"
  /\ arrived' = [arrived EXCEPT ![o] = @ \cup {x}]
  /\ UNCHANGED <<fate, due, ledger>>

\* The wallet gets an amount the gateway named: the price, or enough of it.
Credit(o, x) ==
  /\ fate[o] = "waiting"
  /\ x \in arrived[o]
  /\ x = due[o] \/ x >= MinCredit
  /\ fate' = [fate EXCEPT ![o] = "credited"]
  /\ ledger' = ledger \cup {[order |-> o, amount |-> x]}
  /\ UNCHANGED <<due, arrived>>

\* The order ends without a credit: what arrived is not worth one.
Decline(o) ==
  /\ fate[o] = "waiting"
  /\ \E x \in arrived[o] : x < MinCredit
  /\ fate' = [fate EXCEPT ![o] = "declined"]
  /\ UNCHANGED <<due, arrived, ledger>>

Next ==
  \E o \in Orders :
    \/ \E a \in Amounts : Ask(o, a)
    \/ \E x \in 0..due[o] : Name(o, x) \/ Credit(o, x)
    \/ Decline(o)

Spec == Init /\ [][Next]_promiseVars
=============================================================================
