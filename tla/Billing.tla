------------------------------ MODULE Billing ------------------------------
(***************************************************************************)
(* Traffic billing: poll_traffic_once reads the byte counters of each      *)
(* listing's inbound from the panel, resets the client counters, and turns *)
(* the difference to the recorded anchors into usage rows; at the end of   *)
(* the cycle it wipes the inbound counters of the whole panel and disables *)
(* the configs that reached their volume cap.                              *)
(*                                                                         *)
(* Callers are the jobs that run a cycle.  The scheduler never overlaps a  *)
(* job with itself, but enforce_balances_once calls poll_traffic_once too, *)
(* from a job of its own.                                                  *)
(*                                                                         *)
(* Money is counted in bytes: the debit of a buyer and the credit of a     *)
(* seller are the billed bytes times a price.  With traffic_reset_enabled  *)
(* off, every reset behaves like one that failed without effect.           *)
(***************************************************************************)
EXTENDS Integers, FiniteSets, FiniteSetsExt

CONSTANTS
  Listings,      \* ids of provisioned listings
  Configs,       \* buyers' configs
  HostOf,        \* the listing each config is a client of
  Callers,       \* the jobs that run a poll cycle
  NoListing,     \* a cycle between two listings
  Cap,           \* the volume cap of each config; 0 when it has none
  MinBillable,   \* _MIN_BILLABLE_BYTES
  MaxUsed,       \* bound: bytes each config moves
  MaxFaults      \* bound: failed calls, aborted cycles and status changes

ASSUME BillingAssumption ==
  /\ Listings \subseteq Nat /\ NoListing \notin Listings
  /\ HostOf \in [Configs -> Listings]
  /\ Cap \in [Configs -> Nat]
  /\ MinBillable \in Nat /\ MaxUsed \in [Configs -> Nat] /\ MaxFaults \in Nat

VARIABLES
  used,          \* bytes each config has moved
  carried,       \* bytes each inbound has carried
  clientBytes,   \* panel: counter of each client
  inboundBytes,  \* panel: up + down of each inbound
  anchor,        \* configs.last_snapshot_bytes
  outAnchor,     \* listings.last_outbound_up_bytes + last_outbound_down_bytes
  billed,        \* SUM(config_usage.delta_total_bytes)
  credited,      \* SUM(outbound_usage.delta_total_bytes)
  active,        \* configs with status active
  pc,            \* where each caller's cycle stands
  todo,          \* listings the cycle still has to process
  done,          \* processed_ids
  at,            \* the listing being processed
  seen,          \* the clients its snapshot covers
  clientSnap,    \* their counters in the snapshot
  inboundSnap,   \* the inbound's counter in the snapshot
  cleared,       \* reset_succeeded
  wiped,         \* outbound_reset_ok
  faults,        \* faults so far
  forgiven,      \* history: bytes billed as less than the minimum
  leaked,        \* history: bytes that passed between a read and its reset
  excused        \* history: configs that lost bytes to a named failure

panelVars   == <<clientBytes, inboundBytes>>
trafficVars == <<used, carried>>
dbVars      == <<anchor, outAnchor, billed, credited, active>>
cycleVars   == <<pc, todo, done, at, seen, clientSnap, inboundSnap, cleared, wiped>>
history     == <<forgiven, leaked, excused>>
vars == <<panelVars, trafficVars, dbVars, cycleVars, faults, history>>

-----------------------------------------------------------------------------

PcStates == {"idle", "read", "reset", "bill", "wipe", "settle", "quota"}

Clients(l) == {c \in Configs : HostOf[c] = l}

\* Mutant of Delta: nobody thinks of a counter the panel has reset.
DeltaUnchecked(now, prev) == now - prev

\* The billed difference; a counter below its anchor was reset on the panel.
Delta(now, prev) == IF now < prev THEN now ELSE now - prev

Billable(d) == IF d >= MinBillable THEN d ELSE 0

Fault == faults < MaxFaults /\ faults' = faults + 1

\* Caller k goes to p, and only its program counter of the cycle changes.
Goto(k, p) == pc' = [pc EXCEPT ![k] = p]

NoBytes == [c \in Configs |-> 0]

\* What caller k knows of a listing goes out of scope.
Forget(k) ==
  /\ at' = [at EXCEPT ![k] = NoListing]
  /\ seen' = [seen EXCEPT ![k] = {}]
  /\ clientSnap' = [clientSnap EXCEPT ![k] = NoBytes]
  /\ inboundSnap' = [inboundSnap EXCEPT ![k] = 0]
  /\ cleared' = [cleared EXCEPT ![k] = FALSE]

EndCycle(k) ==
  /\ todo' = [todo EXCEPT ![k] = {}]
  /\ done' = [done EXCEPT ![k] = {}]
  /\ wiped' = [wiped EXCEPT ![k] = FALSE]
  /\ Goto(k, "idle")

\* Caller k is done with listing l.
Leave(k, l) ==
  /\ todo' = [todo EXCEPT ![k] = @ \ {l}]
  /\ Goto(k, IF todo[k] = {l} THEN "wipe" ELSE "read")

Init ==
  /\ used = [c \in Configs |-> 0] /\ carried = [l \in Listings |-> 0]
  /\ clientBytes = [c \in Configs |-> 0] /\ inboundBytes = [l \in Listings |-> 0]
  /\ anchor = [c \in Configs |-> 0] /\ outAnchor = [l \in Listings |-> 0]
  /\ billed = [c \in Configs |-> 0] /\ credited = [l \in Listings |-> 0]
  /\ active = Configs
  /\ pc = [k \in Callers |-> "idle"]
  /\ todo = [k \in Callers |-> {}] /\ done = [k \in Callers |-> {}]
  /\ at = [k \in Callers |-> NoListing]
  /\ seen = [k \in Callers |-> {}]
  /\ clientSnap = [k \in Callers |-> NoBytes]
  /\ inboundSnap = [k \in Callers |-> 0]
  /\ cleared = [k \in Callers |-> FALSE] /\ wiped = [k \in Callers |-> FALSE]
  /\ faults = 0
  /\ forgiven = [c \in Configs |-> 0] /\ leaked = [c \in Configs |-> 0]
  /\ excused = {}

-----------------------------------------------------------------------------
(* The panel.                                                              *)

\* A client moves a byte: its own counter and its inbound's advance.
Traffic(c) ==
  /\ used[c] < MaxUsed[c]
  /\ used' = [used EXCEPT ![c] = @ + 1]
  /\ carried' = [carried EXCEPT ![HostOf[c]] = @ + 1]
  /\ clientBytes' = [clientBytes EXCEPT ![c] = @ + 1]
  /\ inboundBytes' = [inboundBytes EXCEPT ![HostOf[c]] = @ + 1]
  /\ UNCHANGED <<dbVars, cycleVars, faults, history>>

\* resetAllClientTraffics on the listing caller k is at.
ClearClients(k) ==
  clientBytes' = [c \in Configs |-> IF HostOf[c] = at[k] THEN 0 ELSE clientBytes[c]]

-----------------------------------------------------------------------------
(* poll_traffic_once and _process_listing.                                 *)

\* List every provisioned listing that is not deleted.
Begin(k) ==
  /\ pc[k] = "idle"
  /\ todo' = [todo EXCEPT ![k] = Listings]
  /\ Goto(k, "read")
  /\ UNCHANGED <<panelVars, trafficVars, dbVars, done, at, seen, clientSnap, inboundSnap,
                 cleared, wiped, faults, history>>

\* Read the snapshot of the next listing.  It lacks the clients whose counter
\* the panel did not give when it was asked for them one by one: buyers' clients,
\* or the probe client that every inbound has.  With no client in it at all
\* there is nothing to reset.
Read(k, l, S, probe) ==
  /\ pc[k] = "read"
  /\ l \in todo[k] /\ \A m \in todo[k] : l <= m
  /\ S \subseteq Clients(l)
  /\ IF S = Clients(l) THEN UNCHANGED faults ELSE Fault
  /\ at' = [at EXCEPT ![k] = l]
  /\ seen' = [seen EXCEPT ![k] = S]
  /\ clientSnap' = [clientSnap EXCEPT ![k] =
                      [c \in Configs |-> IF c \in S THEN clientBytes[c] ELSE 0]]
  /\ inboundSnap' = [inboundSnap EXCEPT ![k] = inboundBytes[l]]
  /\ Goto(k, IF S = {} /\ ~probe THEN "bill" ELSE "reset")
  /\ UNCHANGED <<panelVars, trafficVars, dbVars, todo, done, cleared, wiped, history>>

\* The panel does not answer: the listing is skipped in this cycle.
ReadFails(k, l) ==
  /\ pc[k] = "read"
  /\ l \in todo[k] /\ \A m \in todo[k] : l <= m
  /\ Fault
  /\ Leave(k, l)
  /\ UNCHANGED <<panelVars, trafficVars, dbVars, done, at, seen, clientSnap,
                 inboundSnap, cleared, wiped, history>>

\* The client counters go to zero.  What passed since the read is gone, and so
\* is what the snapshot did not cover.
Reset(k) ==
  /\ pc[k] = "reset"
  /\ ClearClients(k)
  /\ cleared' = [cleared EXCEPT ![k] = TRUE]
  /\ leaked' = [c \in Configs |->
                  IF c \in seen[k] THEN leaked[c] + clientBytes[c] - clientSnap[k][c]
                                   ELSE leaked[c]]
  /\ excused' = excused \cup (Clients(at[k]) \ seen[k])
  /\ Goto(k, "bill")
  /\ UNCHANGED <<inboundBytes, trafficVars, dbVars, todo, done, at, seen, clientSnap,
                 inboundSnap, wiped, faults, forgiven>>

\* The reset is reported as failed: it had no effect, or only its answer was
\* lost.
ResetFails(k) ==
  /\ pc[k] = "reset"
  /\ Fault
  /\ \/ UNCHANGED <<clientBytes, excused>>
     \/ /\ ClearClients(k)
        /\ excused' = excused \cup Clients(at[k])
  /\ Goto(k, "bill")
  /\ UNCHANGED <<inboundBytes, trafficVars, dbVars, todo, done, at, seen, clientSnap,
                 inboundSnap, cleared, wiped, forgiven, leaked>>

\* _bill_inbound and its commit, under the lock on the listing row: the seller
\* is credited from the inbound's difference, each active config of the
\* snapshot is billed from its own, and the readings become their anchors.
BillWith(k, readings) ==
  LET l == at[k]
      S == seen[k] \cap active
      d(c) == Delta(clientSnap[k][c], anchor[c])
  IN
  /\ pc[k] = "bill"
  /\ billed' = [c \in Configs |-> IF c \in S THEN billed[c] + Billable(d(c)) ELSE billed[c]]
  /\ forgiven' = [c \in Configs |-> IF c \in S THEN forgiven[c] + d(c) - Billable(d(c))
                                              ELSE forgiven[c]]
  /\ anchor' = [c \in Configs |-> IF c \in S THEN readings[c] ELSE anchor[c]]
  /\ credited' = [credited EXCEPT ![l] = @ + Billable(Delta(inboundSnap[k], outAnchor[l]))]
  /\ outAnchor' = [outAnchor EXCEPT ![l] = inboundSnap[k]]
  /\ excused' = IF cleared[k] THEN excused \cup (seen[k] \ active) ELSE excused
  /\ done' = [done EXCEPT ![k] = @ \cup {l}]
  /\ Leave(k, l) /\ Forget(k)
  /\ UNCHANGED <<panelVars, trafficVars, active, wiped, faults, leaked>>

\* Mutant of Bill: the anchor goes to zero though the reset failed.
BillForgetsAnchor(k) == BillWith(k, NoBytes)

\* Mutant of Bill: the anchor is the reading though the reset succeeded.
BillKeepsAnchor(k) == BillWith(k, clientSnap[k])

\* The new anchor is what the panel's counter stands at: zero after a
\* successful reset, the reading otherwise.
Bill(k) == BillWith(k, IF cleared[k] THEN NoBytes ELSE clientSnap[k])

\* The billing transaction fails.  After a successful reset what it held is
\* lost, which the code accepts and logs.  An IntegrityError is taken for a cycle
\* billed before, and the listing counts as processed.
BillFails(k) ==
  /\ pc[k] = "bill"
  /\ Fault
  /\ done' = [done EXCEPT ![k] = @ \cup {at[k]}] \/ UNCHANGED done
  /\ excused' = IF cleared[k] THEN excused \cup seen[k] ELSE excused
  /\ Leave(k, at[k]) /\ Forget(k)
  /\ UNCHANGED <<panelVars, trafficVars, dbVars, wiped, forgiven, leaked>>

\* resetAllTraffics zeroes the counter of every inbound of the panel, unless
\* no listing was processed.
Wipe(k) ==
  /\ pc[k] = "wipe"
  /\ wiped' = [wiped EXCEPT ![k] = done[k] # {}]
  /\ IF done[k] # {} THEN inboundBytes' = [l \in Listings |-> 0]
                     ELSE UNCHANGED inboundBytes
  /\ Goto(k, "settle")
  /\ UNCHANGED <<clientBytes, trafficVars, dbVars, todo, done, at, seen, clientSnap,
                 inboundSnap, cleared, faults, history>>

\* resetAllTraffics is reported as failed, with or without effect.
WipeFails(k) ==
  /\ pc[k] = "wipe"
  /\ done[k] # {}
  /\ Fault
  /\ wiped' = [wiped EXCEPT ![k] = FALSE]
  /\ inboundBytes' = [l \in Listings |-> 0] \/ UNCHANGED inboundBytes
  /\ Goto(k, "settle")
  /\ UNCHANGED <<clientBytes, trafficVars, dbVars, todo, done, at, seen, clientSnap,
                 inboundSnap, cleared, history>>

\* Mutant of Settle: the anchors are zeroed whether or not the wipe succeeded.
SettleAlways(k) ==
  /\ pc[k] = "settle"
  /\ outAnchor' = [l \in Listings |-> IF l \in done[k] THEN 0 ELSE outAnchor[l]]
  /\ Goto(k, "quota")
  /\ UNCHANGED <<panelVars, trafficVars, anchor, billed, credited, active, todo, done,
                 at, seen, clientSnap, inboundSnap, cleared, wiped, faults, history>>

\* After a successful wipe the processed listings start from zero.
Settle(k) ==
  /\ pc[k] = "settle"
  /\ outAnchor' = [l \in Listings |-> IF wiped[k] /\ l \in done[k] THEN 0 ELSE outAnchor[l]]
  /\ Goto(k, "quota")
  /\ UNCHANGED <<panelVars, trafficVars, anchor, billed, credited, active, todo, done,
                 at, seen, clientSnap, inboundSnap, cleared, wiped, faults, history>>

\* Mutant of Quota: a config that moved exactly its cap goes on.
QuotaPastCap(k) ==
  /\ pc[k] = "quota"
  /\ active' = {c \in active : Cap[c] = 0 \/ billed[c] <= Cap[c]}
  /\ EndCycle(k)
  /\ UNCHANGED <<panelVars, trafficVars, anchor, outAnchor, billed, credited, at, seen,
                 clientSnap, inboundSnap, cleared, faults, history>>

\* enforce_quotas_once: configs that were billed their cap are disabled.
Quota(k) ==
  /\ pc[k] = "quota"
  /\ active' = {c \in active : Cap[c] = 0 \/ billed[c] < Cap[c]}
  /\ EndCycle(k)
  /\ UNCHANGED <<panelVars, trafficVars, anchor, outAnchor, billed, credited, at, seen,
                 clientSnap, inboundSnap, cleared, faults, history>>

\* The cycle ends early: the process dies, or a database error that no handler
\* of the cycle catches.
Abort(k) ==
  /\ pc[k] # "idle"
  /\ Fault
  /\ EndCycle(k) /\ Forget(k)
  /\ excused' = IF pc[k] = "bill" /\ cleared[k] THEN excused \cup seen[k] ELSE excused
  /\ UNCHANGED <<panelVars, trafficVars, dbVars, forgiven, leaked>>

\* Other code disables a config, or enables it again.
Toggle(c) ==
  /\ Fault
  /\ active' = IF c \in active THEN active \ {c} ELSE active \cup {c}
  /\ UNCHANGED <<panelVars, trafficVars, anchor, outAnchor, billed, credited, cycleVars,
                 history>>

-----------------------------------------------------------------------------

Cycle(k) ==
  \/ Begin(k)
  \/ \E l \in Listings :
       \/ \E S \in SUBSET Clients(l), probe \in BOOLEAN : Read(k, l, S, probe)
       \/ ReadFails(k, l)
  \/ Reset(k) \/ ResetFails(k)
  \/ Bill(k) \/ BillFails(k)
  \/ Wipe(k) \/ WipeFails(k)
  \/ Settle(k)
  \/ Quota(k)

Next ==
  \/ \E k \in Callers : Cycle(k) \/ Abort(k)
  \/ \E c \in Configs : Traffic(c) \/ Toggle(c)

Spec == Init /\ [][Next]_vars

\* The scheduler runs the poll job again and again.
FairSpec == Spec /\ \A k \in Callers : WF_vars(Cycle(k))

-----------------------------------------------------------------------------
(* Properties.                                                             *)

TypeOK ==
  /\ used \in [Configs -> Nat] /\ carried \in [Listings -> Nat]
  /\ clientBytes \in [Configs -> Nat] /\ inboundBytes \in [Listings -> Nat]
  /\ anchor \in [Configs -> Nat] /\ outAnchor \in [Listings -> Nat]
  /\ billed \in [Configs -> Nat] /\ credited \in [Listings -> Nat]
  /\ active \subseteq Configs
  /\ pc \in [Callers -> PcStates]
  /\ todo \in [Callers -> SUBSET Listings] /\ done \in [Callers -> SUBSET Listings]
  /\ at \in [Callers -> Listings \cup {NoListing}]
  /\ \A k \in Callers : pc[k] \in {"reset", "bill"} <=> at[k] # NoListing
  /\ seen \in [Callers -> SUBSET Configs]
  /\ \A k \in Callers : at[k] # NoListing => seen[k] \subseteq Clients(at[k])
  /\ clientSnap \in [Callers -> [Configs -> Nat]]
  /\ inboundSnap \in [Callers -> Nat]
  /\ cleared \in [Callers -> BOOLEAN] /\ wiped \in [Callers -> BOOLEAN]
  /\ faults \in Nat
  /\ forgiven \in [Configs -> Nat] /\ leaked \in [Configs -> Int]
  /\ excused \subseteq Configs

\* A buyer never pays for more bytes than the config moved, whichever reset,
\* read or commit failed on the way.
BuyerNeverOverbilled ==
  \A c \in Configs : billed[c] + forgiven[c] <= used[c]

\* A seller is never credited more bytes than the inbound carried, though the
\* inbound counters are wiped for all listings at once and the anchors only of
\* the processed ones.
SellerNeverOvercredited ==
  \A l \in Listings : credited[l] <= carried[l]

\* The bytes of config c that the next cycles will still bill.
Unbilled(c) ==
  LET holding == {k \in Callers : at[k] = HostOf[c] /\ c \in seen[k] /\ cleared[k]} IN
  IF holding = {} THEN Delta(clientBytes[c], anchor[c])
  ELSE LET k == CHOOSE j \in holding : TRUE IN
       Delta(clientSnap[k][c], anchor[c]) + clientBytes[c]

\* No byte of a buyer goes missing except in the ways the code accepts: below
\* the billable minimum, between a read and its reset, or in a named failure
\* after which the config is excused: a reset after a read that missed the config
\* or that is reported as failed, or a billing that fails or finds the config
\* disabled after the reset.  A failed read, a failed reset that had no effect, a
\* read that missed every client and a cycle that ends before its reset lose nothing.
NothingLost ==
  \A c \in Configs \ excused :
    used[c] = billed[c] + forgiven[c] + leaked[c] + Unbilled(c)

\* A config that was billed its volume cap is disabled in the end.
CapStops ==
  \A c \in {d \in Configs : Cap[d] > 0} : billed[c] >= Cap[c] ~> c \notin active
=============================================================================
