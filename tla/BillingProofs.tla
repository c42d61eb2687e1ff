--------------------------- MODULE BillingProofs ---------------------------
(***************************************************************************)
(* Proofs about Billing.  The safety theorems assume that one job at a     *)
(* time runs a poll cycle: BillingOverlap shows what happens otherwise.    *)
(*                                                                         *)
(* The inductive invariant follows each byte.  ClientInv says how far the  *)
(* panel's counter, the snapshot in hand and the anchor of a config may be *)
(* apart for the next bills to stay within what the config moved, and that *)
(* they are exactly apart by what is still to be billed unless the config  *)
(* is excused.  InboundInv says the first of these for a listing.          *)
(***************************************************************************)
EXTENDS Billing, TLAPS

\* The scheduler runs one poll cycle at a time.
OneCaller == \A j, k \in Callers : j = k

-----------------------------------------------------------------------------
(* Type correctness.                                                       *)

LEMMA DeltaType ==
  ASSUME NEW x \in Nat, NEW y \in Nat
  PROVE  /\ Delta(x, y) \in Nat
         /\ Delta(x, y) <= x
BY DEF Delta

LEMMA BillableType ==
  ASSUME NEW d \in Nat
  PROVE  Billable(d) \in Nat /\ Billable(d) <= d
BY BillingAssumption DEF Billable, BillingAssumption

\* A function stays in its set when one value is replaced by another of its range.
LEMMA Updated ==
  ASSUME NEW S, NEW T, NEW f \in [S -> T], NEW x \in S, NEW v \in T
  PROVE  [f EXCEPT ![x] = v] \in [S -> T]
OBVIOUS

LEMMA TypeInitial == Init => TypeOK
BY BillingAssumption DEF Init, TypeOK, PcStates, NoBytes, BillingAssumption

\* What the bill transaction writes has the right types.
LEMMA BillTypes ==
  ASSUME TypeOK, NEW k \in Callers, NEW r \in [Configs -> Nat], BillWith(k, r)
  PROVE  TypeOK'
<1>1. at[k] \in Listings
  BY DEF BillWith, TypeOK
<1>2. \A c \in Configs :
        /\ Billable(Delta(clientSnap[k][c], anchor[c])) \in Nat
        /\ Delta(clientSnap[k][c], anchor[c]) - Billable(Delta(clientSnap[k][c], anchor[c])) \in Nat
  <2> TAKE c \in Configs
  <2>1. clientSnap[k][c] \in Nat /\ anchor[c] \in Nat
    BY DEF TypeOK
  <2>2. Delta(clientSnap[k][c], anchor[c]) \in Nat
    BY <2>1, DeltaType
  <2>3. QED
    BY <2>2, BillableType
<1>3. Billable(Delta(inboundSnap[k], outAnchor[at[k]])) \in Nat
  BY <1>1, DeltaType, BillableType DEF TypeOK
<1>4. /\ billed' \in [Configs -> Nat]
      /\ forgiven' \in [Configs -> Nat]
      /\ anchor' \in [Configs -> Nat]
  BY <1>2 DEF BillWith, TypeOK
<1>5. credited' \in [Listings -> Nat] /\ outAnchor' \in [Listings -> Nat]
  BY <1>1, <1>3 DEF BillWith, TypeOK
<1>6. /\ pc' \in [Callers -> PcStates]
      /\ todo' \in [Callers -> SUBSET Listings] /\ done' \in [Callers -> SUBSET Listings]
  BY <1>1 DEF BillWith, Leave, Goto, TypeOK, PcStates
<1>7. /\ at' \in [Callers -> Listings \cup {NoListing}]
      /\ seen' \in [Callers -> SUBSET Configs]
      /\ clientSnap' \in [Callers -> [Configs -> Nat]]
      /\ inboundSnap' \in [Callers -> Nat]
      /\ cleared' \in [Callers -> BOOLEAN]
  BY DEF BillWith, Forget, TypeOK, NoBytes
<1>8. \A j \in Callers : /\ pc'[j] \in {"reset", "bill"} <=> at'[j] # NoListing
                         /\ at'[j] # NoListing => seen'[j] \subseteq Clients(at'[j])
  BY DEF BillWith, Leave, Goto, Forget, TypeOK
<1>9. excused' \subseteq Configs
  BY DEF BillWith, TypeOK
<1>10. QED
  BY <1>4, <1>5, <1>6, <1>7, <1>8, <1>9 DEF BillWith, TypeOK, panelVars, trafficVars

\* Every config is the client of a listing.
LEMMA HostType == ASSUME NEW c \in Configs PROVE HostOf[c] \in Listings
BY BillingAssumption DEF BillingAssumption

\* A byte of traffic is one more on four counters.
LEMMA TrafficTypes ==
  ASSUME TypeOK, NEW c \in Configs, Traffic(c)
  PROVE  /\ used' \in [Configs -> Nat] /\ clientBytes' \in [Configs -> Nat]
         /\ carried' \in [Listings -> Nat] /\ inboundBytes' \in [Listings -> Nat]
<1>1. used' \in [Configs -> Nat] /\ clientBytes' \in [Configs -> Nat]
  BY DEF Traffic, TypeOK
<1>2. PICK l \in Listings : HostOf[c] = l
  BY HostType
<1>3. /\ carried' = [carried EXCEPT ![l] = @ + 1]
      /\ inboundBytes' = [inboundBytes EXCEPT ![l] = @ + 1]
  BY <1>2 DEF Traffic
<1>4. QED
  BY <1>1, <1>2, <1>3 DEF TypeOK

\* Every step keeps the types.
LEMMA TypePreserved == TypeOK /\ [Next]_vars => TypeOK'
<1> SUFFICES ASSUME TypeOK, [Next]_vars PROVE TypeOK'
  OBVIOUS
<1> USE BillingAssumption DEF BillingAssumption
<1>1. ASSUME NEW c \in Configs, Traffic(c) PROVE TypeOK'
  <2>1. /\ used' \in [Configs -> Nat] /\ clientBytes' \in [Configs -> Nat]
        /\ carried' \in [Listings -> Nat] /\ inboundBytes' \in [Listings -> Nat]
    BY <1>1, TrafficTypes
  <2>2. QED
    BY <1>1, <2>1 DEF Traffic, TypeOK, dbVars, cycleVars, history
<1>2. ASSUME NEW c \in Configs, Toggle(c) PROVE TypeOK'
  BY <1>2 DEF Toggle, Fault, TypeOK, panelVars, trafficVars, cycleVars, history
<1>3. ASSUME NEW k \in Callers, Begin(k) PROVE TypeOK'
  BY <1>3 DEF Begin, Goto, TypeOK, PcStates, panelVars, trafficVars, dbVars, history
<1>4. ASSUME NEW k \in Callers, NEW l \in Listings, NEW S \in SUBSET Clients(l),
             NEW probe \in BOOLEAN, Read(k, l, S, probe)
      PROVE  TypeOK'
  <2>1. faults' \in Nat /\ S \subseteq Configs
    BY <1>4 DEF Read, Fault, TypeOK, Clients
  <2>2. /\ pc' \in [Callers -> PcStates]
        /\ at' \in [Callers -> Listings \cup {NoListing}]
        /\ seen' \in [Callers -> SUBSET Configs]
        /\ clientSnap' \in [Callers -> [Configs -> Nat]]
        /\ inboundSnap' \in [Callers -> Nat]
    BY <1>4, <2>1 DEF Read, Goto, TypeOK, PcStates
  <2>3. \A j \in Callers : /\ pc'[j] \in {"reset", "bill"} <=> at'[j] # NoListing
                           /\ at'[j] # NoListing => seen'[j] \subseteq Clients(at'[j])
    BY <1>4, <2>1 DEF Read, Goto, TypeOK
  <2>4. QED
    BY <1>4, <2>1, <2>2, <2>3 DEF Read, TypeOK, panelVars, trafficVars, dbVars, history
<1>5. ASSUME NEW k \in Callers, NEW l \in Listings, ReadFails(k, l) PROVE TypeOK'
  BY <1>5 DEF ReadFails, Leave, Goto, Fault, TypeOK, PcStates, panelVars, trafficVars,
     dbVars, history
<1>6. ASSUME NEW k \in Callers, Reset(k) PROVE TypeOK'
  <2>1. /\ clientBytes' \in [Configs -> Nat] /\ leaked' \in [Configs -> Int]
        /\ excused' \subseteq Configs
    BY <1>6 DEF Reset, ClearClients, TypeOK, Clients
  <2>2. /\ pc' \in [Callers -> PcStates] /\ cleared' \in [Callers -> BOOLEAN]
        /\ \A j \in Callers : pc'[j] \in {"reset", "bill"} <=> at'[j] # NoListing
    BY <1>6 DEF Reset, Goto, TypeOK, PcStates
  <2>3. QED
    BY <1>6, <2>1, <2>2 DEF Reset, TypeOK, trafficVars, dbVars
<1>7. ASSUME NEW k \in Callers, ResetFails(k) PROVE TypeOK'
  <2>1. /\ clientBytes' \in [Configs -> Nat] /\ excused' \subseteq Configs
        /\ faults' \in Nat
    BY <1>7 DEF ResetFails, ClearClients, Fault, TypeOK, Clients
  <2>2. /\ pc' \in [Callers -> PcStates]
        /\ \A j \in Callers : pc'[j] \in {"reset", "bill"} <=> at'[j] # NoListing
    BY <1>7 DEF ResetFails, Goto, TypeOK, PcStates
  <2>3. QED
    BY <1>7, <2>1, <2>2 DEF ResetFails, TypeOK, trafficVars, dbVars
<1>8. ASSUME NEW k \in Callers, Bill(k) PROVE TypeOK'
  <2> DEFINE r == IF cleared[k] THEN NoBytes ELSE clientSnap[k]
  <2>1. r \in [Configs -> Nat]
    BY DEF TypeOK, NoBytes
  <2>2. BillWith(k, r)
    BY <1>8 DEF Bill
  <2>3. QED
    BY <2>1, <2>2, BillTypes
<1>9. ASSUME NEW k \in Callers, BillFails(k) PROVE TypeOK'
  <2>1. /\ pc' \in [Callers -> PcStates] /\ todo' \in [Callers -> SUBSET Listings]
        /\ faults' \in Nat /\ excused' \subseteq Configs
    BY <1>9 DEF BillFails, Leave, Goto, Fault, TypeOK, PcStates
  <2>2. done' \in [Callers -> SUBSET Listings]
    <3>1. at[k] \in Listings /\ done \in [Callers -> SUBSET Listings]
      BY <1>9 DEF BillFails, TypeOK
    <3>2. done' = [done EXCEPT ![k] = @ \cup {at[k]}] \/ done' = done
      BY <1>9 DEF BillFails
    <3>3. QED
      BY <3>1, <3>2
  <2>3. /\ at' \in [Callers -> Listings \cup {NoListing}]
        /\ seen' \in [Callers -> SUBSET Configs]
        /\ clientSnap' \in [Callers -> [Configs -> Nat]]
        /\ inboundSnap' \in [Callers -> Nat]
        /\ cleared' \in [Callers -> BOOLEAN]
    BY <1>9 DEF BillFails, Forget, TypeOK, NoBytes
  <2>4. \A j \in Callers : /\ pc'[j] \in {"reset", "bill"} <=> at'[j] # NoListing
                           /\ at'[j] # NoListing => seen'[j] \subseteq Clients(at'[j])
    BY <1>9 DEF BillFails, Leave, Goto, Forget, TypeOK
  <2>5. QED
    BY <1>9, <2>1, <2>2, <2>3, <2>4 DEF BillFails, TypeOK, panelVars, trafficVars, dbVars
<1>10. ASSUME NEW k \in Callers, Wipe(k) \/ WipeFails(k) PROVE TypeOK'
  <2>1. inboundBytes' \in [Listings -> Nat]
    BY <1>10 DEF Wipe, WipeFails, TypeOK
  <2>2. wiped' \in [Callers -> BOOLEAN]
    <3>1. wiped \in [Callers -> BOOLEAN] /\ (done[k] # {}) \in BOOLEAN /\ FALSE \in BOOLEAN
      BY DEF TypeOK
    <3>2. QED
      BY <1>10, <3>1, Updated DEF Wipe, WipeFails
  <2>3. faults' \in Nat
    BY <1>10 DEF Wipe, WipeFails, Fault, TypeOK
  <2>4. /\ pc' \in [Callers -> PcStates]
        /\ \A j \in Callers : pc'[j] \in {"reset", "bill"} <=> at'[j] # NoListing
    BY <1>10 DEF Wipe, WipeFails, Goto, TypeOK, PcStates
  <2>5. QED
    BY <1>10, <2>1, <2>2, <2>3, <2>4
    DEF Wipe, WipeFails, TypeOK, trafficVars, dbVars, history
<1>11. ASSUME NEW k \in Callers, Settle(k) PROVE TypeOK'
  <2>1. outAnchor' \in [Listings -> Nat]
    BY <1>11 DEF Settle, TypeOK
  <2>2. /\ pc' \in [Callers -> PcStates]
        /\ \A j \in Callers : pc'[j] \in {"reset", "bill"} <=> at'[j] # NoListing
    BY <1>11 DEF Settle, Goto, TypeOK, PcStates
  <2>3. QED
    BY <1>11, <2>1, <2>2 DEF Settle, TypeOK, panelVars, trafficVars, history
<1>12. ASSUME NEW k \in Callers, Quota(k) PROVE TypeOK'
  BY <1>12 DEF Quota, EndCycle, Goto, TypeOK, PcStates, panelVars, trafficVars, history
<1>13. ASSUME NEW k \in Callers, Abort(k) PROVE TypeOK'
  <2>1. /\ pc' \in [Callers -> PcStates] /\ todo' \in [Callers -> SUBSET Listings]
        /\ done' \in [Callers -> SUBSET Listings] /\ wiped' \in [Callers -> BOOLEAN]
        /\ faults' \in Nat /\ excused' \subseteq Configs
    BY <1>13 DEF Abort, EndCycle, Goto, Fault, TypeOK, PcStates
  <2>2. /\ at' \in [Callers -> Listings \cup {NoListing}]
        /\ seen' \in [Callers -> SUBSET Configs]
        /\ clientSnap' \in [Callers -> [Configs -> Nat]]
        /\ inboundSnap' \in [Callers -> Nat]
        /\ cleared' \in [Callers -> BOOLEAN]
    BY <1>13 DEF Abort, Forget, TypeOK, NoBytes
  <2>3. \A j \in Callers : /\ pc'[j] \in {"reset", "bill"} <=> at'[j] # NoListing
                           /\ at'[j] # NoListing => seen'[j] \subseteq Clients(at'[j])
    BY <1>13 DEF Abort, EndCycle, Goto, Forget, TypeOK
  <2>4. QED
    BY <1>13, <2>1, <2>2, <2>3 DEF Abort, TypeOK, panelVars, trafficVars, dbVars
<1>14. CASE UNCHANGED vars
  BY <1>14 DEF vars, panelVars, trafficVars, dbVars, cycleVars, history, TypeOK
<1>15. QED
  BY <1>1, <1>2, <1>3, <1>4, <1>5, <1>6, <1>7, <1>8, <1>9, <1>10, <1>11, <1>12, <1>13,
     <1>14 DEF Next, Cycle

\* Every variable of Billing keeps its type, however many jobs run cycles.
THEOREM TypeCorrect == Spec => []TypeOK
BY TypeInitial, TypePreserved, PTL DEF Spec

-----------------------------------------------------------------------------
(* Buyers.                                                                 *)

\* Caller k has config c in the snapshot it is working on.
Held(k, c) == at[k] = HostOf[c] /\ c \in seen[k]

\* Only a cycle about to bill has its reset behind it.
CycleInv == \A k \in Callers : cleared[k] => pc[k] = "bill"

\* What the counter of config c says beyond its anchor is at most what was not
\* billed, and exactly that when the config is not excused.
Reconciled(c) ==
  /\ billed[c] + forgiven[c] + Delta(clientBytes[c], anchor[c]) <= used[c]
  /\ c \notin excused /\ (\A k \in Callers : ~(Held(k, c) /\ cleared[k]))
     => /\ anchor[c] <= clientBytes[c]
        /\ used[c] = billed[c] + forgiven[c] + leaked[c] + clientBytes[c] - anchor[c]

\* The same while caller k holds a snapshot of it, whose counter it may bill.
ReconciledBy(k, c) ==
  LET s == clientSnap[k][c] IN
  /\ cleared[k] =>
       billed[c] + forgiven[c] + Delta(s, anchor[c]) + clientBytes[c] <= used[c]
  /\ ~cleared[k] =>
       billed[c] + forgiven[c] + Delta(s, anchor[c]) + Delta(clientBytes[c], s) <= used[c]
  /\ pc[k] = "reset" => s <= clientBytes[c]
  /\ c \notin excused =>
       /\ anchor[c] <= s
       /\ ~cleared[k] => s <= clientBytes[c]
       /\ cleared[k] =>
            used[c] = billed[c] + forgiven[c] + leaked[c] + s - anchor[c] + clientBytes[c]

ClientOK(c) ==
  /\ Reconciled(c)
  /\ \A k \in Callers : Held(k, c) => ReconciledBy(k, c)

ClientInv == \A c \in Configs : ClientOK(c)

BuyerInv == TypeOK /\ CycleInv /\ ClientInv

\* The variables ClientInv speaks of, but for the program counter.
clientVars == <<used, clientBytes, anchor, billed, forgiven, leaked, excused, at, seen,
                clientSnap, cleared>>

\* Steps that ClientInv has to be shown for; the others leave its variables
\* alone and no cycle enters or leaves a listing.
LEMMA ClientSteps ==
  ASSUME TypeOK, [Next]_vars
  PROVE  \/ \E c \in Configs : Traffic(c)
         \/ \E k \in Callers :
              \/ \E l \in Listings : \E S \in SUBSET Clients(l), probe \in BOOLEAN : Read(k, l, S, probe)
              \/ Reset(k) \/ ResetFails(k) \/ Bill(k) \/ BillFails(k) \/ Abort(k)
         \/ /\ UNCHANGED clientVars
            /\ \A k \in Callers : pc[k] \in {"reset", "bill"} \/ pc'[k] \in {"reset", "bill"}
                                  => pc'[k] = pc[k]
<1> DEFINE Still == /\ UNCHANGED clientVars
                    /\ \A k \in Callers :
                         pc[k] \in {"reset", "bill"} \/ pc'[k] \in {"reset", "bill"}
                         => pc'[k] = pc[k]
<1>1. ASSUME NEW k \in Callers, Begin(k) PROVE Still
  BY <1>1 DEF Begin, Goto, TypeOK, clientVars, panelVars, trafficVars, dbVars, history
<1>2. ASSUME NEW k \in Callers, NEW l \in Listings, ReadFails(k, l) PROVE Still
  BY <1>2 DEF ReadFails, Leave, Goto, TypeOK, clientVars, panelVars, trafficVars, dbVars,
     history
<1>3. ASSUME NEW k \in Callers, Wipe(k) \/ WipeFails(k) PROVE Still
  BY <1>3 DEF Wipe, WipeFails, Goto, TypeOK, clientVars, trafficVars, dbVars, history
<1>4. ASSUME NEW k \in Callers, Settle(k) PROVE Still
  BY <1>4 DEF Settle, Goto, TypeOK, clientVars, panelVars, trafficVars, history
<1>5. ASSUME NEW k \in Callers, Quota(k) PROVE Still
  BY <1>5 DEF Quota, EndCycle, Goto, TypeOK, clientVars, panelVars, trafficVars, history
<1>6. ASSUME NEW c \in Configs, Toggle(c) PROVE Still
  BY <1>6 DEF Toggle, clientVars, panelVars, trafficVars, cycleVars, history
<1>7. CASE UNCHANGED vars
  BY <1>7 DEF vars, clientVars, panelVars, trafficVars, dbVars, cycleVars, history
<1> HIDE DEF Still
<1>8. ASSUME NEW k \in Callers, Cycle(k)
      PROVE  \/ \E l \in Listings : \E S \in SUBSET Clients(l), probe \in BOOLEAN : Read(k, l, S, probe)
             \/ Reset(k) \/ ResetFails(k) \/ Bill(k) \/ BillFails(k)
             \/ Still
  BY <1>1, <1>2, <1>3, <1>4, <1>5, <1>8 DEF Cycle
<1>9. CASE Next
  BY <1>6, <1>8, <1>9 DEF Next, Still
<1>10. QED
  BY <1>7, <1>9 DEF Still

LEMMA CyclePreserved == TypeOK /\ CycleInv /\ [Next]_vars => CycleInv'
<1> SUFFICES ASSUME TypeOK, CycleInv, [Next]_vars, NEW j \in Callers, cleared'[j]
             PROVE  pc'[j] = "bill"
  BY DEF CycleInv
<1>1. ASSUME NEW c \in Configs, Traffic(c) PROVE pc'[j] = "bill"
  BY <1>1 DEF CycleInv, Traffic, cycleVars
<1>2. ASSUME NEW k \in Callers, NEW l \in Listings, NEW S \in SUBSET Clients(l),
             NEW probe \in BOOLEAN, Read(k, l, S, probe)
      PROVE  pc'[j] = "bill"
  BY <1>2 DEF CycleInv, Read, Goto, TypeOK
<1>3. ASSUME NEW k \in Callers, Reset(k) \/ ResetFails(k) PROVE pc'[j] = "bill"
  BY <1>3 DEF CycleInv, Reset, ResetFails, Goto, TypeOK
<1>4. ASSUME NEW k \in Callers, Bill(k) \/ BillFails(k) \/ Abort(k) PROVE pc'[j] = "bill"
  BY <1>4 DEF CycleInv, Bill, BillWith, BillFails, Abort, EndCycle, Leave, Forget, Goto, TypeOK
<1>5. CASE /\ UNCHANGED clientVars
           /\ \A k \in Callers : pc[k] \in {"reset", "bill"} \/ pc'[k] \in {"reset", "bill"}
                                 => pc'[k] = pc[k]
  BY <1>5 DEF CycleInv, clientVars
<1>6. QED
  BY <1>1, <1>2, <1>3, <1>4, <1>5, ClientSteps

\* The numbers ClientOK is about.
LEMMA ClientTypes ==
  ASSUME TypeOK, NEW c \in Configs
  PROVE  /\ used[c] \in Nat /\ clientBytes[c] \in Nat /\ anchor[c] \in Nat
         /\ billed[c] \in Nat /\ forgiven[c] \in Nat /\ leaked[c] \in Int
         /\ \A k \in Callers : clientSnap[k][c] \in Nat /\ cleared[k] \in BOOLEAN
BY DEF TypeOK

\* A byte of traffic adds one to what was used and to what is to be billed.
LEMMA ClientTraffic ==
  ASSUME BuyerInv, NEW c \in Configs, NEW d \in Configs, Traffic(d)
  PROVE  ClientOK(c)'
<1>1. /\ UNCHANGED <<anchor, billed, forgiven, leaked, excused, at, seen, clientSnap, cleared, pc>>
      /\ IF c = d THEN used'[c] = used[c] + 1 /\ clientBytes'[c] = clientBytes[c] + 1
                  ELSE used'[c] = used[c] /\ clientBytes'[c] = clientBytes[c]
  BY DEF Traffic, BuyerInv, TypeOK, dbVars, cycleVars, history
<1>2. ClientOK(c)
  BY DEF BuyerInv, ClientInv
<1>3. Reconciled(c)'
  BY <1>1, <1>2, ClientTypes DEF BuyerInv, ClientOK, Reconciled, Held, Delta
<1>4. ASSUME NEW k \in Callers, Held(k, c)' PROVE ReconciledBy(k, c)'
  BY <1>1, <1>2, <1>4, ClientTypes DEF BuyerInv, ClientOK, ReconciledBy, Held, Delta
<1>5. QED
  BY <1>3, <1>4 DEF ClientOK

\* A read takes the counter as the snapshot.
LEMMA ClientRead ==
  ASSUME BuyerInv, OneCaller, NEW c \in Configs, NEW k \in Callers, NEW l \in Listings,
         NEW S \in SUBSET Clients(l),
             NEW probe \in BOOLEAN, Read(k, l, S, probe)
  PROVE  ClientOK(c)'
<1>1. UNCHANGED <<used, clientBytes, anchor, billed, forgiven, leaked, excused, cleared>>
  BY DEF Read, panelVars, trafficVars, dbVars, history
<1>2. \A j \in Callers : j = k
  BY DEF OneCaller
<1>3. ~cleared[k]
  BY DEF Read, BuyerInv, CycleInv
<1>4. ClientOK(c)
  BY DEF BuyerInv, ClientInv
<1>5. Reconciled(c)'
  BY <1>1, <1>2, <1>3, <1>4 DEF ClientOK, Reconciled, Held
<1>6. ASSUME Held(k, c)' PROVE ReconciledBy(k, c)'
  <2>1. c \in S
    BY <1>6 DEF Held, Read, BuyerInv, TypeOK
  <2>2. clientSnap'[k][c] = clientBytes[c]
    BY <2>1 DEF Read, BuyerInv, TypeOK
  <2>3. /\ billed[c] + forgiven[c] + Delta(clientBytes[c], anchor[c]) <= used[c]
        /\ c \notin excused => anchor[c] <= clientBytes[c]
    BY <1>2, <1>3, <1>4 DEF ClientOK, Reconciled
  <2>4. QED
    BY <1>1, <1>3, <2>2, <2>3, ClientTypes DEF BuyerInv, ReconciledBy, Delta
<1>7. QED
  BY <1>2, <1>5, <1>6 DEF ClientOK

\* A reset loses what came after the read, and excuses whom the read missed.
LEMMA ClientReset ==
  ASSUME BuyerInv, OneCaller, NEW c \in Configs, NEW k \in Callers, Reset(k)
  PROVE  ClientOK(c)'
<1>1. UNCHANGED <<used, anchor, billed, forgiven, at, seen, clientSnap>>
  BY DEF Reset, trafficVars, dbVars
<1>2. \A j \in Callers : j = k
  BY DEF OneCaller
<1>3. pc[k] = "reset" /\ ~cleared[k] /\ cleared'[k] /\ pc'[k] = "bill"
  BY DEF Reset, Goto, BuyerInv, CycleInv, TypeOK
<1>4. ClientOK(c)
  BY DEF BuyerInv, ClientInv
<1>5. CASE Held(k, c)
  <2>1. /\ clientBytes'[c] = 0
        /\ leaked'[c] = leaked[c] + clientBytes[c] - clientSnap[k][c]
        /\ c \in excused' <=> c \in excused
    BY <1>5 DEF Held, Reset, ClearClients
  <2>2. Reconciled(c) /\ ReconciledBy(k, c)
    BY <1>4, <1>5 DEF ClientOK
  <2>3. /\ billed[c] + forgiven[c] + Delta(clientBytes[c], anchor[c]) <= used[c]
        /\ billed[c] + forgiven[c] + Delta(clientSnap[k][c], anchor[c])
             + Delta(clientBytes[c], clientSnap[k][c]) <= used[c]
        /\ c \notin excused =>
             /\ anchor[c] <= clientSnap[k][c] /\ clientSnap[k][c] <= clientBytes[c]
             /\ used[c] = billed[c] + forgiven[c] + leaked[c] + clientBytes[c] - anchor[c]
    BY <1>2, <1>3, <2>2 DEF Reconciled, ReconciledBy
  <2>4. Reconciled(c)'
    BY <1>1, <1>3, <1>5, <2>1, <2>3, ClientTypes DEF BuyerInv, Reconciled, Held, Delta
  <2>5. ReconciledBy(k, c)'
    BY <1>1, <1>3, <2>1, <2>3, ClientTypes DEF BuyerInv, ReconciledBy, Delta
  <2>6. QED
    BY <1>2, <2>4, <2>5 DEF ClientOK
<1>6. CASE ~Held(k, c)
  <2>1. ~Held(k, c)'
    BY <1>1, <1>6 DEF Held
  <2>2. /\ leaked'[c] = leaked[c]
        /\ \/ clientBytes'[c] = 0 /\ c \in excused'
           \/ clientBytes'[c] = clientBytes[c] /\ (c \in excused' <=> c \in excused)
    <3>1. at[k] \in Listings /\ seen[k] \subseteq Clients(at[k])
      BY <1>3 DEF BuyerInv, TypeOK
    <3>2. c \notin seen[k]
      BY <1>6, <3>1 DEF Held, Clients
    <3>3. QED
      BY <3>2 DEF Reset, ClearClients, Clients
  <2>3. Reconciled(c)
    BY <1>4 DEF ClientOK
  <2>4. Reconciled(c)'
    BY <1>1, <1>2, <1>6, <2>1, <2>2, <2>3, ClientTypes DEF BuyerInv, Reconciled, Delta
  <2>5. QED
    BY <1>2, <2>1, <2>4 DEF ClientOK
<1>7. QED
  BY <1>5, <1>6

\* A failed reset had no effect, or it excuses every client of the listing.
LEMMA ClientResetFails ==
  ASSUME BuyerInv, OneCaller, NEW c \in Configs, NEW k \in Callers, ResetFails(k)
  PROVE  ClientOK(c)'
<1>1. UNCHANGED <<used, anchor, billed, forgiven, leaked, at, seen, clientSnap, cleared>>
  BY DEF ResetFails, trafficVars, dbVars
<1>2. \A j \in Callers : j = k
  BY DEF OneCaller
<1>3. pc[k] = "reset" /\ ~cleared[k] /\ pc'[k] = "bill"
  BY DEF ResetFails, Goto, BuyerInv, CycleInv, TypeOK
<1>4. \/ clientBytes'[c] = clientBytes[c] /\ (c \in excused' <=> c \in excused)
      \/ clientBytes'[c] = 0 /\ c \in excused'
  BY DEF ResetFails, ClearClients, Clients
<1>5. Reconciled(c) /\ (Held(k, c) => ReconciledBy(k, c))
  BY DEF BuyerInv, ClientInv, ClientOK
<1>6. Reconciled(c)'
  BY <1>1, <1>2, <1>3, <1>4, <1>5, ClientTypes DEF BuyerInv, Reconciled, Delta
<1>7. ASSUME Held(k, c)' PROVE ReconciledBy(k, c)'
  <2>1. ReconciledBy(k, c)
    BY <1>1, <1>5, <1>7 DEF Held
  <2>2. QED
    BY <1>1, <1>3, <1>4, <2>1, ClientTypes DEF BuyerInv, ReconciledBy, Delta
<1>8. QED
  BY <1>2, <1>6, <1>7 DEF ClientOK

\* Once nothing of caller k's snapshot is held, ClientOK is Reconciled.
LEMMA Released ==
  ASSUME OneCaller, NEW c \in Configs, NEW k \in Callers, at'[k] = NoListing, Reconciled(c)'
  PROVE  ClientOK(c)'
<1>1. HostOf[c] # NoListing
  BY HostType, BillingAssumption DEF BillingAssumption
<1>2. QED
  BY <1>1 DEF ClientOK, Held, OneCaller

\* The bill takes over what the snapshot held.
LEMMA ClientBill ==
  ASSUME BuyerInv, OneCaller, NEW c \in Configs, NEW k \in Callers, Bill(k)
  PROVE  ClientOK(c)'
<1> DEFINE r == IF cleared[k] THEN NoBytes ELSE clientSnap[k]
           d == Delta(clientSnap[k][c], anchor[c])
<1>1. BillWith(k, r)
  BY DEF Bill
<1>2. \A j \in Callers : j = k
  BY DEF OneCaller
<1>3. /\ UNCHANGED <<used, clientBytes, leaked>>
      /\ at'[k] = NoListing /\ ~cleared'[k]
      /\ excused' = IF cleared[k] THEN excused \cup (seen[k] \ active) ELSE excused
  BY <1>1 DEF BillWith, Forget, panelVars, trafficVars, BuyerInv, TypeOK
<1>4. Reconciled(c) /\ (Held(k, c) => ReconciledBy(k, c))
  BY DEF BuyerInv, ClientInv, ClientOK
<1>5. d \in Nat /\ Billable(d) \in Nat
  BY DeltaType, BillableType, ClientTypes DEF BuyerInv
<1>6. c \in seen[k] => Held(k, c)
  BY <1>1 DEF BillWith, BuyerInv, TypeOK, Held, Clients
<1>7. CASE c \in seen[k] \cap active
  <2>1. /\ billed'[c] + forgiven'[c] = billed[c] + forgiven[c] + d
        /\ billed'[c] \in Int /\ forgiven'[c] \in Int
        /\ anchor'[c] = r[c]
        /\ c \in excused' <=> c \in excused
    <3>1. billed'[c] = billed[c] + Billable(d)
      BY <1>1, <1>7 DEF BillWith
    <3>2. forgiven'[c] = forgiven[c] + d - Billable(d)
      BY <1>1, <1>7 DEF BillWith
    <3>3. anchor'[c] = r[c]
      BY <1>1, <1>7 DEF BillWith
    <3>4. c \in excused' <=> c \in excused
      BY <1>3, <1>7
    <3> HIDE DEF d, r
    <3>5. billed[c] \in Nat /\ forgiven[c] \in Nat
      BY ClientTypes DEF BuyerInv
    <3>6. QED
      BY <1>5, <3>1, <3>2, <3>3, <3>4, <3>5
  <2>2. ReconciledBy(k, c)
    BY <1>4, <1>6, <1>7
  <2>3. CASE cleared[k]
    <3>1. anchor'[c] = 0
      BY <2>1, <2>3 DEF NoBytes
    <3>2. /\ billed[c] + forgiven[c] + d + clientBytes[c] <= used[c]
          /\ c \notin excused =>
               /\ d = clientSnap[k][c] - anchor[c]
               /\ used[c] = billed[c] + forgiven[c] + leaked[c] + d + clientBytes[c]
      BY <2>2, <2>3, ClientTypes DEF BuyerInv, ReconciledBy, Delta
    <3> HIDE DEF d, r
    <3>3. Reconciled(c)'
      BY <1>3, <1>5, <2>1, <3>1, <3>2, ClientTypes DEF BuyerInv, Reconciled, Delta
    <3>4. QED
      BY <1>3, <3>3, Released
  <2>4. CASE ~cleared[k]
    <3>1. anchor'[c] = clientSnap[k][c]
      BY <2>1, <2>4
    <3>2. /\ billed[c] + forgiven[c] + d + Delta(clientBytes[c], clientSnap[k][c]) <= used[c]
          /\ c \notin excused =>
               /\ clientSnap[k][c] <= clientBytes[c]
               /\ d = clientSnap[k][c] - anchor[c]
               /\ used[c] = billed[c] + forgiven[c] + leaked[c] + clientBytes[c] - anchor[c]
      BY <1>2, <1>4, <2>2, <2>4, ClientTypes DEF BuyerInv, Reconciled, ReconciledBy, Delta
    <3> HIDE DEF d, r
    <3>3. Reconciled(c)'
      BY <1>3, <1>5, <2>1, <3>1, <3>2, ClientTypes DEF BuyerInv, Reconciled, Delta
    <3>4. QED
      BY <1>3, <3>3, Released
  <2>5. QED
    BY <2>3, <2>4
<1>8. CASE c \notin seen[k] \cap active
  <2>1. UNCHANGED <<billed[c], forgiven[c], anchor[c]>>
    BY <1>1, <1>8 DEF BillWith
  <2>2. \/ c \in excused'
        \/ c \notin excused /\ ~(Held(k, c) /\ cleared[k])
    BY <1>3, <1>8 DEF Held
  <2>3. Reconciled(c)'
    BY <1>2, <1>3, <1>4, <2>1, <2>2 DEF Reconciled
  <2>4. QED
    BY <1>3, <2>3, Released
<1>9. QED
  BY <1>7, <1>8

\* A snapshot that is dropped excuses its configs if the reset came first.
LEMMA ClientDropped ==
  ASSUME BuyerInv, OneCaller, NEW c \in Configs, NEW k \in Callers, BillFails(k) \/ Abort(k)
  PROVE  ClientOK(c)'
<1>1. /\ UNCHANGED <<used, clientBytes, anchor, billed, forgiven, leaked>>
      /\ at'[k] = NoListing /\ ~cleared'[k]
      /\ excused' = IF cleared[k] THEN excused \cup seen[k] ELSE excused
  BY DEF BillFails, Abort, Forget, panelVars, trafficVars, dbVars, BuyerInv, TypeOK, CycleInv
<1>2. \A j \in Callers : j = k
  BY DEF OneCaller
<1>3. Reconciled(c)
  BY DEF BuyerInv, ClientInv, ClientOK
<1>4. \/ c \in excused'
      \/ c \notin excused /\ ~(Held(k, c) /\ cleared[k])
  BY <1>1 DEF Held
<1>5. Reconciled(c)'
  BY <1>1, <1>2, <1>3, <1>4 DEF Reconciled
<1>6. QED
  BY <1>1, <1>5, Released

\* The inductive invariant holds initially and is kept by every step.
LEMMA BuyerInitial == Init => BuyerInv
<1> SUFFICES ASSUME Init PROVE BuyerInv
  OBVIOUS
<1>1. TypeOK /\ CycleInv
  BY TypeInitial DEF Init, CycleInv
<1>2. ASSUME NEW c \in Configs PROVE ClientOK(c)
  <2>1. /\ used[c] = 0 /\ clientBytes[c] = 0 /\ anchor[c] = 0 /\ billed[c] = 0
        /\ forgiven[c] = 0 /\ leaked[c] = 0
        /\ \A k \in Callers : c \notin seen[k]
    BY DEF Init
  <2>2. QED
    BY <2>1 DEF ClientOK, Reconciled, Held, Delta
<1>3. QED
  BY <1>1, <1>2 DEF BuyerInv, ClientInv

LEMMA BuyerPreserved == ASSUME OneCaller PROVE BuyerInv /\ [Next]_vars => BuyerInv'
<1> SUFFICES ASSUME BuyerInv, [Next]_vars PROVE BuyerInv'
  OBVIOUS
<1>1. TypeOK' /\ CycleInv'
  BY TypePreserved, CyclePreserved DEF BuyerInv
<1>2. ASSUME NEW c \in Configs PROVE ClientOK(c)'
  <2>1. CASE /\ UNCHANGED clientVars
             /\ \A k \in Callers : pc[k] \in {"reset", "bill"} \/ pc'[k] \in {"reset", "bill"}
                                   => pc'[k] = pc[k]
    BY <2>1 DEF BuyerInv, ClientInv, ClientOK, Reconciled, ReconciledBy, Held, clientVars
  <2>2. QED
    BY <2>1, ClientSteps, ClientTraffic, ClientRead, ClientReset, ClientResetFails, ClientBill,
       ClientDropped DEF BuyerInv
<1>3. QED
  BY <1>1, <1>2 DEF BuyerInv, ClientInv

LEMMA BuyerInvariant == ASSUME OneCaller PROVE Spec => []BuyerInv
BY BuyerInitial, BuyerPreserved, PTL DEF Spec

\* No sequence of failures makes a buyer pay for bytes the config did not move.
THEOREM NoOverbilling == ASSUME OneCaller PROVE Spec => []BuyerNeverOverbilled
<1>1. BuyerInv => BuyerNeverOverbilled
  <2> SUFFICES ASSUME BuyerInv, NEW c \in Configs PROVE billed[c] + forgiven[c] <= used[c]
    BY DEF BuyerNeverOverbilled
  <2>1. billed[c] + forgiven[c] + Delta(clientBytes[c], anchor[c]) <= used[c]
    BY DEF BuyerInv, ClientInv, ClientOK, Reconciled
  <2>2. Delta(clientBytes[c], anchor[c]) \in Nat
    BY DeltaType, ClientTypes DEF BuyerInv
  <2>3. QED
    BY <2>1, <2>2, ClientTypes DEF BuyerInv
<1>2. QED
  BY <1>1, BuyerInvariant, PTL

\* A buyer's bytes go missing in the accepted ways only.
THEOREM LossesNamed == ASSUME OneCaller PROVE Spec => []NothingLost
<1>1. BuyerInv => NothingLost
  <2> SUFFICES ASSUME BuyerInv, NEW c \in Configs, c \notin excused
               PROVE  used[c] = billed[c] + forgiven[c] + leaked[c] + Unbilled(c)
    BY DEF NothingLost
  <2> DEFINE holding == {k \in Callers : at[k] = HostOf[c] /\ c \in seen[k] /\ cleared[k]}
  <2>1. ClientOK(c)
    BY DEF BuyerInv, ClientInv
  <2>2. CASE holding = {}
    <3>1. Unbilled(c) = Delta(clientBytes[c], anchor[c])
      BY <2>2 DEF Unbilled
    <3>2. \A k \in Callers : ~(Held(k, c) /\ cleared[k])
      BY <2>2 DEF Held
    <3>3. QED
      BY <2>1, <3>1, <3>2, ClientTypes DEF BuyerInv, ClientOK, Reconciled, Delta
  <2>3. CASE holding # {}
    <3> DEFINE k == CHOOSE j \in holding : TRUE
    <3>1. k \in holding
      BY <2>3
    <3>2. Unbilled(c) = Delta(clientSnap[k][c], anchor[c]) + clientBytes[c]
      BY <2>3 DEF Unbilled
    <3> HIDE DEF k
    <3>3. k \in Callers /\ ReconciledBy(k, c) /\ cleared[k]
      BY <2>1, <3>1 DEF ClientOK, Held
    <3>4. QED
      BY <3>2, <3>3, ClientTypes DEF BuyerInv, ReconciledBy, Delta
  <2>4. QED
    BY <2>2, <2>3
<1>2. QED
  BY <1>1, BuyerInvariant, PTL

-----------------------------------------------------------------------------
(* Sellers.                                                                *)

\* What may still be credited for listing l stays within what it carried: from
\* its anchor, from the snapshot in hand, and from zero between a successful
\* wipe and the transaction that zeroes the anchors.
InboundOK(l) ==
  /\ credited[l] + Delta(inboundBytes[l], outAnchor[l]) <= carried[l]
  /\ \A k \in Callers :
       /\ at[k] = l =>
            /\ inboundSnap[k] <= inboundBytes[l]
            /\ credited[l] + Delta(inboundSnap[k], outAnchor[l])
                 + inboundBytes[l] - inboundSnap[k] <= carried[l]
       /\ pc[k] = "settle" /\ wiped[k] => credited[l] + inboundBytes[l] <= carried[l]

SellerInv == TypeOK /\ \A l \in Listings : InboundOK(l)

LEMMA InboundTypes ==
  ASSUME TypeOK, NEW l \in Listings
  PROVE  /\ carried[l] \in Nat /\ inboundBytes[l] \in Nat /\ outAnchor[l] \in Nat
         /\ credited[l] \in Nat
         /\ \A k \in Callers : inboundSnap[k] \in Nat
BY DEF TypeOK

\* Steps InboundOK has to be shown for, and what the others may do.
LEMMA InboundSteps ==
  ASSUME TypeOK, [Next]_vars
  PROVE  \/ \E c \in Configs : Traffic(c)
         \/ \E k \in Callers :
              \/ \E l \in Listings : \E S \in SUBSET Clients(l), probe \in BOOLEAN : Read(k, l, S, probe)
              \/ Bill(k) \/ Wipe(k) \/ WipeFails(k) \/ Settle(k)
         \/ /\ UNCHANGED <<carried, inboundBytes, outAnchor, credited>>
            /\ \A k \in Callers :
                 /\ at'[k] # NoListing => at'[k] = at[k] /\ inboundSnap'[k] = inboundSnap[k]
                 /\ pc'[k] = "settle" => pc[k] = "settle" /\ wiped'[k] = wiped[k]
<1> DEFINE Still == /\ UNCHANGED <<carried, inboundBytes, outAnchor, credited>>
                    /\ \A k \in Callers :
                         /\ at'[k] # NoListing =>
                              at'[k] = at[k] /\ inboundSnap'[k] = inboundSnap[k]
                         /\ pc'[k] = "settle" => pc[k] = "settle" /\ wiped'[k] = wiped[k]
<1>1. ASSUME NEW k \in Callers, Begin(k) PROVE Still
  BY <1>1 DEF Begin, Goto, TypeOK, panelVars, trafficVars, dbVars
<1>2. ASSUME NEW k \in Callers, NEW l \in Listings, ReadFails(k, l) PROVE Still
  BY <1>2 DEF ReadFails, Leave, Goto, TypeOK, panelVars, trafficVars, dbVars
<1>3. ASSUME NEW k \in Callers, Reset(k) \/ ResetFails(k) PROVE Still
  BY <1>3 DEF Reset, ResetFails, Goto, TypeOK, trafficVars, dbVars
<1>4. ASSUME NEW k \in Callers, BillFails(k) PROVE Still
  BY <1>4 DEF BillFails, Leave, Forget, Goto, TypeOK, panelVars, trafficVars, dbVars
<1>5. ASSUME NEW k \in Callers, Quota(k) PROVE Still
  BY <1>5 DEF Quota, EndCycle, Goto, TypeOK, panelVars, trafficVars
<1>6. ASSUME NEW k \in Callers, Abort(k) PROVE Still
  BY <1>6 DEF Abort, EndCycle, Forget, Goto, TypeOK, panelVars, trafficVars, dbVars
<1>7. ASSUME NEW c \in Configs, Toggle(c) PROVE Still
  BY <1>7 DEF Toggle, panelVars, trafficVars, cycleVars
<1>8. CASE UNCHANGED vars
  BY <1>8 DEF vars, panelVars, trafficVars, dbVars, cycleVars
<1> HIDE DEF Still
<1>9. ASSUME NEW k \in Callers, Cycle(k)
      PROVE  \/ \E l \in Listings : \E S \in SUBSET Clients(l), probe \in BOOLEAN : Read(k, l, S, probe)
             \/ Bill(k) \/ Wipe(k) \/ WipeFails(k) \/ Settle(k)
             \/ Still
  BY <1>1, <1>2, <1>3, <1>4, <1>5, <1>9 DEF Cycle
<1>10. CASE Next
  BY <1>6, <1>7, <1>9, <1>10 DEF Next, Still
<1>11. QED
  BY <1>8, <1>10 DEF Still

LEMMA InboundTraffic ==
  ASSUME SellerInv, NEW l \in Listings, NEW c \in Configs, Traffic(c)
  PROVE  InboundOK(l)'
<1>1. PICK m \in Listings : HostOf[c] = m
  BY HostType
<1>2. /\ UNCHANGED <<outAnchor, credited, at, inboundSnap, pc, wiped>>
      /\ IF l = m THEN carried'[l] = carried[l] + 1 /\ inboundBytes'[l] = inboundBytes[l] + 1
                  ELSE carried'[l] = carried[l] /\ inboundBytes'[l] = inboundBytes[l]
  BY <1>1 DEF Traffic, SellerInv, TypeOK, dbVars, cycleVars
<1>3. InboundOK(l)
  BY DEF SellerInv
<1>4. credited[l] + Delta(inboundBytes'[l], outAnchor[l]) <= carried'[l]
  BY <1>2, <1>3, InboundTypes DEF SellerInv, InboundOK, Delta
<1>5. ASSUME NEW k \in Callers
      PROVE  /\ at[k] = l =>
                  /\ inboundSnap[k] <= inboundBytes'[l]
                  /\ credited[l] + Delta(inboundSnap[k], outAnchor[l])
                       + inboundBytes'[l] - inboundSnap[k] <= carried'[l]
             /\ pc[k] = "settle" /\ wiped[k] => credited[l] + inboundBytes'[l] <= carried'[l]
  <2>1. Delta(inboundSnap[k], outAnchor[l]) \in Nat
    BY DeltaType, InboundTypes DEF SellerInv
  <2>2. QED
    BY <1>2, <1>3, <2>1, InboundTypes DEF SellerInv, InboundOK
<1>6. QED
  BY <1>2, <1>4, <1>5 DEF InboundOK

LEMMA InboundRead ==
  ASSUME SellerInv, OneCaller, NEW l \in Listings, NEW k \in Callers, NEW m \in Listings,
         NEW S \in SUBSET Clients(m),
             NEW probe \in BOOLEAN, Read(k, m, S, probe)
  PROVE  InboundOK(l)'
<1>1. /\ UNCHANGED <<carried, inboundBytes, outAnchor, credited>>
      /\ at'[k] = m /\ inboundSnap'[k] = inboundBytes[m] /\ pc'[k] # "settle"
      /\ \A j \in Callers : j = k
  BY DEF Read, Goto, OneCaller, SellerInv, TypeOK, panelVars, trafficVars, dbVars
<1>2. credited[l] + Delta(inboundBytes[l], outAnchor[l]) <= carried[l]
  BY DEF SellerInv, InboundOK
<1>3. Delta(inboundBytes[l], outAnchor[l]) \in Nat
  BY DeltaType, InboundTypes DEF SellerInv
<1>4. m = l => /\ inboundSnap'[k] <= inboundBytes[l]
               /\ credited[l] + Delta(inboundSnap'[k], outAnchor[l])
                    + inboundBytes[l] - inboundSnap'[k] <= carried[l]
  BY <1>1, <1>2, <1>3, InboundTypes DEF SellerInv
<1>5. QED
  BY <1>1, <1>2, <1>4 DEF InboundOK

LEMMA InboundBill ==
  ASSUME SellerInv, OneCaller, NEW l \in Listings, NEW k \in Callers, Bill(k)
  PROVE  InboundOK(l)'
<1> DEFINE d == Delta(inboundSnap[k], outAnchor[l])
<1>1. /\ UNCHANGED <<carried, inboundBytes>>
      /\ at'[k] = NoListing /\ NoListing # l /\ pc'[k] # "settle"
      /\ \A j \in Callers : j = k
  BY BillingAssumption DEF Bill, BillWith, Leave, Forget, Goto, OneCaller, SellerInv, TypeOK,
     panelVars, trafficVars, BillingAssumption
<1>2. InboundOK(l)
  BY DEF SellerInv
<1>3. credited'[l] + Delta(inboundBytes[l], outAnchor'[l]) <= carried[l]
  <2>1. CASE at[k] = l
    <3>1. credited'[l] = credited[l] + Billable(d) /\ outAnchor'[l] = inboundSnap[k]
      BY <2>1 DEF Bill, BillWith, SellerInv, TypeOK
    <3>2. d \in Nat /\ Billable(d) \in Nat /\ Billable(d) <= d
      BY DeltaType, BillableType, InboundTypes DEF SellerInv
    <3>3. /\ inboundSnap[k] <= inboundBytes[l]
          /\ credited[l] + d + inboundBytes[l] - inboundSnap[k] <= carried[l]
      BY <1>2, <2>1 DEF InboundOK
    <3> HIDE DEF d
    <3>4. QED
      BY <3>1, <3>2, <3>3, InboundTypes DEF SellerInv, Delta
  <2>2. CASE at[k] # l
    <3>1. credited'[l] = credited[l] /\ outAnchor'[l] = outAnchor[l]
      BY <2>2 DEF Bill, BillWith, SellerInv, TypeOK
    <3>2. QED
      BY <1>2, <3>1 DEF InboundOK
  <2>3. QED
    BY <2>1, <2>2
<1>4. QED
  BY <1>1, <1>3 DEF InboundOK

LEMMA InboundWipe ==
  ASSUME SellerInv, OneCaller, NEW l \in Listings, NEW k \in Callers, Wipe(k) \/ WipeFails(k)
  PROVE  InboundOK(l)'
<1>1. /\ UNCHANGED <<carried, outAnchor, credited, at>>
      /\ at[k] = NoListing /\ NoListing # l
      /\ \A j \in Callers : j = k
  BY BillingAssumption DEF Wipe, WipeFails, OneCaller, SellerInv, TypeOK, trafficVars, dbVars,
     BillingAssumption
<1>2. \/ inboundBytes'[l] = 0
      \/ inboundBytes'[l] = inboundBytes[l] /\ ~wiped'[k]
  <2>1. CASE inboundBytes' = [m \in Listings |-> 0]
    BY <2>1
  <2>2. CASE UNCHANGED inboundBytes /\ (WipeFails(k) \/ done[k] = {})
    <3>1. CASE WipeFails(k)
      <4>1. wiped'[k] = FALSE
        BY <3>1 DEF WipeFails, SellerInv, TypeOK
      <4>2. QED
        BY <2>2, <4>1
    <3>2. CASE Wipe(k) /\ done[k] = {}
      <4>1. wiped'[k] = (done[k] # {})
        BY <3>2 DEF Wipe, SellerInv, TypeOK
      <4>2. QED
        BY <2>2, <3>2, <4>1
    <3>3. QED
      BY <2>2, <3>1, <3>2
  <2>3. QED
    BY <2>1, <2>2 DEF Wipe, WipeFails
<1>3. credited[l] + Delta(inboundBytes[l], outAnchor[l]) <= carried[l]
  BY DEF SellerInv, InboundOK
<1>4. /\ credited[l] + Delta(inboundBytes'[l], outAnchor[l]) <= carried[l]
      /\ wiped'[k] => credited[l] + inboundBytes'[l] <= carried[l]
  BY <1>2, <1>3, InboundTypes DEF SellerInv, Delta
<1>5. QED
  BY <1>1, <1>4 DEF InboundOK

LEMMA InboundSettle ==
  ASSUME SellerInv, OneCaller, NEW l \in Listings, NEW k \in Callers, Settle(k)
  PROVE  InboundOK(l)'
<1>1. /\ UNCHANGED <<carried, inboundBytes, credited, at>>
      /\ at[k] = NoListing /\ NoListing # l /\ pc[k] = "settle" /\ pc'[k] # "settle"
      /\ \A j \in Callers : j = k
  BY BillingAssumption DEF Settle, Goto, OneCaller, SellerInv, TypeOK, panelVars, trafficVars,
     BillingAssumption
<1>2. \/ outAnchor'[l] = 0 /\ wiped[k]
      \/ outAnchor'[l] = outAnchor[l]
  BY DEF Settle
<1>3. credited[l] + Delta(inboundBytes[l], outAnchor'[l]) <= carried[l]
  BY <1>1, <1>2, InboundTypes DEF SellerInv, InboundOK, Delta
<1>4. QED
  BY <1>1, <1>3 DEF InboundOK

LEMMA SellerInvariant == ASSUME OneCaller PROVE Spec => []SellerInv
<1>1. Init => SellerInv
  <2> SUFFICES ASSUME Init, NEW l \in Listings PROVE InboundOK(l)
    BY TypeInitial DEF SellerInv
  <2>1. /\ carried[l] = 0 /\ inboundBytes[l] = 0 /\ outAnchor[l] = 0 /\ credited[l] = 0
        /\ \A k \in Callers : inboundSnap[k] = 0 /\ pc[k] = "idle"
    BY DEF Init
  <2>2. QED
    BY <2>1 DEF InboundOK, Delta
<1>2. SellerInv /\ [Next]_vars => SellerInv'
  <2> SUFFICES ASSUME SellerInv, [Next]_vars PROVE SellerInv'
    OBVIOUS
  <2>1. TypeOK'
    BY TypePreserved DEF SellerInv
  <2>2. ASSUME NEW l \in Listings PROVE InboundOK(l)'
    <3>1. CASE /\ UNCHANGED <<carried, inboundBytes, outAnchor, credited>>
               /\ \A k \in Callers :
                    /\ at'[k] # NoListing => at'[k] = at[k] /\ inboundSnap'[k] = inboundSnap[k]
                    /\ pc'[k] = "settle" => pc[k] = "settle" /\ wiped'[k] = wiped[k]
      <4>1. NoListing # l
        BY BillingAssumption DEF BillingAssumption
      <4>2. QED
        BY <3>1, <4>1 DEF SellerInv, InboundOK
    <3>2. QED
      BY <3>1, InboundSteps, InboundTraffic, InboundRead, InboundBill, InboundWipe,
         InboundSettle DEF SellerInv
  <2>3. QED
    BY <2>1, <2>2 DEF SellerInv
<1>3. QED
  BY <1>1, <1>2, PTL DEF Spec

\* A seller is never credited bytes the inbound did not carry.
THEOREM NoOvercredit == ASSUME OneCaller PROVE Spec => []SellerNeverOvercredited
<1>1. SellerInv => SellerNeverOvercredited
  <2> SUFFICES ASSUME SellerInv, NEW l \in Listings PROVE credited[l] <= carried[l]
    BY DEF SellerNeverOvercredited
  <2>1. credited[l] + Delta(inboundBytes[l], outAnchor[l]) <= carried[l]
    BY DEF SellerInv, InboundOK
  <2>2. Delta(inboundBytes[l], outAnchor[l]) \in Nat
    BY DeltaType, InboundTypes DEF SellerInv
  <2>3. QED
    BY <2>1, <2>2, InboundTypes DEF SellerInv
<1>2. QED
  BY <1>1, SellerInvariant, PTL

=============================================================================
