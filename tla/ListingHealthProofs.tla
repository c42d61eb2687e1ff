------------------------ MODULE ListingHealthProofs ------------------------
(***************************************************************************)
(* Proofs about ListingHealth.  The inductive invariant relates what a     *)
(* tick has loaded and written to the committed rows: only the tick writes *)
(* counts, makes listings broken and moves broken_since, and nobody writes *)
(* a row it has locked.                                                    *)
(***************************************************************************)
EXTENDS ListingHealth, TLAPS

\* Between ticks nothing is loaded; before the first pass nothing is written.
PassInv(l) ==
  /\ pc \in {"idle", "notify"} => seen[l] = NoRow /\ l \notin picked
  /\ pc \notin {"active", "broken"} => draft[l] = NoRow
  /\ pc = "idle" => l \notin alerts
  /\ l \in picked => seen[l] # NoRow

\* A row object agrees with the row on what only the gate writes, and its stamp
\* covers the ok samples that had arrived when the tick began.
SeenInv(l) ==
  seen[l] # NoRow =>
    /\ seen[l].count = View(l).count
    /\ \A s \in heard[l] : seen[l].lastOk # Never /\ s.at <= seen[l].lastOk
    /\ row[l].status = "broken" =>
         /\ pc = "broken"
         /\ draft[l] = NoRow
         /\ seen[l].brokenSince = row[l].brokenSince

\* What the tick has written: the stamps stay, only a tested listing is on sale
\* and only a silent one is broken.
DraftInv(l) ==
  draft[l] # NoRow =>
    /\ seen[l] # NoRow
    /\ draft[l].lastOk = row[l].lastOk
    /\ draft[l].lastProbed = row[l].lastProbed
    /\ draft[l].status \in {"active", "broken"}
    /\ draft[l].status = "active" => OkOnly(posted[l]) # {}
    /\ draft[l].status = "broken" => \A s \in heard[l] : s.at < tick - BrokenAfter

AlertInv(l) == l \in alerts => View(l).count < NotifyCap

StampInv(l) ==
  /\ Stamps(row[l].lastProbed, posted[l])
  /\ Stamps(row[l].lastOk, OkOnly(posted[l]))

HeardInv(l) == heard[l] \subseteq OkOnly(posted[l])

LoadInv(r) == session[r] # NoRequest => session[r].status # "deleted"

ListingInv(l) ==
  PassInv(l) /\ SeenInv(l) /\ DraftInv(l) /\ AlertInv(l) /\ StampInv(l) /\ HeardInv(l)

IInv ==
  /\ TypeOK
  /\ \A l \in Listings : ListingInv(l)
  /\ \A r \in Requests : LoadInv(r)

-----------------------------------------------------------------------------
(* Lemmas about samples and rows.                                          *)

LEMMA NeverOutside == Never \notin Time /\ \A t \in Time : Never < t
  BY ListingAssumption DEF Never, Time, ListingAssumption

\* GREATEST keeps a stamp that of the newest sample, whatever the order of
\* delivery.
LEMMA LaterStamps ==
  ASSUME NEW S \in SUBSET Sample, NEW s \in Sample, NEW old \in Stamp, Stamps(old, S)
  PROVE  Later(old, s.at) \in Stamp /\ Stamps(Later(old, s.at), S \cup {s})
<1> USE DEF Stamp, Time, Never, Sample
<1>1. s.at \in Int /\ \A t \in S : t.at \in Int
  BY ListingAssumption DEF ListingAssumption
<1>2. Later(old, s.at) \in Stamp
  BY DEF Later
<1>3. CASE S = {}
  <2>1. Later(old, s.at) = s.at
    BY <1>1, <1>3, ListingAssumption DEF Stamps, Later, ListingAssumption
  <2>2. s \in Latest(S \cup {s})
    BY <1>1, <1>3 DEF Latest
  <2>3. QED
    BY <1>2, <2>1, <2>2 DEF Stamps
<1>4. CASE S # {}
  <2>1. PICK t \in Latest(S) : t.at = old
    BY <1>4 DEF Stamps
  <2>2. t \in S /\ \A u \in S : t.at >= u.at
    BY <2>1 DEF Latest
  <2>3. CASE old > s.at
    <3>1. t \in Latest(S \cup {s})
      BY <1>1, <2>1, <2>2, <2>3 DEF Latest
    <3>2. QED
      BY <1>2, <2>1, <2>3, <3>1 DEF Stamps, Later
  <2>4. CASE ~(old > s.at)
    <3>1. s \in Latest(S \cup {s})
      BY <1>1, <2>1, <2>2, <2>4 DEF Latest
    <3>2. QED
      BY <1>2, <2>4, <3>1 DEF Stamps, Later
  <2>5. QED
    BY <2>3, <2>4
<1>5. QED
  BY <1>3, <1>4

\* A stamp covers every sample it stands for.
LEMMA StampCovers ==
  ASSUME NEW S \in SUBSET Sample, NEW stamp, Stamps(stamp, S), NEW s \in S
  PROVE  stamp \in Time /\ s.at <= stamp
  BY DEF Stamps, Latest, Sample, Time

LEMMA OutcomeRow ==
  ASSUME TypeOK, NEW r \in Row, NEW v \in {"promote", "fail", "demote", "recover"}
  PROVE  /\ Outcome(v, r) \in Row
         /\ Outcome(v, r) # NoRow
         /\ Outcome(v, r).lastOk = r.lastOk
         /\ Outcome(v, r).lastProbed = r.lastProbed
         /\ v \in {"promote", "recover"} =>
              Outcome(v, r).status = "active" /\ Outcome(v, r).count = 0
         /\ v \in {"fail", "demote"} =>
              Outcome(v, r).status = "broken" /\ Outcome(v, r).count = r.count
<1>1. tick \in Stamp /\ Never \in Stamp /\ 0 \in 0..NotifyCap
  BY ListingAssumption DEF TypeOK, Stamp, ListingAssumption
<1>2. CASE v = "promote"
  BY <1>1, <1>2, NoRowAssumption DEF Outcome, Row, Statuses
<1>3. CASE v = "fail"
  BY <1>1, <1>3, NoRowAssumption DEF Outcome, Row, Statuses
<1>4. CASE v = "demote"
  BY <1>1, <1>4, NoRowAssumption DEF Outcome, Row, Statuses
<1>5. CASE v = "recover"
  BY <1>1, <1>5, NoRowAssumption DEF Outcome, Row, Statuses
<1>6. QED
  BY <1>2, <1>3, <1>4, <1>5

LEMMA ViewRow ==
  ASSUME TypeOK, NEW l \in Listings
  PROVE  View(l) \in Row
  BY DEF TypeOK, View, Locked

\* What a pass does to a listing's row object, its draft and its selection.
PassEffect(v, next, l) ==
  /\ draft'[l] = IF v = "keep" THEN draft[l] ELSE Outcome(v, View(l))
  /\ v # "keep" => seen'[l] = Outcome(v, seen[l])
  /\ v = "keep" /\ seen[l] # NoRow => seen'[l] = seen[l]
  /\ v = "keep" /\ seen[l] = NoRow =>
       \/ seen'[l] = NoRow /\ l \notin picked'
       \/ seen'[l] = row[l] /\ (draft[l] = NoRow => row[l].status = next)
  /\ l \in picked' => seen'[l] # NoRow

Verdict == {"keep", "promote", "fail", "demote", "recover"}

LEMMA PassListing ==
  ASSUME IInv, NEW v \in [Listings -> Verdict], NEW next, Pass(v, next),
         NEW l \in Listings, v[l] # "keep" => l \in picked
  PROVE  PassEffect(v[l], next, l)
<1>1. row[l] \in Row /\ View(l) \in Row /\ row[l] # NoRow
  BY ViewRow, NoRowAssumption DEF IInv, TypeOK
<1>2. v[l] # "keep" => seen[l] # NoRow /\ seen[l] \in Row
  BY DEF IInv, ListingInv, PassInv, TypeOK
<1>3. v[l] # "keep" => Outcome(v[l], View(l)) # NoRow /\ Outcome(v[l], seen[l]) # NoRow
  BY <1>1, <1>2, OutcomeRow DEF IInv, Verdict
<1>4. QED
  BY <1>1, <1>2, <1>3 DEF Pass, PassEffect

-----------------------------------------------------------------------------
(* Types.                                                                  *)

LEMMA PassType ==
  ASSUME TypeOK, NEW v \in [Listings -> Verdict], NEW next, Pass(v, next),
         \A l \in Listings : v[l] # "keep" => seen[l] \in Row
  PROVE  /\ draft' \in [Listings -> Row \cup {NoRow}]
         /\ seen' \in [Listings -> Row \cup {NoRow}]
         /\ picked' \subseteq Listings
<1>1. \A l \in Listings : v[l] # "keep" => Outcome(v[l], View(l)) \in Row
  BY ViewRow, OutcomeRow DEF Verdict
<1>2. \A l \in Listings : v[l] # "keep" => Outcome(v[l], seen[l]) \in Row
  BY OutcomeRow DEF Verdict
<1>3. QED
  BY <1>1, <1>2 DEF Pass, TypeOK

LEMMA Verdicts ==
  ASSUME IInv, NEW l \in Listings
  PROVE  /\ PendingVerdict(l) \in Verdict /\ DemoteVerdict(l) \in Verdict
         /\ PendingVerdict(l) # "keep" => l \in picked
         /\ DemoteVerdict(l) # "keep" => l \in picked
         /\ l \in picked => seen[l] \in Row
  BY DEF PendingVerdict, DemoteVerdict, Verdict, IInv, ListingInv, PassInv, TypeOK

LEMMA FlushRow ==
  ASSUME NEW q \in Request, NEW r \in Row
  PROVE  /\ Flush(q, r) \in Row
         /\ Flush(q, r).count = r.count
         /\ Flush(q, r).lastOk = r.lastOk
         /\ Flush(q, r).lastProbed = r.lastProbed
         /\ Flush(q, r).status # "broken"
<1>1. q.op \in Ops /\ Never \in Stamp /\ q.deadline \in Stamp
  BY DEF Request, Stamp
<1>2. CASE q.op \in {"retry", "edit"}
  BY <1>1, <1>2 DEF Flush, Retest, Row, Statuses
<1>3. CASE q.op = "disable"
  BY <1>3 DEF Flush, Disable, Enable, Delete, Row, Statuses
<1>4. CASE q.op = "enable"
  BY <1>4 DEF Flush, Disable, Enable, Delete, Row, Statuses
<1>5. CASE q.op = "delete"
  BY <1>5 DEF Flush, Disable, Enable, Delete, Row, Statuses
<1>6. QED
  BY <1>1, <1>2, <1>3, <1>4, <1>5 DEF Ops

LEMMA ForgetType == Forget => /\ pc' \in Passes /\ tick' \in Time /\ picked' \subseteq Listings
                             /\ seen' \in [Listings -> Row \cup {NoRow}]
                             /\ draft' \in [Listings -> Row \cup {NoRow}]
                             /\ alerts' \subseteq Listings
                             /\ heard' \in [Listings -> SUBSET Sample]
  BY ListingAssumption DEF Forget, Passes, Time, ListingAssumption

LEMMA TypePreserved == IInv /\ [Next]_vars => TypeOK'
<1> SUFFICES ASSUME IInv, TypeOK, [Next]_vars PROVE TypeOK'
  BY DEF IInv
<1>1. ASSUME Advance PROVE TypeOK'
  BY <1>1, ListingAssumption
  DEF Advance, TypeOK, Time, proberVars, gateVars, ListingAssumption
<1>2. ASSUME NEW l \in Listings, NEW ok \in BOOLEAN, Measure(l, ok) PROVE TypeOK'
  BY <1>2 DEF Measure, TypeOK, gateVars, Sample
<1>3. ASSUME NEW l \in Listings, NEW s \in measured[l], Post(l, s) PROVE TypeOK'
  <2>1. s \in Sample /\ s.at \in Stamp
    BY DEF TypeOK, Sample, Stamp
  <2>2. Later(row[l].lastProbed, s.at) \in Stamp /\ Later(row[l].lastOk, s.at) \in Stamp
    BY <2>1 DEF Later, TypeOK, Row
  <2>3. row' \in [Listings -> Row]
    <3>1. \A x, y \in Stamp : [row[l] EXCEPT !.lastProbed = x, !.lastOk = y] \in Row
      BY DEF TypeOK, Row
    <3>2. PICK y \in Stamp :
            row' = [row EXCEPT ![l].lastProbed = Later(@, s.at), ![l].lastOk = y]
      BY <1>3, <2>2 DEF Post, TypeOK, Row
    <3>3. row' = [row EXCEPT ![l] =
                    [row[l] EXCEPT !.lastProbed = Later(row[l].lastProbed, s.at), !.lastOk = y]]
      BY <3>2 DEF TypeOK, Row
    <3>4. QED
      BY <2>2, <3>1, <3>3 DEF TypeOK
  <2>4. QED
    BY <1>3, <2>1, <2>3 DEF Post, TypeOK, gateVars
<1>4. ASSUME NEW r \in Requests, NEW op \in Ops, NEW l \in Listings, Load(r, op, l)
      PROVE TypeOK'
  <2>1. now + GateWindow <= MaxTime => now + GateWindow \in Stamp
    BY ListingAssumption DEF TypeOK, Stamp, Time, ListingAssumption
  <2>2. \A a \in Statuses, b \in BOOLEAN, c \in Stamp :
          [op |-> op, listing |-> l, status |-> a, dated |-> b, deadline |-> c] \in Request
    BY DEF Request
  <2>3. Never \in Stamp /\ row[l].status \in Statuses
    BY DEF Stamp, TypeOK, Row
  <2>4. session' \in [Requests -> Request \cup {NoRequest}]
    BY <1>4, <2>1, <2>2, <2>3 DEF Load, TypeOK
  <2>5. QED
    BY <1>4, <2>4 DEF Load, TypeOK, proberVars, gateVars
<1>5. ASSUME NEW r \in Requests, Commit(r) PROVE TypeOK'
  <2>1. session[r] \in Request /\ session[r].listing \in Listings
    BY <1>5 DEF Commit, TypeOK, Request
  <2>2. row' \in [Listings -> Row]
    BY <1>5, <2>1, FlushRow DEF Commit, TypeOK
  <2>3. QED
    BY <1>5, <2>2 DEF Commit, TypeOK, proberVars, gateVars
<1>6. ASSUME NEW r \in Requests, Drop(r) PROVE TypeOK'
  BY <1>6 DEF Drop, TypeOK, proberVars, gateVars
<1>7. ASSUME Begin PROVE TypeOK'
  BY <1>7 DEF Begin, TypeOK, proberVars, Passes, OkOnly
<1>8. ASSUME PendingPass PROVE TypeOK'
  <2>1. [l \in Listings |-> PendingVerdict(l)] \in [Listings -> Verdict]
    BY Verdicts
  <2>2. /\ draft' \in [Listings -> Row \cup {NoRow}]
        /\ seen' \in [Listings -> Row \cup {NoRow}]
        /\ picked' \subseteq Listings
    BY <1>8, <2>1, Verdicts, PassType DEF PendingPass
  <2>3. alerts' \subseteq Listings
    BY <1>8 DEF PendingPass, Unwarned, TypeOK
  <2>4. QED
    BY <1>8, <2>2, <2>3 DEF PendingPass, TypeOK, proberVars, Passes
<1>9. ASSUME DemotePass PROVE TypeOK'
  <2>1. [l \in Listings |-> DemoteVerdict(l)] \in [Listings -> Verdict]
    BY Verdicts
  <2>2. /\ draft' \in [Listings -> Row \cup {NoRow}]
        /\ seen' \in [Listings -> Row \cup {NoRow}]
        /\ picked' \subseteq Listings
    BY <1>9, <2>1, Verdicts, PassType DEF DemotePass
  <2>3. alerts' \subseteq Listings
    BY <1>9 DEF DemotePass, Unwarned, TypeOK
  <2>4. QED
    BY <1>9, <2>2, <2>3 DEF DemotePass, TypeOK, proberVars, Passes
<1>10. ASSUME RecoverPass PROVE TypeOK'
  <2>1. row' \in [Listings -> Row]
    BY <1>10, ViewRow, OutcomeRow DEF RecoverPass
  <2>2. QED
    BY <1>10, <2>1 DEF RecoverPass, TypeOK, proberVars, Passes
<1>11. ASSUME Notify PROVE TypeOK'
  <2>1. ASSUME NEW l \in alerts PROVE row[l].count + 1 \in 0..NotifyCap
    <3>1. l \in Listings /\ View(l) = row[l]
      BY <1>11 DEF TypeOK, Notify, IInv, ListingInv, PassInv, View, Locked
    <3>2. row[l].count < NotifyCap /\ row[l].count \in 0..NotifyCap
      BY <3>1 DEF IInv, ListingInv, AlertInv, TypeOK, Row
    <3>3. QED
      BY <3>2, ListingAssumption DEF ListingAssumption
  <2>2. row' \in [Listings -> Row]
    BY <1>11, <2>1 DEF Notify, TypeOK, Row
  <2>3. QED
    BY <1>11, <2>2, ForgetType DEF Notify, TypeOK, proberVars
<1>12. ASSUME Die PROVE TypeOK'
  BY <1>12, ForgetType DEF Die, TypeOK, proberVars
<1>13. CASE UNCHANGED vars
  BY <1>13 DEF vars, TypeOK, proberVars, gateVars
<1>14. QED
  BY <1>1, <1>2, <1>3, <1>4, <1>5, <1>6, <1>7, <1>8, <1>9, <1>10, <1>11, <1>12, <1>13
  DEF Next, Tick

-----------------------------------------------------------------------------
(* The invariant of one listing, step by step.                             *)

LEMMA Frame ==
  ASSUME IInv, UNCHANGED <<row, posted, gateVars>>, NEW l \in Listings
  PROVE  ListingInv(l)'
  BY DEF IInv, ListingInv, PassInv, SeenInv, DraftInv, AlertInv, StampInv, HeardInv,
         View, Locked, gateVars

\* A sample arrives, at a listing the gate has not locked.
LEMMA PostStep ==
  ASSUME IInv, NEW k \in Listings, NEW s \in measured[k], Post(k, s), NEW l \in Listings
  PROVE  ListingInv(l)'
<1> USE DEF IInv
<1>1. s \in Sample /\ posted[k] \in SUBSET Sample /\ row[k] \in Row /\ draft[k] = NoRow
  BY DEF Post, TypeOK, Locked
<1>2. posted'[k] = posted[k] \cup {s}
  BY DEF Post, TypeOK
<1>3. CASE l # k
  BY <1>3 DEF Post, TypeOK, ListingInv, PassInv, SeenInv, DraftInv, AlertInv, StampInv,
              HeardInv, View, Locked, gateVars
<1>4. CASE l = k
  <2>1. /\ row'[l].lastProbed = Later(row[l].lastProbed, s.at)
        /\ row'[l].lastOk = IF s.ok THEN Later(row[l].lastOk, s.at) ELSE row[l].lastOk
        /\ row'[l].count = row[l].count
        /\ row'[l].status = row[l].status
        /\ row'[l].brokenSince = row[l].brokenSince
    <3>1. row'[l] = [[row[l] EXCEPT !.lastProbed = Later(row[l].lastProbed, s.at)]
                      EXCEPT !.lastOk = IF s.ok THEN Later(row[l].lastOk, s.at)
                                                ELSE row[l].lastOk]
      BY <1>1, <1>4, Zenon DEF Post, TypeOK
    <3>2. QED
      BY <1>1, <1>4, <3>1 DEF Row
  <2>9. /\ row[l].lastProbed \in Stamp /\ Stamps(row[l].lastProbed, posted[l])
        /\ row[l].lastOk \in Stamp /\ Stamps(row[l].lastOk, OkOnly(posted[l]))
    BY <1>1, <1>4 DEF ListingInv, StampInv, Row
  <2>10. Stamps(Later(row[l].lastProbed, s.at), posted[l] \cup {s})
    BY <1>1, <1>4, <2>9, LaterStamps
  <2>2. Stamps(row'[l].lastProbed, posted'[l])
    BY <1>2, <1>4, <2>1, <2>10
  <2>3. OkOnly(posted[l]) \in SUBSET Sample
    BY <1>1, <1>4 DEF OkOnly
  <2>4. OkOnly(posted'[l]) = IF s.ok THEN OkOnly(posted[l]) \cup {s} ELSE OkOnly(posted[l])
    BY <1>2, <1>4 DEF OkOnly
  <2>11. Stamps(Later(row[l].lastOk, s.at), OkOnly(posted[l]) \cup {s})
    BY <1>1, <2>3, <2>9, LaterStamps
  <2>5. Stamps(row'[l].lastOk, OkOnly(posted'[l]))
    BY <2>1, <2>4, <2>9, <2>11
  <2>6. (PassInv(l) /\ SeenInv(l) /\ DraftInv(l) /\ AlertInv(l))'
    BY <1>1, <1>4, <2>1 DEF Post, ListingInv, PassInv, SeenInv, DraftInv, AlertInv,
                            View, Locked, gateVars
  <2>7. HeardInv(l)'
    BY <2>4 DEF Post, ListingInv, HeardInv, gateVars
  <2>8. QED
    BY <2>2, <2>5, <2>6, <2>7 DEF ListingInv, StampInv
<1>5. QED
  BY <1>3, <1>4

\* A seller's commit, on a row the gate has not locked: it touches neither the
\* stamps nor the count, and does not make the listing broken.
LEMMA CommitStep ==
  ASSUME IInv, NEW r \in Requests, Commit(r), NEW l \in Listings
  PROVE  ListingInv(l)'
<1> USE DEF IInv
<1> DEFINE k == session[r].listing
<1>1. session[r] \in Request /\ k \in Listings /\ row[k] \in Row /\ draft[k] = NoRow
  BY DEF Commit, TypeOK, Request, Locked
<1>2. /\ row'[k] = Flush(session[r], row[k])
      /\ \A m \in Listings \ {k} : row'[m] = row[m]
  BY <1>1 DEF Commit, TypeOK
<1>3. /\ row'[k].count = row[k].count
      /\ row'[k].lastOk = row[k].lastOk
      /\ row'[k].lastProbed = row[k].lastProbed
      /\ row'[k].status # "broken"
  BY <1>1, <1>2, FlushRow DEF Commit
<1>4. CASE l # k
  BY <1>2, <1>4 DEF Commit, ListingInv, PassInv, SeenInv, DraftInv, AlertInv, StampInv,
                    HeardInv, View, Locked, proberVars, gateVars
<1>5. CASE l = k
  BY <1>1, <1>3, <1>5 DEF Commit, ListingInv, PassInv, SeenInv, DraftInv, AlertInv,
                          StampInv, HeardInv, View, Locked, proberVars, gateVars
<1>6. QED
  BY <1>4, <1>5

LEMMA BeginStep ==
  ASSUME IInv, Begin, NEW l \in Listings
  PROVE  ListingInv(l)'
<1> USE DEF IInv
<1>1. /\ row[l] \in Row /\ row[l] # NoRow /\ draft[l] = NoRow /\ l \notin alerts
      /\ row'[l] = row[l] /\ draft'[l] = draft[l] /\ posted'[l] = posted[l]
      /\ alerts' = alerts /\ pc' = "pending" /\ heard'[l] = OkOnly(posted[l])
  BY NoRowAssumption DEF Begin, TypeOK, ListingInv, PassInv, proberVars
<1>2. /\ l \in picked' <=> row[l].status = "pending"
      /\ seen'[l] = IF row[l].status = "pending" THEN row[l] ELSE NoRow
  BY DEF Begin
<1>3. PassInv(l)' /\ DraftInv(l)' /\ AlertInv(l)' /\ StampInv(l)' /\ HeardInv(l)'
  BY <1>1, <1>2 DEF PassInv, DraftInv, AlertInv, StampInv, HeardInv, ListingInv
<1>4. \A s \in OkOnly(posted[l]) : row[l].lastOk # Never /\ s.at <= row[l].lastOk
  <2>1. OkOnly(posted[l]) \in SUBSET Sample
    BY DEF OkOnly, TypeOK
  <2>2. QED
    BY <2>1, StampCovers, NeverOutside DEF ListingInv, StampInv
<1>5. SeenInv(l)'
  BY <1>1, <1>2, <1>4 DEF SeenInv, View, Locked
<1>6. QED
  BY <1>3, <1>5 DEF ListingInv

\* A committed row covers what had been heard: seen is loaded from it.
LEMMA RowCovers ==
  ASSUME IInv, NEW l \in Listings
  PROVE  \A s \in heard[l] : row[l].lastOk # Never /\ s.at <= row[l].lastOk
<1>1. OkOnly(posted[l]) \in SUBSET Sample /\ heard[l] \subseteq OkOnly(posted[l])
  BY DEF OkOnly, IInv, TypeOK, ListingInv, HeardInv
<1>2. Stamps(row[l].lastOk, OkOnly(posted[l]))
  BY DEF IInv, ListingInv, StampInv
<1>3. QED
  BY <1>1, <1>2, StampCovers, NeverOutside

LEMMA PendingStep ==
  ASSUME IInv, PendingPass, NEW l \in Listings
  PROVE  ListingInv(l)'
<1> DEFINE v == PendingVerdict(l)
<1>1. PassEffect(v, "active", l)
  <2>1. [k \in Listings |-> PendingVerdict(k)] \in [Listings -> Verdict]
    BY Verdicts
  <2>2. v # "keep" => l \in picked
    BY Verdicts
  <2>3. Pass([k \in Listings |-> PendingVerdict(k)], "active")
    BY DEF PendingPass
  <2>4. QED
    BY <2>1, <2>2, <2>3, PassListing
<1>2. /\ row' = row /\ posted' = posted /\ heard' = heard /\ tick' = tick
      /\ pc = "pending" /\ pc' = "active"
  BY DEF PendingPass, proberVars
<1>3. l \in alerts' => v = "fail" /\ seen[l].count < NotifyCap
  BY DEF PendingPass, Unwarned
<1>4. /\ TypeOK /\ row[l] \in Row /\ draft[l] = NoRow /\ View(l) = row[l]
      /\ seen[l] # NoRow => seen[l] \in Row /\ row[l].status # "broken"
      /\ PassInv(l) /\ SeenInv(l) /\ StampInv(l) /\ HeardInv(l)
  BY <1>2 DEF IInv, ListingInv, PassInv, SeenInv, View, Locked, TypeOK
<1>5. StampInv(l)' /\ HeardInv(l)'
  BY <1>2, <1>4 DEF StampInv, HeardInv
<1>6. CASE v = "keep"
  <2>1. draft'[l] = NoRow /\ l \notin alerts' /\ View(l)' = row[l]
    BY <1>1, <1>2, <1>3, <1>4, <1>6 DEF PassEffect, View, Locked
  <2>2. \/ seen'[l] = seen[l]
        \/ seen'[l] = NoRow
        \/ seen'[l] = row[l] /\ row[l].status = "active"
    BY <1>1, <1>4, <1>6 DEF PassEffect
  <2>3. SeenInv(l)'
    BY <1>2, <1>4, <2>1, <2>2, RowCovers DEF SeenInv
  <2>4. QED
    BY <1>1, <1>2, <1>4, <1>5, <2>1, <2>3
    DEF ListingInv, PassInv, DraftInv, AlertInv, PassEffect
<1>7. CASE v \in {"promote", "fail"}
  <2>1. l \in picked /\ seen[l] # NoRow
    BY <1>4, <1>7, Verdicts DEF PassInv
  <2>2. /\ draft'[l] = Outcome(v, row[l]) /\ seen'[l] = Outcome(v, seen[l])
        /\ draft'[l] # NoRow /\ seen'[l] # NoRow /\ View(l)' = draft'[l]
    BY <1>1, <1>4, <1>7, <2>1, OutcomeRow DEF PassEffect, View, Locked
  <2>3. /\ draft'[l].lastOk = row[l].lastOk
        /\ draft'[l].lastProbed = row[l].lastProbed
        /\ seen'[l].lastOk = seen[l].lastOk
        /\ draft'[l].count = seen'[l].count
        /\ v = "promote" => draft'[l].status = "active" /\ draft'[l].count = 0
        /\ v = "fail" => draft'[l].status = "broken" /\ draft'[l].count = seen[l].count
    BY <1>4, <1>7, <2>1, <2>2, OutcomeRow DEF SeenInv
  <2>4. v = "promote" => OkOnly(posted[l]) # {}
    BY DEF PendingVerdict, HadOk
  <2>5. v = "fail" => heard[l] = {}
    BY <1>4 DEF PendingVerdict, HadOk, HeardInv
  <2>6. SeenInv(l)'
    BY <1>2, <1>4, <2>1, <2>2, <2>3 DEF SeenInv
  <2>7. DraftInv(l)'
    BY <1>2, <1>7, <2>2, <2>3, <2>4, <2>5 DEF DraftInv
  <2>8. PassInv(l)' /\ AlertInv(l)'
    BY <1>2, <1>3, <2>2, <2>3 DEF PassInv, AlertInv
  <2>9. QED
    BY <1>5, <2>6, <2>7, <2>8 DEF ListingInv
<1>8. QED
  BY <1>6, <1>7 DEF PendingVerdict

LEMMA DemoteStep ==
  ASSUME IInv, DemotePass, NEW l \in Listings
  PROVE  ListingInv(l)'
<1> DEFINE v == DemoteVerdict(l)
<1>1. PassEffect(v, "broken", l)
  <2>1. [k \in Listings |-> DemoteVerdict(k)] \in [Listings -> Verdict]
    BY Verdicts
  <2>2. v # "keep" => l \in picked
    BY Verdicts
  <2>3. Pass([k \in Listings |-> DemoteVerdict(k)], "broken")
    BY DEF DemotePass
  <2>4. QED
    BY <2>1, <2>2, <2>3, PassListing
<1>2. /\ row' = row /\ posted' = posted /\ heard' = heard /\ tick' = tick
      /\ pc = "active" /\ pc' = "broken"
  BY DEF DemotePass, proberVars
<1>3. l \in alerts' => l \in alerts \/ (v = "demote" /\ seen[l].count < NotifyCap)
  BY DEF DemotePass, Unwarned
<1>4. /\ TypeOK /\ row[l] \in Row /\ View(l) \in Row
      /\ seen[l] # NoRow => seen[l] \in Row /\ row[l].status # "broken"
      /\ PassInv(l) /\ SeenInv(l) /\ DraftInv(l) /\ AlertInv(l) /\ StampInv(l) /\ HeardInv(l)
  BY <1>2, ViewRow DEF IInv, ListingInv, SeenInv, TypeOK
<1>5. StampInv(l)' /\ HeardInv(l)'
  BY <1>2, <1>4 DEF StampInv, HeardInv
<1>6. CASE v = "keep"
  <2>1. draft'[l] = draft[l] /\ View(l)' = View(l) /\ (l \in alerts' => l \in alerts)
    BY <1>1, <1>2, <1>3, <1>6 DEF PassEffect, View, Locked
  <2>2. CASE seen[l] # NoRow
    <3>1. seen'[l] = seen[l]
      BY <1>1, <1>6, <2>2 DEF PassEffect
    <3>2. QED
      BY <1>1, <1>2, <1>4, <1>5, <2>1, <2>2, <3>1
      DEF ListingInv, PassInv, SeenInv, DraftInv, AlertInv, PassEffect
  <2>3. CASE seen[l] = NoRow
    <3>1. draft[l] = NoRow /\ View(l) = row[l]
      BY <1>4, <2>3 DEF DraftInv, View, Locked
    <3>2. seen'[l] = NoRow \/ seen'[l] = row[l]
      BY <1>1, <1>6, <2>3 DEF PassEffect
    <3>3. SeenInv(l)'
      BY <1>2, <1>4, <2>1, <3>1, <3>2, RowCovers DEF SeenInv
    <3>4. QED
      BY <1>1, <1>2, <1>4, <1>5, <2>1, <3>1, <3>3
      DEF ListingInv, PassInv, DraftInv, AlertInv, PassEffect
  <2>4. QED
    BY <2>2, <2>3
<1>7. CASE v = "demote"
  <2>1. l \in picked /\ seen[l] # NoRow
    BY <1>4, <1>7, Verdicts DEF PassInv
  <2>2. /\ draft'[l] = Outcome(v, View(l)) /\ seen'[l] = Outcome(v, seen[l])
        /\ draft'[l] # NoRow /\ seen'[l] # NoRow /\ View(l)' = draft'[l]
    BY <1>1, <1>4, <1>7, <2>1, OutcomeRow DEF PassEffect, View, Locked
  <2>3. /\ draft'[l].lastOk = row[l].lastOk
        /\ draft'[l].lastProbed = row[l].lastProbed
        /\ seen'[l].lastOk = seen[l].lastOk
        /\ draft'[l].count = seen'[l].count
        /\ draft'[l].count = View(l).count
        /\ draft'[l].count = seen[l].count
        /\ draft'[l].status = "broken"
    BY <1>4, <1>7, <2>1, <2>2, OutcomeRow DEF SeenInv, DraftInv, View, Locked
  <2>4. \A s \in heard[l] : s.at < tick - BrokenAfter
    <3>1. seen[l].lastOk = Never \/ ~(seen[l].lastOk >= tick - BrokenAfter)
      BY <1>7 DEF DemoteVerdict, Within
    <3>2. seen[l].lastOk \in Int /\ tick - BrokenAfter \in Int
      BY <1>4, <2>1, ListingAssumption
      DEF TypeOK, Row, Stamp, Time, Never, ListingAssumption
    <3>3. \A s \in heard[l] : s.at \in Int
      BY <1>4 DEF TypeOK, Sample, Time
    <3>4. QED
      BY <1>4, <2>1, <3>1, <3>2, <3>3 DEF SeenInv
  <2>5. SeenInv(l)'
    BY <1>2, <1>4, <2>1, <2>2, <2>3 DEF SeenInv
  <2>6. DraftInv(l)'
    BY <1>2, <2>2, <2>3, <2>4 DEF DraftInv
  <2>7. PassInv(l)' /\ AlertInv(l)'
    BY <1>2, <1>3, <1>4, <2>2, <2>3 DEF PassInv, AlertInv
  <2>8. QED
    BY <1>5, <2>5, <2>6, <2>7 DEF ListingInv
<1>8. QED
  BY <1>6, <1>7 DEF DemoteVerdict

\* The commit: every listing is what the tick's transaction made of it.
LEMMA RecoverEffect ==
  ASSUME IInv, RecoverPass, NEW l \in Listings
  PROVE  /\ pc = "broken" /\ pc' = "notify"
         /\ posted' = posted /\ heard' = heard /\ tick' = tick /\ alerts' = alerts
         /\ seen'[l] = NoRow /\ draft'[l] = NoRow /\ l \notin picked'
         /\ \/ row'[l] = View(l)
            \/ /\ row'[l] = Outcome("recover", View(l))
               /\ l \in picked
               /\ \E s \in Recent(l) : s.ok
  BY DEF RecoverPass, proberVars

LEMMA RecoverStep ==
  ASSUME IInv, RecoverPass, NEW l \in Listings
  PROVE  ListingInv(l)'
<1>1. /\ View(l) \in Row /\ row[l] \in Row /\ posted[l] \in SUBSET Sample
      /\ DraftInv(l) /\ AlertInv(l) /\ StampInv(l) /\ HeardInv(l)
  BY ViewRow DEF IInv, ListingInv, TypeOK
<1>2. View(l).lastOk = row[l].lastOk /\ View(l).lastProbed = row[l].lastProbed
  BY <1>1 DEF DraftInv, View, Locked
<1>3. /\ row'[l].lastOk = row[l].lastOk
      /\ row'[l].lastProbed = row[l].lastProbed
      /\ row'[l].count = View(l).count \/ row'[l].count = 0
  BY <1>1, <1>2, RecoverEffect, OutcomeRow DEF IInv
<1>4. AlertInv(l)'
  <2>1. View(l)' = row'[l]
    BY RecoverEffect DEF View, Locked
  <2>2. View(l).count \in Nat /\ NotifyCap \in Nat
    BY <1>1, ListingAssumption DEF Row, ListingAssumption
  <2>3. QED
    BY <1>1, <1>3, <2>1, <2>2, RecoverEffect DEF AlertInv
<1>5. StampInv(l)' /\ HeardInv(l)'
  BY <1>1, <1>3, RecoverEffect DEF StampInv, HeardInv
<1>6. PassInv(l)' /\ SeenInv(l)' /\ DraftInv(l)'
  BY RecoverEffect DEF PassInv, SeenInv, DraftInv
<1>7. QED
  BY <1>4, <1>5, <1>6 DEF ListingInv

\* The end of a tick, in order or not.
LEMMA EndStep ==
  ASSUME IInv, Notify \/ Die, NEW l \in Listings
  PROVE  ListingInv(l)'
<1>1. /\ pc' = "idle" /\ l \notin picked' /\ l \notin alerts' /\ posted' = posted
      /\ seen'[l] = NoRow /\ draft'[l] = NoRow /\ heard'[l] = {}
  BY DEF Notify, Die, Forget, proberVars
<1>2. /\ row'[l].lastOk = row[l].lastOk
      /\ row'[l].lastProbed = row[l].lastProbed
  BY DEF Notify, Die, IInv, TypeOK, Row
<1>3. QED
  BY <1>1, <1>2
  DEF IInv, ListingInv, PassInv, SeenInv, DraftInv, AlertInv, StampInv, HeardInv

LEMMA LoadPreserved == IInv /\ [Next]_vars => \A r \in Requests : LoadInv(r)'
<1> SUFFICES ASSUME IInv, [Next]_vars, NEW r \in Requests PROVE LoadInv(r)'
  OBVIOUS
<1>1. ASSUME NEW q \in Requests, NEW op \in Ops, NEW l \in Listings, Load(q, op, l)
      PROVE LoadInv(r)'
  BY <1>1 DEF Load, Allowed, LoadInv, IInv, TypeOK
<1>2. ASSUME NEW q \in Requests, Commit(q) \/ Drop(q) PROVE LoadInv(r)'
  BY <1>2 DEF Commit, Drop, LoadInv, IInv, TypeOK
<1>3. CASE UNCHANGED session
  BY <1>3 DEF LoadInv, IInv
<1>4. QED
  BY <1>1, <1>2, <1>3
  DEF Next, Tick, vars, Advance, Measure, Post, Begin, PendingPass, DemotePass,
      RecoverPass, Notify, Die

LEMMA Invariant == Spec => []IInv
<1>1. Init => IInv
  <2>1. Init => TypeOK
    BY ListingAssumption
    DEF Init, TypeOK, Time, Stamp, Row, Statuses, Passes, ListingAssumption
  <2>2. ASSUME Init, NEW l \in Listings PROVE ListingInv(l)
    BY <2>2 DEF Init, ListingInv, PassInv, SeenInv, DraftInv, AlertInv, StampInv, HeardInv,
               Stamps, OkOnly
  <2>3. QED
    BY <2>1, <2>2 DEF IInv, LoadInv, Init
<1>2. IInv /\ [Next]_vars => IInv'
  <2> SUFFICES ASSUME IInv, [Next]_vars PROVE IInv'
    OBVIOUS
  <2>1. ASSUME NEW l \in Listings PROVE ListingInv(l)'
    <3>1. CASE UNCHANGED <<row, posted, gateVars>>
      BY <3>1, Frame
    <3>2. ASSUME NEW k \in Listings, NEW s \in measured[k], Post(k, s) PROVE ListingInv(l)'
      BY <3>2, PostStep
    <3>3. ASSUME NEW r \in Requests, Commit(r) PROVE ListingInv(l)'
      BY <3>3, CommitStep
    <3>4. CASE Tick \/ Die
      BY <3>4, BeginStep, PendingStep, DemoteStep, RecoverStep, EndStep DEF Tick
    <3>5. QED
      BY <3>1, <3>2, <3>3, <3>4
      DEF Next, vars, Advance, Measure, Load, Drop, proberVars, gateVars
  <2>2. QED
    BY <2>1, TypePreserved, LoadPreserved DEF IInv
<1>3. QED
  BY <1>1, <1>2, PTL DEF Spec

-----------------------------------------------------------------------------

\* Every variable keeps its type; in particular buyers are never counted as
\* warned more often than _BROKEN_NOTIFY_CAP allows.
THEOREM TypeCorrect == Spec => []TypeOK
<1>1. IInv => TypeOK
  BY DEF IInv
<1>2. QED
  BY <1>1, Invariant, PTL

\* The stamps of post_samples are those of the samples in the table, in
\* whatever order samples arrive and whatever the gate and the seller write.
THEOREM StampsRight == Spec => []StampsFollowSamples
<1>1. IInv => StampsFollowSamples
  BY DEF IInv, ListingInv, StampInv, StampsFollowSamples
<1>2. QED
  BY <1>1, Invariant, PTL

\* No tick of the gate breaks a listing with a recent ok sample that had
\* arrived when the tick began.
THEOREM NoHealthyBroken == Spec => StillUp
<1>1. IInv /\ [Next]_vars =>
        [\A l \in Listings :
           GateCommits /\ row[l].status # "broken" /\ row'[l].status = "broken"
           => \A s \in heard[l] : s.at < tick - BrokenAfter]_vars
  <2> SUFFICES ASSUME IInv, [Next]_vars, NEW l \in Listings, GateCommits,
                      row[l].status # "broken", row'[l].status = "broken"
               PROVE  \A s \in heard[l] : s.at < tick - BrokenAfter
    OBVIOUS
  <2>1. RecoverPass
    BY DEF GateCommits, Next, vars, Tick, Advance, Measure, Post, Load, Commit, Drop,
           Begin, PendingPass, DemotePass, Notify, Die, Forget, gateVars
  <2>2. View(l) \in Row /\ DraftInv(l)
    BY ViewRow DEF IInv, ListingInv
  <2>3. row'[l] = View(l)
    BY <2>1, <2>2, RecoverEffect, OutcomeRow DEF IInv
  <2>4. QED
    BY <2>2, <2>3 DEF View, Locked, DraftInv
<1>2. QED
  BY <1>1, Invariant, PTL DEF Spec, StillUp

\* The gate puts a listing on sale only on an ok sample, and takes a broken one
\* back only on an ok sample measured after it broke.
THEOREM OnlyTestedSold == Spec => SoldOnEvidence
<1>1. IInv /\ [Next]_vars =>
        [\A l \in Listings :
           /\ GateCommits /\ row[l].status # "active" /\ row'[l].status = "active"
           => \E s \in OkOnly(posted[l]) :
                row[l].status = "broken" => s.at > row[l].brokenSince]_vars
  <2> SUFFICES ASSUME IInv, [Next]_vars, NEW l \in Listings, GateCommits,
                      row[l].status # "active", row'[l].status = "active"
               PROVE  \E s \in OkOnly(posted[l]) :
                        row[l].status = "broken" => s.at > row[l].brokenSince
    OBVIOUS
  <2>1. RecoverPass
    BY DEF GateCommits, Next, vars, Tick, Advance, Measure, Post, Load, Commit, Drop,
           Begin, PendingPass, DemotePass, Notify, Die, Forget, gateVars
  <2>2. /\ row[l] \in Row /\ DraftInv(l) /\ SeenInv(l) /\ PassInv(l)
        /\ posted[l] \in SUBSET Sample
    BY DEF IInv, ListingInv, TypeOK
  <2>3. CASE row'[l] = View(l)
    BY <2>2, <2>3 DEF View, Locked, DraftInv, SeenInv
  <2>4. CASE l \in picked /\ \E s \in Recent(l) : s.ok
    <3>1. PICK s \in posted[l] : s.ok /\ s.at > Since(l)
      BY <2>4 DEF Recent, Latest
    <3>2. s \in OkOnly(posted[l])
      BY <3>1 DEF OkOnly
    <3>3. row[l].status = "broken" =>
            \/ Since(l) = row[l].brokenSince
            \/ row[l].brokenSince = Never /\ Since(l) = 0
      BY <2>2, <2>4 DEF SeenInv, PassInv, Since
    <3>4. s.at \in Nat /\ Never = -1
      BY <2>2, ListingAssumption DEF Sample, Time, Never, ListingAssumption
    <3>5. QED
      BY <3>1, <3>2, <3>3, <3>4
  <2>5. QED
    BY <2>1, <2>3, <2>4, RecoverEffect
<1>2. QED
  BY <1>1, Invariant, PTL DEF Spec, SoldOnEvidence

\* A deletion is undone only by a request or a tick that had loaded the listing
\* before it.
THEOREM DeletionFinal == Spec => DeletionHolds
<1>1. IInv /\ [Next]_vars =>
        [\A l \in Listings :
           row[l].status = "deleted" /\ row'[l].status # "deleted"
           => \/ GateCommits /\ seen[l] # NoRow
              \/ \E r \in Requests :
                   /\ session[r] # NoRequest /\ session'[r] = NoRequest
                   /\ session[r].listing = l /\ session[r].status # "deleted"]_vars
  <2> SUFFICES ASSUME IInv, [Next]_vars, NEW l \in Listings,
                      row[l].status = "deleted", row'[l].status # "deleted"
               PROVE  \/ GateCommits /\ seen[l] # NoRow
                      \/ \E r \in Requests :
                           /\ session[r] # NoRequest /\ session'[r] = NoRequest
                           /\ session[r].listing = l /\ session[r].status # "deleted"
    OBVIOUS
  <2>1. ASSUME NEW k \in Listings, NEW s \in measured[k], Post(k, s) PROVE FALSE
    <3>1. row'[l].status = row[l].status
      BY <2>1 DEF Post, IInv, TypeOK, Row
    <3>2. QED
      BY <3>1
  <2>2. ASSUME NEW r \in Requests, Commit(r)
        PROVE  /\ session[r] # NoRequest /\ session'[r] = NoRequest
               /\ session[r].listing = l /\ session[r].status # "deleted"
    BY <2>2 DEF Commit, IInv, TypeOK, LoadInv
  <2>3. ASSUME RecoverPass PROVE GateCommits /\ seen[l] # NoRow
    BY <2>3, RecoverEffect DEF GateCommits, IInv, ListingInv, PassInv, DraftInv, View, Locked
  <2>4. ASSUME Notify PROVE FALSE
    BY <2>4 DEF Notify, IInv, TypeOK, Row
  <2>5. CASE UNCHANGED row
    BY <2>5
  <2>6. QED
    BY <2>1, <2>2, <2>3, <2>4, <2>5
    DEF Next, vars, Tick, Advance, Measure, Load, Drop, Begin, PendingPass, DemotePass, Die
<1>2. QED
  BY <1>1, Invariant, PTL DEF Spec, DeletionHolds
=============================================================================
