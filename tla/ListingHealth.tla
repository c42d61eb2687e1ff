--------------------------- MODULE ListingHealth ---------------------------
(***************************************************************************)
(* The health of listings: the prober's samples, the quality gate that     *)
(* promotes, demotes and recovers, and the seller's requests.              *)
(*                                                                         *)
(* A tick of the gate is one transaction over several reads.  Its updates  *)
(* name a row by id alone and keep the row locked until the commit; a row  *)
(* object once loaded stays as it was loaded, apart from the tick's own    *)
(* writes (the session's identity map).  A seller's request loads the row, *)
(* talks to the panel or to Telegram, and commits the columns it changed.  *)
(*                                                                         *)
(* A listing starts as create_listing commits it, at time 0.  Rounding of  *)
(* round-trip times, stability figures and message texts are left out.     *)
(***************************************************************************)
EXTENDS Integers, FiniteSets, FiniteSetsExt

CONSTANTS
  Listings,     \* ids of listings
  NoRow,        \* the row object of a listing the tick has not loaded
  Requests,     \* concurrent requests of sellers
  NoRequest,    \* an idle one
  GateWindow,   \* listing_quality_gate_minutes
  BrokenAfter,  \* listing_broken_after_minutes
  BrokenProbe,  \* listing_broken_probe_minutes
  NotifyCap,    \* _BROKEN_NOTIFY_CAP
  MaxTime,      \* bound: the horizon
  MaxSamples    \* bound: samples measured per listing

ASSUME ListingAssumption ==
  /\ GateWindow \in Nat /\ BrokenAfter \in Nat /\ BrokenProbe \in Nat
  /\ NotifyCap \in Nat /\ MaxTime \in Nat
  /\ GateWindow <= MaxTime

VARIABLES
  now,       \* the clock all parts share
  row,       \* the committed row of each listing
  measured,  \* samples taken, to be delivered late, again or never
  posted,    \* ping_samples
  pc,        \* the pass the gate's tick runs next
  tick,      \* "now" of the tick
  picked,    \* the rows the last select of the tick returned
  seen,      \* row objects the tick has loaded
  draft,     \* rows the tick has written and not committed
  alerts,    \* listings whose buyers the tick is to warn
  heard,     \* history: the ok samples posted when the tick began
  session    \* the open request of each seller's session

proberVars == <<measured, posted>>
gateVars   == <<pc, tick, picked, seen, draft, alerts, heard>>
vars == <<now, row, proberVars, gateVars, session>>

-----------------------------------------------------------------------------

Statuses == {"pending", "active", "broken", "disabled", "deleted"}
Passes   == {"idle", "pending", "active", "broken", "notify"}
Ops      == {"disable", "enable", "retry", "edit", "delete"}

Time   == 0..MaxTime
Never  == -1
Stamp  == Time \cup {Never}
Sample == [at : Time, ok : BOOLEAN]

Row == [status : Statuses, lastOk : Stamp, lastProbed : Stamp,
        brokenSince : Stamp, deadline : Stamp, count : 0..NotifyCap]
Request == [op : Ops, listing : Listings, status : Statuses, dated : BOOLEAN,
            deadline : Stamp]

\* The tick's memory tells a row it has not loaded from every row.
ASSUME NoRowAssumption == NoRow \notin Row

OkOnly(S) == {s \in S : s.ok}

\* Mutant of Later: the stamp of the last delivery.
LastDelivery(old, t) == t

\* GREATEST(COALESCE(old, t), t)
Later(old, t) == IF old > t THEN old ELSE t

\* A stamp within the last w minutes.
Within(stamp, t, w) == stamp # Never /\ stamp >= t - w

Locked(l) == draft[l] # NoRow

\* A listing as the tick's transaction sees it.
View(l) == IF Locked(l) THEN draft[l] ELSE row[l]

Init ==
  /\ now = 0
  /\ row = [l \in Listings |->
              [status |-> "pending", lastOk |-> Never, lastProbed |-> Never,
               brokenSince |-> Never, deadline |-> GateWindow, count |-> 0]]
  /\ measured = [l \in Listings |-> {}]
  /\ posted = [l \in Listings |-> {}]
  /\ pc = "idle"
  /\ tick = 0
  /\ picked = {}
  /\ seen = [l \in Listings |-> NoRow]
  /\ draft = [l \in Listings |-> NoRow]
  /\ alerts = {}
  /\ heard = [l \in Listings |-> {}]
  /\ session = [r \in Requests |-> NoRequest]

Advance ==
  /\ now < MaxTime
  /\ now' = now + 1
  /\ UNCHANGED <<row, proberVars, gateVars, session>>

-----------------------------------------------------------------------------
(* The prober and post_samples.                                            *)

\* list_targets: a broken listing is measured only every BrokenProbe minutes.
\* The prober measures a target as it learns of it.
Target(l) ==
  \/ row[l].status \in {"pending", "active"}
  \/ row[l].status = "broken" /\ ~Within(row[l].lastProbed, now, BrokenProbe)

Measure(l, ok) ==
  /\ Target(l)
  /\ Cardinality(measured[l]) < MaxSamples
  /\ measured' = [measured EXCEPT ![l] = @ \cup {[at |-> now, ok |-> ok]}]
  /\ UNCHANGED <<now, row, posted, gateVars, session>>

\* A sample and the stamps it moves are one transaction, which waits while the
\* gate holds the row.
Post(l, s) ==
  /\ s \in measured[l]
  /\ ~Locked(l)
  /\ posted' = [posted EXCEPT ![l] = @ \cup {s}]
  /\ row' = [row EXCEPT
       ![l].lastProbed = Later(@, s.at),
       ![l].lastOk = IF s.ok THEN Later(@, s.at) ELSE @]
  /\ UNCHANGED <<now, measured, gateVars, session>>

-----------------------------------------------------------------------------
(* The seller.                                                             *)

\* Mutant of Allowed: a deleted listing can still be loaded.
AllowedDeleted(op, status) ==
  \/ op \in {"disable", "enable", "delete"}
  \/ op = "retry" /\ status = "broken"
  \/ op = "edit" /\ status \in {"broken", "disabled"}

\* What the loaded status lets a request do.  An edit of a pending or active
\* listing leaves its health alone.
Allowed(op, status) ==
  /\ status # "deleted"
  /\ \/ op = "disable" /\ status # "disabled"
     \/ op = "enable" /\ status # "active"
     \/ op = "retry" /\ status = "broken"
     \/ op = "edit" /\ status \in {"broken", "disabled"}
     \/ op = "delete"

\* The deadline of the test that is asked for is reckoned from here.
Load(r, op, l) ==
  LET test == op \in {"retry", "edit"} IN
  /\ session[r] = NoRequest
  /\ Allowed(op, row[l].status)
  /\ test => now + GateWindow <= MaxTime
  /\ session' = [session EXCEPT ![r] =
       [op |-> op, listing |-> l, status |-> row[l].status,
        dated |-> row[l].brokenSince # Never,
        deadline |-> IF test THEN now + GateWindow ELSE Never]]
  /\ UNCHANGED <<now, row, proberVars, gateVars>>

\* The columns each handler changes.
Disable(r) == [r EXCEPT !.status = "disabled"]
Enable(r)  == [r EXCEPT !.status = "active"]
Delete(r)  == [r EXCEPT !.status = "deleted"]

\* Back to test.  broken_since is written only if the loaded row had one to clear.
Retest(q, r) ==
  [r EXCEPT !.status = "pending",
            !.deadline = q.deadline,
            !.brokenSince = IF q.dated THEN Never ELSE @]

Flush(q, r) ==
  CASE q.op = "disable" -> Disable(r)
    [] q.op = "enable"  -> Enable(r)
    [] q.op = "delete"  -> Delete(r)
    [] q.op \in {"retry", "edit"} -> Retest(q, r)

Commit(r) ==
  LET q == session[r] IN
  /\ q # NoRequest
  /\ ~Locked(q.listing)
  /\ row' = [row EXCEPT ![q.listing] = Flush(q, @)]
  /\ session' = [session EXCEPT ![r] = NoRequest]
  /\ UNCHANGED <<now, proberVars, gateVars>>

\* The request dies before its commit.
Drop(r) ==
  /\ session[r] # NoRequest
  /\ session' = [session EXCEPT ![r] = NoRequest]
  /\ UNCHANGED <<now, row, proberVars, gateVars>>

-----------------------------------------------------------------------------
(* listing_quality_gate_once.                                              *)

\* What a tick holds in memory and in its transaction is gone when it ends.
Forget ==
  /\ pc' = "idle"
  /\ tick' = 0
  /\ picked' = {}
  /\ seen' = [l \in Listings |-> NoRow]
  /\ draft' = [l \in Listings |-> NoRow]
  /\ alerts' = {}
  /\ heard' = [l \in Listings |-> {}]

Begin ==
  LET S == {l \in Listings : row[l].status = "pending"} IN
  /\ pc = "idle"
  /\ pc' = "pending"
  /\ tick' = now
  /\ picked' = S
  /\ seen' = [l \in Listings |-> IF l \in S THEN row[l] ELSE NoRow]
  /\ heard' = [l \in Listings |-> OkOnly(posted[l])]
  /\ UNCHANGED <<now, row, proberVars, draft, alerts, session>>

\* The values of the update each verdict leads to.
Outcome(v, r) ==
  CASE v = "promote" -> [r EXCEPT !.status = "active", !.deadline = Never, !.count = 0]
    [] v = "fail"    -> [r EXCEPT !.status = "broken", !.brokenSince = tick, !.deadline = Never]
    [] v = "demote"  -> [r EXCEPT !.status = "broken", !.brokenSince = tick]
    [] v = "recover" -> [r EXCEPT !.status = "active", !.brokenSince = Never, !.count = 0]

\* Update the rows with a verdict, then select those whose status is next.
Pass(verdict, next) ==
  LET D == [l \in Listings |->
              IF verdict[l] = "keep" THEN draft[l] ELSE Outcome(verdict[l], View(l))]
      O == [l \in Listings |->
              IF verdict[l] = "keep" THEN seen[l] ELSE Outcome(verdict[l], seen[l])]
      S == {l \in Listings : (IF D[l] = NoRow THEN row[l] ELSE D[l]).status = next}
  IN
  /\ draft' = D
  /\ picked' = S
  /\ seen' = [l \in Listings |-> IF l \in S /\ O[l] = NoRow THEN row[l] ELSE O[l]]

\* Mutant of Unwarned: one warning more.
UnwarnedOnceMore(S) == {l \in S : seen[l].count <= NotifyCap}

\* Listings whose buyers have not been warned often enough.
Unwarned(S) == {l \in S : seen[l].count < NotifyCap}

\* Mutant of HadOk: any sample counts.
HadSample(l) == posted[l] # {}

\* Any ok sample since created_at.
HadOk(l) == OkOnly(posted[l]) # {}

Overdue(l) == seen[l].deadline = Never \/ seen[l].deadline <= tick

\* Mutant of PendingVerdict: the deadline is looked at first.
DeadlineFirst(l) ==
  IF l \notin picked THEN "keep"
  ELSE IF Overdue(l) THEN "fail"
  ELSE IF HadOk(l) THEN "promote"
  ELSE "keep"

\* Mutant of PendingVerdict: nobody looks at the deadline.
NoDeadline(l) == IF l \in picked /\ HadOk(l) THEN "promote" ELSE "keep"

PendingVerdict(l) ==
  IF l \notin picked THEN "keep"
  ELSE IF HadOk(l) THEN "promote"
  ELSE IF Overdue(l) THEN "fail"
  ELSE "keep"

PendingPass ==
  LET verdict == [l \in Listings |-> PendingVerdict(l)] IN
  /\ pc = "pending"
  /\ pc' = "active"
  /\ Pass(verdict, "active")
  /\ alerts' = Unwarned({l \in picked : verdict[l] = "fail"})
  /\ UNCHANGED <<now, row, proberVars, tick, heard, session>>

\* No ok sample within the window, though the listing is being probed.
DemoteVerdict(l) ==
  IF /\ l \in picked
     /\ ~Within(seen[l].lastOk, tick, BrokenAfter)
     /\ Within(seen[l].lastProbed, tick, BrokenAfter)
  THEN "demote" ELSE "keep"

DemotePass ==
  LET verdict == [l \in Listings |-> DemoteVerdict(l)] IN
  /\ pc = "active"
  /\ pc' = "broken"
  /\ Pass(verdict, "broken")
  /\ alerts' = alerts \cup Unwarned({l \in picked : verdict[l] = "demote"})
  /\ UNCHANGED <<now, row, proberVars, tick, heard, session>>

\* The newest samples; of two taken at one instant the database returns either.
Latest(S) == {s \in S : \A t \in S : s.at >= t.at}

\* broken_since, or created_at
Since(l) == IF seen[l].brokenSince = Never THEN 0 ELSE seen[l].brokenSince

Recent(l) == Latest({s \in posted[l] : s.at > Since(l)})

\* Recover the listings whose newest sample is ok, and commit the tick.
RecoverPass ==
  \E R \in SUBSET {l \in picked : \E s \in Recent(l) : s.ok} :
    /\ pc = "broken"
    /\ \A l \in picked \ R : Recent(l) = {} \/ \E s \in Recent(l) : ~s.ok
    /\ row' = [l \in Listings |->
                 IF l \in R THEN Outcome("recover", View(l)) ELSE View(l)]
    /\ pc' = "notify"
    /\ picked' = {}
    /\ seen' = [l \in Listings |-> NoRow]
    /\ draft' = [l \in Listings |-> NoRow]
    /\ UNCHANGED <<now, proberVars, tick, alerts, heard, session>>

\* The buyers are warned, and the warnings counted.
Notify ==
  /\ pc = "notify"
  /\ row' = [l \in Listings |->
               IF l \in alerts THEN [row[l] EXCEPT !.count = @ + 1] ELSE row[l]]
  /\ Forget
  /\ UNCHANGED <<now, proberVars, session>>

\* The tick dies at its commit, and is rolled back, or after it, and the warnings
\* that are out are not counted.  One that dies earlier leaves no more than that.
Die ==
  /\ pc \in {"broken", "notify"}
  /\ Forget
  /\ UNCHANGED <<now, row, proberVars, session>>

-----------------------------------------------------------------------------

\* A tick runs one pass after the other.
Tick == Begin \/ PendingPass \/ DemotePass \/ RecoverPass \/ Notify

Next ==
  \/ Advance
  \/ \E l \in Listings : \/ \E ok \in BOOLEAN : Measure(l, ok)
                         \/ \E s \in measured[l] : Post(l, s)
  \/ \E r \in Requests : \/ \E op \in Ops, l \in Listings : Load(r, op, l)
                         \/ Commit(r) \/ Drop(r)
  \/ Tick \/ Die

Spec == Init /\ [][Next]_vars

\* Time passes, the scheduler starts a tick every thirty seconds, and not every
\* tick fails.
FairSpec ==
  /\ Spec
  /\ WF_vars(Advance) /\ WF_vars(Tick)
  /\ SF_vars(RecoverPass)

-----------------------------------------------------------------------------
(* Properties.                                                             *)

TypeOK ==
  /\ now \in Time
  /\ row \in [Listings -> Row]
  /\ measured \in [Listings -> SUBSET Sample]
  /\ posted \in [Listings -> SUBSET Sample]
  /\ pc \in Passes
  /\ tick \in Time
  /\ picked \subseteq Listings
  /\ seen \in [Listings -> Row \cup {NoRow}]
  /\ draft \in [Listings -> Row \cup {NoRow}]
  /\ alerts \subseteq Listings
  /\ heard \in [Listings -> SUBSET Sample]
  /\ session \in [Requests -> Request \cup {NoRequest}]

\* A stamp is the time of the newest of a set of samples.
Stamps(stamp, S) == IF S = {} THEN stamp = Never ELSE \E s \in Latest(S) : s.at = stamp

\* The stamps on the row are those of the samples posted so far, in whatever
\* order they came and whatever the seller and the gate wrote in between.
StampsFollowSamples ==
  \A l \in Listings :
    /\ Stamps(row[l].lastProbed, posted[l])
    /\ Stamps(row[l].lastOk, OkOnly(posted[l]))

GateCommits == pc = "broken" /\ pc' = "notify"

\* The gate puts a listing on sale only on an ok sample, and takes a broken one
\* back only on one measured after it broke.
SoldOnEvidence ==
  [][\A l \in Listings :
       /\ GateCommits /\ row[l].status # "active" /\ row'[l].status = "active"
       => \E s \in OkOnly(posted[l]) :
            row[l].status = "broken" => s.at > row[l].brokenSince]_vars

\* A tick breaks no listing with an ok sample that is recent and had arrived
\* when the tick began, not even when its deadline has passed.
StillUp ==
  [][\A l \in Listings :
       GateCommits /\ row[l].status # "broken" /\ row'[l].status = "broken"
       => \A s \in heard[l] : s.at < tick - BrokenAfter]_vars

\* A deleted listing comes back only by a request or a tick that had loaded it
\* before: without such an overlap the deletion is final.
DeletionHolds ==
  [][\A l \in Listings :
       row[l].status = "deleted" /\ row'[l].status # "deleted"
       => \/ GateCommits /\ seen[l] # NoRow
          \/ \E r \in Requests :
               /\ session[r] # NoRequest /\ session'[r] = NoRequest
               /\ session[r].listing = l /\ session[r].status # "deleted"]_vars

\* A broken listing whose newest sample is ok and later than its outage.
UpAgain(l) ==
  LET since == {s \in posted[l] : s.at > row[l].brokenSince} IN
  /\ row[l].status = "broken"
  /\ since # {}
  /\ \A s \in Latest(since) : s.ok

\* Neither a pending listing nor one that is up again waits for ever, not even
\* when the seller keeps asking for tests.
HealthSettles ==
  \A l \in Listings :
    LET waiting == row[l].status = "pending" \/ UpAgain(l) IN waiting ~> ~waiting
=============================================================================
