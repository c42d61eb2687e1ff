----------------------------- MODULE Broadcast -----------------------------
(***************************************************************************)
(* Broadcasts of the administrators, and the blocking of users, which      *)
(* decides who gets them: create_broadcast, the worker's broadcast_tick,   *)
(* set_blocked and the bot's cb_block.                                     *)
(*                                                                         *)
(* A broadcast is a row with a filter and a status.  A tick takes the      *)
(* oldest row that is not done, reads the users its filter now selects,    *)
(* and writes to them one after the other with nothing in the database but *)
(* two counters.  A tick that ends early leaves the row running: the next  *)
(* tick reads the audience again and starts from the beginning.            *)
(*                                                                         *)
(* The total a broadcast is created with is only displayed, and left out.  *)
(***************************************************************************)
EXTENDS Integers, FiniteSets

CONSTANTS
  Users,
  Casts,          \* broadcasts, by created_at
  NoCast,
  ProgressEvery,  \* users between two updates of the counters
  MaxEdits,       \* bound: changes of users
  MaxFaults       \* bound: ticks cut off by a restart or by the database

ASSUME BroadcastAssumption ==
  /\ IsFiniteSet(Users)
  /\ Casts \subseteq Nat /\ NoCast \notin Casts
  /\ ProgressEvery \in Nat \ {0}
  /\ MaxEdits \in Nat /\ MaxFaults \in Nat

VARIABLES
  members,  \* rows of users
  buyers,   \* users with a config, deleted ones included
  blocked,  \* users.is_blocked
  status, kind, sent, failed,  \* broadcasts; "none" before the row is there
  pc,       \* of the worker's tick
  cur,      \* the broadcast it works on
  todo,     \* users it has still to write to
  nsent, nfailed,              \* its counters
  edits, faults,
  asked,    \* history: the audience as last read, of each broadcast
  tries,    \* history: messages to each user, of each broadcast
  cuts,     \* history: ticks cut off, of each broadcast
  steady,   \* history: in the audience ever since the broadcast was created
  barred    \* history: blocked ever since the broadcast was created

userVars == <<members, buyers, blocked>>
castVars == <<status, kind, sent, failed>>
tickVars == <<pc, cur, todo, nsent, nfailed>>
sendLog  == <<asked, tries, cuts>>
userLog  == <<steady, barred>>
vars == <<userVars, castVars, tickVars, edits, faults, sendLog, userLog>>

-----------------------------------------------------------------------------

Kinds == {"all", "buyers"}

Init ==
  /\ members \in SUBSET Users
  /\ buyers = {} /\ blocked = {}
  /\ status = [b \in Casts |-> "none"]
  /\ kind = [b \in Casts |-> "all"]
  /\ sent = [b \in Casts |-> 0] /\ failed = [b \in Casts |-> 0]
  /\ pc = "idle" /\ cur = NoCast /\ todo = {} /\ nsent = 0 /\ nfailed = 0
  /\ edits = 0 /\ faults = 0
  /\ asked = [b \in Casts |-> {}]
  /\ tries = [b \in Casts |-> [u \in Users |-> 0]]
  /\ cuts = [b \in Casts |-> 0]
  /\ steady = [b \in Casts |-> {}] /\ barred = [b \in Casts |-> {}]

\* Mutant of Audience: blocked users are not left out.
AudienceAll(k) == IF k = "buyers" THEN buyers ELSE members

\* _audience_filters: sellers are selected as buyers are, and a range of dates is
\* a part of all that does not change.
Audience(k) == (IF k = "buyers" THEN buyers ELSE members) \ blocked

-----------------------------------------------------------------------------
(* Users and administrators.                                               *)

Edit == edits < MaxEdits /\ edits' = edits + 1

\* A first contact with the bot or the mini app.
Join(u) ==
  /\ u \notin members
  /\ members' = members \cup {u}
  /\ Edit
  /\ UNCHANGED <<buyers, blocked, castVars, tickVars, faults, sendLog, userLog>>

\* create_config, of a user who was not blocked when the request began.
Buy(u) ==
  /\ u \in members \ buyers
  /\ buyers' = buyers \cup {u}
  /\ Edit
  /\ UNCHANGED <<members, blocked, castVars, tickVars, faults, sendLog, userLog>>

\* set_blocked; the bot's cb_block does the one that is not the case.
SetBlocked(u, on) ==
  /\ u \in members
  /\ blocked' = IF on THEN blocked \cup {u} ELSE blocked \ {u}
  /\ steady' = [b \in Casts |-> IF on THEN steady[b] \ {u} ELSE steady[b]]
  /\ barred' = [b \in Casts |-> IF on THEN barred[b] ELSE barred[b] \ {u}]
  /\ Edit
  /\ UNCHANGED <<members, buyers, castVars, tickVars, faults, sendLog>>

\* create_broadcast.  created_at is the start of its transaction: an older
\* broadcast may appear after a newer one.
Create(b, k) ==
  /\ status[b] = "none"
  /\ status' = [status EXCEPT ![b] = "queued"]
  /\ kind' = [kind EXCEPT ![b] = k]
  /\ steady' = [steady EXCEPT ![b] = Audience(k)]
  /\ barred' = [barred EXCEPT ![b] = blocked]
  /\ UNCHANGED <<userVars, sent, failed, tickVars, edits, faults, sendLog>>

-----------------------------------------------------------------------------
(* broadcast_tick.                                                         *)

\* Mutant of Waiting: a broadcast that was begun is somebody else's.
WaitingQueued == {b \in Casts : status[b] = "queued"}

Waiting == {b \in Casts : status[b] \in {"queued", "running"}}

\* The oldest broadcast that is not done is running now.
Pick(b) ==
  /\ pc = "idle"
  /\ b \in Waiting /\ \A c \in Waiting : b <= c
  /\ status' = [status EXCEPT ![b] = "running"]
  /\ pc' = "read" /\ cur' = b
  /\ UNCHANGED <<userVars, kind, sent, failed, todo, nsent, nfailed, edits, faults, sendLog, userLog>>

\* Mutant of ReadAudience: the counters go on where the row's stand.
ReadOn ==
  /\ pc = "read"
  /\ todo' = Audience(kind[cur])
  /\ asked' = [asked EXCEPT ![cur] = todo']
  /\ nsent' = sent[cur] /\ nfailed' = failed[cur]
  /\ pc' = "send"
  /\ UNCHANGED <<userVars, castVars, cur, edits, faults, tries, cuts, userLog>>

\* In a transaction of its own.
ReadAudience ==
  /\ pc = "read"
  /\ todo' = Audience(kind[cur])
  /\ asked' = [asked EXCEPT ![cur] = todo']
  /\ nsent' = 0 /\ nfailed' = 0
  /\ pc' = "send"
  /\ UNCHANGED <<userVars, castVars, cur, edits, faults, tries, cuts, userLog>>

\* One message, in no particular order of users.  Telegram takes it, refuses it, or
\* does not answer, whatever it did.
Send(u) ==
  /\ pc = "send" /\ u \in todo
  /\ todo' = todo \ {u}
  /\ tries' = [tries EXCEPT ![cur][u] = @ + 1]
  /\ \/ nsent' = nsent + 1 /\ UNCHANGED nfailed
     \/ nfailed' = nfailed + 1 /\ UNCHANGED nsent
  /\ pc' = IF (nsent' + nfailed') % ProgressEvery = 0 THEN "flush" ELSE "send"
  /\ UNCHANGED <<userVars, castVars, cur, edits, faults, asked, cuts, userLog>>

\* _update_progress.
Flush ==
  /\ pc = "flush"
  /\ sent' = [sent EXCEPT ![cur] = nsent] /\ failed' = [failed EXCEPT ![cur] = nfailed]
  /\ pc' = "send"
  /\ UNCHANGED <<userVars, status, kind, cur, todo, nsent, nfailed, edits, faults, sendLog, userLog>>

EndTick == pc' = "idle" /\ cur' = NoCast /\ todo' = {} /\ nsent' = 0 /\ nfailed' = 0

\* _finalize.
Finish ==
  /\ pc = "send" /\ todo = {}
  /\ sent' = [sent EXCEPT ![cur] = nsent] /\ failed' = [failed EXCEPT ![cur] = nfailed]
  /\ status' = [status EXCEPT ![cur] = "done"]
  /\ EndTick
  /\ UNCHANGED <<userVars, kind, edits, faults, sendLog, userLog>>

\* The worker restarts, or the database fails to read the audience or to take the
\* counters: the tick has no handler for either.
Cut ==
  /\ pc # "idle"
  /\ faults < MaxFaults /\ faults' = faults + 1
  /\ cuts' = [cuts EXCEPT ![cur] = @ + 1]
  /\ EndTick
  /\ UNCHANGED <<userVars, castVars, edits, asked, tries, userLog>>

-----------------------------------------------------------------------------

Tick == (\E b \in Casts : Pick(b)) \/ ReadAudience \/ (\E u \in Users : Send(u)) \/ Flush \/ Finish

Next ==
  \/ Tick \/ Cut
  \/ \E b \in Casts, k \in Kinds : Create(b, k)
  \/ \E u \in Users : Join(u) \/ Buy(u) \/ \E on \in BOOLEAN : SetBlocked(u, on)

Spec == Init /\ [][Next]_vars

\* The scheduler starts the job every five seconds, one instance at a time.
FairSpec == Spec /\ WF_vars(Tick)

-----------------------------------------------------------------------------
(* Properties.                                                             *)

TypeOK ==
  /\ buyers \subseteq members /\ members \subseteq Users /\ blocked \subseteq members
  /\ status \in [Casts -> {"none", "queued", "running", "done"}]
  /\ kind \in [Casts -> Kinds]
  /\ sent \in [Casts -> 0..Cardinality(Users)] /\ failed \in [Casts -> 0..Cardinality(Users)]
  /\ pc \in {"idle", "read", "send", "flush"}
  /\ IF pc = "idle" THEN cur = NoCast ELSE cur \in Casts /\ status[cur] = "running"
  /\ todo \subseteq members
  /\ nsent \in 0..Cardinality(Users) /\ nfailed \in 0..Cardinality(Users)
  /\ edits \in 0..MaxEdits /\ faults \in 0..MaxFaults
  /\ asked \in [Casts -> SUBSET Users]
  /\ tries \in [Casts -> [Users -> Nat]]
  /\ cuts \in [Casts -> Nat]
  /\ steady \in [Casts -> SUBSET Users] /\ barred \in [Casts -> SUBSET Users]

\* Nobody gets a second message but by a tick that was cut off.
CopiesCounted == \A b \in Casts, u \in Users : tries[b][u] <= 1 + cuts[b]

\* Whoever was selected from the creation of a broadcast on has been written to when
\* it is done.
NobodySkipped ==
  \A b \in Casts : status[b] = "done" => \A u \in steady[b] : tries[b][u] >= 1

\* Whoever was blocked from the creation on is not.
BlockedSpared == \A b \in Casts : \A u \in barred[b] : tries[b][u] = 0

\* The counters of a broadcast that is done add up to its last audience.
CountersAddUp ==
  \A b \in Casts : status[b] = "done" => sent[b] + failed[b] = Cardinality(asked[b])

\* Each broadcast goes to those it is for, once but for ticks that are cut off, and
\* says in the end to how many.
Delivered == CopiesCounted /\ NobodySkipped /\ BlockedSpared /\ CountersAddUp

\* Every broadcast is done in the end, whatever was created before and after it and
\* wherever ticks are cut off.
Drained == \A b \in Casts : status[b] = "queued" ~> status[b] = "done"
=============================================================================
