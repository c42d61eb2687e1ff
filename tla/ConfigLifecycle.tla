-------------------------- MODULE ConfigLifecycle --------------------------
(***************************************************************************)
(* What switches a buyer's config on and off: the buyer's requests, the    *)
(* seller's requests on its listing, the volume caps, and the job that     *)
(* stops the configs of an empty wallet and resumes them after a top-up.   *)
(*                                                                         *)
(* A config is a row of the database and a client on the seller's panel    *)
(* inbound.  Every request reads its rows, calls the panel, and writes the *)
(* rows back by their ids, whatever happened to them meanwhile.  The job   *)
(* does the same in one transaction over all buyers: the rows it has       *)
(* updated stay locked, and its updates invisible, until it commits.       *)
(*                                                                         *)
(* A panel call is refused (XuiError: no effect) or lost (a transport      *)
(* error: it may have had its effect, and no XuiError handler sees it).    *)
(***************************************************************************)
EXTENDS Integers, FiniteSets

CONSTANTS
  Configs, Listings, Buyers,
  HostOf,      \* the listing of a config
  OwnerOf,     \* the buyer of a config
  MaxConfigs,  \* MAX_CONFIGS_PER_LISTING_PER_BUYER
  Prices,      \* prices of a listing
  Wishes,      \* values buyers give auto_disable_on_price_increase
  Moves,       \* statuses the rest of the system gives a listing
  Sessions,    \* concurrent requests
  Idle,        \* a session without a request
  MaxFaults    \* bound: failed calls, failed commits and crashes

SwitchOps == {"create", "disable", "enable", "delete", "quota"}
SellerOps == {"pause", "raise", "remove", "drop"}
ListingStatuses == {"active", "pending", "off", "deleted"}  \* off: broken, disabled
Requests  == [op : SwitchOps \cup SellerOps, at : Listings, price : Prices,
              sets : ListingStatuses \cup {"same"},
              left : SUBSET Configs, rows : SUBSET Configs]

ASSUME LifecycleAssumption ==
  /\ Idle \notin Requests
  /\ HostOf \in [Configs -> Listings]
  /\ OwnerOf \in [Configs -> Buyers]
  /\ MaxConfigs \in Nat /\ MaxFaults \in Nat
  /\ Prices \subseteq Nat /\ Prices # {}
  /\ Wishes \subseteq BOOLEAN
  /\ Moves \subseteq {"active", "pending", "off"}

VARIABLES
  status,    \* configs.status; "absent" before the insert
  marked,    \* configs whose auto_disabled_at is set
  optIn,     \* configs with auto_disable_on_price_increase
  listing,   \* listings.status
  price,     \* listings.price_per_gb_usd
  solvent,   \* buyers whose balance is above zero
  client,    \* the client on the panel
  inbound,   \* listings whose inbound is on the panel
  req,       \* the request of each session
  pc,        \* the pass enforce_balances_once is in
  todo,      \* buyers the pass has yet to visit
  rows,      \* configs of the visited buyer it has yet to call the panel for
  draft,     \* its uncommitted update of a row, which is locked
  known,     \* listing objects in its session, with the status they were read with
  held,      \* configs it has selected in this tick
  faults,    \* failures so far
  dirty      \* history: configs whose last operation failed or met another

rowVars  == <<status, marked, optIn>>
shopVars == <<listing, price, solvent>>
tickVars == <<pc, todo, rows, draft, known, held>>
vars == <<rowVars, shopVars, client, inbound, req, tickVars, faults, dirty>>

-----------------------------------------------------------------------------

ConfigStatuses  == {"absent", "active", "disabled", "deleted"}
Sellable        == {"active", "pending"}

ConfigsOf(l) == {c \in Configs : HostOf[c] = l}
Live(c)      == status[c] \in {"active", "disabled"}

\* Mutant of Paused: whoever switched a config off, it is the job's.
PausedByAnyone(c) == IF draft[c] = "none" THEN status[c] = "disabled"
                                          ELSE draft[c] = "stop"

\* What the tick's own transaction sees of a row.
Paused(c) == IF draft[c] = "none" THEN status[c] = "disabled" /\ c \in marked
                                  ELSE draft[c] = "stop"

\* The configs a request is about.
Scope(r) == IF r.op \in SellerOps THEN ConfigsOf(r.at) ELSE r.rows

Init ==
  /\ status = [c \in Configs |-> "absent"]
  /\ marked = {} /\ optIn = {}
  /\ listing = [l \in Listings |-> "active"]
  /\ price \in [Listings -> Prices]
  /\ solvent \in SUBSET Buyers
  /\ client = [c \in Configs |-> "none"]
  /\ inbound = Listings
  /\ req = [s \in Sessions |-> Idle]
  /\ pc = "idle" /\ todo = {} /\ rows = {} /\ held = {}
  /\ draft = [c \in Configs |-> "none"]
  /\ known = [l \in Listings |-> "unread"]
  /\ faults = 0
  /\ dirty = {}

Fault == faults < MaxFaults /\ faults' = faults + 1

-----------------------------------------------------------------------------
(* The panel.                                                              *)

\* What a call leaves a client as.
Goal(op) == CASE op \in {"create", "enable"} -> "on"
              [] op \in {"disable", "quota", "pause", "raise"} -> "off"
              [] OTHER -> "none"

\* The panel refuses a client on no inbound, and a change to no client.
Accepts(op, c) == IF op = "create" THEN HostOf[c] \in inbound ELSE client[c] # "none"

Takes(op, c) == Accepts(op, c) /\ client' = [client EXCEPT ![c] = Goal(op)]

Refuses(op, c) ==
  /\ IF Accepts(op, c) THEN Fault ELSE UNCHANGED faults
  /\ UNCHANGED client

Loses(op, c) == Fault /\ (Takes(op, c) \/ UNCHANGED client)

-----------------------------------------------------------------------------
(* Requests: read the rows and check them.                                 *)

\* A request that meets another, or the tick, on a config leaves it dirty.
Start(s, r) ==
  /\ req[s] = Idle
  /\ req' = [req EXCEPT ![s] = r]
  /\ dirty' = (dirty \ r.rows)
                \cup {c \in Scope(r) : \/ c \in held
                                       \/ \E t \in Sessions : req[t] # Idle /\ c \in Scope(req[t])}
  /\ UNCHANGED <<rowVars, shopVars, client, inbound, tickVars, faults>>

\* The status a request will write to its listing.  An edit tests a listing
\* that is not on sale again.
Becomes(op, l) == CASE op = "pause"  -> "off"
                    [] op = "remove" -> "deleted"
                    [] op = "raise" /\ listing[l] = "off" -> "pending"
                    [] OTHER -> "same"

Request(op, l, p, C) ==
  [op |-> op, at |-> l, price |-> p, sets |-> Becomes(op, l), left |-> C, rows |-> C]

SwitchRequest(op, c) == Request(op, HostOf[c], price[HostOf[c]], {c})

Holdings(c) == {d \in Configs : OwnerOf[d] = OwnerOf[c] /\ HostOf[d] = HostOf[c] /\ Live(d)}

\* create_config: a wallet with money in it, an active listing, and room under
\* the cap.  The client's uuid is new.
Create(s, c) ==
  /\ status[c] = "absent" /\ client[c] = "none"
  /\ \A t \in Sessions : req[t] # Idle => ~(req[t].op = "create" /\ c \in req[t].rows)
  /\ OwnerOf[c] \in solvent
  /\ listing[HostOf[c]] = "active"
  /\ Cardinality(Holdings(c)) < MaxConfigs
  /\ Start(s, SwitchRequest("create", c))

\* _load_owned_config
Owned(c) == Live(c)

\* disable_config, enable_config and delete_config on a row they do not return early for.
Switch(s, c) ==
  /\ Owned(c)
  /\ \/ status[c] # "disabled" /\ Start(s, SwitchRequest("disable", c))
     \/ /\ status[c] # "active" /\ listing[HostOf[c]] = "active"
        /\ Start(s, SwitchRequest("enable", c))
     \/ Start(s, SwitchRequest("delete", c))

\* enforce_quotas_once finds an active config at its volume cap.
ReachCap(s, c) == status[c] = "active" /\ Start(s, SwitchRequest("quota", c))

\* Mutant of Stopped: those who did not ask are stopped.
StoppedOthers(l) == {c \in ConfigsOf(l) : status[c] = "active" /\ c \notin optIn}

\* The configs a price rise stops.
Stopped(l) == {c \in ConfigsOf(l) : status[c] = "active" /\ c \in optIn}

\* disable_listing; patch_listing with a higher price, which stops the configs
\* that asked for it; delete_listing.
Seller(s, l) ==
  /\ listing[l] # "deleted"
  /\ \/ Start(s, Request("pause", l, price[l], {c \in ConfigsOf(l) : status[c] = "active"}))
     \/ \E p \in Prices : p > price[l] /\ Start(s, Request("raise", l, p, Stopped(l)))
     \/ Start(s, Request("remove", l, price[l], {c \in ConfigsOf(l) : Live(c)}))

-----------------------------------------------------------------------------
(* Requests: call the panel.                                               *)

\* What is left of a request.
Reduced(r, op, left, C) == [r EXCEPT !.op = op, !.left = left, !.rows = C]

Called(r, c) == Reduced(r, r.op, r.left \ {c}, r.rows)

Calling(s, c) ==
  /\ req[s] # Idle /\ c \in req[s].left
  /\ UNCHANGED <<rowVars, shopVars, inbound, tickVars>>

CallOk(s, c) ==
  /\ Calling(s, c)
  /\ Takes(req[s].op, c)
  /\ req' = [req EXCEPT ![s] = Called(@, c)]
  /\ UNCHANGED <<faults, dirty>>

\* A purchase ends here, a price rise leaves the config alone, and the others
\* write the row as if the panel had agreed.
CallRefused(s, c) ==
  /\ Calling(s, c)
  /\ Refuses(req[s].op, c)
  /\ LET r == req[s] IN
     req' = [req EXCEPT ![s] =
       CASE r.op = "create" -> Idle
         [] r.op = "raise"  -> Reduced(r, "raise", r.left \ {c}, r.rows \ {c})
         [] OTHER           -> Called(r, c)]
  /\ dirty' = dirty \cup {c}

\* The buyer's requests end here; the caps catch everything and go on.  The
\* seller's requests leave the loop and write the rows they have not called for.
CallLost(s, c) ==
  /\ Calling(s, c)
  /\ Loses(req[s].op, c)
  /\ LET r == req[s] IN
     req' = [req EXCEPT ![s] =
       CASE r.op = "quota"  -> Called(r, c)
         [] r.op = "pause"  -> Reduced(r, "pause", {}, r.rows)
         [] r.op = "raise"  -> Reduced(r, "raise", {}, r.rows \ r.left)
         [] r.op = "remove" -> Reduced(r, "drop", {}, r.rows)
         [] OTHER           -> Idle]
  /\ dirty' = dirty \cup req[s].left

\* delete_listing ends with the inbound, and every client on it.
DropInbound(s) ==
  /\ req[s] # Idle /\ req[s].op = "remove" /\ req[s].left = {}
  /\ \/ /\ inbound' = inbound \ {req[s].at}
        /\ client' = [c \in Configs |-> IF HostOf[c] = req[s].at THEN "none" ELSE client[c]]
        /\ Fault \/ UNCHANGED faults
     \/ Fault /\ UNCHANGED <<inbound, client>>
  /\ req' = [req EXCEPT ![s] = Reduced(@, "drop", {}, @.rows)]
  /\ UNCHANGED <<rowVars, shopVars, tickVars, dirty>>

-----------------------------------------------------------------------------
(* Requests: write the rows.                                               *)

\* Mutant of Outcome: a config is stopped with a listing's status.
OutcomeOff(op) == CASE op \in {"create", "enable"} -> "active"
                    [] op \in {"delete", "drop"} -> "deleted"
                    [] OTHER -> "off"

\* The status a request writes to its configs.
Outcome(op) == CASE op \in {"create", "enable"} -> "active"
                 [] op \in {"delete", "drop"} -> "deleted"
                 [] OTHER -> "disabled"

\* An update waits for a row the tick has locked.  auto_disabled_at is not touched.
Commit(s) ==
  LET r == req[s] IN
  /\ r # Idle /\ r.left = {} /\ r.op # "remove"
  /\ \A c \in r.rows : draft[c] = "none"
  /\ status' = [c \in Configs |-> IF c \in r.rows THEN Outcome(r.op) ELSE status[c]]
  /\ IF r.op = "create" THEN \E w \in Wishes : optIn' = IF w THEN optIn \cup r.rows ELSE optIn
                        ELSE UNCHANGED optIn
  /\ listing' = IF r.sets = "same" THEN listing ELSE [listing EXCEPT ![r.at] = r.sets]
  /\ price' = IF r.op = "raise" THEN [price EXCEPT ![r.at] = r.price] ELSE price
  /\ req' = [req EXCEPT ![s] = Idle]
  /\ UNCHANGED <<marked, solvent, client, inbound, tickVars, faults, dirty>>

\* The commit fails, or the process dies.
Die(s) ==
  /\ req[s] # Idle
  /\ Fault
  /\ req' = [req EXCEPT ![s] = Idle]
  /\ dirty' = dirty \cup req[s].rows
  /\ UNCHANGED <<rowVars, shopVars, client, inbound, tickVars>>

\* patch_config, which calls nobody.
PatchConfig(c) ==
  /\ Owned(c)
  /\ \E w \in Wishes : optIn' = IF w THEN optIn \cup {c} ELSE optIn \ {c}
  /\ dirty' = IF \E s \in Sessions : req[s] # Idle /\ c \in Scope(req[s])
              THEN dirty \cup {c} ELSE dirty
  /\ UNCHANGED <<status, marked, shopVars, client, inbound, req, tickVars, faults>>

-----------------------------------------------------------------------------
(* enforce_balances_once.                                                  *)

\* The buyers are listed first, and looked at one by one.
Begin ==
  /\ pc = "idle"
  /\ pc' = "stop"
  /\ todo' = {OwnerOf[c] : c \in {d \in Configs : status[d] = "active"}}
  /\ known' = [l \in Listings |-> "unread"]
  /\ UNCHANGED <<rowVars, shopVars, client, inbound, req, rows, draft, held, faults, dirty>>

\* Select rows C.  A listing whose object is still referenced is not read again.
Recall(C) == [l \in Listings |-> IF \A c \in C : HostOf[c] # l THEN "unread"
                                 ELSE IF known[l] = "unread" THEN listing[l] ELSE known[l]]

Select(C) ==
  /\ rows' = C
  /\ held' = held \cup C
  /\ dirty' = (dirty \ (C \ held))
                \cup {c \in C : \E s \in Sessions : req[s] # Idle /\ c \in Scope(req[s])}

Visit(b) ==
  /\ rows = {} /\ b \in todo
  /\ todo' = todo \ {b}
  /\ UNCHANGED <<rowVars, shopVars, client, inbound, req, pc, draft, faults>>

VisitToStop(b) ==
  LET active == {c \in Configs : OwnerOf[c] = b /\ status[c] = "active"} IN
  /\ pc = "stop"
  /\ Visit(b)
  /\ IF b \in solvent THEN UNCHANGED <<rows, held, known, dirty>>
                      ELSE Select(active) /\ known' = Recall(active)

\* Only configs of listings on sale are resumed.
VisitToResume(b) ==
  LET paused == {c \in Configs : OwnerOf[c] = b /\ Paused(c)} IN
  /\ pc = "resume"
  /\ Visit(b)
  /\ IF b \notin solvent THEN UNCHANGED <<rows, held, known, dirty>>
     ELSE /\ known' = Recall(paused)
          /\ Select({c \in paused : known'[HostOf[c]] \in Sellable})

Update(c, d) ==
  /\ rows' = rows \ {c}
  /\ draft' = [draft EXCEPT ![c] = d]
  /\ UNCHANGED <<rowVars, shopVars, inbound, req, pc, todo, known, held>>

\* Mutant of StopConfig: the row is updated and the panel is not called.
StopRowOnly(c) ==
  /\ pc = "stop" /\ c \in rows
  /\ Update(c, "stop")
  /\ UNCHANGED <<client, faults, dirty>>

\* The row is updated whatever the panel said.
StopConfig(c) ==
  /\ pc = "stop" /\ c \in rows
  /\ Update(c, "stop")
  /\ \/ /\ known[HostOf[c]] # "deleted"
        /\ \/ Takes("disable", c) /\ UNCHANGED <<faults, dirty>>
           \/ (Refuses("disable", c) \/ Loses("disable", c)) /\ dirty' = dirty \cup {c}
     \/ /\ known[HostOf[c]] = "deleted"
        /\ dirty' = dirty \cup {c}
        /\ UNCHANGED <<client, faults>>

\* Mutant of Turn: the second pass visits the buyers of the first.
TurnToActive ==
  /\ pc = "stop" /\ todo = {} /\ rows = {}
  /\ pc' = "resume"
  /\ todo' = {OwnerOf[c] : c \in {d \in Configs : status[d] = "active"}}
  /\ UNCHANGED <<rowVars, shopVars, client, inbound, req, rows, draft, known, held, faults, dirty>>

Turn ==
  /\ pc = "stop" /\ todo = {} /\ rows = {}
  /\ pc' = "resume"
  /\ todo' = {OwnerOf[c] : c \in {d \in Configs : Paused(d)}}
  /\ UNCHANGED <<rowVars, shopVars, client, inbound, req, rows, draft, known, held, faults, dirty>>

\* Mutant of ResumeConfig: the row is updated whatever the panel said.
ResumeAnyway(c) ==
  /\ pc = "resume" /\ c \in rows
  /\ Update(c, "resume")
  /\ UNCHANGED dirty
  /\ \/ Takes("enable", c) /\ UNCHANGED faults
     \/ Refuses("enable", c)

\* A row the panel did not agree to stays as it is, for the next tick.
ResumeConfig(c) ==
  /\ pc = "resume" /\ c \in rows
  /\ \/ Takes("enable", c) /\ Update(c, "resume") /\ UNCHANGED <<faults, dirty>>
     \/ /\ Refuses("enable", c) \/ Loses("enable", c)
        /\ Update(c, draft[c])
        /\ dirty' = dirty \cup {c}

Rest ==
  /\ pc' = "idle" /\ todo' = {} /\ rows' = {} /\ held' = {}
  /\ draft' = [c \in Configs |-> "none"]
  /\ known' = [l \in Listings |-> "unread"]
  /\ UNCHANGED <<optIn, shopVars, client, inbound, req>>

Drafted(d) == {c \in Configs : draft[c] = d}

Settle(mark) ==
  /\ pc = "resume" /\ todo = {} /\ rows = {}
  /\ status' = [c \in Configs |-> CASE draft[c] = "stop"   -> "disabled"
                                    [] draft[c] = "resume" -> "active"
                                    [] OTHER               -> status[c]]
  /\ marked' = mark
  /\ Rest
  /\ UNCHANGED <<faults, dirty>>

\* Mutant of CommitTick: the transaction is never committed.
NeverCommit ==
  /\ pc = "resume" /\ todo = {} /\ rows = {}
  /\ Rest
  /\ UNCHANGED <<status, marked, faults, dirty>>

\* The updates are by id: what was committed since the select is overwritten.
CommitTick == Settle((marked \cup Drafted("stop")) \ Drafted("resume"))

\* The job dies, or its commit fails.
DieTick ==
  /\ pc # "idle"
  /\ Fault
  /\ Rest
  /\ dirty' = dirty \cup held
  /\ UNCHANGED <<status, marked>>

-----------------------------------------------------------------------------
(* Money, and the rest of a listing's life (see ListingHealth).            *)

Charge(b) ==
  /\ b \in solvent
  /\ solvent' = solvent \ {b}
  /\ UNCHANGED <<rowVars, listing, price, client, inbound, req, tickVars, faults, dirty>>

TopUp(b) ==
  /\ b \notin solvent
  /\ solvent' = solvent \cup {b}
  /\ UNCHANGED <<rowVars, listing, price, client, inbound, req, tickVars, faults, dirty>>

\* The quality gate, enable_listing, retry_listing and an edit.  They write by id
\* what they decided on before, and so over a deletion that came in between.
Moderate(l) ==
  /\ \E st \in Moves : listing' = [listing EXCEPT ![l] = st]
  /\ UNCHANGED <<rowVars, price, solvent, client, inbound, req, tickVars, faults, dirty>>

\* patch_listing with a lower price.
Lower(l) ==
  /\ listing[l] # "deleted"
  /\ \E p \in Prices : p < price[l] /\ price' = [price EXCEPT ![l] = p]
  /\ listing' = [listing EXCEPT ![l] = IF @ = "off" THEN "pending" ELSE @]
  /\ UNCHANGED <<rowVars, solvent, client, inbound, req, tickVars, faults, dirty>>

-----------------------------------------------------------------------------

Tick ==
  \/ Begin \/ Turn \/ CommitTick
  \/ \E b \in Buyers : VisitToStop(b) \/ VisitToResume(b)
  \/ \E c \in Configs : StopConfig(c) \/ ResumeConfig(c)

Handle(s) ==
  \/ \E c \in Configs : \/ Create(s, c) \/ Switch(s, c) \/ ReachCap(s, c)
                        \/ CallOk(s, c) \/ CallRefused(s, c) \/ CallLost(s, c)
  \/ \E l \in Listings : Seller(s, l)
  \/ DropInbound(s) \/ Commit(s) \/ Die(s)

Next ==
  \/ Tick \/ DieTick
  \/ \E s \in Sessions : Handle(s)
  \/ \E c \in Configs : PatchConfig(c)
  \/ \E b \in Buyers : Charge(b) \/ TopUp(b)
  \/ \E l \in Listings : Moderate(l) \/ Lower(l)

Spec == Init /\ [][Next]_vars

\* The scheduler runs the job again and again; nobody has to send a request.
FairSpec == Spec /\ WF_vars(Tick)

-----------------------------------------------------------------------------
(* Properties.                                                             *)

TypeOK ==
  /\ status \in [Configs -> ConfigStatuses]
  /\ marked \subseteq Configs /\ optIn \subseteq Configs
  /\ listing \in [Listings -> ListingStatuses]
  /\ price \in [Listings -> Prices]
  /\ solvent \subseteq Buyers
  /\ client \in [Configs -> {"none", "on", "off"}]
  /\ inbound \subseteq Listings
  /\ req \in [Sessions -> Requests \cup {Idle}]
  /\ pc \in {"idle", "stop", "resume"}
  /\ todo \subseteq Buyers /\ rows \subseteq Configs /\ held \subseteq Configs
  /\ draft \in [Configs -> {"none", "stop", "resume"}]
  /\ known \in [Listings -> ListingStatuses \cup {"unread"}]
  /\ faults \in 0..MaxFaults
  /\ dirty \subseteq Configs

\* Nobody is at work on a config.
Quiet(c) == c \notin held /\ \A s \in Sessions : req[s] # Idle => c \notin Scope(req[s])

\* A client that runs and whose row is not active, so that nobody is billed for
\* it, is the trace of an operation that failed or met another on this config.
NoFreeRide ==
  \A c \in Configs :
    Quiet(c) /\ c \notin dirty => (client[c] = "on" => status[c] = "active")

\* An active row whose client does not run, so that its buyer gets no service,
\* is the trace of an operation that failed or met another on this config.
NoDeadConfig ==
  \A c \in Configs :
    Quiet(c) /\ c \notin dirty => (status[c] = "active" => client[c] = "on")

\* A deleted config never comes back, unless two operations met on it: the
\* updates are by id alone.
DeletedStays ==
  [][\A c \in Configs :
       status[c] = "deleted" /\ c \notin dirty => status'[c] = "deleted"]_vars

\* The moves of a config's status, unless two operations met on it.  It starts
\* active, it never leaves "deleted", and the job moves it only between active
\* and disabled: what it resumes was disabled and carries the job's own mark.
MovesLegal ==
  [][\A c \in Configs :
       c \notin dirty /\ status'[c] # status[c] =>
         /\ status[c] = "absent" => status'[c] = "active"
         /\ status[c] # "deleted" /\ status'[c] # "absent"
         /\ pc' # pc => \/ status[c] = "active" /\ status'[c] = "disabled"
                        \/ status[c] = "disabled" /\ c \in marked /\ status'[c] = "active"]_vars

\* A price rise leaves no config running that asked to be stopped by it, unless
\* the panel did not stop it or somebody else was at work on the listing.
PriceRiseStops ==
  [][\A c \in Configs :
       price'[HostOf[c]] > price[HostOf[c]] /\ c \in optIn /\ c \notin dirty
         => status'[c] # "active"]_vars

\* enforce_balances_once stops every config of an empty wallet, whatever the
\* panel answers and whatever requests come in between.
BrokeStops ==
  \A c \in Configs :
    (status[c] = "active" /\ OwnerOf[c] \notin solvent)
      ~> (status[c] # "active" \/ OwnerOf[c] \in solvent)

Resumable(c) ==
  /\ status[c] = "disabled" /\ c \in marked /\ client[c] # "none"
  /\ OwnerOf[c] \in solvent /\ listing[HostOf[c]] \in Sellable

\* A config the job stopped runs again after a top-up, however often the panel
\* failed before.
PaidResumes == \A c \in Configs : Resumable(c) ~> ~Resumable(c)

\* auto_disabled_at is "None for configs disabled by the seller or by the buyer
\* manually - those must never be auto-re-enabled" (models.py): a request that
\* stops a config leaves no mark, which would bring it back (PaidResumes).
ManualUnmarked ==
  [][\A s \in Sessions, c \in Configs :
       req[s] # Idle /\ req'[s] = Idle /\ status[c] = "active" /\ status'[c] = "disabled"
         => c \notin marked']_vars

\* MAX_CONFIGS_PER_LISTING_PER_BUYER is a "hard cap" (configs.py).
CapHeld == \A c \in Configs : Cardinality(Holdings(c)) <= MaxConfigs
=============================================================================
