----------------------- MODULE ConfigLifecycleProofs -----------------------
(***************************************************************************)
(* Proofs about ConfigLifecycle.                                           *)
(*                                                                         *)
(* The inductive invariant follows one config at a time.  As long as it is *)
(* clean, at most one request or the tick is at work on it; the client is  *)
(* where that actor's calls have put it, or else agrees with the row the   *)
(* tick is going to commit.                                                *)
(***************************************************************************)
EXTENDS ConfigLifecycle, TLAPS

-----------------------------------------------------------------------------
(* Type correctness.                                                       *)

\* What requests are made of.
LEMMA RequestType ==
  ASSUME NEW op \in SwitchOps \cup SellerOps, NEW l \in Listings, NEW p \in Prices,
         NEW C \in SUBSET Configs
  PROVE  /\ Request(op, l, p, C) \in Requests
         /\ Request(op, l, p, C).op = op /\ Request(op, l, p, C).at = l
         /\ Request(op, l, p, C).left = C /\ Request(op, l, p, C).rows = C
<1>1. Becomes(op, l) \in ListingStatuses \cup {"same"}
  BY DEF Becomes, ListingStatuses
<1>2. QED
  BY <1>1 DEF Request, Requests

LEMMA StartTypes ==
  ASSUME TypeOK, NEW s \in Sessions, NEW r \in Requests, Start(s, r)
  PROVE  TypeOK'
<1>1. req' \in [Sessions -> Requests \cup {Idle}]
  BY DEF Start, TypeOK
<1>2. dirty' \subseteq Configs
  <2>1. Scope(r) \subseteq Configs
    BY DEF Scope, ConfigsOf, Requests
  <2>2. QED
    BY <2>1 DEF Start, TypeOK
<1>3. QED
  BY <1>1, <1>2 DEF Start, TypeOK, rowVars, shopVars, tickVars

LEMMA TypeInitial == Init => TypeOK
BY LifecycleAssumption
   DEF Init, TypeOK, LifecycleAssumption, ConfigStatuses, ListingStatuses

LEMMA FaultType == ASSUME TypeOK, Fault \/ UNCHANGED faults PROVE faults' \in 0..MaxFaults
BY LifecycleAssumption DEF Fault, TypeOK, LifecycleAssumption

LEMMA PanelTypes ==
  ASSUME TypeOK, NEW c \in Configs, NEW op,
         Takes(op, c) \/ Refuses(op, c) \/ Loses(op, c) \/ UNCHANGED client
  PROVE  client' \in [Configs -> {"none", "on", "off"}]
<1>1. Goal(op) \in {"none", "on", "off"}
  BY DEF Goal
<1>2. QED
  BY <1>1 DEF Takes, Refuses, Loses, TypeOK

LEMMA ReducedType ==
  ASSUME NEW r \in Requests, NEW op \in SwitchOps \cup SellerOps,
         NEW L \in SUBSET Configs, NEW C \in SUBSET Configs
  PROVE  /\ Reduced(r, op, L, C) \in Requests
         /\ Reduced(r, op, L, C).op = op /\ Reduced(r, op, L, C).at = r.at
         /\ Reduced(r, op, L, C).price = r.price
         /\ Reduced(r, op, L, C).left = L /\ Reduced(r, op, L, C).rows = C
BY DEF Reduced, Requests

\* A panel call leaves a request reduced, or ends it.
LEMMA CallReduces ==
  ASSUME TypeOK, NEW s \in Sessions, NEW c \in Configs,
         CallOk(s, c) \/ CallRefused(s, c) \/ CallLost(s, c)
  PROVE  /\ req[s] \in Requests /\ c \in req[s].left
         /\ \A t \in Sessions \ {s} : req'[t] = req[t]
         /\ \/ req'[s] = Idle
            \/ \E L \in SUBSET req[s].left, C \in SUBSET req[s].rows :
                 \/ req'[s] = Reduced(req[s], req[s].op, L, C)
                 \/ req[s].op = "remove" /\ req'[s] = Reduced(req[s], "drop", L, req[s].rows)
<1>1. req[s] \in Requests /\ c \in req[s].left
  BY DEF CallOk, CallRefused, CallLost, Calling, TypeOK
<1>2. \A t \in Sessions \ {s} : req'[t] = req[t]
  BY DEF CallOk, CallRefused, CallLost, TypeOK
<1> DEFINE r == req[s]
           Left == r.left \ {c}
<1>3. Left \in SUBSET r.left /\ {} \in SUBSET r.left /\ r.rows \in SUBSET r.rows
        /\ r.rows \ {c} \in SUBSET r.rows /\ r.rows \ r.left \in SUBSET r.rows
  OBVIOUS
<1>4. \/ req'[s] = Idle
      \/ req'[s] = Reduced(r, r.op, Left, r.rows)
      \/ req'[s] = Reduced(r, r.op, Left, r.rows \ {c})
      \/ req'[s] = Reduced(r, r.op, {}, r.rows)
      \/ req'[s] = Reduced(r, r.op, {}, r.rows \ r.left)
      \/ r.op = "remove" /\ req'[s] = Reduced(r, "drop", {}, r.rows)
  <2>1. CASE CallOk(s, c)
    BY <2>1 DEF CallOk, Called, TypeOK
  <2>2. CASE CallRefused(s, c)
    BY <2>2 DEF CallRefused, Called, TypeOK
  <2>3. CASE CallLost(s, c)
    BY <2>3 DEF CallLost, Called, TypeOK
  <2>4. QED
    BY <2>1, <2>2, <2>3
<1> HIDE DEF r, Left
<1>5. \/ req'[s] = Idle
      \/ \E L \in SUBSET r.left, C \in SUBSET r.rows :
           \/ req'[s] = Reduced(r, r.op, L, C)
           \/ r.op = "remove" /\ req'[s] = Reduced(r, "drop", L, r.rows)
  BY <1>3, <1>4
<1>6. QED
  BY <1>1, <1>2, <1>5 DEF r

LEMMA CallTypes ==
  ASSUME TypeOK, NEW s \in Sessions, NEW c \in Configs,
         CallOk(s, c) \/ CallRefused(s, c) \/ CallLost(s, c)
  PROVE  TypeOK'
<1>1. req[s] \in Requests
  BY DEF CallOk, CallRefused, CallLost, Calling, TypeOK
<1>2. client' \in [Configs -> {"none", "on", "off"}]
  BY PanelTypes DEF CallOk, CallRefused, CallLost
<1>3. faults' \in 0..MaxFaults
  BY FaultType DEF CallOk, CallRefused, CallLost, Refuses, Loses
<1>4. req' \in [Sessions -> Requests \cup {Idle}]
  <2>1. req[s].left \subseteq Configs /\ req[s].rows \subseteq Configs
    BY <1>1 DEF Requests
  <2>2. req'[s] \in Requests \cup {Idle} /\ \A t \in Sessions \ {s} : req'[t] = req[t]
    <3>1. /\ req[s].op \in SwitchOps \cup SellerOps
          /\ "drop" \in SwitchOps \cup SellerOps
      BY <1>1 DEF Requests, SellerOps
    <3>2. CASE req'[s] = Idle
      BY <3>2, CallReduces
    <3>3. ASSUME NEW L \in SUBSET req[s].left, NEW C \in SUBSET req[s].rows,
                 \/ req'[s] = Reduced(req[s], req[s].op, L, C)
                 \/ req[s].op = "remove" /\ req'[s] = Reduced(req[s], "drop", L, req[s].rows)
          PROVE  req'[s] \in Requests
      <4>1. L \in SUBSET Configs /\ C \in SUBSET Configs /\ req[s].rows \in SUBSET Configs
        BY <2>1
      <4>2. QED
        BY <1>1, <3>1, <3>3, <4>1, ReducedType
    <3>4. QED
      BY <3>2, <3>3, CallReduces
  <2>3. QED
    BY <2>2 DEF CallOk, CallRefused, CallLost, TypeOK
<1>5. dirty' \subseteq Configs
  BY <1>1 DEF CallOk, CallRefused, CallLost, TypeOK, Requests
<1>6. QED
  BY <1>2, <1>3, <1>4, <1>5
  DEF CallOk, CallRefused, CallLost, Calling, TypeOK, rowVars, shopVars, tickVars

LEMMA CommitTypes ==
  ASSUME TypeOK, NEW s \in Sessions, Commit(s)
  PROVE  TypeOK'
<1>1. req[s] \in Requests
  BY DEF Commit, TypeOK
<1>2. status' \in [Configs -> ConfigStatuses]
  BY DEF Commit, TypeOK, Outcome, ConfigStatuses
<1>3. optIn' \subseteq Configs
  BY <1>1 DEF Commit, TypeOK, Requests
<1>4. listing' \in [Listings -> ListingStatuses]
  BY <1>1 DEF Commit, TypeOK, Requests
<1>5. price' \in [Listings -> Prices]
  BY <1>1 DEF Commit, TypeOK, Requests
<1>6. req' \in [Sessions -> Requests \cup {Idle}]
  BY DEF Commit, TypeOK
<1>7. QED
  BY <1>2, <1>3, <1>4, <1>5, <1>6 DEF Commit, TypeOK, tickVars

LEMMA TickTypes == ASSUME TypeOK, Tick \/ DieTick PROVE TypeOK'
<1>1. CASE Begin
  BY <1>1, LifecycleAssumption
  DEF Begin, TypeOK, rowVars, shopVars, LifecycleAssumption
<1>2. CASE Turn
  BY <1>2, LifecycleAssumption
  DEF Turn, TypeOK, rowVars, shopVars, LifecycleAssumption
<1>3. ASSUME NEW C \in SUBSET Configs
      PROVE  Recall(C) \in [Listings -> ListingStatuses \cup {"unread"}]
  BY DEF Recall, TypeOK
<1>4. ASSUME NEW b \in Buyers, VisitToStop(b) PROVE TypeOK'
  <2> DEFINE C == {c \in Configs : OwnerOf[c] = b /\ status[c] = "active"}
  <2>1. rows' \subseteq Configs /\ held' \subseteq Configs /\ dirty' \subseteq Configs
    BY <1>4 DEF VisitToStop, Select, TypeOK
  <2>2. known' \in [Listings -> ListingStatuses \cup {"unread"}]
    <3>1. known' = known \/ known' = Recall(C)
      BY <1>4 DEF VisitToStop
    <3>2. QED
      BY <3>1, <1>3 DEF TypeOK
  <2>3. QED
    BY <1>4, <2>1, <2>2 DEF VisitToStop, Visit, TypeOK, rowVars, shopVars
<1>5. ASSUME NEW b \in Buyers, VisitToResume(b) PROVE TypeOK'
  <2> DEFINE C == {c \in Configs : OwnerOf[c] = b /\ Paused(c)}
  <2>1. rows' \subseteq Configs /\ held' \subseteq Configs /\ dirty' \subseteq Configs
    BY <1>5 DEF VisitToResume, Select, TypeOK
  <2>2. known' \in [Listings -> ListingStatuses \cup {"unread"}]
    <3>1. known' = known \/ known' = Recall(C)
      BY <1>5 DEF VisitToResume
    <3>2. QED
      BY <3>1, <1>3 DEF TypeOK
  <2>3. QED
    BY <1>5, <2>1, <2>2 DEF VisitToResume, Visit, TypeOK, rowVars, shopVars
<1>6. ASSUME NEW c \in Configs, StopConfig(c) \/ ResumeConfig(c) PROVE TypeOK'
  <2>1. client' \in [Configs -> {"none", "on", "off"}]
    BY <1>6, PanelTypes DEF StopConfig, ResumeConfig
  <2>2. faults' \in 0..MaxFaults
    BY <1>6, FaultType DEF StopConfig, ResumeConfig, Refuses, Loses
  <2>3. \E d \in {"none", "stop", "resume"} : Update(c, d)
    BY <1>6 DEF StopConfig, ResumeConfig, TypeOK
  <2>4. dirty' \subseteq Configs
    BY <1>6 DEF StopConfig, ResumeConfig, TypeOK
  <2>5. QED
    BY <2>1, <2>2, <2>3, <2>4 DEF Update, TypeOK, rowVars, shopVars
<1>7. CASE CommitTick
  BY <1>7 DEF CommitTick, Settle, Drafted, Rest, TypeOK, ConfigStatuses, shopVars
<1>8. CASE DieTick
  BY <1>8, FaultType DEF DieTick, Rest, TypeOK, shopVars
<1>9. QED
  BY <1>1, <1>2, <1>4, <1>5, <1>6, <1>7, <1>8 DEF Tick

LEMMA TypePreserved == TypeOK /\ [Next]_vars => TypeOK'
<1> SUFFICES ASSUME TypeOK, [Next]_vars PROVE TypeOK'
  OBVIOUS
<1>1. CASE Tick \/ DieTick
  BY <1>1, TickTypes
<1>2. ASSUME NEW s \in Sessions, Handle(s) PROVE TypeOK'
  <2>1. ASSUME NEW c \in Configs, Create(s, c) \/ Switch(s, c) \/ ReachCap(s, c) PROVE TypeOK'
    <3>1. \E op \in SwitchOps : Start(s, SwitchRequest(op, c))
      BY <2>1 DEF Create, Switch, ReachCap, SwitchOps
    <3>2. HostOf[c] \in Listings /\ price[HostOf[c]] \in Prices /\ {c} \in SUBSET Configs
      BY LifecycleAssumption DEF LifecycleAssumption, TypeOK
    <3>3. QED
      BY <3>1, <3>2, RequestType, StartTypes DEF SwitchRequest
  <2>2. ASSUME NEW c \in Configs, CallOk(s, c) \/ CallRefused(s, c) \/ CallLost(s, c)
        PROVE  TypeOK'
    BY <2>2, CallTypes
  <2>3. ASSUME NEW l \in Listings, Seller(s, l) PROVE TypeOK'
    <3>1. \E op \in SellerOps, p \in Prices, C \in SUBSET Configs :
            Start(s, Request(op, l, p, C))
      <4>1. price[l] \in Prices
        BY DEF TypeOK
      <4>2. ConfigsOf(l) \subseteq Configs
        BY DEF ConfigsOf
      <4>3. QED
        BY <2>3, <4>1, <4>2 DEF Seller, Stopped, SellerOps
    <3>2. QED
      BY <3>1, RequestType, StartTypes
  <2>4. CASE DropInbound(s)
    <3>1. req' \in [Sessions -> Requests \cup {Idle}]
      <4>1. req[s] \in Requests
        BY <2>4 DEF DropInbound, TypeOK
      <4>2. Reduced(req[s], "drop", {}, req[s].rows) \in Requests
        BY <4>1, ReducedType DEF SellerOps, Requests
      <4>3. QED
        BY <2>4, <4>2 DEF DropInbound, TypeOK
    <3>2. QED
      BY <2>4, <3>1, FaultType DEF DropInbound, TypeOK, rowVars, shopVars, tickVars
  <2>5. CASE Commit(s)
    BY <2>5, CommitTypes
  <2>6. CASE Die(s)
    BY <2>6, FaultType DEF Die, TypeOK, Requests, rowVars, shopVars, tickVars
  <2>7. QED
    BY <1>2, <2>1, <2>2, <2>3, <2>4, <2>5, <2>6 DEF Handle
<1>3. ASSUME NEW c \in Configs, PatchConfig(c) PROVE TypeOK'
  BY <1>3 DEF PatchConfig, TypeOK, shopVars, tickVars
<1>4. ASSUME NEW b \in Buyers, Charge(b) \/ TopUp(b) PROVE TypeOK'
  BY <1>4 DEF Charge, TopUp, TypeOK, rowVars, tickVars
<1>5. ASSUME NEW l \in Listings, Moderate(l) \/ Lower(l) PROVE TypeOK'
  BY <1>5, LifecycleAssumption
  DEF Moderate, Lower, TypeOK, rowVars, tickVars, LifecycleAssumption, ListingStatuses
<1>6. CASE UNCHANGED vars
  BY <1>6 DEF vars, rowVars, shopVars, tickVars, TypeOK
<1>7. QED
  BY <1>1, <1>2, <1>3, <1>4, <1>5, <1>6 DEF Next

\* Every variable of the config rows, the panel, the requests and the tick keeps
\* its type.
THEOREM TypeCorrect == Spec => []TypeOK
BY TypeInitial, TypePreserved, PTL DEF Spec

-----------------------------------------------------------------------------
(* The invariant.                                                          *)

On(s, c) == req[s] # Idle /\ c \in Scope(req[s])

\* What every request is like.
WellFormed(r) ==
  /\ r.left \subseteq r.rows /\ r.rows \subseteq Scope(r)
  /\ r.op \in SwitchOps => \A c, d \in r.rows : c = d
  /\ r.op = "drop" => r.left = {}

Shape ==
  /\ \A s \in Sessions : req[s] # Idle => WellFormed(req[s])
  /\ rows \subseteq held
  /\ \A c \in Configs : draft[c] # "none" => c \in held

\* The row, once the tick commits.
Effective(c) == CASE draft[c] = "stop" -> "disabled"
                  [] draft[c] = "resume" -> "active"
                  [] OTHER -> status[c]

Agree(c) == client[c] = "on" <=> Effective(c) = "active"

\* What the choice of its rows says of a config a request is about.
Chosen(r, c) ==
  /\ c \in r.rows => IF r.op = "create" THEN status[c] = "absent" ELSE Live(c)
  /\ c \notin r.rows /\ r.op \in {"remove", "drop"} => ~Live(c)
  /\ c \notin r.rows /\ r.op = "raise" /\ c \in optIn => status[c] # "active"

Alone(s, c) == c \notin held /\ \A t \in Sessions \ {s} : ~On(t, c)

Served(r, c) ==
  /\ c \in r.rows \ r.left => client[c] = Goal(r.op)
  /\ c \notin r.rows => Agree(c)

Clean(c) ==
  /\ \A s \in Sessions : On(s, c) => Alone(s, c) /\ Chosen(req[s], c) /\ Served(req[s], c)
  /\ c \in held => status[c] # "deleted"
  /\ c \notin rows /\ (\A s \in Sessions : ~On(s, c)) => Agree(c)

LifecycleInv == Shape /\ \A c \in Configs : c \notin dirty => Clean(c)

\* What the tick's draft of a row, and its intention to draft it, say of the row:
\* nobody else moves it.
Job(c) ==
  /\ draft[c] = "stop" => status[c] = "active"
  /\ draft[c] = "resume" =>
       \/ status[c] = "active"
       \/ status[c] = "disabled" /\ c \in marked
  /\ c \in rows /\ pc = "stop" => status[c] = "active"
  /\ c \in rows /\ pc = "resume" => Paused(c)

JobInv ==
  /\ pc = "idle" => rows = {}
  /\ \A c \in Configs : c \notin dirty => Job(c)

LEMMA ShapeInitial == Init => Shape
BY DEF Init, Shape

LEMMA CleanInitial == Init => \A c \in Configs : Clean(c)
BY DEF Init, Clean, On, Agree, Effective

-----------------------------------------------------------------------------
(* The shape of requests and of the tick.                                  *)

\* A request that starts.
Fit(r) ==
  /\ WellFormed(r)
  /\ r.left = r.rows
  /\ \A c \in Scope(r) : Chosen(r, c)

LEMMA SwitchFits ==
  ASSUME TypeOK, NEW op \in SwitchOps, NEW c \in Configs,
         IF op = "create" THEN status[c] = "absent" ELSE Live(c)
  PROVE  SwitchRequest(op, c) \in Requests /\ Fit(SwitchRequest(op, c))
<1>1. HostOf[c] \in Listings /\ price[HostOf[c]] \in Prices /\ {c} \in SUBSET Configs
  BY LifecycleAssumption DEF LifecycleAssumption, TypeOK
<1> DEFINE r == SwitchRequest(op, c)
<1>2. r \in Requests /\ r.op = op /\ r.left = {c} /\ r.rows = {c}
  BY <1>1, RequestType DEF SwitchRequest
<1> HIDE DEF r
<1>3. Scope(r) = {c}
  BY <1>2 DEF Scope, SwitchOps, SellerOps
<1>4. op \notin {"remove", "drop", "raise"}
  BY DEF SwitchOps
<1>5. WellFormed(r) /\ \A d \in Scope(r) : Chosen(r, d)
  BY <1>2, <1>3, <1>4 DEF WellFormed, Chosen
<1>6. QED
  BY <1>2, <1>5 DEF Fit, r

LEMMA SellerFits ==
  ASSUME TypeOK, NEW l \in Listings, NEW p \in Prices, NEW op \in {"pause", "raise", "remove"},
         NEW C \in SUBSET ConfigsOf(l),
         \A c \in C : Live(c),
         op = "raise" => \A c \in ConfigsOf(l) \ C : c \in optIn => status[c] # "active",
         op = "remove" => \A c \in ConfigsOf(l) \ C : ~Live(c)
  PROVE  Request(op, l, p, C) \in Requests /\ Fit(Request(op, l, p, C))
<1>1. C \in SUBSET Configs
  BY DEF ConfigsOf
<1> DEFINE r == Request(op, l, p, C)
<1>2. r \in Requests /\ r.op = op /\ r.at = l /\ r.left = C /\ r.rows = C
  <2>1. op \in SwitchOps \cup SellerOps
    BY DEF SellerOps
  <2>2. QED
    BY ONLY <1>1, <2>1, l \in Listings, p \in Prices, RequestType
<1> HIDE DEF r
<1>3. Scope(r) = ConfigsOf(l)
  BY <1>2 DEF Scope, SellerOps
<1>4. WellFormed(r)
  BY <1>2, <1>3 DEF WellFormed, SwitchOps
<1>5. \A c \in Scope(r) : Chosen(r, c)
  BY <1>2, <1>3 DEF Chosen
<1>6. QED
  BY <1>2, <1>4, <1>5 DEF Fit, r

\* Every new request fits.
LEMMA StartsFit ==
  ASSUME TypeOK, NEW s \in Sessions,
         \/ \E c \in Configs : Create(s, c) \/ Switch(s, c) \/ ReachCap(s, c)
         \/ \E l \in Listings : Seller(s, l)
  PROVE  \E r \in Requests : Fit(r) /\ Start(s, r)
<1>1. ASSUME NEW c \in Configs, Create(s, c) \/ Switch(s, c) \/ ReachCap(s, c)
      PROVE  \E r \in Requests : Fit(r) /\ Start(s, r)
  <2>1. \E op \in SwitchOps :
          /\ Start(s, SwitchRequest(op, c))
          /\ IF op = "create" THEN status[c] = "absent" ELSE Live(c)
    BY <1>1 DEF Create, Switch, ReachCap, SwitchOps, Owned, Live
  <2>2. QED
    BY <2>1, SwitchFits
<1>2. ASSUME NEW l \in Listings, Seller(s, l)
      PROVE  \E r \in Requests : Fit(r) /\ Start(s, r)
  <2>1. price[l] \in Prices
    BY DEF TypeOK
  <2> DEFINE A == {c \in ConfigsOf(l) : status[c] = "active"}
             B == {c \in ConfigsOf(l) : status[c] = "active" /\ c \in optIn}
             D == {c \in ConfigsOf(l) : Live(c)}
  <2>0. \A c \in A \cup B \cup D : Live(c)
    BY DEF Live
  <2>2. CASE Start(s, Request("pause", l, price[l], A))
    <3>1. Request("pause", l, price[l], A) \in Requests /\ Fit(Request("pause", l, price[l], A))
      BY <2>0, <2>1, SellerFits
    <3>2. QED
      BY <2>2, <3>1
  <2>3. ASSUME NEW p \in Prices, Start(s, Request("raise", l, p, B))
        PROVE  \E r \in Requests : Fit(r) /\ Start(s, r)
    <3>1. Request("raise", l, p, B) \in Requests /\ Fit(Request("raise", l, p, B))
      BY <2>0, SellerFits
    <3>2. QED
      BY <2>3, <3>1
  <2>4. CASE Start(s, Request("remove", l, price[l], D))
    <3>1. Request("remove", l, price[l], D) \in Requests /\ Fit(Request("remove", l, price[l], D))
      BY <2>0, <2>1, SellerFits
    <3>2. QED
      BY <2>4, <3>1
  <2>5. QED
    BY <1>2, <2>2, <2>3, <2>4 DEF Seller, Stopped
<1>3. QED
  BY <1>1, <1>2

\* Reducing a request keeps it well-formed, and what it is about.
LEMMA ReducedScope ==
  ASSUME NEW r \in Requests, WellFormed(r),
         NEW L \in SUBSET r.left, NEW C \in SUBSET r.rows, L \subseteq C
  PROVE  /\ WellFormed(Reduced(r, r.op, L, C))
         /\ Scope(Reduced(r, r.op, L, C)) \subseteq Scope(r)
         /\ r.op \in SellerOps \/ C = r.rows => Scope(Reduced(r, r.op, L, C)) = Scope(r)
         /\ r.op = "remove" =>
              /\ WellFormed(Reduced(r, "drop", {}, r.rows))
              /\ Scope(Reduced(r, "drop", {}, r.rows)) = Scope(r)
<1>1. r.op \in SwitchOps \cup SellerOps /\ L \in SUBSET Configs /\ C \in SUBSET Configs
        /\ r.rows \in SUBSET Configs
  BY DEF Requests
<1> DEFINE q == Reduced(r, r.op, L, C)
           d == Reduced(r, "drop", {}, r.rows)
<1>2. q.op = r.op /\ q.at = r.at /\ q.left = L /\ q.rows = C
  BY <1>1, ReducedType
<1>3. d.op = "drop" /\ d.at = r.at /\ d.left = {} /\ d.rows = r.rows
  <2>1. "drop" \in SwitchOps \cup SellerOps /\ {} \in SUBSET Configs
    BY DEF SellerOps
  <2>2. QED
    BY <1>1, <2>1, ReducedType
<1> HIDE DEF q, d
<1>4. /\ Scope(q) \subseteq Scope(r) /\ C \subseteq Scope(q)
      /\ r.op \in SellerOps \/ C = r.rows => Scope(q) = Scope(r)
  BY <1>2 DEF Scope, WellFormed
<1>5. WellFormed(q)
  BY <1>2, <1>4 DEF WellFormed
<1>6. r.op = "remove" => WellFormed(d) /\ Scope(d) = Scope(r)
  <2> SUFFICES ASSUME r.op = "remove" PROVE WellFormed(d) /\ Scope(d) = Scope(r)
    OBVIOUS
  <2>1. Scope(d) = ConfigsOf(r.at) /\ Scope(r) = ConfigsOf(r.at)
    BY <1>3 DEF Scope, SellerOps
  <2>2. d.op \notin SwitchOps
    BY <1>3 DEF SwitchOps
  <2>3. QED
    BY <1>3, <2>1, <2>2 DEF WellFormed
<1>7. QED
  BY <1>4, <1>5, <1>6 DEF q, d

\* A call leaves a request well-formed, and about the same configs.
LEMMA CallShapes ==
  ASSUME TypeOK, Shape, NEW s \in Sessions, NEW c \in Configs,
         CallOk(s, c) \/ CallRefused(s, c) \/ CallLost(s, c)
  PROVE  req'[s] # Idle => WellFormed(req'[s]) /\ Scope(req'[s]) = Scope(req[s])
<1> DEFINE r == req[s]
           Left == r.left \ {c}
<1>1. r \in Requests /\ WellFormed(r) /\ r.left \subseteq r.rows /\ c \in r.left
  BY CallReduces DEF CallOk, CallRefused, CallLost, Calling, Shape, WellFormed
<1>2. \/ req'[s] = Idle
      \/ req'[s] = Reduced(r, r.op, Left, r.rows)
      \/ req'[s] = Reduced(r, r.op, {}, r.rows)
      \/ r.op = "raise" /\ req'[s] = Reduced(r, r.op, Left, r.rows \ {c})
      \/ r.op = "raise" /\ req'[s] = Reduced(r, r.op, {}, r.rows \ r.left)
      \/ r.op = "remove" /\ req'[s] = Reduced(r, "drop", {}, r.rows)
  <2>1. CASE CallOk(s, c)
    BY <2>1 DEF CallOk, Called, TypeOK
  <2>2. CASE CallRefused(s, c)
    BY <2>2 DEF CallRefused, Called, TypeOK
  <2>3. CASE CallLost(s, c)
    BY <2>3 DEF CallLost, Called, TypeOK
  <2>4. QED
    BY <2>1, <2>2, <2>3
<1>3. r.op = "raise" => r.op \in SellerOps
  BY DEF SellerOps
<1>4. /\ Left \in SUBSET r.left /\ {} \in SUBSET r.left
      /\ r.rows \in SUBSET r.rows /\ r.rows \ {c} \in SUBSET r.rows
      /\ r.rows \ r.left \in SUBSET r.rows
      /\ Left \subseteq r.rows /\ Left \subseteq r.rows \ {c}
      /\ {} \subseteq r.rows /\ {} \subseteq r.rows \ r.left
  BY <1>1
<1> HIDE DEF r, Left
<1> DEFINE Kept(q) == WellFormed(q) /\ Scope(q) = Scope(r)
<1>5. req'[s] # Idle => Kept(req'[s])
  <2>1. Kept(Reduced(r, r.op, Left, r.rows))
    BY <1>1, <1>4, ReducedScope
  <2>2. Kept(Reduced(r, r.op, {}, r.rows))
    BY <1>1, <1>4, ReducedScope
  <2>3. r.op = "raise" => Kept(Reduced(r, r.op, Left, r.rows \ {c}))
    BY <1>1, <1>3, <1>4, ReducedScope
  <2>4. r.op = "raise" => Kept(Reduced(r, r.op, {}, r.rows \ r.left))
    BY <1>1, <1>3, <1>4, ReducedScope
  <2>5. r.op = "remove" => Kept(Reduced(r, "drop", {}, r.rows))
    BY <1>1, <1>4, ReducedScope
  <2> HIDE DEF Kept
  <2>6. QED
    BY <1>2, <2>1, <2>2, <2>3, <2>4, <2>5
<1>6. QED
  BY <1>5 DEF r

\* Every step keeps the shape.
LEMMA ShapePreserved == TypeOK /\ Shape /\ [Next]_vars => Shape'
<1> SUFFICES ASSUME TypeOK, Shape, [Next]_vars PROVE Shape'
  OBVIOUS
<1> DEFINE RequestShape == \A s \in Sessions : req[s] # Idle => WellFormed(req[s])
           TickShape == rows \subseteq held /\ \A c \in Configs : draft[c] # "none" => c \in held
<1>1. ASSUME UNCHANGED tickVars PROVE TickShape'
  BY <1>1 DEF Shape, tickVars
<1>2. ASSUME UNCHANGED req PROVE RequestShape'
  BY <1>2 DEF Shape, WellFormed, Scope, ConfigsOf
<1>3. CASE Tick \/ DieTick
  <2>1. UNCHANGED req
    BY <1>3 DEF Tick, DieTick, Begin, Turn, CommitTick, Settle, Rest, VisitToStop, VisitToResume,
       Visit, StopConfig, ResumeConfig, Update
  <2>2. TickShape'
    <3>1. CASE Begin \/ Turn
      BY <3>1 DEF Begin, Turn, Shape
    <3>2. CASE CommitTick \/ DieTick
      BY <3>2 DEF CommitTick, DieTick, Settle, Rest
    <3>3. ASSUME NEW b \in Buyers, VisitToStop(b) \/ VisitToResume(b) PROVE TickShape'
      BY <3>3 DEF VisitToStop, VisitToResume, Visit, Select, Shape
    <3>4. ASSUME NEW c \in Configs, StopConfig(c) \/ ResumeConfig(c) PROVE TickShape'
      <4>1. c \in held /\ \E d : Update(c, d)
        BY <3>4 DEF StopConfig, ResumeConfig, Shape
      <4>2. QED
        BY <4>1 DEF Update, Shape, TypeOK
    <3>5. QED
      BY <1>3, <3>1, <3>2, <3>3, <3>4 DEF Tick
  <2>3. QED
    BY <1>2, <2>1, <2>2 DEF Shape
<1>4. ASSUME NEW s \in Sessions, Handle(s) PROVE Shape'
  <2> DEFINE Keeps(t) == req'[t] # Idle => WellFormed(req'[t])
  <2>0. ASSUME UNCHANGED tickVars, \A t \in Sessions : Keeps(t) PROVE Shape'
    <3>1. RequestShape'
      BY <2>0 DEF WellFormed, Scope, ConfigsOf
    <3>2. QED
      BY <2>0, <3>1, <1>1 DEF Shape
  <2>1. ASSUME NEW r \in Requests, Fit(r), Start(s, r) PROVE Shape'
    <3>1. UNCHANGED tickVars
      BY <2>1 DEF Start
    <3>2. \A t \in Sessions : Keeps(t)
      BY <2>1 DEF Start, Fit, Shape, TypeOK
    <3>3. QED
      BY <2>0, <3>1, <3>2
  <2>2. ASSUME NEW c \in Configs, CallOk(s, c) \/ CallRefused(s, c) \/ CallLost(s, c)
        PROVE  Shape'
    <3>1. UNCHANGED tickVars
      BY <2>2 DEF CallOk, CallRefused, CallLost, Calling
    <3>2. Keeps(s)
      BY <2>2, CallShapes DEF Shape
    <3>3. \A t \in Sessions : Keeps(t)
      BY <2>2, <3>2, CallReduces DEF Shape
    <3>4. QED
      BY <2>0, <3>1, <3>3
  <2>3. CASE DropInbound(s)
    <3>1. UNCHANGED tickVars
      BY <2>3 DEF DropInbound
    <3>2. req[s] \in Requests /\ WellFormed(req[s]) /\ req[s].op = "remove"
            /\ {} \in SUBSET req[s].left /\ req[s].rows \in SUBSET req[s].rows
      BY <2>3 DEF DropInbound, TypeOK, Shape
    <3>3. WellFormed(Reduced(req[s], "drop", {}, req[s].rows))
      BY <3>2, ReducedScope
    <3>4. \A t \in Sessions : Keeps(t)
      BY <2>3, <3>3 DEF DropInbound, Shape, TypeOK
    <3>5. QED
      BY <2>0, <3>1, <3>4
  <2>4. CASE Commit(s) \/ Die(s)
    <3>1. UNCHANGED tickVars /\ \A t \in Sessions : Keeps(t)
      BY <2>4 DEF Commit, Die, Shape, TypeOK
    <3>2. QED
      BY <2>0, <3>1
  <2>5. QED
    BY <1>4, <2>1, <2>2, <2>3, <2>4, StartsFit DEF Handle
<1>5. CASE \/ \E c \in Configs : PatchConfig(c)
           \/ \E b \in Buyers : Charge(b) \/ TopUp(b)
           \/ \E l \in Listings : Moderate(l) \/ Lower(l)
           \/ UNCHANGED vars
  <2>1. UNCHANGED tickVars /\ UNCHANGED req
    BY <1>5 DEF PatchConfig, Charge, TopUp, Moderate, Lower, vars
  <2>2. QED
    BY <1>1, <1>2, <2>1 DEF Shape
<1>6. QED
  BY <1>3, <1>4, <1>5 DEF Next

-----------------------------------------------------------------------------
(* One config, step by step.                                               *)

\* A step leaves a config as it is, save for the requests on it.
Still(c) ==
  /\ status'[c] = status[c] /\ client'[c] = client[c] /\ draft'[c] = draft[c]
  /\ c \in optIn' <=> c \in optIn
  /\ c \in held' <=> c \in held
  /\ c \in rows' <=> c \in rows

LEMMA StillAgrees == ASSUME NEW c \in Configs, Still(c) PROVE Agree(c)' <=> Agree(c)
BY DEF Still, Agree, Effective

LEMMA StillSame ==
  ASSUME NEW c \in Configs, Still(c), NEW r
  PROVE  /\ Chosen(r, c) => Chosen(r, c)'
         /\ Served(r, c) => Served(r, c)'
<1>1. Agree(c)' <=> Agree(c)
  BY StillAgrees
<1>2. QED
  BY <1>1 DEF Still, Chosen, Served, Live

LEMMA StillServed ==
  ASSUME NEW c \in Configs, Still(c), NEW s \in Sessions, req'[s] = req[s]
  PROVE  /\ Chosen(req[s], c) => Chosen(req[s], c)'
         /\ Served(req[s], c) => Served(req[s], c)'
<1>1. Agree(c)' <=> Agree(c)
  BY StillAgrees
<1>2. QED
  BY <1>1 DEF Still, Chosen, Served, Live

\* Nobody's request on a config changes, and nothing of it does.
LEMMA OtherClean ==
  ASSUME NEW c \in Configs, Clean(c), Still(c),
         \A t \in Sessions : req'[t] = req[t] \/ (~On(t, c) /\ ~On(t, c)')
  PROVE  Clean(c)'
<1>1. \A t \in Sessions : On(t, c)' <=> On(t, c)
  BY DEF On, Scope, ConfigsOf
<1>2. Agree(c) => Agree(c)'
  BY StillAgrees
<1>3. \A t \in Sessions : On(t, c)' =>
        /\ Chosen(req[t], c) => Chosen(req[t], c)'
        /\ Served(req[t], c) => Served(req[t], c)'
  BY StillServed
<1>4. \A t \in Sessions : Alone(t, c) => Alone(t, c)'
  BY <1>1 DEF Alone, Still
<1>5. QED
  BY <1>1, <1>2, <1>3, <1>4 DEF Clean, Still

\* The request on a clean config takes a step, and the tick does not.
LEMMA OwnClean ==
  ASSUME Shape, NEW c \in Configs, Clean(c), NEW s \in Sessions, On(s, c),
         UNCHANGED tickVars,
         \A t \in Sessions \ {s} : req'[t] = req[t],
         On(s, c)' => Chosen(req[s], c)' /\ Served(req[s], c)',
         ~On(s, c)' => Agree(c)'
  PROVE  Clean(c)'
<1>1. c \notin held /\ c \notin rows /\ \A t \in Sessions \ {s} : ~On(t, c)
  BY DEF Clean, Alone, Shape
<1>2. c \notin held' /\ c \notin rows' /\ \A t \in Sessions \ {s} : ~On(t, c)'
  BY <1>1 DEF tickVars, On, Scope, ConfigsOf
<1>3. Alone(s, c)'
  BY <1>2 DEF Alone
<1>4. QED
  BY <1>2, <1>3 DEF Clean

\* A request starts.
LEMMA StartClean ==
  ASSUME TypeOK, Shape, NEW s \in Sessions, NEW r \in Requests, Fit(r), Start(s, r),
         NEW c \in Configs, c \notin dirty => Clean(c), c \notin dirty'
  PROVE  Clean(c)'
<1>1. Still(c)
  BY DEF Start, Still, rowVars, tickVars
<1>2. /\ req[s] = Idle /\ req'[s] = r /\ r # Idle
      /\ \A t \in Sessions \ {s} : req'[t] = req[t]
  BY LifecycleAssumption DEF Start, TypeOK, LifecycleAssumption
<1>3. \A t \in Sessions \ {s} : On(t, c)' <=> On(t, c)
  BY <1>2 DEF On, Scope, ConfigsOf
<1>4. ~On(s, c)
  BY <1>2 DEF On
<1>5. CASE c \in Scope(r)
  <2>1. c \notin held /\ \A t \in Sessions : ~On(t, c)
    BY <1>5 DEF Start, On
  <2>2. Alone(s, c)'
    BY <2>1, <1>1, <1>3 DEF Alone, Still
  <2>3. Chosen(r, c)'
    <3>1. Chosen(r, c)
      BY <1>5 DEF Fit
    <3>2. QED
      BY <3>1, <1>1, StillSame
  <2>4. Served(r, c)'
    <3>1. c \notin r.rows => Agree(c)
      <4> SUFFICES ASSUME c \notin r.rows PROVE Agree(c)
        OBVIOUS
      <4>1. c \notin dirty
        BY DEF Start
      <4>2. c \notin rows
        BY <2>1 DEF Shape
      <4>3. QED
        BY <2>1, <4>1, <4>2 DEF Clean
    <3>2. Served(r, c)
      BY <3>1 DEF Served, Fit
    <3>3. QED
      BY <3>2, <1>1, StillSame
  <2>5. On(s, c)'
    BY <1>2, <1>5 DEF On, Scope, ConfigsOf
  <2>6. Chosen(req[s], c)' /\ Served(req[s], c)'
    BY <1>2, <2>3, <2>4 DEF Chosen, Served
  <2>7. c \notin held' /\ \A t \in Sessions \ {s} : ~On(t, c)'
    BY <1>1, <1>3, <2>1 DEF Still
  <2>8. QED
    BY <2>2, <2>5, <2>6, <2>7 DEF Clean
<1>6. CASE c \notin Scope(r)
  <2>1. c \notin dirty
    BY <1>6 DEF Start, Fit, WellFormed
  <2>2. ~On(s, c)'
    BY <1>2, <1>6 DEF On, Scope, ConfigsOf
  <2>3. QED
    BY <1>1, <1>2, <1>4, <2>1, <2>2, OtherClean
<1>7. QED
  BY <1>5, <1>6

\* Another request's config, or a step beside it.
LEMMA BesideClean ==
  ASSUME TypeOK, Shape, NEW s \in Sessions, NEW d \in Configs,
         CallOk(s, d) \/ CallRefused(s, d) \/ CallLost(s, d),
         NEW c \in Configs, Clean(c), ~On(s, c)
  PROVE  Clean(c)'
<1>1. req[s] # Idle /\ d \in Scope(req[s])
  BY DEF CallOk, CallRefused, CallLost, Calling, Shape, WellFormed
<1>2. c # d
  BY <1>1 DEF On
<1>3. Still(c)
  BY <1>2 DEF CallOk, CallRefused, CallLost, Calling, Takes, Refuses, Loses, Still,
     rowVars, tickVars, TypeOK
<1>4. ~On(s, c)'
  <2>1. req'[s] # Idle => Scope(req'[s]) = Scope(req[s])
    BY CallShapes
  <2>2. Scope(req[s])' = Scope(req'[s])
    BY DEF Scope, ConfigsOf
  <2>3. QED
    BY <1>1, <2>1, <2>2 DEF On
<1>5. \A t \in Sessions \ {s} : req'[t] = req[t]
  BY CallReduces
<1>6. QED
  BY <1>3, <1>4, <1>5, OtherClean

LEMMA CallOkClean ==
  ASSUME TypeOK, Shape, NEW s \in Sessions, NEW d \in Configs, CallOk(s, d),
         NEW c \in Configs, Clean(c), On(s, c)
  PROVE  Clean(c)'
<1> DEFINE r == req[s]
           q == req'[s]
<1>1. r \in Requests /\ WellFormed(r) /\ d \in r.left /\ r # Idle
  BY DEF CallOk, Calling, TypeOK, Shape
<1>2. q.op = r.op /\ q.at = r.at /\ q.left = r.left \ {d} /\ q.rows = r.rows
  <2>1. r.left \ {d} \in SUBSET Configs /\ r.rows \in SUBSET Configs
          /\ r.op \in SwitchOps \cup SellerOps
    BY <1>1 DEF Requests
  <2>2. q = Reduced(r, r.op, r.left \ {d}, r.rows)
    BY DEF CallOk, Called, TypeOK
  <2> HIDE DEF q, r
  <2>3. QED
    BY <1>1, <2>1, <2>2, ReducedType
<1>3. \A t \in Sessions \ {s} : req'[t] = req[t]
  BY CallReduces
<1>4. On(s, c)'
  <2>1. q # Idle => Scope(q) = Scope(r)
    BY CallShapes
  <2>2. q # Idle
    <3>1. q = Reduced(r, r.op, r.left \ {d}, r.rows)
      BY DEF CallOk, Called, TypeOK
    <3>2. Reduced(r, r.op, r.left \ {d}, r.rows) \in Requests
      BY <1>1, ReducedType DEF Requests
    <3>3. QED
      BY <3>1, <3>2, LifecycleAssumption DEF LifecycleAssumption
  <2>3. Scope(req[s])' = Scope(q)
    BY DEF Scope, ConfigsOf
  <2>4. QED
    BY <2>1, <2>2, <2>3 DEF On
<1>5. UNCHANGED tickVars /\ UNCHANGED rowVars
  BY DEF CallOk, Calling
<1>6. Chosen(r, c) /\ Served(r, c)
  BY DEF Clean
<1>7. Chosen(req[s], c)'
  BY <1>2, <1>5, <1>6 DEF Chosen, Live, rowVars
<1>8. Served(req[s], c)'
  <2>1. CASE c = d
    <3>1. client'[c] = Goal(r.op) /\ c \in r.rows
      BY <1>1, <2>1 DEF CallOk, Takes, TypeOK, WellFormed
    <3>2. QED
      BY <1>2, <3>1 DEF Served
  <2>2. CASE c # d
    <3>1. client'[c] = client[c]
      BY <2>2 DEF CallOk, Takes, TypeOK
    <3>2. Agree(c)' <=> Agree(c)
      BY <1>5, <3>1 DEF Agree, Effective, rowVars, tickVars
    <3>3. QED
      BY <1>2, <1>6, <2>2, <3>1, <3>2 DEF Served
  <2>3. QED
    BY <2>1, <2>2
<1>9. QED
  BY <1>3, <1>4, <1>5, <1>7, <1>8, OwnClean

\* A failed call leaves the configs clean that it is not about.
LEMMA CallFailedClean ==
  ASSUME TypeOK, Shape, NEW s \in Sessions, NEW d \in Configs,
         CallRefused(s, d) \/ CallLost(s, d),
         NEW c \in Configs, Clean(c), On(s, c), c \notin dirty'
  PROVE  Clean(c)'
<1> DEFINE r == req[s]
           q == req'[s]
<1>1. r \in Requests /\ WellFormed(r) /\ d \in r.left /\ r # Idle /\ d \in r.rows
  BY DEF CallRefused, CallLost, Calling, TypeOK, Shape, WellFormed
<1>2. c # d
  BY <1>1 DEF CallRefused, CallLost
<1>3. r.op \notin SwitchOps
  <2>1. r.op \in SwitchOps => Scope(r) = r.rows
    BY DEF Scope, SwitchOps, SellerOps
  <2>2. QED
    BY <1>1, <1>2, <2>1 DEF WellFormed, On
<1>4. r.op \in SellerOps
  BY <1>1, <1>3 DEF Requests
<1>5. /\ client'[c] = client[c]
      /\ UNCHANGED tickVars /\ UNCHANGED rowVars
  BY <1>2 DEF CallRefused, CallLost, Calling, Refuses, Loses, Takes, TypeOK
<1>6. Agree(c)' <=> Agree(c)
  BY <1>5 DEF Agree, Effective, rowVars, tickVars
<1>7. \A t \in Sessions \ {s} : req'[t] = req[t]
  BY CallReduces
<1>8. \E L \in SUBSET Configs, C \in SUBSET Configs :
        /\ \/ q = Reduced(r, r.op, L, C)
           \/ r.op = "remove" /\ q = Reduced(r, "drop", L, C)
        /\ c \in C <=> c \in r.rows
        /\ c \in L \/ c \notin r.left
  <2>0. r.rows \in SUBSET Configs /\ r.left \in SUBSET Configs
    BY <1>1 DEF Requests
  <2>1. CASE CallRefused(s, d)
    <3>1. q = Reduced(r, r.op, r.left \ {d}, r.rows \ {d})
            \/ q = Reduced(r, r.op, r.left \ {d}, r.rows)
      BY <1>3, <2>1 DEF CallRefused, Called, TypeOK, SwitchOps
    <3>2. r.rows \ {d} \in SUBSET Configs /\ r.left \ {d} \in SUBSET Configs
      BY <2>0
    <3>3. (c \in r.rows \ {d} <=> c \in r.rows) /\ (c \in r.left \ {d} \/ c \notin r.left)
      BY <1>2
    <3> HIDE DEF q, r
    <3>4. QED
      BY <2>0, <3>1, <3>2, <3>3
  <2>2. CASE CallLost(s, d)
    <3>1. c \notin r.left
      BY <2>2 DEF CallLost
    <3>2. \/ q = Reduced(r, r.op, {}, r.rows)
          \/ q = Reduced(r, r.op, {}, r.rows \ r.left)
          \/ r.op = "remove" /\ q = Reduced(r, "drop", {}, r.rows)
          \/ r.op = "drop"
      BY <1>3, <1>4, <2>2 DEF CallLost, TypeOK, SwitchOps, SellerOps
    <3>3. r.op # "drop"
      BY <1>1 DEF WellFormed
    <3>4. r.rows \ r.left \in SUBSET Configs /\ {} \in SUBSET Configs
            /\ (c \in r.rows \ r.left <=> c \in r.rows)
      BY <2>0, <3>1
    <3> HIDE DEF q, r
    <3>5. QED
      BY <2>0, <3>1, <3>2, <3>3, <3>4
  <2>3. QED
    BY <2>1, <2>2
<1>9. PICK L \in SUBSET Configs, C \in SUBSET Configs :
        /\ \/ q = Reduced(r, r.op, L, C)
           \/ r.op = "remove" /\ q = Reduced(r, "drop", L, C)
        /\ c \in C <=> c \in r.rows
        /\ c \in L \/ c \notin r.left
  BY <1>8
<1>10. /\ q.rows = C /\ q.left = L
       /\ q.op = r.op \/ (r.op = "remove" /\ q.op = "drop")
  <2>1. r.op \in SwitchOps \cup SellerOps /\ "drop" \in SwitchOps \cup SellerOps
    BY <1>4 DEF SellerOps
  <2> HIDE DEF q, r
  <2>2. QED
    BY <1>1, <1>9, <2>1, ReducedType
<1>11. Chosen(r, c) /\ Served(r, c)
  BY DEF Clean
<1>12. Chosen(req[s], c)'
  BY <1>5, <1>9, <1>10, <1>11 DEF Chosen, Live, rowVars
<1>13. Served(req[s], c)'
  <2>1. Goal(q.op) = Goal(r.op)
    BY <1>10 DEF Goal
  <2>2. QED
    BY <1>5, <1>6, <1>9, <1>10, <1>11, <2>1 DEF Served
<1>14. On(s, c)'
  <2>1. q # Idle => Scope(q) = Scope(r)
    BY CallShapes
  <2>2. q # Idle
    <3>1. r.op \in SwitchOps \cup SellerOps /\ "drop" \in SwitchOps \cup SellerOps
      BY <1>4 DEF SellerOps
    <3>2. q \in Requests
      <4> HIDE DEF q, r
      <4>1. QED
        BY <1>1, <1>9, <3>1, ReducedType
    <3>3. QED
      BY <3>2, LifecycleAssumption DEF LifecycleAssumption
  <2>3. Scope(req[s])' = Scope(q)
    BY DEF Scope, ConfigsOf
  <2>4. QED
    BY <2>1, <2>2, <2>3 DEF On
<1>15. QED
  BY <1>5, <1>7, <1>12, <1>13, <1>14, OwnClean

\* delete_listing drops the inbound.
LEMMA DropClean ==
  ASSUME TypeOK, Shape, NEW s \in Sessions, DropInbound(s),
         NEW c \in Configs, Clean(c)
  PROVE  Clean(c)'
<1> DEFINE r == req[s]
           q == req'[s]
<1>1. r \in Requests /\ r # Idle /\ r.op = "remove" /\ r.left = {}
  BY DEF DropInbound, TypeOK
<1>2. q \in Requests /\ q.op = "drop" /\ q.at = r.at /\ q.left = {} /\ q.rows = r.rows
  <2>1. q = Reduced(r, "drop", {}, r.rows)
    BY DEF DropInbound, TypeOK
  <2>2. {} \in SUBSET Configs /\ r.rows \in SUBSET Configs /\ "drop" \in SwitchOps \cup SellerOps
    BY <1>1 DEF Requests, SellerOps
  <2> HIDE DEF q, r
  <2>3. QED
    BY <1>1, <2>1, <2>2, ReducedType
<1>3. Scope(r) = ConfigsOf(r.at) /\ Scope(req[s])' = ConfigsOf(r.at) /\ q # Idle
  BY <1>1, <1>2, LifecycleAssumption DEF Scope, SellerOps, ConfigsOf, LifecycleAssumption
<1>4. \A t \in Sessions \ {s} : req'[t] = req[t]
  BY DEF DropInbound, TypeOK
<1>5. UNCHANGED tickVars /\ UNCHANGED rowVars
  BY DEF DropInbound
<1>6. CASE On(s, c)
  <2>1. c \in ConfigsOf(r.at) /\ On(s, c)'
    BY <1>3, <1>6 DEF On
  <2>2. client'[c] = client[c] \/ client'[c] = "none"
    BY DEF DropInbound
  <2>3. Chosen(r, c) /\ Served(r, c) /\ c \notin held
    BY <1>6 DEF Clean, Alone
  <2>4. Chosen(req[s], c)'
    BY <1>1, <1>2, <1>5, <2>3 DEF Chosen, Live, rowVars
  <2>5. Served(req[s], c)'
    <3>1. c \in r.rows => client'[c] = "none"
      BY <1>1, <2>2, <2>3 DEF Served, Goal
    <3>2. c \notin r.rows => Agree(c)'
      <4> SUFFICES ASSUME c \notin r.rows PROVE Agree(c)'
        OBVIOUS
      <4>1. Agree(c) /\ ~Live(c) /\ draft[c] = "none"
        BY <1>1, <2>3 DEF Served, Chosen, Shape
      <4>2. client[c] # "on" /\ status[c] # "active"
        BY <4>1 DEF Agree, Effective, Live
      <4>3. QED
        BY <1>5, <2>2, <4>1, <4>2 DEF Agree, Effective, rowVars, tickVars
    <3>3. QED
      BY <1>2, <3>1, <3>2 DEF Served, Goal
  <2>6. QED
    BY <1>4, <1>5, <1>6, <2>1, <2>4, <2>5, OwnClean
<1>7. CASE ~On(s, c)
  <2>1. c \notin ConfigsOf(r.at) /\ ~On(s, c)'
    BY <1>1, <1>3, <1>7 DEF On
  <2>2. client'[c] = client[c]
    BY <2>1 DEF DropInbound, ConfigsOf, TypeOK
  <2>3. Still(c)
    BY <1>5, <2>2 DEF Still, rowVars, tickVars
  <2>4. QED
    BY <1>4, <1>7, <2>1, <2>3, OtherClean
<1>8. QED
  BY <1>6, <1>7

\* A request writes its rows: the row of a clean config now says what its client does.
LEMMA CommitClean ==
  ASSUME TypeOK, Shape, NEW s \in Sessions, Commit(s),
         NEW c \in Configs, Clean(c)
  PROVE  Clean(c)'
<1> DEFINE r == req[s]
<1>1. r \in Requests /\ r # Idle /\ r.op # "remove" /\ r.left = {} /\ WellFormed(r)
  BY DEF Commit, TypeOK, Shape
<1>2. /\ \A t \in Sessions \ {s} : req'[t] = req[t]
      /\ req'[s] = Idle /\ ~On(s, c)'
  BY DEF Commit, TypeOK, On
<1>3. UNCHANGED tickVars /\ client' = client
  BY DEF Commit
<1>4. CASE On(s, c)
  <2>1. Chosen(r, c) /\ Served(r, c) /\ c \notin held
    BY <1>4 DEF Clean, Alone
  <2>2. draft[c] = "none" /\ draft'[c] = "none"
    BY <1>3, <2>1 DEF Shape, tickVars
  <2>3. CASE c \in r.rows
    <3>1. client[c] = Goal(r.op)
      BY <1>1, <2>1, <2>3 DEF Served
    <3>2. status'[c] = Outcome(r.op)
      BY <2>3 DEF Commit
    <3>3. r.op \in SwitchOps \cup SellerOps
      BY <1>1 DEF Requests
    <3>4. Goal(r.op) = "on" <=> Outcome(r.op) = "active"
      BY <3>3 DEF Goal, Outcome, SwitchOps, SellerOps
    <3>5. Agree(c)'
      BY <1>3, <2>2, <3>1, <3>2, <3>4 DEF Agree, Effective
    <3>6. QED
      BY <1>2, <1>3, <1>4, <3>5, OwnClean
  <2>4. CASE c \notin r.rows
    <3>1. status'[c] = status[c]
      BY <2>4 DEF Commit
    <3>2. Agree(c)
      BY <2>1, <2>4 DEF Served
    <3>3. Agree(c)'
      BY <1>3, <2>2, <3>1, <3>2 DEF Agree, Effective
    <3>4. QED
      BY <1>2, <1>3, <1>4, <3>3, OwnClean
  <2>5. QED
    BY <2>3, <2>4
<1>5. CASE ~On(s, c)
  <2>1. c \notin r.rows
    BY <1>1, <1>5 DEF On, WellFormed
  <2>2. status'[c] = status[c] /\ (c \in optIn' <=> c \in optIn)
    BY <2>1 DEF Commit
  <2>3. Still(c)
    BY <1>3, <2>2 DEF Still, tickVars
  <2>4. QED
    BY <1>2, <1>5, <2>3, OtherClean
<1>6. QED
  BY <1>4, <1>5

\* A request dies.
LEMMA DieClean ==
  ASSUME TypeOK, Shape, NEW s \in Sessions, Die(s),
         NEW c \in Configs, Clean(c), c \notin dirty'
  PROVE  Clean(c)'
<1>1. /\ \A t \in Sessions \ {s} : req'[t] = req[t]
      /\ ~On(s, c)'
  BY DEF Die, TypeOK, On
<1>2. UNCHANGED tickVars /\ Still(c)
  BY DEF Die, Still, rowVars, tickVars
<1>3. CASE On(s, c)
  <2>1. c \notin req[s].rows
    BY DEF Die
  <2>2. Agree(c)
    BY <1>3, <2>1 DEF Clean, Served
  <2>3. Agree(c)'
    BY <1>2, <2>2, StillAgrees
  <2>4. QED
    BY <1>1, <1>2, <1>3, <2>3, OwnClean
<1>4. CASE ~On(s, c)
  BY <1>1, <1>2, <1>4, OtherClean
<1>5. QED
  BY <1>3, <1>4

\* The buyer changes the price-rise option.
LEMMA PatchClean ==
  ASSUME TypeOK, NEW d \in Configs, PatchConfig(d),
         NEW c \in Configs, Clean(c), c \notin dirty'
  PROVE  Clean(c)'
<1>1. UNCHANGED <<status, client, req>> /\ UNCHANGED tickVars
  BY DEF PatchConfig
<1>2. CASE c = d
  <2>1. \A s \in Sessions : ~On(s, c)
    BY <1>2 DEF PatchConfig, On
  <2>2. \A s \in Sessions : ~On(s, c)'
    BY <1>1, <2>1 DEF On, Scope, ConfigsOf
  <2>3. Agree(c)' <=> Agree(c)
    BY <1>1 DEF Agree, Effective, tickVars
  <2>4. QED
    BY <1>1, <2>1, <2>2, <2>3 DEF Clean, tickVars
<1>3. CASE c # d
  <2>1. Still(c)
    BY <1>1, <1>3 DEF PatchConfig, Still, tickVars
  <2>2. QED
    BY <1>1, <2>1, OtherClean
<1>4. QED
  BY <1>2, <1>3

\* The tick selects configs.
LEMMA VisitClean ==
  ASSUME TypeOK, Shape, NEW b \in Buyers, VisitToStop(b) \/ VisitToResume(b),
         NEW c \in Configs, c \notin dirty => Clean(c), c \notin dirty'
  PROVE  Clean(c)'
<1>1. /\ rows = {} /\ UNCHANGED <<rowVars, client, draft, req>>
  BY DEF VisitToStop, VisitToResume, Visit
<1>2. /\ \/ UNCHANGED <<rows, held, dirty>>
         \/ \E C \in SUBSET Configs :
              /\ Select(C)
              /\ \A d \in C : status[d] # "deleted" \/ d \in held
  <2>1. CASE VisitToStop(b)
    BY <2>1 DEF VisitToStop
  <2>2. CASE VisitToResume(b)
    <3> DEFINE C == {d \in {d \in Configs : OwnerOf[d] = b /\ Paused(d)} :
                       known'[HostOf[d]] \in Sellable}
    <3>1. \A d \in C : status[d] # "deleted" \/ d \in held
      BY DEF Paused, Shape
    <3>2. UNCHANGED <<rows, held, dirty>> \/ Select(C)
      BY <2>2 DEF VisitToResume
    <3>3. QED
      BY <3>1, <3>2
  <2>3. QED
    BY <2>1, <2>2
<1>3. ASSUME UNCHANGED <<rows, held, dirty>> PROVE Clean(c)'
  <2>1. Still(c)
    BY <1>1, <1>3 DEF Still, rowVars
  <2>2. QED
    BY <1>1, <1>3, <2>1, OtherClean
<1>4. ASSUME NEW C \in SUBSET Configs, Select(C),
             \A d \in C : status[d] # "deleted" \/ d \in held
      PROVE  Clean(c)'
  <2>1. CASE c \in C
    <3>1. \A s \in Sessions : ~On(s, c)
      BY <1>4, <2>1 DEF Select, On
    <3>2. \A s \in Sessions : ~On(s, c)'
      BY <1>1, <3>1 DEF On, Scope, ConfigsOf
    <3>3. status'[c] # "deleted"
      <4>1. c \in held => Clean(c)
        BY <1>4 DEF Select
      <4>2. QED
        BY <1>1, <1>4, <2>1, <4>1 DEF Clean, rowVars
    <3>4. c \in rows'
      BY <1>4, <2>1 DEF Select
    <3>5. QED
      BY <3>2, <3>3, <3>4 DEF Clean
  <2>2. CASE c \notin C
    <3>1. c \notin dirty
      BY <1>4, <2>2 DEF Select
    <3>2. Still(c)
      BY <1>1, <1>4, <2>2 DEF Select, Still, rowVars
    <3>3. QED
      BY <1>1, <3>1, <3>2, OtherClean
  <2>3. QED
    BY <2>1, <2>2
<1>5. QED
  BY <1>2, <1>3, <1>4

\* The tick switches a config.
LEMMA SwitchClean ==
  ASSUME TypeOK, Shape, NEW d \in Configs, StopConfig(d) \/ ResumeConfig(d),
         NEW c \in Configs, Clean(c), c \notin dirty'
  PROVE  Clean(c)'
<1>1. /\ UNCHANGED <<rowVars, req, held>> /\ d \in rows /\ rows' = rows \ {d}
      /\ \E u : draft' = [draft EXCEPT ![d] = u]
  BY DEF StopConfig, ResumeConfig, Update
<1>2. CASE c = d
  <2>1. /\ \/ client'[c] = "off" /\ draft'[c] = "stop"
           \/ client'[c] = "on" /\ draft'[c] = "resume"
    BY <1>2 DEF StopConfig, ResumeConfig, Update, Takes, Goal, TypeOK
  <2>2. Agree(c)'
    BY <2>1 DEF Agree, Effective
  <2>3. \A s \in Sessions : ~On(s, c)
    BY <1>1, <1>2 DEF Clean, Alone, Shape
  <2>4. \A s \in Sessions : ~On(s, c)'
    BY <1>1, <2>3 DEF On, Scope, ConfigsOf
  <2>5. QED
    BY <1>1, <2>2, <2>4 DEF Clean, rowVars
<1>3. CASE c # d
  <2>1. client'[c] = client[c]
    BY <1>3 DEF StopConfig, ResumeConfig, Takes, Refuses, Loses, TypeOK
  <2>2. draft'[c] = draft[c]
    BY <1>1, <1>3 DEF TypeOK
  <2>3. Still(c)
    BY <1>1, <1>3, <2>1, <2>2 DEF Still, rowVars
  <2>4. QED
    BY <1>1, <2>3, OtherClean
<1>4. QED
  BY <1>2, <1>3

\* The tick commits, or dies.
LEMMA EndClean ==
  ASSUME TypeOK, Shape, CommitTick \/ DieTick,
         NEW c \in Configs, Clean(c), c \notin dirty'
  PROVE  Clean(c)'
<1>1. /\ rows' = {} /\ held' = {} /\ draft'[c] = "none"
      /\ UNCHANGED <<optIn, client, req>>
  BY DEF CommitTick, DieTick, Settle, Rest
<1>2. status'[c] = Effective(c)
  <2>1. CASE CommitTick
    BY <2>1 DEF CommitTick, Settle, Effective
  <2>2. CASE DieTick
    <3>1. draft[c] = "none"
      BY <2>2 DEF DieTick, Shape
    <3>2. QED
      BY <2>2, <3>1 DEF DieTick, Effective
  <2>3. QED
    BY <2>1, <2>2
<1>3. CASE c \notin held
  <2>1. draft[c] = "none" /\ c \notin rows
    BY <1>3 DEF Shape
  <2>2. Still(c)
    BY <1>1, <1>2, <1>3, <2>1 DEF Still, Effective
  <2>3. QED
    BY <1>1, <2>2, OtherClean
<1>4. CASE c \in held
  <2>1. c \notin rows
    BY <1>4 DEF CommitTick, DieTick, Settle
  <2>2. \A s \in Sessions : ~On(s, c)
    BY <1>4 DEF Clean, Alone
  <2>3. Agree(c)
    BY <2>1, <2>2 DEF Clean
  <2>4. Agree(c)'
    BY <1>1, <1>2, <2>3 DEF Agree, Effective
  <2>5. \A s \in Sessions : ~On(s, c)'
    BY <1>1, <2>2 DEF On, Scope, ConfigsOf
  <2>6. QED
    BY <1>1, <2>4, <2>5 DEF Clean
<1>5. QED
  BY <1>3, <1>4

-----------------------------------------------------------------------------
(* The invariant holds, and what follows from it.                          *)

LEMMA CleanPreserved ==
  ASSUME TypeOK, Shape, [Next]_vars,
         NEW c \in Configs, c \notin dirty => Clean(c), c \notin dirty'
  PROVE  Clean(c)'
<1>1. ASSUME NEW s \in Sessions, Handle(s) PROVE Clean(c)'
  <2>1. ASSUME NEW r \in Requests, Fit(r), Start(s, r) PROVE Clean(c)'
    BY <2>1, StartClean
  <2>2. ASSUME NEW d \in Configs, CallOk(s, d) \/ CallRefused(s, d) \/ CallLost(s, d)
        PROVE  Clean(c)'
    <3>1. Clean(c)
      BY <2>2 DEF CallOk, CallRefused, CallLost
    <3>2. QED
      BY <2>2, <3>1, BesideClean, CallOkClean, CallFailedClean
  <2>3. CASE DropInbound(s) \/ Commit(s) \/ Die(s)
    <3>1. Clean(c)
      BY <2>3 DEF DropInbound, Commit, Die
    <3>2. QED
      BY <2>3, <3>1, DropClean, CommitClean, DieClean
  <2>4. QED
    BY <1>1, <2>1, <2>2, <2>3, StartsFit DEF Handle
<1>2. ASSUME NEW d \in Configs, StopConfig(d) \/ ResumeConfig(d) PROVE Clean(c)'
  <2>1. Clean(c)
    BY <1>2 DEF StopConfig, ResumeConfig
  <2>2. QED
    BY <1>2, <2>1, SwitchClean
<1>3. ASSUME NEW b \in Buyers, VisitToStop(b) \/ VisitToResume(b) PROVE Clean(c)'
  BY <1>3, VisitClean
<1>4. CASE CommitTick \/ DieTick
  <2>1. Clean(c)
    BY <1>4 DEF CommitTick, DieTick, Settle
  <2>2. QED
    BY <1>4, <2>1, EndClean
<1>5. ASSUME NEW d \in Configs, PatchConfig(d) PROVE Clean(c)'
  <2>1. Clean(c)
    BY <1>5 DEF PatchConfig
  <2>2. QED
    BY <1>5, <2>1, PatchClean
<1>6. CASE \/ Begin \/ Turn
           \/ \E b \in Buyers : Charge(b) \/ TopUp(b)
           \/ \E l \in Listings : Moderate(l) \/ Lower(l)
           \/ UNCHANGED vars
  <2>1. Still(c) /\ UNCHANGED <<req, dirty>>
    BY <1>6 DEF Begin, Turn, Charge, TopUp, Moderate, Lower, vars, rowVars, tickVars, Still
  <2>2. QED
    BY <2>1, OtherClean
<1>7. QED
  BY <1>1, <1>2, <1>3, <1>4, <1>5, <1>6 DEF Next, Tick

\* The invariant holds in every reachable state.
LEMMA Invariance == Spec => [](TypeOK /\ LifecycleInv)
<1>1. Init => TypeOK /\ LifecycleInv
  BY TypeInitial, ShapeInitial, CleanInitial DEF LifecycleInv
<1>2. TypeOK /\ LifecycleInv /\ [Next]_vars => (TypeOK /\ LifecycleInv)'
  <2> SUFFICES ASSUME TypeOK, LifecycleInv, [Next]_vars PROVE TypeOK' /\ LifecycleInv'
    OBVIOUS
  <2>1. TypeOK' /\ Shape'
    BY TypePreserved, ShapePreserved DEF LifecycleInv
  <2>2. \A c \in Configs : c \notin dirty' => Clean(c)'
    BY CleanPreserved DEF LifecycleInv
  <2>3. QED
    BY <2>1, <2>2 DEF LifecycleInv
<1>3. QED
  BY <1>1, <1>2, PTL DEF Spec

LEMMA QuietAgrees ==
  ASSUME TypeOK, LifecycleInv, NEW c \in Configs, Quiet(c), c \notin dirty
  PROVE  client[c] = "on" <=> status[c] = "active"
<1>1. Agree(c)
  BY DEF LifecycleInv, Shape, Clean, Quiet, On
<1>2. draft[c] = "none"
  BY DEF LifecycleInv, Shape, Quiet
<1>3. QED
  BY <1>1, <1>2 DEF Agree, Effective

\* No client runs without an active row, except after a failed operation or two
\* that met on the config.
THEOREM NoClientRunsFree == Spec => []NoFreeRide
<1>1. TypeOK /\ LifecycleInv => NoFreeRide
  BY QuietAgrees DEF NoFreeRide
<1>2. QED
  BY <1>1, Invariance, PTL

\* No active row is without its client, with the same exceptions.
THEOREM NoConfigIsDead == Spec => []NoDeadConfig
<1>1. TypeOK /\ LifecycleInv => NoDeadConfig
  BY QuietAgrees DEF NoDeadConfig
<1>2. QED
  BY <1>1, Invariance, PTL

\* A request writes rows when it commits, and at no other time.
LEMMA HandleKeepsStatus ==
  ASSUME TypeOK, NEW s \in Sessions, Handle(s), ~Commit(s)
  PROVE  status' = status
<1>1. ASSUME NEW d \in Configs, CallOk(s, d) \/ CallRefused(s, d) \/ CallLost(s, d)
      PROVE  status' = status
  BY <1>1 DEF CallOk, CallRefused, CallLost, Calling, rowVars
<1>2. ASSUME NEW r \in Requests, Start(s, r) PROVE status' = status
  BY <1>2 DEF Start, rowVars
<1>3. CASE DropInbound(s) \/ Die(s)
  BY <1>3 DEF DropInbound, Die, rowVars
<1>4. QED
  BY <1>1, <1>2, <1>3, StartsFit DEF Handle

\* What a step does to the status of a config.
LEMMA StatusMoves ==
  ASSUME TypeOK, [Next]_vars, NEW c \in Configs, status'[c] # status[c]
  PROVE  CommitTick \/ \E s \in Sessions : Commit(s)
<1>1. CASE DieTick \/ Begin \/ Turn
  BY <1>1 DEF DieTick, Begin, Turn, rowVars
<1>2. ASSUME NEW b \in Buyers, VisitToStop(b) \/ VisitToResume(b) \/ Charge(b) \/ TopUp(b)
      PROVE  FALSE
  BY <1>2 DEF VisitToStop, VisitToResume, Visit, Charge, TopUp, rowVars
<1>3. ASSUME NEW d \in Configs, StopConfig(d) \/ ResumeConfig(d) \/ PatchConfig(d)
      PROVE  FALSE
  BY <1>3 DEF StopConfig, ResumeConfig, Update, PatchConfig, rowVars
<1>4. ASSUME NEW l \in Listings, Moderate(l) \/ Lower(l) PROVE FALSE
  BY <1>4 DEF Moderate, Lower, rowVars
<1>5. CASE UNCHANGED vars
  BY <1>5 DEF vars, rowVars
<1>6. ASSUME NEW s \in Sessions, Handle(s), ~Commit(s) PROVE FALSE
  BY <1>6, HandleKeepsStatus
<1>7. QED
  BY <1>1, <1>2, <1>3, <1>4, <1>5, <1>6 DEF Next, Tick

\* What a request on a clean config may write.
LEMMA CommitChosen ==
  ASSUME TypeOK, LifecycleInv, NEW s \in Sessions, Commit(s), NEW c \in Configs, c \notin dirty
  PROVE  /\ req[s] \in Requests /\ req[s].op # "remove"
         /\ c \in Scope(req[s]) => Chosen(req[s], c)
         /\ c \in req[s].rows => c \in Scope(req[s]) /\ status'[c] = Outcome(req[s].op)
         /\ c \notin req[s].rows => status'[c] = status[c]
<1>1. req[s] # Idle /\ req[s] \in Requests /\ req[s].op # "remove"
  BY DEF Commit, TypeOK
<1>2. c \in Scope(req[s]) => Chosen(req[s], c)
  BY <1>1 DEF LifecycleInv, Clean, On
<1>3. req[s].rows \subseteq Scope(req[s])
  BY <1>1 DEF LifecycleInv, Shape, WellFormed
<1>4. QED
  BY <1>1, <1>2, <1>3 DEF Commit

-----------------------------------------------------------------------------
(* What the job may move.                                                  *)

\* A config the tick does not hold has nothing to say about the tick.
LEMMA NotHeld ==
  ASSUME Shape, NEW c \in Configs, c \notin held
  PROVE  Job(c)
BY DEF Shape, Job

\* Nothing that Job speaks of changes.
LEMMA JobStays ==
  ASSUME NEW c \in Configs, Job(c), status'[c] = status[c],
         UNCHANGED marked, UNCHANGED tickVars
  PROVE  Job(c)'
BY DEF Job, Paused, tickVars

\* A request on a held config makes it dirty, so the row of a clean one stays.
LEMMA RequestJob ==
  ASSUME TypeOK, LifecycleInv, Shape', NEW s \in Sessions, Handle(s),
         NEW c \in Configs, c \notin dirty => Job(c), c \notin dirty'
  PROVE  Job(c)'
<1>1. UNCHANGED marked /\ UNCHANGED tickVars
  <2>1. ASSUME NEW r \in Requests, Start(s, r)
        PROVE  UNCHANGED marked /\ UNCHANGED tickVars
    BY <2>1 DEF Start, rowVars
  <2>2. ASSUME NEW d \in Configs, CallOk(s, d) \/ CallRefused(s, d) \/ CallLost(s, d)
        PROVE  UNCHANGED marked /\ UNCHANGED tickVars
    BY <2>2 DEF CallOk, CallRefused, CallLost, Calling, rowVars
  <2>3. CASE DropInbound(s) \/ Commit(s) \/ Die(s)
    BY <2>3 DEF DropInbound, Commit, Die, rowVars
  <2>4. QED
    BY <2>1, <2>2, <2>3, StartsFit DEF Handle
<1>2. CASE c \notin held
  <2>1. c \notin held'
    BY <1>1, <1>2 DEF tickVars
  <2>2. QED
    BY <2>1 DEF Shape, Job
<1>3. CASE c \in held
  <2>1. c \notin dirty
    <3>1. ASSUME NEW r \in Requests, Fit(r), Start(s, r) PROVE c \notin dirty
      BY <1>3, <3>1 DEF Start, Fit, WellFormed
    <3>2. ASSUME NEW d \in Configs, CallOk(s, d) \/ CallRefused(s, d) \/ CallLost(s, d)
          PROVE  c \notin dirty
      BY <3>2 DEF CallOk, CallRefused, CallLost
    <3>3. CASE DropInbound(s) \/ Commit(s) \/ Die(s)
      BY <3>3 DEF DropInbound, Commit, Die
    <3>4. QED
      BY <3>1, <3>2, <3>3, StartsFit DEF Handle
  <2>2. ~On(s, c)
    BY <1>3, <2>1 DEF LifecycleInv, Clean, Alone
  <2>3. status'[c] = status[c]
    <3>1. CASE Commit(s)
      BY <2>2, <3>1 DEF Commit, On, LifecycleInv, Shape, WellFormed
    <3>2. CASE ~Commit(s)
      BY <3>2, HandleKeepsStatus
    <3>3. QED
      BY <3>1, <3>2
  <2>4. QED
    BY <1>1, <2>1, <2>3, JobStays
<1>4. QED
  BY <1>2, <1>3

\* The tick selects rows in the state in which it reads them.
LEMMA VisitJob ==
  ASSUME TypeOK, LifecycleInv, NEW b \in Buyers, VisitToStop(b) \/ VisitToResume(b),
         NEW c \in Configs, c \notin dirty => Job(c), c \notin dirty'
  PROVE  Job(c)'
<1>1. /\ rows = {} /\ UNCHANGED <<rowVars, draft, pc>>
  BY DEF VisitToStop, VisitToResume, Visit
<1>2. CASE UNCHANGED <<rows, dirty>>
  BY <1>1, <1>2 DEF Job, Paused, rowVars
<1>3. ASSUME NEW C, Select(C),
             c \in C => \/ pc = "stop" /\ status[c] = "active"
                        \/ pc = "resume" /\ Paused(c)
      PROVE  Job(c)'
  <2>1. rows' = C
    BY <1>3 DEF Select
  <2>2. Job(c)
    <3>1. CASE c \in dirty
      BY <1>3, <3>1, NotHeld DEF Select, LifecycleInv
    <3>2. QED
      BY <3>1
  <2>3. Paused(c)' <=> Paused(c)
    BY <1>1 DEF Paused, rowVars
  <2>4. QED
    BY <1>1, <1>3, <2>1, <2>2, <2>3 DEF Job, rowVars
<1>4. CASE VisitToStop(b)
  BY <1>2, <1>3, <1>4 DEF VisitToStop
<1>5. CASE VisitToResume(b)
  <2> DEFINE C == {d \in {d \in Configs : OwnerOf[d] = b /\ Paused(d)} :
                     known'[HostOf[d]] \in Sellable}
  <2>1. pc = "resume" /\ (UNCHANGED <<rows, dirty>> \/ Select(C))
    BY <1>5 DEF VisitToResume
  <2>2. c \in C => Paused(c)
    OBVIOUS
  <2> HIDE DEF C
  <2>3. QED
    BY <1>2, <1>3, <2>1, <2>2
<1>6. QED
  BY <1>4, <1>5

\* The tick drafts a row.
LEMMA SwitchJob ==
  ASSUME TypeOK, NEW d \in Configs, StopConfig(d) \/ ResumeConfig(d),
         NEW c \in Configs, Job(c)
  PROVE  Job(c)'
<1>1. /\ UNCHANGED <<rowVars, pc>> /\ d \in rows /\ rows' = rows \ {d}
      /\ \E u : draft' = [draft EXCEPT ![d] = u]
  BY DEF StopConfig, ResumeConfig, Update
<1>2. CASE c = d
  <2>1. CASE StopConfig(d)
    <3>1. status[c] = "active" /\ draft'[c] = "stop"
      BY <1>2, <2>1 DEF StopConfig, Update, Job, TypeOK
    <3>2. QED
      BY <1>1, <1>2, <3>1 DEF Job, rowVars
  <2>2. CASE ResumeConfig(d)
    <3>1. /\ Paused(c) /\ draft'[c] \in {"resume", draft[c]}
          /\ draft[c] \in {"none", "stop", "resume"}
      BY <1>2, <2>2 DEF ResumeConfig, Update, Job, TypeOK
    <3>2. QED
      BY <1>1, <1>2, <3>1 DEF Job, Paused, rowVars
  <2>3. QED
    BY <2>1, <2>2
<1>3. CASE c # d
  <2>1. draft'[c] = draft[c]
    BY <1>1, <1>3 DEF TypeOK
  <2>2. QED
    BY <1>1, <1>3, <2>1 DEF Job, Paused, rowVars
<1>4. QED
  BY <1>2, <1>3

LEMMA JobPreserved == TypeOK /\ LifecycleInv /\ JobInv /\ [Next]_vars => JobInv'
<1> SUFFICES ASSUME TypeOK, LifecycleInv, JobInv, [Next]_vars PROVE JobInv'
  OBVIOUS
<1>0. Shape'
  BY ShapePreserved DEF LifecycleInv
<1>1. ASSUME NEW s \in Sessions, Handle(s) PROVE JobInv'
  <2>1. UNCHANGED tickVars
    <3>1. ASSUME NEW r \in Requests, Start(s, r) PROVE UNCHANGED tickVars
      BY <3>1 DEF Start
    <3>2. ASSUME NEW d \in Configs, CallOk(s, d) \/ CallRefused(s, d) \/ CallLost(s, d)
          PROVE  UNCHANGED tickVars
      BY <3>2 DEF CallOk, CallRefused, CallLost, Calling
    <3>3. CASE DropInbound(s) \/ Commit(s) \/ Die(s)
      BY <3>3 DEF DropInbound, Commit, Die
    <3>4. QED
      BY <1>1, <3>1, <3>2, <3>3, StartsFit DEF Handle
  <2>2. QED
    BY <1>0, <1>1, <2>1, RequestJob DEF JobInv, tickVars
<1>2. ASSUME NEW d \in Configs, StopConfig(d) \/ ResumeConfig(d) PROVE JobInv'
  <2>1. pc' # "idle" /\ dirty \subseteq dirty'
    BY <1>2 DEF StopConfig, ResumeConfig, Update
  <2>2. QED
    BY <1>2, <2>1, SwitchJob DEF JobInv
<1>3. ASSUME NEW b \in Buyers, VisitToStop(b) \/ VisitToResume(b) PROVE JobInv'
  <2>1. pc' # "idle"
    BY <1>3 DEF VisitToStop, VisitToResume, Visit
  <2>2. QED
    BY <1>3, <2>1, VisitJob DEF JobInv
<1>4. CASE CommitTick \/ DieTick
  <2>1. rows' = {} /\ \A c \in Configs : draft'[c] = "none"
    BY <1>4 DEF CommitTick, DieTick, Settle, Rest
  <2>2. QED
    BY <2>1 DEF JobInv, Job
<1>5. CASE Begin \/ Turn
  <2>1. /\ rows = {} /\ pc' # "idle"
        /\ UNCHANGED <<rowVars, rows, draft, dirty>>
    BY <1>5 DEF Begin, Turn, JobInv
  <2>2. QED
    BY <2>1 DEF JobInv, Job, rowVars
<1>6. CASE \/ \E d \in Configs : PatchConfig(d)
           \/ \E b \in Buyers : Charge(b) \/ TopUp(b)
           \/ \E l \in Listings : Moderate(l) \/ Lower(l)
           \/ UNCHANGED vars
  <2>1. UNCHANGED <<status, marked>> /\ UNCHANGED tickVars /\ dirty \subseteq dirty'
    BY <1>6 DEF PatchConfig, Charge, TopUp, Moderate, Lower, vars, rowVars
  <2>2. QED
    BY <2>1, JobStays DEF JobInv, tickVars
<1>7. QED
  BY <1>1, <1>2, <1>3, <1>4, <1>5, <1>6 DEF Next, Tick

LEMMA JobInvariance == Spec => []JobInv
<1>1. Init => JobInv
  BY DEF Init, JobInv, Job
<1>2. QED
  BY <1>1, JobPreserved, Invariance, PTL DEF Spec

\* Unless two operations met on it, a config starts active, moves as a request
\* on a live row may move it, and is moved by the job only from active to
\* disabled or, with the job's mark on it, back.
THEOREM MovesAreLegal == Spec => MovesLegal
<1>1. ASSUME TypeOK, LifecycleInv, JobInv, [Next]_vars,
             NEW c \in Configs, c \notin dirty, status'[c] # status[c]
      PROVE  /\ status[c] = "absent" => status'[c] = "active"
             /\ status[c] # "deleted" /\ status'[c] # "absent"
             /\ pc' # pc =>
                  \/ status[c] = "active" /\ status'[c] = "disabled"
                  \/ status[c] = "disabled" /\ c \in marked /\ status'[c] = "active"
  <2>1. CASE CommitTick
    <3>1. \/ draft[c] = "stop" /\ status'[c] = "disabled"
          \/ draft[c] = "resume" /\ status'[c] = "active"
      BY <1>1, <2>1 DEF CommitTick, Settle
    <3>2. Job(c)
      BY <1>1 DEF JobInv
    <3>3. QED
      BY <1>1, <3>1, <3>2 DEF Job
  <2>2. ASSUME NEW s \in Sessions, Commit(s)
        PROVE  /\ status[c] = "absent" => status'[c] = "active"
               /\ status[c] # "deleted" /\ status'[c] # "absent" /\ pc' = pc
    <3>1. /\ c \in req[s].rows /\ Chosen(req[s], c) /\ status'[c] = Outcome(req[s].op)
      BY <1>1, <2>2, CommitChosen
    <3>2. pc' = pc
      BY <2>2 DEF Commit, tickVars
    <3>3. QED
      BY <3>1, <3>2 DEF Chosen, Outcome, Live
  <2>3. QED
    BY <1>1, <2>1, <2>2, StatusMoves
<1>2. TypeOK /\ LifecycleInv /\ JobInv /\ [Next]_vars
        => [\A c \in Configs :
              c \notin dirty /\ status'[c] # status[c] =>
                /\ status[c] = "absent" => status'[c] = "active"
                /\ status[c] # "deleted" /\ status'[c] # "absent"
                /\ pc' # pc =>
                     \/ status[c] = "active" /\ status'[c] = "disabled"
                     \/ status[c] = "disabled" /\ c \in marked /\ status'[c] = "active"]_vars
  BY <1>1
<1>3. QED
  BY <1>2, Invariance, JobInvariance, PTL DEF Spec, MovesLegal

\* A deleted config stays deleted unless two operations met on it: one of the
\* moves that are not legal.
THEOREM DeletionIsFinal == Spec => DeletedStays
<1> DEFINE LegalMove ==
      \A c \in Configs :
        c \notin dirty /\ status'[c] # status[c] =>
          /\ status[c] = "absent" => status'[c] = "active"
          /\ status[c] # "deleted" /\ status'[c] # "absent"
          /\ pc' # pc =>
               \/ status[c] = "active" /\ status'[c] = "disabled"
               \/ status[c] = "disabled" /\ c \in marked /\ status'[c] = "active"
<1>1. [LegalMove]_vars => [\A c \in Configs :
                        status[c] = "deleted" /\ c \notin dirty => status'[c] = "deleted"]_vars
  BY DEF vars, rowVars
<1>2. MovesLegal => DeletedStays
  BY <1>1, PTL DEF MovesLegal, DeletedStays
<1>3. QED
  BY <1>2, MovesAreLegal, PTL

\* A price rise stops the configs that asked for it.
THEOREM PriceRisesStop == Spec => PriceRiseStops
<1>1. TypeOK /\ LifecycleInv /\ [Next]_vars
        => [\A c \in Configs :
              price'[HostOf[c]] > price[HostOf[c]] /\ c \in optIn /\ c \notin dirty
                => status'[c] # "active"]_vars
  <2> SUFFICES ASSUME TypeOK, LifecycleInv, [Next]_vars, NEW c \in Configs,
                      price'[HostOf[c]] > price[HostOf[c]], c \in optIn, c \notin dirty,
                      status'[c] = "active"
               PROVE  FALSE
    OBVIOUS
  <2>1. HostOf[c] \in Listings /\ price[HostOf[c]] \in Nat /\ ~(price[HostOf[c]] > price[HostOf[c]])
    <3>1. HostOf[c] \in Listings /\ price[HostOf[c]] \in Prices
      BY LifecycleAssumption DEF LifecycleAssumption, TypeOK
    <3>2. price[HostOf[c]] \in Nat
      BY <3>1, LifecycleAssumption DEF LifecycleAssumption
    <3>3. \A n \in Nat : ~(n > n)
      OBVIOUS
    <3>4. QED
      BY <3>1, <3>2, <3>3
  <2>2. ASSUME NEW s \in Sessions, Commit(s) PROVE FALSE
    <3>1. req[s].op = "raise" /\ HostOf[c] = req[s].at
      BY <2>1, <2>2 DEF Commit, TypeOK
    <3>2. c \in Scope(req[s])
      BY <3>1 DEF Scope, SellerOps, ConfigsOf
    <3>3. /\ Chosen(req[s], c)
          /\ c \in req[s].rows => status'[c] = Outcome(req[s].op)
          /\ c \notin req[s].rows => status'[c] = status[c]
      BY <2>2, <3>2, CommitChosen
    <3>4. Outcome("raise") = "disabled"
      BY DEF Outcome
    <3>5. QED
      BY <3>1, <3>3, <3>4 DEF Chosen
  <2>3. ASSUME NEW l \in Listings, Lower(l) PROVE FALSE
    <3>1. \E p \in Prices : p < price[l] /\ price' = [price EXCEPT ![l] = p]
      BY <2>3 DEF Lower
    <3>2. \A p \in Prices : p \in Nat
      BY LifecycleAssumption DEF LifecycleAssumption
    <3>3. QED
      BY <2>1, <3>1, <3>2 DEF TypeOK
  <2>4. price' # price
    BY <2>1
  <2>5. ASSUME NEW s \in Sessions, Handle(s), ~Commit(s) PROVE FALSE
    <3>1. ASSUME NEW d \in Configs, CallOk(s, d) \/ CallRefused(s, d) \/ CallLost(s, d)
          PROVE  FALSE
      BY <2>4, <3>1 DEF CallOk, CallRefused, CallLost, Calling, shopVars
    <3>2. ASSUME NEW r \in Requests, Start(s, r) PROVE FALSE
      BY <2>4, <3>2 DEF Start, shopVars
    <3>3. CASE DropInbound(s) \/ Die(s)
      BY <2>4, <3>3 DEF DropInbound, Die, shopVars
    <3>4. QED
      BY <2>5, <3>1, <3>2, <3>3, StartsFit DEF Handle
  <2>6. CASE Tick \/ DieTick
    BY <2>4, <2>6 DEF Tick, DieTick, Begin, Turn, CommitTick, Settle, Rest, VisitToStop,
       VisitToResume, Visit, StopConfig, ResumeConfig, Update, shopVars
  <2>7. CASE \/ \E d \in Configs : PatchConfig(d)
             \/ \E b \in Buyers : Charge(b) \/ TopUp(b)
             \/ \E l \in Listings : Moderate(l)
             \/ UNCHANGED vars
    BY <2>4, <2>7 DEF PatchConfig, Charge, TopUp, Moderate, vars, shopVars
  <2>8. QED
    BY <2>2, <2>3, <2>5, <2>6, <2>7 DEF Next
<1>2. QED
  BY <1>1, Invariance, PTL DEF Spec, PriceRiseStops
=============================================================================
