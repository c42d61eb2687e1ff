-------------------------- MODULE BroadcastProofs --------------------------
(***************************************************************************)
(* Proofs about Broadcast.  The counters of a tick say how much of the     *)
(* audience it read is behind it (Tallied), which bounds them and, at the  *)
(* end, makes them add up.  Of the three histories each is tied to the     *)
(* audience while a broadcast waits (Known) and to the tick that works on  *)
(* it (Pending): a message was sent by this tick, or by one that was cut.  *)
(***************************************************************************)
EXTENDS Broadcast, FiniteSetTheorems, TLAPS

\* What the tick has counted is what it has taken from its audience.
Tallied ==
  IF pc \in {"send", "flush"}
  THEN todo \subseteq asked[cur] /\ nsent + nfailed = Cardinality(asked[cur] \ todo)
  ELSE todo = {}

Typed == TypeOK /\ Tallied

LEMMA BoundTypes ==
  /\ NoCast \notin Casts /\ MaxEdits \in Nat /\ MaxFaults \in Nat
  /\ ProgressEvery \in Nat \ {0} /\ Casts \subseteq Nat
BY BroadcastAssumption DEF BroadcastAssumption

\* Every set of users is counted, and by no more than there are users.
LEMMA SomeUsers ==
  ASSUME NEW S \in SUBSET Users
  PROVE  IsFiniteSet(S) /\ Cardinality(S) \in 0..Cardinality(Users)
<1>1. IsFiniteSet(Users) /\ Cardinality(Users) \in Nat
  BY BroadcastAssumption, FS_CardinalityType DEF BroadcastAssumption
<1>2. IsFiniteSet(S) /\ Cardinality(S) <= Cardinality(Users)
  BY <1>1, FS_Subset
<1>3. Cardinality(S) \in Nat
  BY <1>2, FS_CardinalityType
<1>4. QED
  BY <1>1, <1>2, <1>3

\* One more user is behind the tick.
LEMMA OneMore ==
  ASSUME NEW A \in SUBSET Users, NEW T \in SUBSET A, NEW u \in T
  PROVE  Cardinality(A \ (T \ {u})) = Cardinality(A \ T) + 1
<1>1. IsFiniteSet(A \ T) /\ u \notin A \ T
  BY SomeUsers
<1>2. A \ (T \ {u}) = (A \ T) \cup {u}
  OBVIOUS
<1>3. Cardinality((A \ T) \cup {u}) = Cardinality(A \ T) + 1
  <2>1. Cardinality((A \ T) \cup {u})
          = IF u \in A \ T THEN Cardinality(A \ T) ELSE Cardinality(A \ T) + 1
    BY <1>1, FS_AddElement, Zenon
  <2>2. QED
    BY <1>1, <2>1, Zenon
<1>4. QED
  BY <1>2, <1>3

LEMMA AudienceType ==
  ASSUME TypeOK, NEW k \in Kinds
  PROVE  Audience(k) \subseteq members /\ Audience(k) \subseteq Users /\ Audience(k) \cap blocked = {}
BY DEF Audience, TypeOK

-----------------------------------------------------------------------------

LEMMA TypedInit == Init => Typed
<1> SUFFICES ASSUME Init PROVE Typed
  OBVIOUS
<1>1. 0 \in 0..Cardinality(Users)
  BY SomeUsers
<1>2. QED
  BY <1>1, BoundTypes DEF Init, Typed, TypeOK, Tallied, Kinds

LEMMA TypedPreserved == Typed /\ [Next]_vars => Typed'
<1> SUFFICES ASSUME Typed, [Next]_vars PROVE Typed'
  OBVIOUS
<1> USE DEF Typed
<1>0. 0 \in 0..Cardinality(Users)
  BY SomeUsers
<1>1. ASSUME NEW u \in Users, Join(u) PROVE Typed'
  BY <1>1, BoundTypes DEF Join, Edit, TypeOK, Tallied, castVars, tickVars, sendLog, userLog
<1>2. ASSUME NEW u \in Users, Buy(u) PROVE Typed'
  BY <1>2, BoundTypes DEF Buy, Edit, TypeOK, Tallied, castVars, tickVars, sendLog, userLog
<1>3. ASSUME NEW u \in Users, NEW on \in BOOLEAN, SetBlocked(u, on) PROVE Typed'
  BY <1>3, BoundTypes DEF SetBlocked, Edit, TypeOK, Tallied, castVars, tickVars, sendLog
<1>4. ASSUME NEW b \in Casts, NEW k \in Kinds, Create(b, k) PROVE Typed'
  <2>1. steady' \in [Casts -> SUBSET Users] /\ barred' \in [Casts -> SUBSET Users]
    BY <1>4, AudienceType DEF Create, TypeOK
  <2>2. pc # "idle" => b # cur
    BY <1>4 DEF Create, TypeOK
  <2>3. status' \in [Casts -> {"none", "queued", "running", "done"}]
    BY <1>4 DEF Create, TypeOK
  <2>4. pc # "idle" => status'[cur] = "running"
    BY <1>4, <2>2 DEF Create, TypeOK
  <2>5. QED
    BY <1>4, <2>1, <2>3, <2>4 DEF Create, TypeOK, Tallied, userVars, tickVars, sendLog
<1>5. ASSUME NEW b \in Casts, Pick(b) PROVE Typed'
  BY <1>5 DEF Pick, Waiting, TypeOK, Tallied, userVars, sendLog, userLog
<1>6. CASE ReadAudience
  <2>1. cur \in Casts /\ todo' \subseteq members /\ todo' \subseteq Users
    BY <1>6, AudienceType DEF ReadAudience, TypeOK
  <2>2. asked' \in [Casts -> SUBSET Users] /\ asked'[cur] = todo'
    BY <1>6, <2>1 DEF ReadAudience, TypeOK
  <2>3. Cardinality(asked'[cur] \ todo') = 0
    BY <2>2, FS_EmptySet
  <2>4. UNCHANGED <<userVars, castVars, cur, edits, faults, tries, cuts, userLog>>
        /\ pc' = "send" /\ nsent' = 0 /\ nfailed' = 0
    BY <1>6 DEF ReadAudience
  <2>5. TypeOK'
    BY <1>0, <1>6, <2>1, <2>2, <2>4 DEF ReadAudience, TypeOK, userVars, castVars, userLog
  <2>6. QED
    <3>1. todo' \subseteq asked'[cur'] /\ nsent' + nfailed' = Cardinality(asked'[cur'] \ todo')
      BY <2>2, <2>3, <2>4
    <3>2. QED
      BY <2>4, <2>5, <3>1 DEF Tallied
<1>7. ASSUME NEW u \in Users, Send(u) PROVE Typed'
  <2>1. cur \in Casts /\ pc = "send" /\ u \in todo /\ todo' = todo \ {u}
        /\ asked[cur] \in SUBSET Users /\ todo \subseteq asked[cur] /\ pc' \in {"send", "flush"}
    BY <1>7 DEF Send, TypeOK, Tallied
  <2>2. Cardinality(asked[cur] \ todo') = Cardinality(asked[cur] \ todo) + 1
    BY <2>1, OneMore
  <2>3. Cardinality(asked[cur] \ todo') \in 0..Cardinality(Users)
        /\ Cardinality(asked[cur] \ todo) \in 0..Cardinality(Users)
        /\ Cardinality(Users) \in Nat
    BY <2>1, SomeUsers
  <2>4. nsent \in Nat /\ nfailed \in Nat /\ nsent' \in Nat /\ nfailed' \in Nat
        /\ nsent' + nfailed' = nsent + nfailed + 1
    <3>1. nsent \in Nat /\ nfailed \in Nat
      BY <2>3 DEF TypeOK
    <3>2. QED
      BY <1>7, <3>1 DEF Send
  <2>5. nsent' + nfailed' = Cardinality(asked[cur] \ todo')
    BY <2>1, <2>2, <2>3, <2>4 DEF Tallied
  <2>6. nsent' \in 0..Cardinality(Users) /\ nfailed' \in 0..Cardinality(Users)
    BY <2>3, <2>4, <2>5
  <2>7. tries' \in [Casts -> [Users -> Nat]]
    BY <1>7, <2>1 DEF Send, TypeOK
  <2>8. UNCHANGED <<userVars, castVars, cur, edits, faults, asked, cuts, userLog>>
    BY <1>7 DEF Send
  <2>9. QED
    BY <2>1, <2>5, <2>6, <2>7, <2>8 DEF TypeOK, Tallied, userVars, castVars, userLog
<1>8. CASE Flush
  BY <1>8 DEF Flush, TypeOK, Tallied, userVars, sendLog, userLog
<1>9. CASE Finish
  BY <1>0, <1>9 DEF Finish, EndTick, TypeOK, Tallied, userVars, sendLog, userLog
<1>10. CASE Cut
  <2>1. cuts' \in [Casts -> Nat]
    BY <1>10 DEF Cut, TypeOK
  <2>2. faults' \in 0..MaxFaults
    BY <1>10, BoundTypes DEF Cut, TypeOK
  <2>3. UNCHANGED <<userVars, castVars, edits, asked, tries, userLog>> /\ EndTick
    BY <1>10 DEF Cut
  <2>4. QED
    BY <1>0, <2>1, <2>2, <2>3 DEF EndTick, TypeOK, Tallied, userVars, castVars, userLog
<1>11. CASE UNCHANGED vars
  BY <1>11 DEF vars, userVars, castVars, tickVars, sendLog, userLog, TypeOK, Tallied
<1>12. QED
  BY <1>1, <1>2, <1>3, <1>4, <1>5, <1>6, <1>7, <1>8, <1>9, <1>10, <1>11 DEF Next, Tick

\* Every variable stays in its type: a tick always works on a running broadcast, its
\* counters never exceed the users there are, and nobody is written to who is no user.
THEOREM TypeCorrect == Spec => []TypeOK
<1>1. Typed => TypeOK
  BY DEF Typed
<1>2. QED
  BY <1>1, TypedInit, TypedPreserved, PTL DEF Spec

-----------------------------------------------------------------------------

\* What a broadcast that is not done is known to be for.
Known ==
  \A b \in Casts :
    /\ steady[b] \subseteq (IF status[b] = "none" THEN {} ELSE Audience(kind[b]))
    /\ barred[b] \subseteq (IF status[b] = "none" THEN {} ELSE blocked)
    /\ status[b] = "none" => \A u \in Users : tries[b][u] = 0 /\ cuts[b] = 0

\* Whom the tick at work has written to: the audience it read but for todo.
Passed(b, u) == b = cur /\ pc \in {"send", "flush"} /\ u \notin todo

\* A message is of a tick that was cut off, of the one at work, or of the one that
\* finished; of those a broadcast is for, whom the tick still has to write to is todo.
Pending ==
  \A b \in Casts, u \in Users :
    /\ tries[b][u] <= cuts[b] + (IF status[b] = "done" \/ Passed(b, u) THEN 1 ELSE 0)
    /\ u \in steady[b] /\ (status[b] = "done" \/ Passed(b, u)) => tries[b][u] >= 1
    /\ u \in barred[b] => tries[b][u] = 0 /\ ~(b = cur /\ u \in todo)

DeliveryInv == Typed /\ Known /\ Pending /\ CountersAddUp

LEMMA DeliveryInit == Init => DeliveryInv
BY TypedInit, BoundTypes DEF Init, DeliveryInv, Known, Pending, Passed, CountersAddUp

\* What is done by a user or an administrator only widens the audience, or takes from
\* steady and barred whom it takes from the audience.
LEMMA KnownPreserved == TypeOK /\ Known /\ [Next]_vars => Known'
<1> SUFFICES ASSUME TypeOK, Known, [Next]_vars PROVE Known'
  OBVIOUS
<1>1. ASSUME NEW u \in Users, Join(u) PROVE Known'
  BY <1>1 DEF Join, Known, Audience, castVars, sendLog, userLog
<1>2. ASSUME NEW u \in Users, Buy(u) PROVE Known'
  BY <1>2 DEF Buy, Known, Audience, castVars, sendLog, userLog
<1>3. ASSUME NEW u \in Users, NEW on \in BOOLEAN, SetBlocked(u, on) PROVE Known'
  <2> SUFFICES ASSUME NEW b \in Casts
               PROVE  /\ steady'[b] \subseteq (IF status[b] = "none" THEN {} ELSE Audience(kind[b])')
                      /\ barred'[b] \subseteq (IF status[b] = "none" THEN {} ELSE blocked')
    BY <1>3 DEF SetBlocked, Known, castVars, sendLog
  <2>1. /\ steady[b] \subseteq (IF status[b] = "none" THEN {} ELSE Audience(kind[b]))
        /\ barred[b] \subseteq (IF status[b] = "none" THEN {} ELSE blocked)
    BY DEF Known
  <2>2. steady'[b] = (IF on THEN steady[b] \ {u} ELSE steady[b])
        /\ barred'[b] = (IF on THEN barred[b] ELSE barred[b] \ {u})
        /\ blocked' = (IF on THEN blocked \cup {u} ELSE blocked \ {u})
        /\ UNCHANGED <<members, buyers, kind, status>>
    BY <1>3 DEF SetBlocked, castVars
  <2>3. CASE on
    BY <2>1, <2>2, <2>3 DEF Audience
  <2>4. CASE ~on
    BY <2>1, <2>2, <2>4 DEF Audience
  <2>5. QED
    BY <2>3, <2>4
<1>4. ASSUME NEW b \in Casts, NEW k \in Kinds, Create(b, k) PROVE Known'
  <2>1. /\ \A c \in Casts \ {b} : status'[c] = status[c] /\ kind'[c] = kind[c]
                                  /\ steady'[c] = steady[c] /\ barred'[c] = barred[c]
        /\ status'[b] = "queued" /\ kind'[b] = k
        /\ steady'[b] = Audience(k) /\ barred'[b] = blocked
    BY <1>4 DEF Create, TypeOK
  <2>2. UNCHANGED <<members, buyers, blocked, tries, cuts>>
    BY <1>4 DEF Create, userVars, sendLog
  <2>3. QED
    BY <2>1, <2>2 DEF Known, Audience
<1>5. ASSUME NEW b \in Casts, Pick(b) PROVE Known'
  <2>1. \A c \in Casts : (status'[c] = "none") <=> (status[c] = "none")
    BY <1>5 DEF Pick, Waiting, TypeOK
  <2>2. UNCHANGED <<members, buyers, blocked, tries, cuts, steady, barred, kind>>
    BY <1>5 DEF Pick, userVars, sendLog, userLog
  <2>3. QED
    BY <2>1, <2>2 DEF Known, Audience
<1>6. CASE ReadAudience
  BY <1>6 DEF ReadAudience, Known, Audience, userVars, castVars, userLog
<1>7. ASSUME NEW u \in Users, Send(u) PROVE Known'
  <2>1. status[cur] = "running" /\ \A c \in Casts \ {cur} : tries'[c] = tries[c]
    BY <1>7 DEF Send, TypeOK
  <2>2. UNCHANGED <<members, buyers, blocked, status, cuts, steady, barred, kind>>
    BY <1>7 DEF Send, userVars, castVars, userLog
  <2>3. QED
    BY <2>1, <2>2 DEF Known, Audience
<1>8. CASE Flush
  BY <1>8 DEF Flush, Known, Audience, userVars, sendLog, userLog
<1>9. CASE Finish
  <2>1. \A c \in Casts : (status'[c] = "none") <=> (status[c] = "none")
    BY <1>9 DEF Finish, TypeOK
  <2>2. UNCHANGED <<members, buyers, blocked, tries, cuts, steady, barred, kind>>
    BY <1>9 DEF Finish, userVars, sendLog, userLog
  <2>3. QED
    BY <2>1, <2>2 DEF Known, Audience
<1>10. CASE Cut
  <2>1. status[cur] = "running" /\ \A c \in Casts \ {cur} : cuts'[c] = cuts[c]
    BY <1>10 DEF Cut, TypeOK
  <2>2. UNCHANGED <<members, buyers, blocked, status, tries, steady, barred, kind>>
    BY <1>10 DEF Cut, userVars, castVars, userLog
  <2>3. QED
    BY <2>1, <2>2 DEF Known, Audience
<1>11. CASE UNCHANGED vars
  BY <1>11 DEF vars, userVars, castVars, sendLog, userLog, Known, Audience
<1>12. QED
  BY <1>1, <1>2, <1>3, <1>4, <1>5, <1>6, <1>7, <1>8, <1>9, <1>10, <1>11 DEF Next, Tick

\* The steps that leave what has been sent, and the tick, alone.
LEMMA PendingQuiet ==
  ASSUME Pending, UNCHANGED <<pc, cur, todo, status, tries, cuts>>,
         \A b \in Casts : steady'[b] \subseteq steady[b] /\ barred'[b] \subseteq barred[b]
  PROVE  Pending'
BY DEF Pending, Passed

LEMMA PendingPreserved == Typed /\ Known /\ Pending /\ [Next]_vars => Pending'
<1> SUFFICES ASSUME Typed, Known, Pending, [Next]_vars PROVE Pending'
  OBVIOUS
<1>0. TypeOK /\ Tallied
  BY DEF Typed
<1>1. ASSUME NEW u \in Users, Join(u) \/ Buy(u) PROVE Pending'
  BY <1>1, PendingQuiet DEF Join, Buy, castVars, tickVars, sendLog, userLog
<1>2. ASSUME NEW u \in Users, NEW on \in BOOLEAN, SetBlocked(u, on) PROVE Pending'
  <2>1. \A b \in Casts : steady'[b] \subseteq steady[b] /\ barred'[b] \subseteq barred[b]
    BY <1>2 DEF SetBlocked
  <2>2. QED
    BY <1>2, <2>1, PendingQuiet DEF SetBlocked, castVars, tickVars, sendLog
<1>3. ASSUME NEW b \in Casts, NEW k \in Kinds, Create(b, k) PROVE Pending'
  <2>1. /\ \A c \in Casts \ {b} : status'[c] = status[c] /\ steady'[c] = steady[c] /\ barred'[c] = barred[c]
        /\ status'[b] = "queued" /\ UNCHANGED <<pc, cur, todo, tries, cuts>>
    BY <1>0, <1>3 DEF Create, TypeOK, tickVars, sendLog
  <2>2. (b # cur \/ pc = "idle") /\ \A u \in Users : tries[b][u] = 0 /\ cuts[b] = 0
    BY <1>0, <1>3 DEF Create, TypeOK, Known
  <2>3. b # cur
    BY <1>0, <2>2, BoundTypes DEF TypeOK
  <2>4. QED
    BY <2>1, <2>2, <2>3 DEF Pending, Passed
<1>4. ASSUME NEW b \in Casts, Pick(b) PROVE Pending'
  <2>1. /\ status[b] # "done" /\ status'[b] # "done" /\ pc = "idle" /\ pc' = "read"
        /\ \A c \in Casts \ {b} : status'[c] = status[c]
        /\ UNCHANGED <<todo, tries, cuts, steady, barred>>
    BY <1>0, <1>4 DEF Pick, Waiting, TypeOK, sendLog, userLog
  <2>2. todo = {}
    BY <1>0, <2>1 DEF Tallied
  <2>3. QED
    BY <2>1, <2>2 DEF Pending, Passed
<1>5. CASE ReadAudience
  <2>1. cur \in Casts /\ status[cur] = "running" /\ todo' = Audience(kind[cur]) /\ pc = "read"
        /\ UNCHANGED <<status, cur, tries, cuts, steady, barred>>
    BY <1>0, <1>5 DEF ReadAudience, TypeOK, castVars, userLog
  <2>2. steady[cur] \subseteq todo' /\ barred[cur] \cap todo' = {}
    BY <2>1 DEF Known, Audience
  <2>3. tries \in [Casts -> [Users -> Nat]] /\ cuts \in [Casts -> Nat]
    BY <1>0 DEF TypeOK
  <2>4. ASSUME NEW b \in Casts, NEW u \in Users
        PROVE  /\ tries[b][u] <= cuts[b] + (IF status[b] = "done" \/ Passed(b, u)' THEN 1 ELSE 0)
               /\ u \in steady[b] /\ (status[b] = "done" \/ Passed(b, u)') => tries[b][u] >= 1
               /\ u \in barred[b] => tries[b][u] = 0 /\ ~(b = cur /\ u \in todo')
    <3>1. ~Passed(b, u)
      BY <2>1 DEF Passed
    <3>2. u \in steady[b] => ~Passed(b, u)'
      BY <2>1, <2>2 DEF Passed
    <3>3. u \in barred[b] => ~(b = cur /\ u \in todo')
      BY <2>2
    <3>4. tries[b][u] \in Nat /\ cuts[b] \in Nat
      BY <2>3
    <3>5. QED
      BY <3>1, <3>2, <3>3, <3>4 DEF Pending
  <2>5. QED
    BY <2>1, <2>4 DEF Pending
<1>6. ASSUME NEW u \in Users, Send(u) PROVE Pending'
  <2>1. cur \in Casts /\ status[cur] = "running" /\ pc = "send" /\ pc' \in {"send", "flush"}
        /\ u \in todo /\ todo' = todo \ {u}
        /\ UNCHANGED <<status, cur, cuts, steady, barred>>
    BY <1>0, <1>6 DEF Send, TypeOK, castVars, userLog
  <2>2. /\ \A v \in Users \ {u} : tries'[cur][v] = tries[cur][v]
        /\ tries'[cur][u] = tries[cur][u] + 1
        /\ \A b \in Casts \ {cur} : tries'[b] = tries[b]
    BY <1>0, <1>6, <2>1 DEF Send, TypeOK
  <2>3. tries \in [Casts -> [Users -> Nat]] /\ cuts \in [Casts -> Nat]
    BY <1>0 DEF TypeOK
  <2>4. ASSUME NEW b \in Casts, NEW v \in Users
        PROVE  /\ tries'[b][v] <= cuts[b] + (IF status[b] = "done" \/ Passed(b, v)' THEN 1 ELSE 0)
               /\ v \in steady[b] /\ (status[b] = "done" \/ Passed(b, v)') => tries'[b][v] >= 1
               /\ v \in barred[b] => tries'[b][v] = 0 /\ ~(b = cur /\ v \in todo')
    <3>1. CASE b = cur /\ v = u
      <4>1. ~Passed(b, v) /\ Passed(b, v)' /\ v \notin barred[b]
        BY <2>1, <3>1 DEF Passed, Pending
      <4>2. tries[b][v] <= cuts[b] + 0 /\ tries[b][v] \in Nat /\ cuts[b] \in Nat
        BY <2>1, <2>3, <3>1, <4>1 DEF Pending
      <4>3. QED
        BY <2>2, <3>1, <4>1, <4>2
    <3>2. CASE ~(b = cur /\ v = u)
      <4>1. tries'[b][v] = tries[b][v] /\ (Passed(b, v)' <=> Passed(b, v))
        BY <2>1, <2>2, <3>2 DEF Passed
      <4>2. v \in barred[b] => ~(b = cur /\ v \in todo')
        BY <2>1 DEF Pending
      <4>3. QED
        BY <4>1, <4>2 DEF Pending
    <3>3. QED
      BY <3>1, <3>2
  <2>5. QED
    BY <2>1, <2>4 DEF Pending
<1>7. CASE Flush
  BY <1>7 DEF Flush, Pending, Passed, userLog, sendLog
<1>8. CASE Finish
  <2>1. /\ cur \in Casts /\ pc = "send" /\ todo = {} /\ pc' = "idle" /\ todo' = {} /\ status'[cur] = "done"
        /\ \A c \in Casts \ {cur} : status'[c] = status[c]
        /\ UNCHANGED <<tries, cuts, steady, barred>>
    BY <1>0, <1>8 DEF Finish, EndTick, TypeOK, sendLog, userLog
  <2>2. QED
    BY <2>1 DEF Pending, Passed
<1>9. CASE Cut
  <2>1. /\ cur \in Casts /\ status[cur] = "running" /\ pc' = "idle" /\ todo' = {}
        /\ cuts'[cur] = cuts[cur] + 1 /\ \A c \in Casts \ {cur} : cuts'[c] = cuts[c]
        /\ UNCHANGED <<status, tries, steady, barred>>
    BY <1>0, <1>9 DEF Cut, EndTick, TypeOK, castVars, userLog
  <2>2. tries \in [Casts -> [Users -> Nat]] /\ cuts \in [Casts -> Nat]
    BY <1>0 DEF TypeOK
  <2>3. ASSUME NEW b \in Casts, NEW u \in Users
        PROVE  /\ tries[b][u] <= cuts'[b] + (IF status[b] = "done" \/ Passed(b, u)' THEN 1 ELSE 0)
               /\ u \in steady[b] /\ (status[b] = "done" \/ Passed(b, u)') => tries[b][u] >= 1
               /\ u \in barred[b] => tries[b][u] = 0
    <3>1. ~Passed(b, u)' /\ tries[b][u] \in Nat /\ cuts[b] \in Nat /\ (b # cur => ~Passed(b, u))
      BY <2>1, <2>2 DEF Passed
    <3>2. CASE b = cur
      BY <2>1, <3>1, <3>2 DEF Pending
    <3>3. CASE b # cur
      BY <2>1, <3>1, <3>3 DEF Pending
    <3>4. QED
      BY <3>2, <3>3
  <2>4. QED
    BY <2>1, <2>3 DEF Pending
<1>10. CASE UNCHANGED vars
  BY <1>10, PendingQuiet DEF vars, castVars, tickVars, sendLog, userLog
<1>11. QED
  BY <1>1, <1>2, <1>3, <1>4, <1>5, <1>6, <1>7, <1>8, <1>9, <1>10 DEF Next, Tick

LEMMA CountersPreserved == Typed /\ CountersAddUp /\ [Next]_vars => CountersAddUp'
<1> SUFFICES ASSUME Typed, CountersAddUp, [Next]_vars PROVE CountersAddUp'
  OBVIOUS
<1>0. TypeOK /\ Tallied
  BY DEF Typed
<1>1. CASE Finish
  <2>1. /\ cur \in Casts /\ sent'[cur] = nsent /\ failed'[cur] = nfailed
        /\ \A c \in Casts \ {cur} : /\ sent'[c] = sent[c] /\ failed'[c] = failed[c]
                                    /\ status'[c] = status[c]
        /\ UNCHANGED asked
    BY <1>0, <1>1 DEF Finish, TypeOK, sendLog
  <2>2. nsent + nfailed = Cardinality(asked[cur])
    <3>1. asked[cur] \ todo = asked[cur]
      BY <1>1 DEF Finish
    <3>2. QED
      BY <1>0, <1>1, <3>1 DEF Finish, Tallied
  <2>3. QED
    BY <2>1, <2>2 DEF CountersAddUp
<1>2. CASE Flush
  <2>1. cur \in Casts /\ status[cur] = "running" /\ UNCHANGED <<status, asked>>
        /\ \A c \in Casts \ {cur} : sent'[c] = sent[c] /\ failed'[c] = failed[c]
    BY <1>0, <1>2 DEF Flush, TypeOK, sendLog
  <2>2. QED
    BY <2>1 DEF CountersAddUp
<1>3. CASE ReadAudience
  <2>1. status[cur] = "running" /\ UNCHANGED <<status, sent, failed>>
        /\ \A c \in Casts \ {cur} : asked'[c] = asked[c]
    BY <1>0, <1>3 DEF ReadAudience, TypeOK, castVars
  <2>2. QED
    BY <2>1 DEF CountersAddUp
<1>4. ASSUME NEW b \in Casts, NEW k \in Kinds, Create(b, k) PROVE CountersAddUp'
  BY <1>0, <1>4 DEF Create, CountersAddUp, TypeOK, sendLog
<1>5. ASSUME NEW b \in Casts, Pick(b) PROVE CountersAddUp'
  BY <1>0, <1>5 DEF Pick, CountersAddUp, TypeOK, sendLog
<1>6. CASE \E u \in Users : Send(u) \/ Join(u) \/ Buy(u) \/ \E on \in BOOLEAN : SetBlocked(u, on)
  BY <1>6 DEF Send, Join, Buy, SetBlocked, CountersAddUp, castVars, sendLog
<1>7. CASE Cut \/ UNCHANGED vars
  BY <1>7 DEF Cut, vars, CountersAddUp, castVars, sendLog
<1>8. QED
  BY <1>1, <1>2, <1>3, <1>4, <1>5, <1>6, <1>7 DEF Next, Tick

\* A broadcast that is done went to everybody it was for from its creation on, to nobody
\* who was blocked from then on, to each as often as ticks of it were cut off and once
\* more at most, and its counters add up to the audience it ended with.
THEOREM DeliveredRight == Spec => []Delivered
<1>1. DeliveryInv /\ [Next]_vars => DeliveryInv'
  BY TypedPreserved, KnownPreserved, PendingPreserved, CountersPreserved DEF DeliveryInv, Typed
<1>2. DeliveryInv => Delivered
  <2> SUFFICES ASSUME DeliveryInv PROVE Delivered
    OBVIOUS
  <2>1. tries \in [Casts -> [Users -> Nat]] /\ cuts \in [Casts -> Nat]
        /\ steady \in [Casts -> SUBSET Users] /\ barred \in [Casts -> SUBSET Users]
    BY DEF DeliveryInv, Typed, TypeOK
  <2>2. ASSUME NEW b \in Casts, NEW u \in Users PROVE tries[b][u] <= 1 + cuts[b]
    <3>1. tries[b][u] \in Nat /\ cuts[b] \in Nat
      BY <2>1
    <3>2. QED
      BY <3>1 DEF DeliveryInv, Pending
  <2>3. CopiesCounted
    BY <2>2 DEF CopiesCounted
  <2>4. NobodySkipped
    BY <2>1 DEF DeliveryInv, Pending, NobodySkipped
  <2>5. BlockedSpared
    BY <2>1 DEF DeliveryInv, Pending, BlockedSpared
  <2>6. QED
    BY <2>3, <2>4, <2>5 DEF Delivered, DeliveryInv
<1>3. QED
  BY <1>1, <1>2, DeliveryInit, PTL DEF Spec

=============================================================================
