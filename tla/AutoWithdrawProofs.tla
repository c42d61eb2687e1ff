------------------------ MODULE AutoWithdrawProofs ------------------------
(***************************************************************************)
(* Proofs about AutoWithdraw.  What keeps automatic withdrawals apart is   *)
(* the row: the invariant Remembers says that last_run_at is the time of   *)
(* the last one, since it commits with the withdrawal and no edit touches  *)
(* it, and that the next run of a timed config lies an interval after it.  *)
(* The tick works on a copy: Fresh says that a copy still to be evaluated  *)
(* knows as much, and what can have happened to the row since.             *)
(***************************************************************************)
EXTENDS AutoWithdraw, TLAPS

LEMMA BodyType ==
  ASSUME NEW b \in Bodies
  PROVE  /\ b.mode \in {"time", "threshold"} /\ b.every \in Nat
         /\ b.threshold \in Nat /\ b.fixed \in Nat
BY AutoWithdrawAssumption DEF AutoWithdrawAssumption, Body

LEMMA RowType ==
  ASSUME NEW c \in Row
  PROVE  /\ c.body \in Bodies /\ c.next \in Int /\ c.last \in Int /\ c.on \in BOOLEAN
         /\ c # NoConfig
BY AutoWithdrawAssumption DEF AutoWithdrawAssumption, Row

LEMMA BoundTypes ==
  /\ Nobody \notin Users /\ MaxTime \in Nat /\ MaxEdits \in Nat /\ MaxFaults \in Nat
  /\ MaxBalance \in Nat /\ InitialBalance \in 0..MaxBalance /\ MinUsd \in Nat \ {0}
  /\ Cooldown \in Nat \ {0}
BY AutoWithdrawAssumption DEF AutoWithdrawAssumption

LEMMA NeverType == Never \in Int /\ 0 \in Time
BY BoundTypes DEF Never, Time

LEMMA TypeInit == Init => TypeOK
<1> SUFFICES ASSUME Init PROVE TypeOK
  OBVIOUS
<1>1. row \in [Users -> Row \cup {NoConfig}] /\ loaded \in [Users -> Row \cup {NoConfig}]
  BY DEF Init
<1>2. last \in [Users -> [at : Int, every : Nat]]
  BY NeverType DEF Init, Nothing
<1>3. balance \in [Users -> 0..MaxBalance] /\ gross \in 0..MaxBalance
  BY BoundTypes DEF Init
<1>4. now \in Time /\ start \in Time /\ edits \in 0..MaxEdits /\ faults \in 0..MaxFaults
  BY BoundTypes, NeverType DEF Init
<1>5. QED
  BY <1>1, <1>2, <1>3, <1>4 DEF Init, TypeOK

LEMMA EndTickType ==
  ASSUME TypeOK, EndTick
  PROVE  /\ pc' = "idle" /\ start' \in Time /\ todo' = {} /\ held' = {}
         /\ loaded' \in [Users -> Row \cup {NoConfig}] /\ cur' = Nobody
         /\ gross' = 0 /\ expired' \in BOOLEAN
BY NeverType DEF EndTick, TypeOK

LEMMA TypePreserved == TypeOK /\ [Next]_vars => TypeOK'
<1> SUFFICES ASSUME TypeOK, [Next]_vars PROVE TypeOK'
  OBVIOUS
<1>1. ASSUME NEW u \in Users, NEW b \in Bodies, NEW on \in BOOLEAN, Put(u, b, on) PROVE TypeOK'
  <2>1. [on |-> on, body |-> b, next |-> NextRun(b, on, now),
         last |-> IF row[u] = NoConfig THEN Never ELSE row[u].last] \in Row
    BY BodyType, RowType DEF NextRun, Never, Row, TypeOK, Time
  <2>2. row' \in [Users -> Row \cup {NoConfig}] /\ row'[u] \in Row
    BY <1>1, <2>1, BoundTypes DEF Put, TypeOK
  <2>3. \A v \in Users : row[v] # NoConfig => row'[v] # NoConfig
    BY <1>1, <2>2, BoundTypes, RowType DEF Put, TypeOK
  <2>4. QED
    BY <1>1, <2>2, <2>3, BoundTypes DEF Put, TypeOK, userVars, tickVars
<1>2. ASSUME NEW u \in Users, Disable(u) PROVE TypeOK'
  <2>1. row[u] \in Row /\ row[u] # NoConfig
    BY <1>2, BoundTypes DEF Disable, TypeOK
  <2>2. row' \in [Users -> Row \cup {NoConfig}] /\ \A v \in Users : row[v] # NoConfig => row'[v] # NoConfig
    <3>1. [row[u] EXCEPT !.on = FALSE, !.next = Never] \in Row
      BY <2>1, NeverType DEF Row
    <3>2. row' = [row EXCEPT ![u] = [row[u] EXCEPT !.on = FALSE, !.next = Never]]
      BY <1>2, <2>1 DEF Disable, TypeOK
    <3>3. QED
      BY <3>1, <3>2, RowType DEF TypeOK
  <2>3. UNCHANGED <<now, userVars, tickVars, faults, last>> /\ edits' \in 0..MaxEdits
    BY <1>2, BoundTypes DEF Disable, TypeOK
  <2>4. QED
    BY <2>2, <2>3 DEF TypeOK, userVars, tickVars
<1>3. CASE Start
  BY <1>3, BoundTypes DEF Start, TypeOK, userVars
<1>4. ASSUME NEW u \in Users, Evaluate(u) PROVE TypeOK'
  <2>1. u \in todo /\ loaded[u] \in Row /\ loaded[u] # NoConfig
    BY <1>4, BoundTypes DEF Evaluate, TypeOK
  <2>2. CASE Wanted(u, loaded[u], start)
    <3>1. Gross(loaded[u], balance[u]) \in 0..MaxBalance
      <4>1. balance[u] \in 0..MaxBalance /\ loaded[u].body.fixed \in Nat
        BY <2>1, BodyType, RowType DEF TypeOK
      <4>2. QED
        BY <2>2, <4>1, BoundTypes DEF Wanted, Gross
    <3>2. pc' = "create" /\ cur' = u /\ gross' \in 0..MaxBalance /\ loaded' = loaded
      BY <1>4, <2>2, <3>1, BoundTypes DEF Evaluate
    <3>3. row[u] # NoConfig
      BY <2>1 DEF TypeOK
    <3>4. QED
      BY <1>4, <2>1, <3>2, <3>3, BoundTypes DEF Evaluate, TypeOK, userVars
  <2>3. CASE ~Wanted(u, loaded[u], start)
    <3>1. loaded' = [loaded EXCEPT ![u] = NoConfig] /\ pc' = pc /\ cur' = cur /\ gross' = gross
      BY <1>4, <2>3, BoundTypes DEF Evaluate
    <3>2. pc' # "create" /\ \A v \in todo' : loaded'[v] # NoConfig
      BY <1>4, <3>1, BoundTypes DEF Evaluate, TypeOK
    <3>3. QED
      BY <1>4, <3>1, <3>2, BoundTypes DEF Evaluate, TypeOK, userVars
  <2>4. QED
    BY <2>2, <2>3
<1>5. CASE Finish
  BY <1>5, BoundTypes, EndTickType DEF Finish, TypeOK, userVars
<1>6. CASE Collapse
  BY <1>6, BoundTypes, EndTickType DEF Collapse, TypeOK, userVars
<1>7. CASE Pay
  <2>1. cur \in Users /\ loaded[cur] \in Row /\ row[cur] \in Row
    BY <1>7, BoundTypes, RowType DEF Pay, TypeOK
  <2>2. loaded[cur].body.every \in Nat /\ start \in Int
    BY <2>1, BodyType, RowType DEF TypeOK, Time
  <2>3. row' \in [Users -> Row \cup {NoConfig}]
    <3> DEFINE nxt == IF loaded[cur].body.mode = "time" THEN start + loaded[cur].body.every
                      ELSE row[cur].next
               new == [row[cur] EXCEPT !.last = start, !.next = nxt]
    <3>1. nxt \in Int
      BY <2>1, <2>2, RowType
    <3>2. new \in Row
      BY <2>1, <2>2, <3>1 DEF Row
    <3>3. row' = [row EXCEPT ![cur] = new]
      BY <1>7, <2>1 DEF Pay, TypeOK
    <3>4. QED
      BY <2>1, <3>2, <3>3 DEF TypeOK
  <2>4. balance' \in [Users -> 0..MaxBalance]
    BY <1>7, <2>1, BoundTypes DEF Pay, Refusable, TypeOK
  <2>5. last' \in [Users -> [at : Int, every : Nat]]
    BY <1>7, <2>1, <2>2, BoundTypes DEF Pay, TypeOK
  <2>6. QED
    BY <1>7, <2>1, <2>3, <2>4, <2>5, BoundTypes DEF Pay, GoOn, TypeOK
<1>8. CASE Refuse
  BY <1>8, BoundTypes DEF Refuse, GoOn, TypeOK, userVars
<1>9. CASE Skip
  BY <1>9, BoundTypes DEF Skip, GoOn, TypeOK, userVars
<1>10. CASE Die
  BY <1>10, BoundTypes, EndTickType DEF Die, TypeOK, userVars
<1>11. ASSUME NEW u \in Users, NEW a \in 0..MaxBalance, Withdraw(u, a) PROVE TypeOK'
  BY <1>11, BoundTypes DEF Withdraw, TypeOK, tickVars
<1>12. ASSUME NEW u \in Users, NEW a \in 0..MaxBalance, Move(u, a) PROVE TypeOK'
  BY <1>12, BoundTypes DEF Move, TypeOK, tickVars
<1>13. ASSUME NEW u \in Users, Settle(u) PROVE TypeOK'
  BY <1>13, BoundTypes DEF Settle, TypeOK, tickVars
<1>14. ASSUME NEW u \in Users, Bar(u) PROVE TypeOK'
  BY <1>14, BoundTypes DEF Bar, TypeOK, tickVars
<1>15. CASE Pass
  BY <1>15, BoundTypes DEF Pass, TypeOK, Time, userVars, tickVars
<1>16. CASE UNCHANGED vars
  BY <1>16, BoundTypes DEF vars, TypeOK, userVars, tickVars
<1>17. QED
  BY <1>1, <1>2, <1>3, <1>4, <1>5, <1>6, <1>7, <1>8, <1>9, <1>10, <1>11, <1>12, BoundTypes,
     <1>13, <1>14, <1>15, <1>16 DEF Next, Tick

\* TypeOK holds in every state: in particular nobody's row goes while a tick works
\* on a copy of it, and no balance is overdrawn by an automatic withdrawal.
THEOREM TypeCorrect == Spec => []TypeOK
BY TypeInit, TypePreserved, PTL DEF Spec

-----------------------------------------------------------------------------
(* Paced.                                                                  *)

\* A timed config's next run is an interval after the user's last withdrawal.
Later(c, u) ==
  c.body.mode = "time" /\ c.next # Never =>
    \/ c.next >= last[u].at + c.body.every
    \/ c.next >= last[u].at + last[u].every

Remembers ==
  \A u \in Users : last[u] # Nothing =>
    /\ last[u].at \in 0..now
    /\ row[u] # NoConfig /\ row[u].last = last[u].at
    /\ Later(row[u], u)

Fresh ==
  \A u \in Users : loaded[u] # NoConfig =>
    /\ row[u] # NoConfig
    /\ last[u] # Nothing => loaded[u].last = last[u].at /\ Later(loaded[u], u)
    /\ row[u].body.mode = "time" /\ row[u].next # Never =>
         loaded[u].body.mode = "time" \/ row[u].next >= start + row[u].body.every

IInv == TypeOK /\ start <= now /\ Remembers /\ Fresh

LEMMA EntryType ==
  ASSUME TypeOK, NEW u \in Users
  PROVE  last[u].at \in Int /\ last[u].every \in Nat /\ now \in Nat /\ start \in Nat
BY BoundTypes DEF TypeOK, Time

LEMMA InvInit == Init => IInv
<1> SUFFICES ASSUME Init PROVE IInv
  OBVIOUS
<1>1. TypeOK
  BY TypeInit
<1>2. QED
  BY <1>1 DEF Init, IInv, Remembers, Fresh

\* What leaves the rows, the copies and the history alone keeps the invariant.
LEMMA Quiet ==
  ASSUME IInv, TypeOK', now <= now', UNCHANGED <<row, last>>,
         \A u \in Users : loaded'[u] = NoConfig \/ (loaded'[u] = loaded[u] /\ start' = start),
         start' <= now'
  PROVE  IInv'
<1>0. now \in Int /\ now' \in Int
  BY BoundTypes DEF IInv, TypeOK, Time
<1>1. Remembers'
  <2>1. \A u \in Users : last[u].at \in 0..now => last[u].at \in 0..now'
    BY <1>0
  <2>2. QED
    BY <2>1 DEF IInv, Remembers, Later
<1>2. Fresh'
  BY DEF IInv, Fresh, Later
<1>3. QED
  BY <1>1, <1>2 DEF IInv

LEMMA InvPreserved == IInv /\ [Next]_vars => IInv'
<1> SUFFICES ASSUME IInv, [Next]_vars PROVE IInv'
  OBVIOUS
<1>0. TypeOK /\ TypeOK' /\ start <= now /\ now \in Nat /\ start \in Nat
  BY TypePreserved, BoundTypes DEF IInv, TypeOK, Time
<1>1. ASSUME NEW u \in Users, NEW b \in Bodies, NEW on \in BOOLEAN, Put(u, b, on) PROVE IInv'
  <2>1. /\ row'[u].body = b /\ row'[u].next = NextRun(b, on, now) /\ row'[u] # NoConfig
        /\ \A v \in Users \ {u} : row'[v] = row[v]
        /\ row'[u].last = IF row[u] = NoConfig THEN Never ELSE row[u].last
    <3>1. row' = [row EXCEPT ![u] = row'[u]] /\ row'[u] =
            [on |-> on, body |-> b, next |-> NextRun(b, on, now),
             last |-> IF row[u] = NoConfig THEN Never ELSE row[u].last]
      BY <1>0, <1>1 DEF Put, TypeOK
    <3>2. row'[u] \in Row
      BY <1>0, <3>1, BodyType, RowType, NeverType DEF NextRun, Row, TypeOK
    <3>3. QED
      BY <1>0, <3>1, <3>2, RowType DEF TypeOK
  <2>2. UNCHANGED <<now, last, loaded, start>>
    BY <1>1 DEF Put, tickVars
  <2>3. NextRun(b, on, now) = Never \/ NextRun(b, on, now) = now + b.every
    BY DEF NextRun
  <2>4. b.every \in Nat
    BY BodyType
  <2>5. ASSUME NEW v \in Users, last'[v] # Nothing
        PROVE  last'[v].at \in 0..now' /\ row'[v] # NoConfig /\ row'[v].last = last'[v].at /\ Later(row[v], v)'
    BY <1>0, <2>1, <2>2, <2>3, <2>4, <2>5, EntryType DEF IInv, Remembers, Later
  <2>6. ASSUME NEW v \in Users, loaded'[v] # NoConfig
        PROVE  /\ row'[v] # NoConfig
               /\ last'[v] # Nothing => loaded'[v].last = last'[v].at /\ Later(loaded[v], v)'
               /\ row'[v].body.mode = "time" /\ row'[v].next # Never =>
                    loaded'[v].body.mode = "time" \/ row'[v].next >= start' + row'[v].body.every
    BY <1>0, <2>1, <2>2, <2>3, <2>4, <2>6 DEF IInv, Fresh, Later
  <2>7. QED
    BY <1>0, <2>2, <2>5, <2>6 DEF IInv, Remembers, Fresh
<1>2. ASSUME NEW u \in Users, Disable(u) PROVE IInv'
  <2>1. row[u] \in Row
    BY <1>0, <1>2 DEF Disable, TypeOK
  <2>2. row' = [row EXCEPT ![u] = [row[u] EXCEPT !.on = FALSE, !.next = Never]]
    BY <1>0, <1>2, <2>1 DEF Disable, TypeOK
  <2>3. /\ row'[u].next = Never /\ row'[u].last = row[u].last /\ row'[u] # NoConfig
        /\ \A v \in Users \ {u} : row'[v] = row[v]
    <3>1. [row[u] EXCEPT !.on = FALSE, !.next = Never] \in Row
      BY <2>1, NeverType DEF Row
    <3>2. QED
      BY <1>0, <2>1, <2>2, <3>1, RowType DEF TypeOK, Row
  <2>4. UNCHANGED <<now, last, loaded, start>>
    BY <1>2 DEF Disable, tickVars
  <2>5. Remembers'
    BY <1>0, <2>3, <2>4 DEF IInv, Remembers, Later
  <2>6. Fresh'
    BY <1>0, <2>3, <2>4 DEF IInv, Fresh, Later
  <2>7. QED
    BY <1>0, <2>4, <2>5, <2>6 DEF IInv
<1>3. CASE Start
  <2>1. UNCHANGED <<now, row, last>> /\ start' = now
    BY <1>3 DEF Start
  <2>2. \A u \in Users : loaded'[u] = NoConfig \/ (loaded'[u] = row[u] /\ row[u] # NoConfig)
    <3>1. \A u \in todo' : row[u] # NoConfig
      BY <1>3 DEF Start
    <3>2. loaded' = [u \in Users |-> IF u \in todo' THEN row[u] ELSE NoConfig]
      BY <1>3 DEF Start
    <3>3. ASSUME NEW u \in Users
          PROVE  loaded'[u] = IF u \in todo' THEN row[u] ELSE NoConfig
      BY <3>2
    <3>4. QED
      BY <3>1, <3>3
  <2>3. Remembers'
    BY <2>1 DEF IInv, Remembers, Later
  <2>4. Fresh'
    BY <2>1, <2>2 DEF IInv, Remembers, Fresh, Later
  <2>5. QED
    BY <1>0, <2>1, <2>3, <2>4 DEF IInv
<1>4. ASSUME NEW u \in Users, Evaluate(u) PROVE IInv'
  <2>1. UNCHANGED <<now, row, last, start>>
    BY <1>4 DEF Evaluate
  <2>2. \A v \in Users : loaded'[v] = NoConfig \/ loaded'[v] = loaded[v]
    BY <1>0, <1>4 DEF Evaluate, TypeOK
  <2>3. QED
    BY <1>0, <2>1, <2>2, Quiet
<1>5. ASSUME EndTick, UNCHANGED <<now, row, last>> PROVE IInv'
  <2>1. start' = 0 /\ \A u \in Users : loaded'[u] = NoConfig
    BY <1>5 DEF EndTick
  <2>2. now <= now' /\ start' <= now'
    BY <1>0, <1>5, <2>1
  <2>3. QED
    BY <1>0, <1>5, <2>1, <2>2, Quiet
<1>6. CASE Pay
  <2>1. cur \in Users /\ loaded[cur] \in Row /\ loaded[cur] # NoConfig /\ row[cur] \in Row
    BY <1>0, <1>6, RowType DEF Pay, TypeOK
  <2>2. loaded[cur].body.every \in Nat
    BY <2>1, BodyType, RowType
  <2>3. /\ last'[cur] = [at |-> start, every |-> loaded[cur].body.every]
        /\ \A v \in Users \ {cur} : last'[v] = last[v] /\ row'[v] = row[v] /\ loaded'[v] = loaded[v]
        /\ loaded'[cur] = NoConfig /\ UNCHANGED <<now, start>>
    BY <1>0, <1>6, <2>1 DEF Pay, GoOn, TypeOK
  <2> DEFINE nxt == IF loaded[cur].body.mode = "time" THEN start + loaded[cur].body.every
                    ELSE row[cur].next
             new == [row[cur] EXCEPT !.last = start, !.next = nxt]
  <2>4. row' = [row EXCEPT ![cur] = new]
    BY <1>0, <1>6, <2>1 DEF Pay, TypeOK
  <2>5. /\ row'[cur].next = nxt /\ row'[cur].body = row[cur].body
        /\ row'[cur].last = start /\ row'[cur] # NoConfig
    <3>1. nxt \in Int
      BY <1>0, <2>1, <2>2, RowType
    <3>2. new \in Row /\ new.next = nxt /\ new.body = row[cur].body /\ new.last = start
      <4>1. start \in Int
        BY <1>0
      <4> HIDE DEF nxt
      <4>2. QED
        BY <2>1, <3>1, <4>1 DEF Row
    <3>3. QED
      BY <1>0, <2>1, <2>4, <3>2, RowType DEF TypeOK
  <2>6. row'[cur].body.mode = "time" /\ row'[cur].next # Never =>
          \/ row'[cur].next >= last'[cur].at + row'[cur].body.every
          \/ row'[cur].next >= last'[cur].at + last'[cur].every
    <3>1. CASE loaded[cur].body.mode = "time"
      BY <1>0, <2>2, <2>3, <2>5, <3>1
    <3>2. CASE loaded[cur].body.mode # "time"
      BY <1>0, <2>1, <2>2, <2>3, <2>5, <3>2 DEF IInv, Fresh
    <3>3. QED
      BY <3>1, <3>2
  <2>7. ASSUME NEW v \in Users, last'[v] # Nothing
        PROVE  last'[v].at \in 0..now' /\ row'[v] # NoConfig /\ row'[v].last = last'[v].at /\ Later(row[v], v)'
    <3>1. CASE v = cur
      BY <1>0, <2>3, <2>5, <2>6, <3>1 DEF Later
    <3>2. CASE v # cur
      BY <2>3, <2>7, <3>2 DEF IInv, Remembers, Later
    <3>3. QED
      BY <3>1, <3>2
  <2>8. Fresh'
    BY <2>3 DEF IInv, Fresh, Later
  <2>9. QED
    BY <1>0, <2>3, <2>7, <2>8 DEF IInv, Remembers
<1>7. ASSUME GoOn, UNCHANGED <<now, row, last, start>> PROVE IInv'
  <2>1. \A v \in Users : loaded'[v] = NoConfig \/ loaded'[v] = loaded[v]
    BY <1>0, <1>7 DEF GoOn, TypeOK
  <2>2. QED
    BY <1>0, <1>7, <2>1, Quiet
<1>8. ASSUME UNCHANGED <<row, last, loaded, start>>, now <= now' PROVE IInv'
  BY <1>0, <1>8, Quiet, BoundTypes DEF TypeOK, Time
<1>9. CASE Tick
  BY <1>3, <1>4, <1>5, <1>6, <1>7, <1>9 DEF Tick, Finish, Collapse, Refuse
<1>10. CASE Skip \/ Die
  BY <1>5, <1>7, <1>10 DEF Skip, Die
<1>11. CASE Pass \/ UNCHANGED vars
  BY <1>0, <1>8, <1>11 DEF Pass, vars, tickVars
<1>12. ASSUME NEW u \in Users, NEW a \in 0..MaxBalance,
             Settle(u) \/ Bar(u) \/ Withdraw(u, a) \/ Move(u, a)
       PROVE IInv'
  BY <1>0, <1>8, <1>12 DEF Settle, Bar, Withdraw, Move, tickVars
<1>13. ASSUME NEW u \in Users, Settle(u) \/ Bar(u) PROVE IInv'
  BY <1>0, <1>8, <1>13 DEF Settle, Bar, tickVars
<1>14. QED
  BY <1>1, <1>2, <1>9, <1>10, <1>11, <1>12, <1>13 DEF Next

LEMMA Begins ==
  ASSUME IInv, [Next]_vars, pc = "loop", pc' = "create"
  PROVE  last[cur'] = Nothing \/ Spaced(cur', loaded[cur'].body)
<1>1. PICK u \in Users : Evaluate(u)
  BY DEF Next, Tick, vars, userVars, tickVars, Put, Disable, Start, Finish, Collapse, EndTick,
         Pay, Refuse, Skip, Die, GoOn, Withdraw, Settle, Move, Bar, Pass
<1>2. cur' = u /\ Wanted(u, loaded[u], start) /\ loaded[u] \in Row /\ loaded[u] # NoConfig
  BY <1>1 DEF Evaluate, IInv, TypeOK
<1>3. SUFFICES ASSUME last[u] # Nothing PROVE Spaced(u, loaded[u].body)
  BY <1>2
<1>4. /\ loaded[u].last = last[u].at /\ Later(loaded[u], u) /\ last[u].at \in 0..now
      /\ last[u].at # Never
  BY <1>2, <1>3, EntryType DEF IInv, Fresh, Remembers, Never
<1>5. /\ Fires(loaded[u], balance[u], start) /\ loaded[u].next \in Int /\ start \in Nat
      /\ loaded[u].body.every \in Nat /\ last[u].every \in Nat /\ last[u].at \in Int
  BY <1>2, BodyType, RowType, EntryType DEF Wanted, IInv
<1>6. CASE loaded[u].body.mode = "time"
  BY <1>4, <1>5, <1>6 DEF Fires, Later, Spaced
<1>7. CASE loaded[u].body.mode # "time"
  BY <1>4, <1>5, <1>7 DEF Fires, Spaced
<1>8. QED
  BY <1>6, <1>7

\* Automatic withdrawals keep their distance for any number of users and any
\* configs: the pacing survives edits in the middle of a tick and restarts between
\* any two steps, because the stamp commits with the withdrawal it belongs to.
THEOREM WithdrawalsArePaced == Spec => Paced
<1>1. IInv /\ [Next]_vars => (pc = "loop" /\ pc' = "create" =>
         last[cur'] = Nothing \/ Spaced(cur', loaded[cur'].body))
  BY Begins
<1>2. QED
  BY <1>1, InvInit, InvPreserved, PTL DEF Spec, Paced
=============================================================================
