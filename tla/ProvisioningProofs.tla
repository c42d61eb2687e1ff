------------------------ MODULE ProvisioningProofs ------------------------
(***************************************************************************)
(* Proofs about Provisioning.  An inbound on the panel is accounted for    *)
(* by who holds its id: Ownership says that no two rows, and no two        *)
(* requests that made an inbound, share one, and that a request shares one *)
(* with a row only on the way out of a commit that took effect unseen.     *)
(***************************************************************************)
EXTENDS Provisioning, FiniteSetTheorems, TLAPS

LEMMA ConstantTypes ==
  /\ IsFiniteSet(Ports) /\ Nil \notin Sellers /\ Nil \notin Ports
  /\ MaxListings \in Nat \ {0} /\ MaxIds \in Nat /\ MaxFaults \in Nat
BY ProvisioningAssumption DEF ProvisioningAssumption

\* What one session's move does to the five session variables.
LEMMA GoMoves ==
  ASSUME TypeOK, NEW s \in Sessions, NEW next, Go(s, next)
  PROVE  /\ at'[s] = next /\ \A t \in Sessions \ {s} : at'[t] = at[t]
         /\ UNCHANGED <<op, who, port, id>>
BY DEF TypeOK, Go

LEMMA EndMoves ==
  ASSUME TypeOK, NEW s \in Sessions, End(s)
  PROVE  /\ at'[s] = "rest" /\ op'[s] = "none" /\ who'[s] = Nil /\ port'[s] = Nil /\ id'[s] = 0
         /\ \A t \in Sessions \ {s} :
              /\ at'[t] = at[t] /\ op'[t] = op[t] /\ who'[t] = who[t]
              /\ port'[t] = port[t] /\ id'[t] = id[t]
BY DEF TypeOK, End

LEMMA BeginMoves ==
  ASSUME TypeOK, NEW s \in Sessions, NEW what, NEW u, NEW p, NEW i, NEW first,
         Begin(s, what, u, p, i, first)
  PROVE  /\ at[s] = "rest"
         /\ at'[s] = first /\ op'[s] = what /\ who'[s] = u /\ port'[s] = p /\ id'[s] = i
         /\ \A t \in Sessions \ {s} :
              /\ at'[t] = at[t] /\ op'[t] = op[t] /\ who'[t] = who[t]
              /\ port'[t] = port[t] /\ id'[t] = id[t]
         /\ UNCHANGED <<rowVars, panelVars, faults, stray, doubt, revived>>
BY DEF TypeOK, Begin

LEMMA InsertMoves ==
  ASSUME TypeOK, NEW s \in Sessions, at[s] # "rest", Insert(s)
  PROVE  /\ port[s] \in Ports /\ row'[port[s]] = "live" /\ seller'[port[s]] = who[s]
         /\ link'[port[s]] = id[s]
         /\ \A p \in Ports \ {port[s]} :
              row'[p] = row[p] /\ seller'[p] = seller[p] /\ link'[p] = link[p]
BY DEF TypeOK, Insert

LEMMA TypeInit == Init => TypeOK
BY ConstantTypes DEF Init, TypeOK, Ids, Steps

LEMMA EndType ==
  ASSUME TypeOK, NEW s \in Sessions, End(s)
  PROVE  /\ op' \in [Sessions -> {"none", "create", "delete", "repair", "edit"}]
         /\ at' \in [Sessions -> Steps]
         /\ who' \in [Sessions -> Sellers \cup {Nil}]
         /\ port' \in [Sessions -> Ports \cup {Nil}]
         /\ id' \in [Sessions -> 0..MaxIds]
         /\ \A t \in Sessions :
              /\ IF at'[t] = "rest" THEN id'[t] = 0 ELSE port'[t] \in Ports
              /\ at'[t] \in {"probe", "lock", "insert", "undo"} => id'[t] # 0
BY ConstantTypes DEF TypeOK, End, Steps

LEMMA GoType ==
  ASSUME TypeOK, NEW s \in Sessions, NEW next \in Steps \ {"rest"}, at[s] # "rest", Go(s, next),
         next \in {"probe", "lock", "insert", "undo"} => id[s] # 0
  PROVE  /\ op' \in [Sessions -> {"none", "create", "delete", "repair", "edit"}]
         /\ at' \in [Sessions -> Steps]
         /\ who' \in [Sessions -> Sellers \cup {Nil}]
         /\ port' \in [Sessions -> Ports \cup {Nil}]
         /\ id' \in [Sessions -> 0..MaxIds]
         /\ \A t \in Sessions :
              /\ IF at'[t] = "rest" THEN id'[t] = 0 ELSE port'[t] \in Ports
              /\ at'[t] \in {"probe", "lock", "insert", "undo"} => id'[t] # 0
BY DEF TypeOK, Go

LEMMA BeginType ==
  ASSUME TypeOK, NEW s \in Sessions, NEW what \in {"create", "delete", "repair", "edit"},
         NEW u \in Sellers \cup {Nil}, NEW p \in Ports, NEW i \in 0..MaxIds, NEW first \in Steps,
         Begin(s, what, u, p, i, first), first \in {"add", "drop", "write"}
  PROVE  TypeOK'
BY DEF TypeOK, Begin, rowVars, panelVars, Ids

LEMMA InsertType ==
  ASSUME TypeOK, NEW s \in Sessions, at[s] # "rest", Insert(s)
  PROVE  /\ row' \in [Ports -> {"none", "live", "deleted"}]
         /\ seller' \in [Ports -> Sellers \cup {Nil}]
         /\ link' \in [Ports -> 0..MaxIds]
BY DEF TypeOK, Insert

LEMMA FaultType ==
  ASSUME TypeOK, Fault
  PROVE  faults' \in 0..MaxFaults
BY ConstantTypes DEF TypeOK, Fault

LEMMA TypePreserved == TypeOK /\ [Next]_vars => TypeOK'
<1> SUFFICES ASSUME TypeOK, [Next]_vars PROVE TypeOK'
  OBVIOUS
<1> USE ConstantTypes
<1>1. ASSUME NEW s \in Sessions, NEW u \in Sellers, NEW p \in Ports, Create(s, u, p) PROVE TypeOK'
  BY <1>1, BeginType DEF Create, Steps
<1>2. ASSUME NEW s \in Sessions, NEW p \in Ports, Repair(s, p) PROVE TypeOK'
  <2>1. seller[p] \in Sellers \cup {Nil}
    BY DEF TypeOK
  <2>2. QED
    BY <1>2, <2>1, BeginType DEF Repair, Steps
<1>3. ASSUME NEW s \in Sessions, NEW p \in Ports, Delete(s, p) PROVE TypeOK'
  BY <1>3, BeginType DEF Delete, Steps, TypeOK
<1>4. ASSUME NEW s \in Sessions, NEW p \in Ports, Load(s, p) PROVE TypeOK'
  <2>1. seller[p] \in Sellers \cup {Nil}
    BY DEF TypeOK
  <2>2. QED
    BY <1>4, <2>1, BeginType DEF Load, Steps
<1>5. ASSUME NEW s \in Sessions, AddInbound(s) PROVE TypeOK'
  <2>1. inbounds' \subseteq Ids /\ fresh' \in 1..(MaxIds + 1) /\ fresh \in Ids
    BY <1>5 DEF AddInbound, AfterInbound, TypeOK, Ids
  <2>2. CASE id' = [id EXCEPT ![s] = fresh]
    /\ at' = [at EXCEPT ![s] = IF op[s] = "repair" THEN "undo" ELSE "probe"]
    /\ UNCHANGED <<op, who, port, faults, stray>>
    BY <1>5, <2>1, <2>2 DEF AddInbound, AfterInbound, TypeOK, Ids, Steps, rowVars
  <2>3. CASE Fault /\ End(s) /\ stray' = stray \cup {fresh}
    BY <1>5, <2>1, <2>3, EndType DEF AddInbound, AfterInbound, TypeOK, Fault, rowVars
  <2>4. QED
    BY <1>5, <2>2, <2>3 DEF AddInbound, AfterInbound
<1>6. ASSUME NEW s \in Sessions, AddRefused(s) PROVE TypeOK'
  BY <1>6, EndType DEF AddRefused, TypeOK, rowVars, panelVars
<1>7. ASSUME NEW s \in Sessions, AddProbe(s) PROVE TypeOK'
  BY <1>7, GoType DEF AddProbe, TypeOK, rowVars, Steps
<1>8. ASSUME NEW s \in Sessions, ProbeFails(s) PROVE TypeOK'
  <2>1. faults' \in 0..MaxFaults /\ probed' \subseteq Ids
    BY <1>8 DEF ProbeFails, TypeOK, Fault
  <2>2. QED
    BY <1>8, <2>1, GoType DEF ProbeFails, TypeOK, rowVars, Steps
<1>9. ASSUME NEW s \in Sessions, Recheck(s) PROVE TypeOK'
  BY <1>9, GoType DEF Recheck, TypeOK, rowVars, panelVars, Steps
<1>10. ASSUME NEW s \in Sessions, Save(s) PROVE TypeOK'
  <2>1. CASE Insert(s) /\ End(s)
    BY <1>10, <2>1, InsertType, EndType DEF Save, TypeOK, panelVars
  <2>2. CASE Go(s, "undo") /\ UNCHANGED rowVars
    BY <1>10, <2>2, GoType DEF Save, TypeOK, panelVars, rowVars, Steps
  <2>3. QED
    BY <1>10, <2>1, <2>2 DEF Save
<1>11. ASSUME NEW s \in Sessions, SaveFails(s) PROVE TypeOK'
  <2>1. faults' \in 0..MaxFaults /\ at[s] # "rest" /\ port[s] \in Ports
    BY <1>11 DEF SaveFails, TypeOK, Fault
  <2>2. CASE UNCHANGED <<rowVars, doubt>>
    BY <1>11, <2>1, <2>2, GoType DEF SaveFails, TypeOK, panelVars, rowVars, Steps
  <2>3. CASE Insert(s) /\ doubt' = doubt \cup {port[s]}
    BY <1>11, <2>1, <2>3, GoType, InsertType DEF SaveFails, TypeOK, panelVars, Steps
  <2>4. QED
    BY <1>11, <2>2, <2>3 DEF SaveFails
<1>12. ASSUME NEW s \in Sessions, at[s] \in {"undo", "drop"},
              \/ inbounds' = inbounds \ {id[s]} /\ UNCHANGED <<faults, stray>>
              \/ Fault /\ stray' = stray \cup {id[s]} /\ UNCHANGED inbounds
       PROVE  inbounds' \subseteq Ids /\ faults' \in 0..MaxFaults /\ stray' \subseteq 0..MaxIds
  <2>1. id[s] \in 0..MaxIds /\ inbounds \subseteq Ids /\ stray \subseteq 0..MaxIds
    BY DEF TypeOK
  <2>2. faults' \in 0..MaxFaults
    BY <1>12, FaultType DEF TypeOK
  <2>3. QED
    BY <1>12, <2>1, <2>2
<1>13. ASSUME NEW s \in Sessions, Undo(s) PROVE TypeOK'
  BY <1>12, <1>13, EndType DEF Undo, TypeOK, rowVars
<1>14. ASSUME NEW s \in Sessions, Drop(s) PROVE TypeOK'
  BY <1>12, <1>14, GoType DEF Drop, TypeOK, rowVars, Steps
<1>15. ASSUME NEW s \in Sessions, Erase(s) PROVE TypeOK'
  BY <1>15, EndType DEF Erase, TypeOK, panelVars
<1>16. ASSUME NEW s \in Sessions, Write(s) PROVE TypeOK'
  <2>1. port[s] \in Ports
    BY <1>16 DEF Write, TypeOK
  <2>2. row' \in [Ports -> {"none", "live", "deleted"}] /\ revived' \subseteq Ports
    BY <1>16, <2>1 DEF Write, TypeOK
  <2>3. QED
    BY <1>16, <2>2, EndType DEF Write, TypeOK, panelVars
<1>17. ASSUME NEW s \in Sessions, Die(s) PROVE TypeOK'
  <2>1. faults' \in 0..MaxFaults /\ at[s] # "rest"
    BY <1>17, FaultType DEF Die
  <2>2. port[s] \in Ports /\ id[s] \in 0..MaxIds
    BY <2>1 DEF TypeOK
  <2>3. stray' \subseteq 0..MaxIds /\ doubt' \subseteq Ports
    BY <1>17, <2>2 DEF Die, TypeOK
  <2>4. QED
    BY <1>17, <2>1, <2>3, EndType DEF Die, TypeOK, rowVars, panelVars
<1>18. ASSUME NEW i \in Ids, Remove(i) PROVE TypeOK'
  <2>1. faults' \in 0..MaxFaults
    BY <1>18, FaultType DEF Remove
  <2>2. ASSUME NEW t \in Sessions, id[t] = i PROVE port[t] \in Ports
    BY <2>2 DEF TypeOK, Ids
  <2>3. doubt' \subseteq Ports
    BY <1>18, <2>2 DEF Remove, TypeOK
  <2>4. QED
    BY <1>18, <2>1, <2>3 DEF Remove, TypeOK, rowVars, sessionVars
<1>19. CASE UNCHANGED vars
  BY <1>19 DEF vars, TypeOK, rowVars, panelVars, sessionVars
<1>20. QED
  BY <1>1, <1>2, <1>3, <1>5, <1>6, <1>7, <1>8, <1>9, <1>10, <1>11, <1>13, <1>14, <1>15,
     <1>17, <1>18, <1>19, <1>4, <1>16 DEF Next

\* TypeOK holds in every state: no request is at a step that needs an inbound
\* without having one in hand.
THEOREM TypeCorrect == Spec => []TypeOK
BY TypeInit, TypePreserved, PTL DEF Spec

-----------------------------------------------------------------------------
(* Who holds an inbound.                                                   *)

Shape ==
  /\ \A p \in Ports : IF row[p] = "none" THEN link[p] = 0 ELSE link[p] # 0 /\ link[p] < fresh
  /\ \A s \in Sessions :
       /\ id[s] < fresh
       /\ op[s] = "delete" <=> at[s] \in {"drop", "erase"}
       /\ op[s] = "delete" => row[port[s]] # "none" /\ id[s] = link[port[s]]
       /\ at[s] = "add" => op[s] \in {"create", "repair"} /\ id[s] = 0
       /\ at[s] \in {"probe", "lock", "insert"} => op[s] = "create"
       /\ at[s] = "write" => op[s] = "edit" /\ id[s] = 0 /\ row[port[s]] # "none"

Ownership ==
  /\ \A p, q \in Ports : link[p] = link[q] /\ link[p] # 0 => p = q
  /\ \A s \in Sessions, p \in Ports :
       op[s] # "delete" /\ id[s] # 0 /\ link[p] = id[s] => at[s] = "undo" /\ p \in doubt
  /\ \A s, t \in Sessions :
       op[s] # "delete" /\ op[t] # "delete" /\ id[s] # 0 /\ id[s] = id[t] => s = t

Holders == TypeOK /\ Shape /\ Ownership

LEMMA HoldersInit == Init => Holders
BY TypeInit DEF Init, Holders, Shape, Ownership

\* A session that ends holds nothing any more.
LEMMA EndHolders ==
  ASSUME Holders, NEW s \in Sessions, End(s), UNCHANGED <<row, link, fresh>>, doubt \subseteq doubt'
  PROVE  Shape' /\ Ownership'
<1>1. fresh \in Nat /\ fresh > 0
  BY ConstantTypes DEF Holders, TypeOK
<1>2. Shape'
  BY <1>1, EndMoves DEF Holders, Shape
<1>3. Ownership'
  BY EndMoves DEF Holders, Ownership
<1>4. QED
  BY <1>2, <1>3

\* A creation or a repair that goes on, before it has an inbound to undo.
LEMMA GoHolders ==
  ASSUME Holders, NEW s \in Sessions, NEW next \in {"lock", "insert", "undo"},
         at[s] \in {"probe", "lock", "insert"}, Go(s, next),
         UNCHANGED <<row, link, fresh>>, doubt \subseteq doubt'
  PROVE  Shape' /\ Ownership'
<1>1. Shape'
  BY GoMoves DEF Holders, Shape
<1>2. Ownership'
  BY GoMoves DEF Holders, Ownership
<1>3. QED
  BY <1>1, <1>2

LEMMA BeginHolders ==
  ASSUME Holders, NEW s \in Sessions, NEW what, NEW u, NEW p, NEW first,
         Begin(s, what, u, p, 0, first),
         \/ what \in {"create", "repair"} /\ first = "add"
         \/ what = "edit" /\ first = "write" /\ row[p] # "none"
  PROVE  Shape' /\ Ownership'
<1>1. fresh \in Nat /\ fresh > 0
  BY ConstantTypes DEF Holders, TypeOK
<1>2. UNCHANGED <<row, link, fresh, doubt>>
  BY DEF Begin, rowVars, panelVars
<1>3. Shape'
  BY <1>1, <1>2, BeginMoves DEF Holders, Shape
<1>4. Ownership'
  BY <1>2, BeginMoves DEF Holders, Ownership
<1>5. QED
  BY <1>3, <1>4

LEMMA HoldersPreserved == Holders /\ [Next]_vars => Holders'
<1> SUFFICES ASSUME Holders, [Next]_vars PROVE Shape' /\ Ownership'
  BY TypePreserved DEF Holders
<1>0. TypeOK /\ fresh \in Nat /\ fresh > 0
  BY ConstantTypes DEF Holders, TypeOK
<1>1. ASSUME NEW s \in Sessions, NEW u \in Sellers, NEW p \in Ports, Create(s, u, p)
      PROVE  Shape' /\ Ownership'
  BY <1>1, BeginHolders DEF Create
<1>2. ASSUME NEW s \in Sessions, NEW p \in Ports, Repair(s, p) PROVE Shape' /\ Ownership'
  BY <1>2, BeginHolders DEF Repair
<1>3. ASSUME NEW s \in Sessions, NEW p \in Ports, Delete(s, p) PROVE Shape' /\ Ownership'
  <2>1. /\ at'[s] = "drop" /\ op'[s] = "delete" /\ port'[s] = p /\ id'[s] = link[p]
        /\ row[p] = "live"
        /\ \A t \in Sessions \ {s} : /\ at'[t] = at[t] /\ op'[t] = op[t]
                                      /\ port'[t] = port[t] /\ id'[t] = id[t]
        /\ UNCHANGED <<row, link, fresh, doubt>>
    BY <1>0, <1>3, BeginMoves DEF Delete, rowVars, panelVars
  <2>2. Shape'
    BY <2>1 DEF Holders, Shape
  <2>3. Ownership'
    BY <2>1 DEF Holders, Ownership
  <2>4. QED
    BY <2>2, <2>3
<1>4. ASSUME NEW s \in Sessions, NEW p \in Ports, Load(s, p) PROVE Shape' /\ Ownership'
  BY <1>4, BeginHolders DEF Load
<1>5. ASSUME NEW s \in Sessions, AddInbound(s) PROVE Shape' /\ Ownership'
  <2>1. UNCHANGED <<row, link, doubt>> /\ fresh' = fresh + 1
    BY <1>5 DEF AddInbound, AfterInbound, rowVars
  <2>2. CASE id' = [id EXCEPT ![s] = fresh]
    /\ at' = [at EXCEPT ![s] = IF op[s] = "repair" THEN "undo" ELSE "probe"]
    /\ UNCHANGED <<op, who, port, faults, stray>>
    <3>1. /\ id'[s] = fresh /\ at'[s] \in {"undo", "probe"}
          /\ at'[s] = "probe" => op[s] # "repair"
          /\ \A t \in Sessions \ {s} : id'[t] = id[t] /\ at'[t] = at[t]
      BY <1>0, <2>2 DEF TypeOK
    <3>2. op[s] \in {"create", "repair"}
      BY <1>5 DEF AddInbound, AfterInbound, Holders, Shape
    <3>3. Shape'
      BY <1>0, <2>1, <2>2, <3>1, <3>2 DEF Holders, Shape, TypeOK
    <3>4. Ownership'
      BY <1>0, <2>1, <2>2, <3>1, <3>2 DEF Holders, Shape, Ownership, TypeOK
    <3>5. QED
      BY <3>3, <3>4
  <2>3. CASE Fault /\ End(s) /\ stray' = stray \cup {fresh}
    <3>1. Shape'
      BY <1>0, <2>1, <2>3, EndMoves DEF Holders, Shape, TypeOK
    <3>2. Ownership'
      BY <2>1, <2>3, EndMoves DEF Holders, Ownership
    <3>3. QED
      BY <3>1, <3>2
  <2>4. QED
    BY <1>5, <2>2, <2>3 DEF AddInbound, AfterInbound
<1>6. ASSUME NEW s \in Sessions, AddRefused(s) \/ Undo(s) \/ Die(s) PROVE Shape' /\ Ownership'
  BY <1>6, EndHolders DEF AddRefused, Undo, Die, rowVars, panelVars
<1>7. ASSUME NEW s \in Sessions, AddProbe(s) \/ ProbeFails(s) \/ Recheck(s)
      PROVE  Shape' /\ Ownership'
  BY <1>7, GoHolders DEF AddProbe, ProbeFails, Recheck, rowVars, panelVars
<1>8. ASSUME NEW s \in Sessions, at[s] = "insert", row[port[s]] = "none", Insert(s),
             UNCHANGED fresh,
             \/ End(s) /\ UNCHANGED doubt
             \/ Go(s, "undo") /\ doubt' = doubt \cup {port[s]}
      PROVE  Shape' /\ Ownership'
  <2>1. op[s] = "create" /\ id[s] # 0 /\ id[s] < fresh
    BY <1>0, <1>8 DEF Holders, Shape, TypeOK
  <2>2. port[s] \in Ports /\ \A t \in Sessions : op[t] = "delete" => port[t] # port[s]
    BY <1>0, <1>8, InsertMoves DEF Holders, Shape
  <2>3. \A p \in Ports : link[p] # id[s]
    BY <1>8, <2>1 DEF Holders, Ownership
  <2>4. /\ row'[port[s]] = "live" /\ link'[port[s]] = id[s]
        /\ \A p \in Ports \ {port[s]} : row'[p] = row[p] /\ link'[p] = link[p]
    BY <1>0, <1>8, InsertMoves
  <2>5. \A p \in Ports : IF row'[p] = "none" THEN link'[p] = 0 ELSE link'[p] # 0 /\ link'[p] < fresh'
    BY <1>8, <2>1, <2>4 DEF Holders, Shape
  <2>6. \A p, q \in Ports : link'[p] = link'[q] /\ link'[p] # 0 => p = q
    BY <2>3, <2>4 DEF Holders, Ownership
  <2>7. \A t \in Sessions : op[t] = "delete" \/ at[t] = "write" => port[t] \in Ports \ {port[s]}
    BY <1>0, <1>8, <2>2 DEF Holders, Shape, TypeOK
  <2>8. \A t \in Sessions \ {s} : op[t] # "delete" /\ id[t] # 0 => id[t] # id[s]
    BY <2>1 DEF Holders, Ownership
  <2>9. CASE End(s) /\ UNCHANGED doubt
    <3>1. /\ at'[s] = "rest" /\ op'[s] = "none" /\ id'[s] = 0
          /\ \A t \in Sessions \ {s} :
               at'[t] = at[t] /\ op'[t] = op[t] /\ port'[t] = port[t] /\ id'[t] = id[t]
      BY <1>0, <2>9, EndMoves
    <3>2. Shape'
      BY <1>0, <1>8, <2>4, <2>5, <2>7, <3>1 DEF Holders, Shape
    <3>3. Ownership'
      BY <2>4, <2>6, <2>8, <2>9, <3>1 DEF Holders, Ownership
    <3>4. QED
      BY <3>2, <3>3
  <2>10. CASE Go(s, "undo") /\ doubt' = doubt \cup {port[s]}
    <3>1. /\ at'[s] = "undo" /\ UNCHANGED <<op, port, id>>
          /\ \A t \in Sessions \ {s} : at'[t] = at[t]
      BY <1>0, <2>10, GoMoves
    <3>2. Shape'
      BY <1>8, <2>1, <2>4, <2>5, <2>7, <3>1 DEF Holders, Shape
    <3>3. Ownership'
      BY <2>1, <2>4, <2>6, <2>8, <2>10, <3>1 DEF Holders, Ownership
    <3>4. QED
      BY <3>2, <3>3
  <2>11. QED
    BY <1>8, <2>9, <2>10
<1>9. ASSUME NEW s \in Sessions, Save(s) PROVE Shape' /\ Ownership'
  <2>1. at[s] = "insert" /\ UNCHANGED <<fresh, doubt>>
    BY <1>9 DEF Save, panelVars
  <2>2. CASE row[port[s]] = "none"
    BY <1>8, <1>9, <2>1, <2>2 DEF Save
  <2>3. CASE row[port[s]] # "none"
    <3>1. Go(s, "undo") /\ UNCHANGED <<row, link>>
      BY <1>9, <2>3 DEF Save, rowVars
    <3>2. QED
      BY <2>1, <3>1, GoHolders
  <2>4. QED
    BY <2>2, <2>3
<1>10. ASSUME NEW s \in Sessions, SaveFails(s) PROVE Shape' /\ Ownership'
  BY <1>8, <1>10, GoHolders DEF SaveFails, panelVars, rowVars
<1>11. ASSUME NEW s \in Sessions, Drop(s) PROVE Shape' /\ Ownership'
  <2>1. UNCHANGED <<row, link, fresh, doubt>> /\ at[s] = "drop" /\ Go(s, "erase")
    BY <1>11 DEF Drop, rowVars
  <2>2. Shape'
    BY <1>0, <2>1, GoMoves DEF Holders, Shape
  <2>3. Ownership'
    BY <1>0, <2>1, GoMoves DEF Holders, Shape, Ownership
  <2>4. QED
    BY <2>2, <2>3
<1>12. ASSUME NEW s \in Sessions, Erase(s) \/ Write(s) PROVE Shape' /\ Ownership'
  <2>1. row[port[s]] # "none" /\ port[s] \in Ports
    BY <1>0, <1>12 DEF Erase, Write, Holders, Shape, TypeOK
  <2>2. UNCHANGED <<link, fresh, doubt>> /\ \A p \in Ports : row'[p] = "none" <=> row[p] = "none"
    BY <1>0, <1>12, <2>1 DEF Erase, Write, panelVars, TypeOK
  <2>3. Shape'
    <3>1. \A p \in Ports : IF row'[p] = "none" THEN link'[p] = 0 ELSE link'[p] # 0 /\ link'[p] < fresh'
      BY <2>2 DEF Holders, Shape
    <3>2. \A t \in Sessions : op[t] = "delete" \/ at[t] = "write" => port[t] \in Ports
      BY <1>0 DEF Holders, Shape, TypeOK
    <3>3. QED
      BY <1>0, <1>12, <2>2, <3>1, <3>2, EndMoves DEF Erase, Write, Holders, Shape
  <2>4. Ownership'
    BY <1>0, <1>12, <2>2, EndMoves DEF Erase, Write, Holders, Ownership
  <2>5. QED
    BY <2>3, <2>4
<1>13. ASSUME NEW i \in Ids, Remove(i) PROVE Shape' /\ Ownership'
  <2>1. UNCHANGED <<row, link, fresh, op, at, id, port>> /\ doubt \subseteq doubt'
    BY <1>13 DEF Remove, rowVars, sessionVars
  <2>2. QED
    BY <2>1 DEF Holders, Shape, Ownership
<1>14. CASE UNCHANGED vars
  BY <1>14 DEF vars, rowVars, panelVars, sessionVars, Holders, Shape, Ownership
<1>15. QED
  BY <1>1, <1>2, <1>3, <1>5, <1>6, <1>7, <1>9, <1>10, <1>11, <1>12, <1>13, <1>14, <1>4 DEF Next

LEMMA HoldersHold == Spec => []Holders
BY HoldersInit, HoldersPreserved, PTL DEF Spec

-----------------------------------------------------------------------------
(* No inbound is forgotten.                                                *)

\* Before a deletion erases the row, the inbound is gone or known to be left.
Dropped == \A s \in Sessions : at[s] = "erase" => id[s] \notin inbounds \/ id[s] \in stray

OrphanInv == Holders /\ NoOrphan /\ Dropped

\* A session that ends leaves its inbound to a row, gone, or known to be left.
LEMMA EndOrphan ==
  ASSUME OrphanInv, NEW s \in Sessions, End(s), inbounds' \subseteq inbounds, stray \subseteq stray',
         \A p \in Ports : row[p] = "live" => row'[p] = "live" /\ link'[p] = link[p],
         \/ id[s] \notin inbounds' \/ id[s] \in stray'
         \/ \E p \in Ports : row'[p] = "live" /\ link'[p] = id[s]
  PROVE  NoOrphan' /\ Dropped'
<1>1. /\ at'[s] = "rest" /\ id'[s] = 0
      /\ \A t \in Sessions \ {s} : at'[t] = at[t] /\ id'[t] = id[t]
  BY EndMoves DEF OrphanInv, Holders
<1>2. NoOrphan'
  <2>1. SUFFICES ASSUME NEW i \in inbounds'
                 PROVE  \/ \E p \in Ports : row'[p] = "live" /\ link'[p] = i
                        \/ \E t \in Sessions : id'[t] = i
                        \/ i \in stray'
    BY DEF NoOrphan
  <2>2. \/ \E p \in Ports : row[p] = "live" /\ link[p] = i
        \/ \E t \in Sessions : id[t] = i
        \/ i \in stray
    BY DEF OrphanInv, NoOrphan
  <2>3. QED
    BY <1>1, <2>2
<1>3. Dropped'
  BY <1>1 DEF OrphanInv, Dropped
<1>4. QED
  BY <1>2, <1>3

LEMMA OrphanInit == Init => OrphanInv
BY HoldersInit DEF Init, OrphanInv, NoOrphan, Dropped

LEMMA OrphanPreserved == OrphanInv /\ [Next]_vars => OrphanInv'
<1> SUFFICES ASSUME OrphanInv, [Next]_vars PROVE NoOrphan' /\ Dropped'
  BY HoldersPreserved DEF OrphanInv
<1>0. TypeOK /\ Holders /\ \A s \in Sessions : id[s] < fresh
  BY DEF OrphanInv, Holders, Shape
<1>1. ASSUME NEW s \in Sessions, NEW what, NEW u, NEW p, NEW i, NEW first,
             Begin(s, what, u, p, i, first), first \in {"add", "drop", "write"}
      PROVE  NoOrphan' /\ Dropped'
  <2>1. /\ id[s] = 0 /\ at'[s] = first /\ id'[s] = i
        /\ \A t \in Sessions \ {s} : at'[t] = at[t] /\ id'[t] = id[t]
        /\ UNCHANGED <<row, link, inbounds, stray>>
    BY <1>0, <1>1, BeginMoves DEF TypeOK, rowVars, panelVars
  <2>2. 0 \notin inbounds
    BY <1>0, ConstantTypes DEF TypeOK, Ids
  <2>3. QED
    BY <1>1, <2>1, <2>2 DEF OrphanInv, NoOrphan, Dropped
<1>2. ASSUME NEW s \in Sessions,
             (\E u \in Sellers, p \in Ports : Create(s, u, p))
             \/ (\E p \in Ports : Repair(s, p) \/ Delete(s, p) \/ Load(s, p))
      PROVE  NoOrphan' /\ Dropped'
  BY <1>1, <1>2 DEF Create, Repair, Delete, Load
<1>3. ASSUME NEW s \in Sessions, AddInbound(s) PROVE NoOrphan' /\ Dropped'
  <2>1. /\ UNCHANGED <<row, link>> /\ inbounds' = inbounds \cup {fresh} /\ at[s] = "add"
        /\ id[s] = 0 /\ 0 \notin inbounds
    BY <1>0, <1>3, ConstantTypes DEF AddInbound, AfterInbound, rowVars, Holders, Shape, TypeOK, Ids
  <2>2. CASE /\ id' = [id EXCEPT ![s] = fresh]
             /\ at' = [at EXCEPT ![s] = IF op[s] = "repair" THEN "undo" ELSE "probe"]
             /\ UNCHANGED <<op, who, port, faults, stray>>
    <3>1. /\ id'[s] = fresh /\ at'[s] # "erase"
          /\ \A t \in Sessions \ {s} : id'[t] = id[t] /\ at'[t] = at[t]
      BY <1>0, <2>2 DEF TypeOK
    <3>2. NoOrphan'
      BY <2>1, <2>2, <3>1 DEF OrphanInv, NoOrphan
    <3>3. Dropped'
      <4>1. \A t \in Sessions : id[t] # fresh
        BY <1>0, ConstantTypes DEF TypeOK
      <4>2. QED
        BY <2>1, <2>2, <3>1, <4>1 DEF OrphanInv, Dropped
    <3>4. QED
      BY <3>2, <3>3
  <2>3. CASE Fault /\ End(s) /\ stray' = stray \cup {fresh}
    <3>1. /\ id'[s] = 0 /\ at'[s] = "rest"
          /\ \A t \in Sessions \ {s} : id'[t] = id[t] /\ at'[t] = at[t]
      BY <1>0, <2>3, EndMoves
    <3>2. NoOrphan'
      BY <2>1, <2>3, <3>1 DEF OrphanInv, NoOrphan
    <3>3. Dropped'
      BY <2>1, <2>3, <3>1 DEF OrphanInv, Dropped
    <3>4. QED
      BY <3>2, <3>3
  <2>4. QED
    BY <1>3, <2>2, <2>3 DEF AddInbound, AfterInbound
<1>4. ASSUME NEW s \in Sessions, AddRefused(s) PROVE NoOrphan' /\ Dropped'
  <2>1. id[s] = 0 /\ 0 \notin inbounds /\ End(s) /\ UNCHANGED <<row, link, inbounds, stray>>
    BY <1>0, <1>4, ConstantTypes DEF AddRefused, rowVars, panelVars, Holders, Shape, TypeOK, Ids
  <2>2. QED
    BY <2>1, EndOrphan
<1>5. ASSUME NEW s \in Sessions, NEW next, next # "erase", Go(s, next), UNCHANGED <<inbounds, stray>>,
             \A p \in Ports : row[p] = "live" => row'[p] = "live" /\ link'[p] = link[p]
      PROVE  NoOrphan' /\ Dropped'
  BY <1>0, <1>5, GoMoves DEF OrphanInv, NoOrphan, Dropped
<1>6. ASSUME NEW s \in Sessions, AddProbe(s) \/ ProbeFails(s) \/ Recheck(s)
      PROVE  NoOrphan' /\ Dropped'
  BY <1>5, <1>6 DEF AddProbe, ProbeFails, Recheck, rowVars, panelVars
<1>7. ASSUME NEW s \in Sessions, at[s] = "insert", row[port[s]] = "none", Insert(s)
      PROVE  /\ \A p \in Ports : row[p] = "live" => row'[p] = "live" /\ link'[p] = link[p]
             /\ \E p \in Ports : row'[p] = "live" /\ link'[p] = id[s]
  BY <1>0, <1>7, InsertMoves
<1>8. ASSUME NEW s \in Sessions, Save(s) PROVE NoOrphan' /\ Dropped'
  <2>1. at[s] = "insert" /\ UNCHANGED <<inbounds, stray>>
    BY <1>8 DEF Save, panelVars
  <2>2. CASE row[port[s]] = "none"
    BY <1>7, <1>8, <2>1, <2>2, EndOrphan DEF Save
  <2>3. CASE row[port[s]] # "none"
    BY <1>5, <1>8, <2>1, <2>3 DEF Save, rowVars
  <2>4. QED
    BY <2>2, <2>3
<1>9. ASSUME NEW s \in Sessions, SaveFails(s) PROVE NoOrphan' /\ Dropped'
  <2>1. /\ at[s] = "insert" /\ UNCHANGED <<inbounds, stray>> /\ Go(s, "undo")
        /\ (UNCHANGED <<row, link>>) \/ (row[port[s]] = "none" /\ Insert(s))
    BY <1>9 DEF SaveFails, panelVars, rowVars
  <2>2. \A p \in Ports : row[p] = "live" => row'[p] = "live" /\ link'[p] = link[p]
    BY <1>7, <2>1
  <2>3. QED
    BY <1>5, <2>1, <2>2
<1>10. ASSUME NEW s \in Sessions,
              \/ inbounds' = inbounds \ {id[s]} /\ UNCHANGED <<faults, stray>>
              \/ Fault /\ stray' = stray \cup {id[s]} /\ UNCHANGED inbounds
       PROVE  /\ inbounds' \subseteq inbounds /\ stray \subseteq stray'
              /\ id[s] \notin inbounds' \/ id[s] \in stray'
  BY <1>10
<1>11. ASSUME NEW s \in Sessions, Undo(s) PROVE NoOrphan' /\ Dropped'
  BY <1>10, <1>11, EndOrphan DEF Undo, rowVars
<1>12. ASSUME NEW s \in Sessions, Drop(s) PROVE NoOrphan' /\ Dropped'
  <2>1. /\ inbounds' \subseteq inbounds /\ stray \subseteq stray'
        /\ id[s] \notin inbounds' \/ id[s] \in stray'
        /\ UNCHANGED <<row, link, id>> /\ \A t \in Sessions \ {s} : at'[t] = at[t]
    BY <1>0, <1>10, <1>12, GoMoves DEF Drop, rowVars
  <2>2. QED
    BY <2>1 DEF OrphanInv, NoOrphan, Dropped
<1>13. ASSUME NEW s \in Sessions, Erase(s) PROVE NoOrphan' /\ Dropped'
  <2>1. /\ at[s] = "erase" /\ port[s] \in Ports /\ id[s] = link[port[s]]
        /\ \A p \in Ports \ {port[s]} : row'[p] = row[p]
        /\ UNCHANGED <<link, inbounds, stray>>
    BY <1>0, <1>13 DEF Erase, panelVars, TypeOK, Holders, Shape
  <2>2. /\ id'[s] = 0 /\ at'[s] = "rest"
        /\ \A t \in Sessions \ {s} : id'[t] = id[t] /\ at'[t] = at[t]
    BY <1>0, <1>13, EndMoves DEF Erase
  <2>3. id[s] \in inbounds => id[s] \in stray
    BY <2>1 DEF OrphanInv, Dropped
  <2>4. NoOrphan'
    BY <2>1, <2>2, <2>3 DEF OrphanInv, NoOrphan
  <2>5. Dropped'
    BY <2>1, <2>2 DEF OrphanInv, Dropped
  <2>6. QED
    BY <2>4, <2>5
<1>14. ASSUME NEW s \in Sessions, Write(s) PROVE NoOrphan' /\ Dropped'
  <2>1. /\ id[s] = 0 /\ 0 \notin inbounds /\ End(s) /\ UNCHANGED <<link, inbounds, stray>>
        /\ \A p \in Ports : row[p] = "live" => row'[p] = "live"
    BY <1>0, <1>14, ConstantTypes DEF Write, panelVars, Holders, Shape, TypeOK, Ids
  <2>2. QED
    BY <2>1, EndOrphan
<1>15. ASSUME NEW s \in Sessions, Die(s) PROVE NoOrphan' /\ Dropped'
  BY <1>15, EndOrphan DEF Die, rowVars, panelVars
<1>16. ASSUME NEW i \in Ids, Remove(i) PROVE NoOrphan' /\ Dropped'
  <2>1. inbounds' \subseteq inbounds /\ UNCHANGED <<row, link, at, id, stray>>
    BY <1>16 DEF Remove, rowVars, sessionVars
  <2>2. QED
    BY <2>1 DEF OrphanInv, NoOrphan, Dropped
<1>17. CASE UNCHANGED vars
  BY <1>17 DEF vars, rowVars, panelVars, sessionVars, OrphanInv, NoOrphan, Dropped
<1>18. QED
  BY <1>2, <1>3, <1>4, <1>6, <1>8, <1>9, <1>11, <1>12, <1>13, <1>15, <1>16, <1>17,
     <1>14 DEF Next

\* Every inbound on the panel belongs to a live listing or to a request at work,
\* or a failure that is on record left it: whatever the requests overlap with.
THEOREM NothingForgotten == Spec => []NoOrphan
<1>1. OrphanInv => NoOrphan
  BY DEF OrphanInv
<1>2. QED
  BY OrphanInit, OrphanPreserved, <1>1, PTL DEF Spec

-----------------------------------------------------------------------------
(* A live listing is served.                                               *)

\* What a request has in hand when it comes to the lock is fit to be a listing's.
Fitted ==
  \A s \in Sessions : at[s] \in {"lock", "insert"} => id[s] \in inbounds \cap probed \/ port[s] \in doubt

ServedInv == Holders /\ Served /\ Fitted

\* A step that takes no inbound and no probe client away and touches no row: a
\* request other than a deletion moves on, or one that is put in doubt ends.
LEMMA ServedByStillness ==
  ASSUME ServedInv, NEW s \in Sessions,
         inbounds \subseteq inbounds', probed \subseteq probed', doubt \subseteq doubt',
         UNCHANGED <<row, link, revived>>,
         \A t \in Sessions \ {s} :
           at'[t] = at[t] /\ op'[t] = op[t] /\ port'[t] = port[t] /\ id'[t] = id[t],
         op[s] = "delete" => \/ op'[s] = "delete" /\ port'[s] = port[s]
                             \/ port[s] \in doubt',
         at'[s] \in {"lock", "insert"} =>
           id'[s] \in inbounds' \cap probed' \/ port'[s] \in doubt'
  PROVE  Served' /\ Fitted'
<1>1. Served'
  BY DEF ServedInv, Served
<1>2. Fitted'
  BY DEF ServedInv, Fitted
<1>3. QED
  BY <1>1, <1>2

LEMMA ServedInit == Init => ServedInv
BY HoldersInit DEF Init, ServedInv, Served, Fitted

LEMMA ServedPreserved == ServedInv /\ [Next]_vars => ServedInv'
<1> SUFFICES ASSUME ServedInv, [Next]_vars PROVE Served' /\ Fitted'
  BY HoldersPreserved DEF ServedInv
<1>0. TypeOK /\ Holders /\ \A s \in Sessions : op[s] = "delete" <=> at[s] \in {"drop", "erase"}
  BY DEF ServedInv, Holders, Shape
<1>1. ASSUME NEW s \in Sessions, NEW what, NEW u, NEW p, NEW i, NEW first,
             Begin(s, what, u, p, i, first), first \in {"add", "drop", "write"}
      PROVE  Served' /\ Fitted'
  <2>1. UNCHANGED <<row, link, inbounds, probed, doubt, revived>>
    BY <1>1 DEF Begin, rowVars, panelVars
  <2>2. QED
    BY <1>0, <1>1, <2>1, BeginMoves, ServedByStillness
<1>2. ASSUME NEW s \in Sessions,
             (\E u \in Sellers, p \in Ports : Create(s, u, p))
             \/ (\E p \in Ports : Repair(s, p) \/ Delete(s, p) \/ Load(s, p))
      PROVE  Served' /\ Fitted'
  BY <1>1, <1>2 DEF Create, Repair, Delete, Load
<1>3. ASSUME NEW s \in Sessions, AddInbound(s) PROVE Served' /\ Fitted'
  <2>1. /\ UNCHANGED <<row, link, probed, doubt, revived>> /\ inbounds \subseteq inbounds'
        /\ at[s] = "add" /\ op[s] # "delete"
    BY <1>0, <1>3 DEF AddInbound, AfterInbound, rowVars
  <2>2. CASE /\ id' = [id EXCEPT ![s] = fresh]
             /\ at' = [at EXCEPT ![s] = IF op[s] = "repair" THEN "undo" ELSE "probe"]
             /\ UNCHANGED <<op, who, port, faults, stray>>
    <3>1. /\ at'[s] \notin {"lock", "insert"} /\ UNCHANGED <<op, port>>
          /\ \A t \in Sessions \ {s} : id'[t] = id[t] /\ at'[t] = at[t]
      BY <1>0, <2>2 DEF TypeOK
    <3>2. QED
      BY <2>1, <3>1, ServedByStillness
  <2>3. CASE Fault /\ End(s) /\ stray' = stray \cup {fresh}
    BY <1>0, <2>1, <2>3, EndMoves, ServedByStillness
  <2>4. QED
    BY <1>3, <2>2, <2>3 DEF AddInbound, AfterInbound
<1>4. ASSUME NEW s \in Sessions, AddRefused(s) PROVE Served' /\ Fitted'
  <2>1. UNCHANGED <<row, link, inbounds, probed, doubt, revived>> /\ End(s) /\ op[s] # "delete"
    BY <1>0, <1>4 DEF AddRefused, rowVars, panelVars
  <2>2. QED
    BY <1>0, <2>1, EndMoves, ServedByStillness
<1>5. ASSUME NEW s \in Sessions, AddProbe(s) PROVE Served' /\ Fitted'
  <2>1. /\ UNCHANGED <<row, link, inbounds, doubt, revived>> /\ Go(s, "lock") /\ op[s] # "delete"
        /\ probed \subseteq probed' /\ id[s] \in inbounds /\ id[s] \in probed'
    BY <1>0, <1>5 DEF AddProbe, rowVars
  <2>2. QED
    BY <1>0, <2>1, GoMoves, ServedByStillness
<1>6. ASSUME NEW s \in Sessions, ProbeFails(s) PROVE Served' /\ Fitted'
  <2>1. /\ UNCHANGED <<row, link, inbounds, doubt, revived>> /\ Go(s, "undo") /\ op[s] # "delete"
        /\ probed \subseteq probed'
    BY <1>0, <1>6 DEF ProbeFails, rowVars
  <2>2. QED
    BY <1>0, <2>1, GoMoves, ServedByStillness
<1>7. ASSUME NEW s \in Sessions, Recheck(s) PROVE Served' /\ Fitted'
  <2>1. /\ UNCHANGED <<row, link, inbounds, probed, doubt, revived, op, port, id>> /\ op[s] # "delete"
        /\ \A t \in Sessions \ {s} : at'[t] = at[t]
        /\ id[s] \in inbounds \cap probed \/ port[s] \in doubt
    BY <1>0, <1>7, GoMoves DEF Recheck, rowVars, panelVars, ServedInv, Fitted
  <2>2. QED
    BY <2>1, ServedByStillness
<1>8. ASSUME NEW s \in Sessions, Save(s) PROVE Served' /\ Fitted'
  <2>1. /\ at[s] = "insert" /\ op[s] # "delete" /\ UNCHANGED <<inbounds, probed, doubt, revived>>
        /\ id[s] \in inbounds \cap probed \/ port[s] \in doubt
    BY <1>0, <1>8 DEF Save, panelVars, ServedInv, Fitted
  <2>2. CASE row[port[s]] = "none"
    <3>1. Insert(s) /\ End(s)
      BY <1>8, <2>2 DEF Save
    <3>2. /\ port[s] \in Ports /\ link'[port[s]] = id[s] /\ at'[s] = "rest"
          /\ \A p \in Ports \ {port[s]} : row'[p] = row[p] /\ link'[p] = link[p]
          /\ \A t \in Sessions \ {s} :
               at'[t] = at[t] /\ op'[t] = op[t] /\ port'[t] = port[t] /\ id'[t] = id[t]
      BY <1>0, <2>1, <3>1, InsertMoves, EndMoves
    <3>3. Served'
      BY <2>1, <3>2 DEF ServedInv, Served
    <3>4. Fitted'
      BY <2>1, <3>2 DEF ServedInv, Fitted
    <3>5. QED
      BY <3>3, <3>4
  <2>3. CASE row[port[s]] # "none"
    <3>1. Go(s, "undo") /\ UNCHANGED <<row, link>>
      BY <1>8, <2>3 DEF Save, rowVars
    <3>2. QED
      BY <1>0, <2>1, <3>1, GoMoves, ServedByStillness
  <2>4. QED
    BY <2>2, <2>3
<1>9. ASSUME NEW s \in Sessions, SaveFails(s) PROVE Served' /\ Fitted'
  <2>1. /\ at[s] = "insert" /\ op[s] # "delete" /\ UNCHANGED <<inbounds, probed, revived>> /\ Go(s, "undo")
        /\ \/ UNCHANGED <<row, link, doubt>>
           \/ row[port[s]] = "none" /\ Insert(s) /\ doubt' = doubt \cup {port[s]}
    BY <1>0, <1>9 DEF SaveFails, panelVars, rowVars
  <2>2. CASE UNCHANGED <<row, link, doubt>>
    BY <1>0, <2>1, <2>2, GoMoves, ServedByStillness
  <2>3. CASE row[port[s]] = "none" /\ Insert(s) /\ doubt' = doubt \cup {port[s]}
    <3>1. /\ \A p \in Ports \ {port[s]} : row'[p] = row[p] /\ link'[p] = link[p]
          /\ at'[s] = "undo" /\ UNCHANGED <<op, port, id>>
          /\ \A t \in Sessions \ {s} : at'[t] = at[t]
      BY <1>0, <2>1, <2>3, InsertMoves, GoMoves
    <3>2. Served'
      BY <2>1, <2>3, <3>1 DEF ServedInv, Served
    <3>3. Fitted'
      BY <2>1, <2>3, <3>1 DEF ServedInv, Fitted
    <3>4. QED
      BY <3>2, <3>3
  <2>4. QED
    BY <2>1, <2>2, <2>3
<1>10. ASSUME NEW s \in Sessions, Undo(s) PROVE Served' /\ Fitted'
  <2>1. /\ at[s] = "undo" /\ op[s] # "delete" /\ id[s] # 0 /\ End(s)
        /\ UNCHANGED <<row, link, probed, doubt, revived>> /\ inbounds \ {id[s]} \subseteq inbounds'
    BY <1>0, <1>10 DEF Undo, rowVars, TypeOK
  <2>2. /\ at'[s] = "rest"
        /\ \A t \in Sessions \ {s} :
             at'[t] = at[t] /\ op'[t] = op[t] /\ port'[t] = port[t] /\ id'[t] = id[t]
    BY <1>0, <2>1, EndMoves
  <2>3. \A p \in Ports : link[p] = id[s] => p \in doubt
    BY <1>0, <2>1 DEF Holders, Ownership
  <2>4. \A t \in Sessions \ {s} : at[t] \in {"lock", "insert"} => id[t] # id[s]
    BY <1>0, <2>1 DEF Holders, Ownership
  <2>5. Served'
    BY <2>1, <2>2, <2>3 DEF ServedInv, Served
  <2>6. Fitted'
    BY <2>1, <2>2, <2>4 DEF ServedInv, Fitted
  <2>7. QED
    BY <2>5, <2>6
<1>11. ASSUME NEW s \in Sessions, Drop(s) PROVE Served' /\ Fitted'
  <2>1. /\ at[s] = "drop" /\ op[s] = "delete" /\ port[s] \in Ports
        /\ UNCHANGED <<row, link, probed, doubt, revived, op, port, id>>
        /\ inbounds \ {id[s]} \subseteq inbounds' /\ at'[s] = "erase"
        /\ \A t \in Sessions \ {s} : at'[t] = at[t]
    BY <1>0, <1>11, GoMoves DEF Drop, rowVars, TypeOK
  <2>2. id[s] = link[port[s]] /\ link[port[s]] # 0
    BY <1>0, <2>1 DEF Holders, Shape
  <2>3. \A p \in Ports : link[p] = id[s] => p = port[s]
    BY <1>0, <2>1, <2>2 DEF Holders, Ownership
  <2>4. \A t \in Sessions \ {s} : at[t] \in {"lock", "insert"} => id[t] # id[s]
    BY <1>0, <2>1, <2>2 DEF Holders, Ownership
  <2>5. Served'
    BY <2>1, <2>3 DEF ServedInv, Served
  <2>6. Fitted'
    BY <2>1, <2>4 DEF ServedInv, Fitted
  <2>7. QED
    BY <2>5, <2>6
<1>12. ASSUME NEW s \in Sessions, Erase(s) PROVE Served' /\ Fitted'
  <2>1. /\ at[s] = "erase" /\ port[s] \in Ports /\ row'[port[s]] = "deleted"
        /\ \A p \in Ports \ {port[s]} : row'[p] = row[p]
        /\ UNCHANGED <<link, inbounds, probed, doubt, revived>>
    BY <1>0, <1>12 DEF Erase, panelVars, TypeOK
  <2>2. /\ at'[s] = "rest"
        /\ \A t \in Sessions \ {s} :
             at'[t] = at[t] /\ op'[t] = op[t] /\ port'[t] = port[t] /\ id'[t] = id[t]
    BY <1>0, <1>12, EndMoves DEF Erase
  <2>3. Served'
    BY <2>1, <2>2 DEF ServedInv, Served
  <2>4. Fitted'
    BY <2>1, <2>2 DEF ServedInv, Fitted
  <2>5. QED
    BY <2>3, <2>4
<1>13. ASSUME NEW s \in Sessions, Write(s) PROVE Served' /\ Fitted'
  <2>1. /\ at[s] = "write" /\ op[s] # "delete" /\ port[s] \in Ports /\ row[port[s]] # "none"
        /\ row'[port[s]] = "live"
        /\ revived' = IF row[port[s]] = "deleted" THEN revived \cup {port[s]} ELSE revived
        /\ \A p \in Ports \ {port[s]} : row'[p] = row[p]
        /\ UNCHANGED <<link, inbounds, probed, doubt>>
    BY <1>0, <1>13 DEF Write, panelVars, TypeOK, Holders, Shape
  <2>2. /\ at'[s] = "rest" /\ op'[s] = "none"
        /\ \A t \in Sessions \ {s} :
             at'[t] = at[t] /\ op'[t] = op[t] /\ port'[t] = port[t] /\ id'[t] = id[t]
    BY <1>0, <1>13, EndMoves DEF Write
  <2>3. row[port[s]] = "live" \/ port[s] \in revived'
    BY <1>0, <2>1 DEF TypeOK
  <2>4. Served'
    BY <2>1, <2>2, <2>3 DEF ServedInv, Served
  <2>5. Fitted'
    BY <2>1, <2>2 DEF ServedInv, Fitted
  <2>6. QED
    BY <2>4, <2>5
<1>14. ASSUME NEW s \in Sessions, Die(s) PROVE Served' /\ Fitted'
  <2>1. /\ UNCHANGED <<row, link, inbounds, probed, revived>> /\ End(s)
        /\ doubt \subseteq doubt'
        /\ op[s] = "delete" => port[s] \in doubt'
    BY <1>14 DEF Die, rowVars, panelVars
  <2>2. QED
    BY <1>0, <2>1, EndMoves, ServedByStillness
<1>15. ASSUME NEW i \in Ids, Remove(i) PROVE Served' /\ Fitted'
  <2>1. /\ inbounds' = inbounds \ {i} /\ UNCHANGED <<row, link, probed, revived, op, at, port, id>>
        /\ doubt \subseteq doubt' /\ \A p \in Ports : link[p] = i => p \in doubt'
        /\ \A t \in Sessions : id[t] = i => port[t] \in doubt'
    BY <1>15 DEF Remove, rowVars, sessionVars
  <2>2. Served'
    BY <2>1 DEF ServedInv, Served
  <2>3. Fitted'
    BY <2>1 DEF ServedInv, Fitted
  <2>4. QED
    BY <2>2, <2>3
<1>16. CASE UNCHANGED vars
  BY <1>16 DEF vars, rowVars, panelVars, sessionVars, ServedInv, Served, Fitted
<1>17. QED
  BY <1>2, <1>3, <1>4, <1>5, <1>6, <1>7, <1>8, <1>9, <1>10, <1>11, <1>12, <1>14, <1>15,
     <1>16, <1>13 DEF Next

\* A live listing has its inbound on the panel and the probe client its quality gate
\* measures with, unless a failure or its deletion got in the way, or a request
\* that had loaded its row before wrote over the deletion.
THEOREM LiveIsServed == Spec => []Served
<1>1. ServedInv => Served
  BY DEF ServedInv
<1>2. QED
  BY ServedInit, ServedPreserved, <1>1, PTL DEF Spec

-----------------------------------------------------------------------------
(* The cap of a seller's listings.                                         *)

\* Between the locked count and the commit there is one request of a seller, and
\* room for its listing: as far as the count can know, which misses the listings
\* whose deletion was written over after it.
Counted(u) == Listed(u) \ revived

CountHeld == \A u \in Sellers : Cardinality(Counted(u)) <= MaxListings

Locked ==
  /\ \A s \in Sessions : at[s] = "insert" => Cardinality(Counted(who[s])) < MaxListings
  /\ \A s, t \in Sessions : at[s] = "insert" /\ at[t] = "insert" /\ who[s] = who[t] => s = t

CapInv == Holders /\ CountHeld /\ Locked

LEMMA ListedFinite ==
  ASSUME NEW u
  PROVE  IsFiniteSet(Counted(u)) /\ Cardinality(Counted(u)) \in Nat
<1>1. Counted(u) \subseteq Ports
  BY DEF Counted, Listed
<1>2. QED
  BY <1>1, ConstantTypes, FS_Subset, FS_CardinalityType

LEMMA OneMore ==
  ASSUME NEW S, IsFiniteSet(S), NEW T, NEW x, T \subseteq S \cup {x}
  PROVE  /\ Cardinality(S) \in Nat /\ Cardinality(T) \in Nat
         /\ Cardinality(T) <= Cardinality(S) + 1
<1>1. IsFiniteSet(S \cup {x}) /\ Cardinality(S \cup {x}) <= Cardinality(S) + 1
  <2>1. Cardinality(S) \in Nat
    BY FS_CardinalityType
  <2>2. /\ IsFiniteSet(S \cup {x})
        /\ Cardinality(S \cup {x}) = IF x \in S THEN Cardinality(S) ELSE Cardinality(S) + 1
    BY FS_AddElement, Zenon
  <2>3. QED
    BY <2>1, <2>2
<1>2. IsFiniteSet(T) /\ Cardinality(T) <= Cardinality(S \cup {x})
  BY <1>1, FS_Subset
<1>3. QED
  BY <1>1, <1>2, FS_CardinalityType

\* Steps that list nothing new, and leave to the commit only who was there.
LEMMA CapByStillness ==
  ASSUME CapInv, \A u : Counted(u)' \subseteq Counted(u),
         \A t \in Sessions : at'[t] = "insert" => at[t] = "insert" /\ who'[t] = who[t]
  PROVE  CountHeld' /\ Locked'
<1>1. \A u : Cardinality(Counted(u)') <= Cardinality(Counted(u))
         /\ Cardinality(Counted(u)') \in Nat /\ Cardinality(Counted(u)) \in Nat
  <2>1. SUFFICES ASSUME NEW u
                 PROVE  /\ Cardinality(Counted(u)') <= Cardinality(Counted(u))
                        /\ Cardinality(Counted(u)') \in Nat /\ Cardinality(Counted(u)) \in Nat
    OBVIOUS
  <2>2. Counted(u)' \subseteq Counted(u) /\ IsFiniteSet(Counted(u))
    BY ListedFinite
  <2>3. QED
    BY <2>2, FS_Subset, FS_CardinalityType
<1>2. MaxListings \in Nat
  BY ConstantTypes
<1>3. CountHeld'
  BY <1>1, <1>2 DEF CapInv, CountHeld
<1>4. Locked'
  BY <1>1, <1>2 DEF CapInv, Locked
<1>5. QED
  BY <1>3, <1>4

LEMMA CapInit == Init => CapInv
<1> SUFFICES ASSUME Init PROVE CountHeld /\ Locked
  BY HoldersInit DEF CapInv
<1>1. \A u : Counted(u) = {}
  BY DEF Init, Counted, Listed
<1>2. QED
  BY <1>1, ConstantTypes, FS_EmptySet DEF Init, CountHeld, Locked

LEMMA CapPreserved == CapInv /\ [Next]_vars => CapInv'
<1> SUFFICES ASSUME CapInv, [Next]_vars PROVE CountHeld' /\ Locked'
  BY HoldersPreserved DEF CapInv
<1>0. TypeOK
  BY DEF CapInv, Holders
<1>1. ASSUME UNCHANGED <<row, seller, revived>> PROVE \A u : Counted(u)' = Counted(u)
  BY <1>1 DEF Counted, Listed
<1>2. ASSUME NEW s \in Sessions, NEW what, NEW u, NEW p, NEW i, NEW first,
             Begin(s, what, u, p, i, first), first \in {"add", "drop", "write"}
      PROVE  CountHeld' /\ Locked'
  <2>1. UNCHANGED <<row, seller, revived>>
    BY <1>2 DEF Begin, rowVars
  <2>2. \A t \in Sessions : at'[t] = "insert" => at[t] = "insert" /\ who'[t] = who[t]
    BY <1>0, <1>2, BeginMoves
  <2>3. QED
    BY <1>1, <2>1, <2>2, CapByStillness
<1>3. ASSUME NEW s \in Sessions,
             (\E u \in Sellers, p \in Ports : Create(s, u, p))
             \/ (\E p \in Ports : Repair(s, p) \/ Delete(s, p) \/ Load(s, p))
      PROVE  CountHeld' /\ Locked'
  BY <1>2, <1>3 DEF Create, Repair, Delete, Load
<1>4. ASSUME NEW s \in Sessions, End(s), UNCHANGED <<row, seller, revived>> PROVE CountHeld' /\ Locked'
  <2>1. \A t \in Sessions : at'[t] = "insert" => at[t] = "insert" /\ who'[t] = who[t]
    BY <1>0, <1>4, EndMoves
  <2>2. QED
    BY <1>1, <1>4, <2>1, CapByStillness
<1>5. ASSUME NEW s \in Sessions, NEW next, next # "insert", Go(s, next), UNCHANGED <<row, seller, revived>>
      PROVE  CountHeld' /\ Locked'
  <2>1. \A t \in Sessions : at'[t] = "insert" => at[t] = "insert" /\ who'[t] = who[t]
    BY <1>0, <1>5, GoMoves
  <2>2. QED
    BY <1>1, <1>5, <2>1, CapByStillness
<1>6. ASSUME NEW s \in Sessions, AddInbound(s) PROVE CountHeld' /\ Locked'
  <2>1. UNCHANGED <<row, seller, revived>>
    BY <1>6 DEF AddInbound, AfterInbound, rowVars
  <2>2. CASE /\ id' = [id EXCEPT ![s] = fresh]
             /\ at' = [at EXCEPT ![s] = IF op[s] = "repair" THEN "undo" ELSE "probe"]
             /\ UNCHANGED <<op, who, port, faults, stray>>
    <3>1. \A t \in Sessions : at'[t] = "insert" => at[t] = "insert" /\ who'[t] = who[t]
      BY <1>0, <2>2 DEF TypeOK
    <3>2. QED
      BY <1>1, <2>1, <3>1, CapByStillness
  <2>3. CASE Fault /\ End(s) /\ stray' = stray \cup {fresh}
    BY <1>4, <2>1, <2>3
  <2>4. QED
    BY <1>6, <2>2, <2>3 DEF AddInbound, AfterInbound
<1>7. ASSUME NEW s \in Sessions, AddRefused(s) \/ Undo(s) \/ Die(s) PROVE CountHeld' /\ Locked'
  BY <1>4, <1>7 DEF AddRefused, Undo, Die, rowVars
<1>8. ASSUME NEW s \in Sessions, AddProbe(s) \/ ProbeFails(s) \/ Drop(s)
      PROVE  CountHeld' /\ Locked'
  BY <1>5, <1>8 DEF AddProbe, ProbeFails, Drop, rowVars
<1>9. ASSUME NEW s \in Sessions, Recheck(s) PROVE CountHeld' /\ Locked'
  <2>1. UNCHANGED <<row, seller, revived>>
    BY <1>9 DEF Recheck, rowVars
  <2>2. CASE Cardinality(Listed(who[s])) < MaxListings
    <3>1. Go(s, "insert") /\ LockFree(who[s])
      BY <1>9, <2>2 DEF Recheck
    <3>2. Cardinality(Counted(who[s])) < MaxListings
      <4>1. Listed(who[s]) \subseteq Ports /\ Counted(who[s]) \subseteq Listed(who[s])
        BY DEF Listed, Counted
      <4>2. /\ IsFiniteSet(Listed(who[s])) /\ Cardinality(Listed(who[s])) \in Nat
            /\ Cardinality(Counted(who[s])) \in Nat
            /\ Cardinality(Counted(who[s])) <= Cardinality(Listed(who[s]))
        BY <4>1, ConstantTypes, FS_Subset, FS_CardinalityType
      <4>3. QED
        BY <2>2, <4>2, ConstantTypes
    <3>3. /\ at'[s] = "insert" /\ UNCHANGED who
          /\ \A t \in Sessions \ {s} : at'[t] = at[t]
      BY <1>0, <3>1, GoMoves
    <3>4. CountHeld'
      BY <1>1, <2>1 DEF CapInv, CountHeld
    <3>5. Locked'
      <4>1. \A t \in Sessions : at'[t] = "insert" => Cardinality(Counted(who[t])) < MaxListings
        BY <3>3, <3>2 DEF CapInv, Locked
      <4>2. \A t \in Sessions : Counted(who[t])' = Counted(who[t])
        BY <2>1, <3>3 DEF Counted, Listed
      <4>3. \A t, v \in Sessions : at'[t] = "insert" /\ at'[v] = "insert" /\ who'[t] = who'[v] => t = v
        BY <3>1, <3>3 DEF CapInv, Locked, LockFree
      <4>4. QED
        BY <4>1, <4>2, <4>3 DEF Locked
    <3>6. QED
      BY <3>4, <3>5
  <2>3. CASE ~(Cardinality(Listed(who[s])) < MaxListings)
    BY <1>5, <1>9, <2>1, <2>3 DEF Recheck
  <2>4. QED
    BY <2>2, <2>3
<1>10. ASSUME NEW s \in Sessions, at[s] = "insert", Insert(s), UNCHANGED revived,
              \A t \in Sessions : at'[t] = "insert" => t # s /\ at[t] = "insert" /\ who'[t] = who[t]
       PROVE  CountHeld' /\ Locked'
  <2>1. /\ port[s] \in Ports /\ row'[port[s]] = "live" /\ seller'[port[s]] = who[s]
        /\ \A p \in Ports \ {port[s]} : row'[p] = row[p] /\ seller'[p] = seller[p]
    BY <1>0, <1>10, InsertMoves
  <2>2. \A u : Counted(u)' \subseteq Counted(u) \cup {port[s]}
    BY <1>10, <2>1 DEF Counted, Listed
  <2>3. \A u : u # who[s] => Counted(u)' \subseteq Counted(u)
    BY <1>10, <2>1 DEF Counted, Listed
  <2>4. Cardinality(Counted(who[s])) < MaxListings /\ MaxListings \in Nat
    BY <1>10, ConstantTypes DEF CapInv, Locked
  <2>5. \A u : Cardinality(Counted(u)) \in Nat /\ IsFiniteSet(Counted(u))
    BY ListedFinite
  <2>6. ASSUME NEW u PROVE Cardinality(Counted(u)') <= Cardinality(Counted(u)) + 1
    BY <2>2, <2>5, OneMore
  <2>7. ASSUME NEW u, u # who[s]
        PROVE  Cardinality(Counted(u)') <= Cardinality(Counted(u)) /\ Cardinality(Counted(u)') \in Nat
    BY <2>3, <2>5, <2>7, FS_Subset, FS_CardinalityType
  <2>8. ASSUME NEW u PROVE Cardinality(Counted(u)') \in Nat
    BY <2>2, <2>5, OneMore
  <2>9. CountHeld'
    <3>1. ASSUME NEW u \in Sellers PROVE Cardinality(Counted(u)') <= MaxListings
      <4>1. CASE u = who[s]
        BY <2>4, <2>5, <2>6, <2>8, <4>1
      <4>2. CASE u # who[s]
        BY <2>4, <2>5, <2>7, <4>2 DEF CapInv, CountHeld
      <4>3. QED
        BY <4>1, <4>2
    <3>2. QED
      BY <3>1 DEF CountHeld
  <2>10. Locked'
    <3>1. ASSUME NEW t \in Sessions, at'[t] = "insert"
          PROVE  who'[t] # who[s] /\ who'[t] = who[t] /\ at[t] = "insert"
      BY <1>10, <3>1 DEF CapInv, Locked
    <3>2. ASSUME NEW t \in Sessions, at'[t] = "insert" PROVE Cardinality(Counted(who[t])') < MaxListings
      <4>1. who[t] # who[s] /\ Cardinality(Counted(who[t])) < MaxListings
        BY <3>1, <3>2 DEF CapInv, Locked
      <4>2. \A p \in Ports : row'[p] = "live" /\ seller'[p] = who[t] => row[p] = "live" /\ seller[p] = who[t]
        BY <2>1, <4>1
      <4>3. {p \in Ports : row'[p] = "live" /\ seller'[p] = who[t]} \ revived \subseteq Counted(who[t])
        BY <4>2 DEF Counted, Listed
      <4>4. Counted(who[t])' = {p \in Ports : row'[p] = "live" /\ seller'[p] = who'[t]} \ revived
        BY <1>10 DEF Counted, Listed
      <4>5. who'[t] = who[t]
        BY <3>1, <3>2
      <4>6. QED
        BY <2>4, <2>5, <4>1, <4>3, <4>4, <4>5, FS_Subset, FS_CardinalityType
    <3>3. QED
      BY <1>10, <3>1, <3>2 DEF CapInv, Locked
  <2>11. QED
    BY <2>9, <2>10
<1>11. ASSUME NEW s \in Sessions, Save(s) PROVE CountHeld' /\ Locked'
  <2>1. at[s] = "insert"
    BY <1>11 DEF Save
  <2>2. CASE row[port[s]] = "none"
    <3>1. Insert(s) /\ End(s) /\ UNCHANGED revived
      BY <1>11, <2>2 DEF Save
    <3>2. \A t \in Sessions : at'[t] = "insert" => t # s /\ at[t] = "insert" /\ who'[t] = who[t]
      BY <1>0, <3>1, EndMoves
    <3>3. QED
      BY <1>10, <2>1, <3>1, <3>2
  <2>3. CASE row[port[s]] # "none"
    BY <1>5, <1>11, <2>3 DEF Save, rowVars
  <2>4. QED
    BY <2>2, <2>3
<1>12. ASSUME NEW s \in Sessions, SaveFails(s) PROVE CountHeld' /\ Locked'
  <2>1. /\ at[s] = "insert" /\ Go(s, "undo") /\ UNCHANGED revived
        /\ (UNCHANGED <<row, seller>>) \/ Insert(s)
    BY <1>12 DEF SaveFails, rowVars
  <2>2. \A t \in Sessions : at'[t] = "insert" => t # s /\ at[t] = "insert" /\ who'[t] = who[t]
    BY <1>0, <2>1, GoMoves
  <2>3. QED
    BY <1>5, <1>10, <2>1, <2>2
<1>13. ASSUME NEW s \in Sessions, Erase(s) \/ Write(s) PROVE CountHeld' /\ Locked'
  <2>1. \A p \in Ports : row'[p] = "live" /\ p \notin revived' => row[p] = "live" /\ p \notin revived
    BY <1>0, <1>13 DEF Erase, Write, TypeOK, CapInv, Holders, Shape
  <2>2. UNCHANGED seller
    BY <1>13 DEF Erase, Write
  <2>3. \A u : Counted(u)' \subseteq Counted(u)
    BY <2>1, <2>2 DEF Counted, Listed
  <2>4. \A t \in Sessions : at'[t] = "insert" => at[t] = "insert" /\ who'[t] = who[t]
    BY <1>0, <1>13, EndMoves DEF Erase, Write
  <2>5. QED
    BY <2>3, <2>4, CapByStillness
<1>14. ASSUME UNCHANGED <<row, seller, revived, at, who>> PROVE CountHeld' /\ Locked'
  BY <1>1, <1>14, CapByStillness
<1>15. ASSUME NEW i \in Ids, Remove(i) PROVE CountHeld' /\ Locked'
  BY <1>14, <1>15 DEF Remove, rowVars, sessionVars
<1>16. CASE UNCHANGED vars
  BY <1>14, <1>16 DEF vars, rowVars, sessionVars
<1>17. QED
  BY <1>3, <1>6, <1>7, <1>8, <1>9, <1>11, <1>12, <1>13, <1>15, <1>16 DEF Next

\* However many requests create listings for a seller at once, they list no more than
\* MAX_LISTINGS_PER_SELLER, the one between the locked count and its commit being
\* alone: what is above the cap was deleted, and brought back by another request.
THEOREM CapIsHeld == Spec => []CapHeld
<1>1. CapInv => CapHeld
  BY DEF CapInv, CountHeld, CapHeld, Counted
<1>2. QED
  BY CapInit, CapPreserved, <1>1, PTL DEF Spec
=============================================================================
