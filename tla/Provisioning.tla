--------------------------- MODULE Provisioning ---------------------------
(***************************************************************************)
(* How a listing gets its inbound on the seller panel, and loses it:       *)
(* create_listing, the end of delete_listing, the scripts that are meant   *)
(* to restore inbounds, and the other writers of a listing's status, which *)
(* load the row, do other work, and write it back by its id.               *)
(*                                                                         *)
(* create_listing works on two stores.  It adds an inbound and a probe     *)
(* client to the panel, and only then inserts the row, under an advisory   *)
(* lock of the seller and after counting the seller's listings again.      *)
(* Whatever fails after the inbound is there must remove it: there is no   *)
(* journal, and nobody looks for what a dead request left behind.          *)
(*                                                                         *)
(* Ports are unique over all rows, deleted ones included: a listing is its *)
(* port here.  The panel never gives an inbound's id twice.                *)
(***************************************************************************)
EXTENDS Integers, FiniteSets

CONSTANTS
  Sellers, Ports, Sessions,
  Nil,          \* nobody, and no port
  MaxListings,  \* MAX_LISTINGS_PER_SELLER
  MaxIds,       \* bound: inbounds the panel ever makes
  MaxFaults     \* bound: failures

ASSUME ProvisioningAssumption ==
  /\ IsFiniteSet(Ports)
  /\ Nil \notin Sellers /\ Nil \notin Ports
  /\ MaxListings \in Nat \ {0} /\ MaxIds \in Nat /\ MaxFaults \in Nat

Ids == 1..MaxIds

VARIABLES
  row,       \* listings.status: none, live or deleted
  seller,    \* listings.seller_user_id
  link,      \* listings.panel_inbound_id
  inbounds,  \* inbounds on the panel
  probed,    \* inbounds with a probe client
  fresh,     \* the next id of the panel
  op,        \* what each session does: create, delete, repair, edit or nothing
  at,        \* its next step
  who, port, \* for whom, and which listing
  id,        \* the inbound it has in hand; 0 before there is one
  faults,    \* failures so far
  stray,     \* history: inbounds left behind by a failure
  doubt,     \* history: listings whose creation or deletion was cut off
  revived    \* history: listings whose deletion another request wrote over

rowVars     == <<row, seller, link>>
panelVars   == <<inbounds, probed, fresh>>
sessionVars == <<op, at, who, port, id>>
vars == <<rowVars, panelVars, sessionVars, faults, stray, doubt, revived>>

-----------------------------------------------------------------------------

Steps == {"rest", "add", "probe", "lock", "insert", "undo", "drop", "erase", "write"}

Listed(u) == {p \in Ports : row[p] = "live" /\ seller[p] = u}

Init ==
  /\ row = [p \in Ports |-> "none"]
  /\ seller = [p \in Ports |-> Nil]
  /\ link = [p \in Ports |-> 0]
  /\ inbounds = {} /\ probed = {} /\ fresh = 1
  /\ op = [s \in Sessions |-> "none"]
  /\ at = [s \in Sessions |-> "rest"]
  /\ who = [s \in Sessions |-> Nil]
  /\ port = [s \in Sessions |-> Nil]
  /\ id = [s \in Sessions |-> 0]
  /\ faults = 0 /\ stray = {} /\ doubt = {} /\ revived = {}

Fault == faults < MaxFaults /\ faults' = faults + 1

Begin(s, what, u, p, i, first) ==
  /\ at[s] = "rest"
  /\ op' = [op EXCEPT ![s] = what]
  /\ at' = [at EXCEPT ![s] = first]
  /\ who' = [who EXCEPT ![s] = u]
  /\ port' = [port EXCEPT ![s] = p]
  /\ id' = [id EXCEPT ![s] = i]
  /\ UNCHANGED <<rowVars, panelVars, faults, stray, doubt, revived>>

\* A session goes on with the inbound it has.
Go(s, next) == at' = [at EXCEPT ![s] = next] /\ UNCHANGED <<op, who, port, id>>

\* A session ends.
End(s) ==
  /\ op' = [op EXCEPT ![s] = "none"]
  /\ at' = [at EXCEPT ![s] = "rest"]
  /\ who' = [who EXCEPT ![s] = Nil]
  /\ port' = [port EXCEPT ![s] = Nil]
  /\ id' = [id EXCEPT ![s] = 0]

-----------------------------------------------------------------------------
(* create_listing.                                                         *)

\* The first, unlocked look: room for one more listing, and a port of no row.
Create(s, u, p) ==
  /\ Cardinality(Listed(u)) < MaxListings
  /\ row[p] = "none"
  /\ Begin(s, "create", u, p, 0, "add")

\* reprovision_listings and force_reactivate_all pick a listing and add an inbound
\* for it: only --all-missing looks first at the one it has.
Repair(s, p) == row[p] # "none" /\ Begin(s, "repair", seller[p], p, 0, "add")

\* The scripts call add_client with an argument it does not take: they remove the
\* inbound again and get no further.
AfterInbound(what) == IF what = "repair" THEN "undo" ELSE "probe"

\* The panel makes an inbound.
AddInbound(s) ==
  /\ at[s] = "add" /\ fresh \in Ids
  /\ inbounds' = inbounds \cup {fresh}
  /\ fresh' = fresh + 1
  /\ \/ /\ id' = [id EXCEPT ![s] = fresh]
        /\ at' = [at EXCEPT ![s] = AfterInbound(op[s])]
        /\ UNCHANGED <<op, who, port, faults, stray>>
     \/ \* the answer is lost, or has no id in it
        /\ Fault
        /\ End(s)
        /\ stray' = stray \cup {fresh}
  /\ UNCHANGED <<rowVars, probed, doubt, revived>>

\* Mutant of AddRefused: the cleanup runs without an inbound.
RefusedUndo(s) ==
  /\ at[s] = "add"
  /\ Go(s, "undo")
  /\ UNCHANGED <<rowVars, panelVars, faults, stray, doubt, revived>>

\* The panel makes none.
AddRefused(s) ==
  /\ at[s] = "add"
  /\ End(s)
  /\ UNCHANGED <<rowVars, panelVars, faults, stray, doubt, revived>>

AddProbe(s) ==
  /\ at[s] = "probe"
  /\ id[s] \in inbounds
  /\ probed' = probed \cup {id[s]}
  /\ Go(s, "lock")
  /\ UNCHANGED <<rowVars, inbounds, fresh, faults, stray, doubt, revived>>

\* Mutant of ProbeFails: a probe client is not worth giving up for.
ProbeSkipped(s) ==
  /\ at[s] = "probe"
  /\ Fault
  /\ Go(s, "lock")
  /\ UNCHANGED <<rowVars, panelVars, stray, doubt, revived>>

\* The client is refused, or its answer lost: the inbound is given up.
ProbeFails(s) ==
  /\ at[s] = "probe"
  /\ IF id[s] \in inbounds THEN Fault ELSE UNCHANGED faults
  /\ \/ UNCHANGED probed
     \/ id[s] \in inbounds /\ probed' = probed \cup {id[s]}
  /\ Go(s, "undo")
  /\ UNCHANGED <<rowVars, inbounds, fresh, stray, doubt, revived>>

\* Nobody else is between the locked count and the commit for this seller.
LockFree(u) == \A t \in Sessions : at[t] = "insert" => who[t] # u

\* Mutant of Recheck: the first count is trusted.
Uncounted(s) ==
  /\ at[s] = "lock" /\ LockFree(who[s])
  /\ Go(s, "insert")
  /\ UNCHANGED <<rowVars, panelVars, faults, stray, doubt, revived>>

\* Mutant of Recheck: a request over the cap just ends.
RecheckAndEnd(s) ==
  /\ at[s] = "lock" /\ LockFree(who[s])
  /\ IF Cardinality(Listed(who[s])) < MaxListings THEN Go(s, "insert") ELSE End(s)
  /\ UNCHANGED <<rowVars, panelVars, faults, stray, doubt, revived>>

\* The count that decides, under the seller's advisory lock.
Recheck(s) ==
  /\ at[s] = "lock" /\ LockFree(who[s])
  /\ Go(s, IF Cardinality(Listed(who[s])) < MaxListings THEN "insert" ELSE "undo")
  /\ UNCHANGED <<rowVars, panelVars, faults, stray, doubt, revived>>

Insert(s) ==
  /\ row' = [row EXCEPT ![port[s]] = "live"]
  /\ seller' = [seller EXCEPT ![port[s]] = who[s]]
  /\ link' = [link EXCEPT ![port[s]] = id[s]]

\* The commit inserts the row, unless another listing took the port meanwhile.
Save(s) ==
  /\ at[s] = "insert"
  /\ IF row[port[s]] = "none" THEN Insert(s) /\ End(s) ELSE Go(s, "undo") /\ UNCHANGED rowVars
  /\ UNCHANGED <<panelVars, faults, stray, doubt, revived>>

\* The commit fails; or it takes effect and its answer, or the row's refresh in
\* the same try, fails.  The inbound is removed either way.
SaveFails(s) ==
  /\ at[s] = "insert"
  /\ Fault
  /\ \/ UNCHANGED <<rowVars, doubt>>
     \/ row[port[s]] = "none" /\ Insert(s) /\ doubt' = doubt \cup {port[s]}
  /\ Go(s, "undo")
  /\ UNCHANGED <<panelVars, stray, revived>>

\* Every exit after the inbound was made.  A cleanup that fails is not repeated.
Undo(s) ==
  /\ at[s] = "undo"
  /\ \/ inbounds' = inbounds \ {id[s]} /\ UNCHANGED <<faults, stray>>
     \/ Fault /\ stray' = stray \cup {id[s]} /\ UNCHANGED inbounds
  /\ End(s)
  /\ UNCHANGED <<rowVars, probed, fresh, doubt, revived>>

-----------------------------------------------------------------------------
(* The end of delete_listing (its configs are ConfigLifecycle's).          *)

Delete(s, p) == row[p] = "live" /\ Begin(s, "delete", seller[p], p, link[p], "drop")

\* The row is deleted whatever the panel says.
Drop(s) ==
  /\ at[s] = "drop"
  /\ \/ inbounds' = inbounds \ {id[s]} /\ UNCHANGED <<faults, stray>>
     \/ Fault /\ stray' = stray \cup {id[s]} /\ UNCHANGED inbounds
  /\ Go(s, "erase")
  /\ UNCHANGED <<rowVars, probed, fresh, doubt, revived>>

Erase(s) ==
  /\ at[s] = "erase"
  /\ row' = [row EXCEPT ![port[s]] = "deleted"]
  /\ End(s)
  /\ UNCHANGED <<seller, link, panelVars, faults, stray, doubt, revived>>

-----------------------------------------------------------------------------
(* disable_listing, enable_listing, retry_listing, patch_listing and the   *)
(* quality gate, as far as they write the status of a row they have loaded.*)

Load(s, p) == row[p] = "live" /\ Begin(s, "edit", seller[p], p, 0, "write")

\* The row may have been deleted meanwhile, and its inbound with it: the write
\* is by the row's id and brings it back.
Write(s) ==
  /\ at[s] = "write"
  /\ row' = [row EXCEPT ![port[s]] = "live"]
  /\ revived' = IF row[port[s]] = "deleted" THEN revived \cup {port[s]} ELSE revived
  /\ End(s)
  /\ UNCHANGED <<seller, link, panelVars, faults, stray, doubt>>

-----------------------------------------------------------------------------
(* Failures nobody handles.                                                *)

\* The process dies, the database is gone before the lock is taken, the script
\* meets an error it does not catch, or the commit of a deletion fails.
Die(s) ==
  /\ at[s] # "rest"
  /\ Fault
  /\ stray' = stray \cup ({id[s]} \cap inbounds)
  /\ doubt' = IF op[s] = "delete" THEN doubt \cup {port[s]} ELSE doubt
  /\ End(s)
  /\ UNCHANGED <<rowVars, panelVars, revived>>

\* Somebody removes an inbound by hand, on the panel.
Remove(i) ==
  /\ i \in inbounds
  /\ Fault
  /\ inbounds' = inbounds \ {i}
  /\ doubt' = doubt \cup {p \in Ports : link[p] = i}
                    \cup {port[s] : s \in {t \in Sessions : id[t] = i}}
  /\ UNCHANGED <<rowVars, probed, fresh, sessionVars, stray, revived>>

-----------------------------------------------------------------------------

Next ==
  \/ \E s \in Sessions :
       \/ \E u \in Sellers, p \in Ports : Create(s, u, p)
       \/ \E p \in Ports : Repair(s, p) \/ Delete(s, p) \/ Load(s, p)
       \/ AddInbound(s) \/ AddRefused(s) \/ AddProbe(s) \/ ProbeFails(s)
       \/ Recheck(s) \/ Save(s) \/ SaveFails(s) \/ Undo(s)
       \/ Drop(s) \/ Erase(s) \/ Write(s) \/ Die(s)
  \/ \E i \in Ids : Remove(i)

Spec == Init /\ [][Next]_vars

-----------------------------------------------------------------------------
(* Properties.                                                             *)

TypeOK ==
  /\ row \in [Ports -> {"none", "live", "deleted"}]
  /\ seller \in [Ports -> Sellers \cup {Nil}]
  /\ link \in [Ports -> 0..MaxIds]
  /\ inbounds \subseteq Ids /\ probed \subseteq Ids
  /\ fresh \in 1..(MaxIds + 1)
  /\ op \in [Sessions -> {"none", "create", "delete", "repair", "edit"}]
  /\ at \in [Sessions -> Steps]
  /\ who \in [Sessions -> Sellers \cup {Nil}]
  /\ port \in [Sessions -> Ports \cup {Nil}]
  /\ id \in [Sessions -> 0..MaxIds]
  /\ \A s \in Sessions :
       /\ IF at[s] = "rest" THEN id[s] = 0 ELSE port[s] \in Ports
       /\ at[s] \in {"probe", "lock", "insert", "undo"} => id[s] # 0
  /\ faults \in 0..MaxFaults
  /\ stray \subseteq 0..MaxIds /\ doubt \subseteq Ports /\ revived \subseteq Ports

\* Every inbound belongs to a listing or to a request at work: create_listing
\* and the scripts leave one behind only by a failure on the panel or a crash.
NoOrphan ==
  \A i \in inbounds :
    \/ \E p \in Ports : row[p] = "live" /\ link[p] = i
    \/ \E s \in Sessions : id[s] = i
    \/ i \in stray

\* A live listing has its inbound, and a probe client on it, without which the
\* quality gate would be silently disabled: unless its deletion is under way,
\* a failure cut its creation or deletion off, or a request that loaded the row
\* before wrote over its deletion.
Served ==
  \A p \in Ports \ (doubt \cup revived) :
    row[p] = "live" /\ (\A s \in Sessions : op[s] = "delete" => port[s] # p)
      => link[p] \in inbounds \cap probed

\* However many create_listing requests of a seller run at once, they list no more
\* than MAX_LISTINGS_PER_SELLER.  The count and its lock do not see a deletion
\* written over: every listing above the cap is one brought back like that.
CapHeld == \A u \in Sellers : Cardinality(Listed(u) \ revived) <= MaxListings
=============================================================================
