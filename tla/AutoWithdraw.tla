--------------------------- MODULE AutoWithdraw ---------------------------
(***************************************************************************)
(* Automatic withdrawals: the worker's tick auto_withdraw_once, and the    *)
(* users' configs it evaluates.                                            *)
(*                                                                         *)
(* One tick loads every enabled config and evaluates them one after the    *)
(* other in one database session, with awaits in between.  It works on the *)
(* configs as loaded and writes back only what it changes: last_run_at and *)
(* next_run_at, in the transaction of the withdrawal.  Meanwhile the users *)
(* edit their configs, withdraw by hand, earn and spend.                   *)
(*                                                                         *)
(* create_withdrawal itself, with its lock, is Withdrawals; here it grants *)
(* or refuses.                                                             *)
(***************************************************************************)
EXTENDS Integers, FiniteSets

CONSTANTS
  Users,
  Nobody, NoConfig,
  Bodies,       \* what a user may ask for, as put_auto_config accepts it
  MinUsd,       \* withdrawal_min_usd
  MaxUsd,       \* withdrawal_max_usd
  Cooldown,     \* auto_withdraw_threshold_cooldown_min
  InitialBalance,
  MaxBalance,   \* bound: the most a user has
  MaxTime,      \* bound: the clock
  MaxEdits,     \* bound: changes of configs and of barred
  MaxFaults     \* bound: ticks cut off by a restart or by the database

Never == -1

Body == [mode : {"time", "threshold"}, every : Nat, threshold : Nat, fixed : Nat]

\* A row of auto_withdrawal_configs: next_run_at and last_run_at are Never for NULL.
Row == [on : BOOLEAN, body : Bodies, next : Int, last : Int]

ASSUME AutoWithdrawAssumption ==
  /\ Nobody \notin Users /\ NoConfig \notin Row
  /\ Bodies \subseteq Body
  /\ \A b \in Bodies :
       /\ b.mode = "time" => b.every >= 1
       /\ b.mode = "threshold" => b.threshold >= MinUsd
       /\ b.fixed # 0 => b.fixed >= MinUsd
  /\ MinUsd \in Nat \ {0} /\ MaxUsd \in Nat
  /\ Cooldown \in Nat \ {0}
  /\ MaxBalance \in Nat /\ InitialBalance \in 0..MaxBalance
  /\ MaxTime \in Nat /\ MaxEdits \in Nat /\ MaxFaults \in Nat

VARIABLES
  now,       \* the clock
  row,       \* auto_withdrawal_configs
  balance,
  inFlight,  \* users with a withdrawal in flight
  barred,    \* users who get no withdrawal now: blocked, at the cap of the day, or
             \* asking for more than the hot wallet has
  pc,        \* of the tick
  start,     \* its now, read once
  todo,      \* users it has still to evaluate
  loaded,    \* their configs as it loaded them
  cur,       \* the user it is creating a withdrawal for
  gross,     \* and the amount
  expired,   \* the session was rolled back: reading a config raises
  held,      \* users whose advisory lock the session holds
  edits,
  faults,
  last       \* history: the last automatic withdrawal of each user

userVars == <<balance, inFlight, barred>>
tickVars == <<pc, start, todo, loaded, cur, gross, expired, held>>
vars == <<now, row, userVars, tickVars, edits, faults, last>>

-----------------------------------------------------------------------------

Time == 0..MaxTime
Nothing == [at |-> Never, every |-> 0]

Init ==
  /\ now = 0
  /\ row = [u \in Users |-> NoConfig]
  /\ balance = [u \in Users |-> InitialBalance]
  /\ inFlight = {}
  /\ barred = {}
  /\ pc = "idle" /\ start = 0 /\ todo = {}
  /\ loaded = [u \in Users |-> NoConfig]
  /\ cur = Nobody /\ gross = 0 /\ expired = FALSE /\ held = {}
  /\ edits = 0 /\ faults = 0
  /\ last = [u \in Users |-> Nothing]

-----------------------------------------------------------------------------
(* The user's config.                                                      *)

NextRun(b, on, t) == IF on /\ b.mode = "time" THEN t + b.every ELSE Never

\* put_auto_config: the upsert leaves last_run_at alone.
Put(u, b, on) ==
  /\ row' = [row EXCEPT ![u] =
       [on |-> on, body |-> b, next |-> NextRun(b, on, now),
        last |-> IF row[u] = NoConfig THEN Never ELSE row[u].last]]
  /\ edits < MaxEdits /\ edits' = edits + 1
  /\ UNCHANGED <<now, userVars, tickVars, faults, last>>

\* Mutant of Disable: the row goes.
DisableDeletes(u) ==
  /\ row[u] # NoConfig
  /\ row' = [row EXCEPT ![u] = NoConfig]
  /\ edits < MaxEdits /\ edits' = edits + 1
  /\ UNCHANGED <<now, userVars, tickVars, faults, last>>

\* disable_auto_config.
Disable(u) ==
  /\ row[u] # NoConfig
  /\ row' = [row EXCEPT ![u].on = FALSE, ![u].next = Never]
  /\ edits < MaxEdits /\ edits' = edits + 1
  /\ UNCHANGED <<now, userVars, tickVars, faults, last>>

-----------------------------------------------------------------------------
(* The tick.                                                               *)

EndTick ==
  /\ pc' = "idle"
  /\ todo' = {}
  /\ cur' = Nobody /\ gross' = 0
  /\ loaded' = [u \in Users |-> NoConfig]
  /\ expired' = FALSE
  /\ held' = {}
  /\ start' = 0

Start ==
  /\ pc = "idle"
  /\ pc' = "loop"
  /\ start' = now
  /\ todo' = {u \in Users : row[u] # NoConfig /\ row[u].on}
  /\ loaded' = [u \in Users |-> IF u \in todo' THEN row[u] ELSE NoConfig]
  /\ UNCHANGED <<now, row, userVars, cur, gross, expired, held, edits, faults, last>>

\* Whether the config fires, as far as its own columns say.
Fires(c, b, t) ==
  IF c.body.mode = "time" THEN c.next # Never /\ c.next <= t
  ELSE /\ b >= c.body.threshold
       /\ \/ c.last = Never
          \/ t - c.last >= Cooldown
          \/ b >= 2 * c.body.threshold

\* The amount policy: the whole balance, or a fixed amount of it.
Gross(c, b) == IF c.body.fixed = 0 THEN b ELSE c.body.fixed

Wanted(u, c, t) ==
  /\ u \notin inFlight
  /\ Fires(c, balance[u], t)
  /\ Gross(c, balance[u]) <= balance[u]
  /\ Gross(c, balance[u]) >= MinUsd

\* _evaluate_config up to the fee quote: in-flight check, trigger, amount.  The
\* configs come in no particular order.
Evaluate(u) ==
  /\ pc = "loop" /\ u \in todo /\ ~expired
  /\ todo' = todo \ {u}
  /\ IF Wanted(u, loaded[u], start)
     THEN /\ pc' = "create" /\ cur' = u /\ gross' = Gross(loaded[u], balance[u])
          /\ UNCHANGED loaded
     ELSE loaded' = [loaded EXCEPT ![u] = NoConfig] /\ UNCHANGED <<pc, cur, gross>>
  /\ UNCHANGED <<now, row, userVars, start, expired, held, edits, faults, last>>

Finish ==
  /\ pc = "loop" /\ todo = {}
  /\ EndTick
  /\ UNCHANGED <<now, row, userVars, edits, faults, last>>

\* The session was rolled back for another user: the first column read of the
\* next config raises, and so does the handler, which logs its user_id.
Collapse ==
  /\ pc = "loop" /\ todo # {} /\ expired
  /\ EndTick
  /\ UNCHANGED <<now, row, userVars, edits, faults, last>>

\* What create_withdrawal refuses, checked again under the user's lock.
Refusable(u) ==
  u \in barred \cup inFlight \/ balance[u] < gross \/ gross > MaxUsd

\* On to the next config.
GoOn ==
  /\ pc' = "loop" /\ cur' = Nobody /\ gross' = 0
  /\ loaded' = [loaded EXCEPT ![cur] = NoConfig]

\* Mutant of Pay: the row is written in a transaction of its own, which a stop in
\* between loses.
PayOnly ==
  /\ pc = "create" /\ ~Refusable(cur)
  /\ balance' = [balance EXCEPT ![cur] = @ - gross]
  /\ inFlight' = inFlight \cup {cur}
  /\ last' = [last EXCEPT ![cur] = [at |-> start, every |-> loaded[cur].body.every]]
  /\ GoOn
  /\ held' = {}
  /\ UNCHANGED <<now, row, barred, start, todo, expired, edits, faults>>

\* The withdrawal and the config's new columns commit together.
Pay ==
  /\ pc = "create" /\ ~Refusable(cur)
  /\ balance' = [balance EXCEPT ![cur] = @ - gross]
  /\ inFlight' = inFlight \cup {cur}
  /\ row' = [row EXCEPT
       ![cur].last = start,
       ![cur].next = IF loaded[cur].body.mode = "time" THEN start + loaded[cur].body.every ELSE @]
  /\ last' = [last EXCEPT ![cur] = [at |-> start, every |-> loaded[cur].body.every]]
  /\ GoOn
  /\ held' = {}
  /\ UNCHANGED <<now, barred, start, todo, expired, edits, faults>>

\* Mutant of Refuse: the tick gives up on everybody.
RefuseAll ==
  /\ pc = "create" /\ Refusable(cur)
  /\ EndTick
  /\ UNCHANGED <<now, row, userVars, edits, faults, last>>

\* WithdrawalError: the session is rolled back, which expires every config.
Refuse ==
  /\ pc = "create" /\ Refusable(cur)
  /\ expired' = TRUE
  /\ GoOn
  /\ held' = {}
  /\ UNCHANGED <<now, row, userVars, start, todo, edits, faults, last>>

\* The fee cannot be quoted or eats the amount, or the RPC node fails under the
\* lock.  Nothing is rolled back: the lock stays until the session's next commit.
Skip ==
  /\ pc = "create"
  /\ faults < MaxFaults /\ faults' = faults + 1
  /\ \/ held' = held \cup {cur}
     \/ UNCHANGED held
  /\ GoOn
  /\ UNCHANGED <<now, row, userVars, start, todo, expired, edits, last>>

\* The worker restarts, or the database is gone.
Die ==
  /\ pc # "idle"
  /\ faults < MaxFaults /\ faults' = faults + 1
  /\ EndTick
  /\ UNCHANGED <<now, row, userVars, edits, last>>

-----------------------------------------------------------------------------
(* The world around.                                                       *)

\* The user withdraws by hand, unless the tick has the user's lock.
Withdraw(u, a) ==
  /\ u \notin held \cup barred \cup inFlight
  /\ a >= MinUsd /\ a <= MaxUsd /\ a <= balance[u]
  /\ balance' = [balance EXCEPT ![u] = @ - a]
  /\ inFlight' = inFlight \cup {u}
  /\ UNCHANGED <<now, row, barred, tickVars, edits, faults, last>>

\* A withdrawal is confirmed, or refunded by a row of its own, as in Move.
Settle(u) ==
  /\ u \in inFlight
  /\ inFlight' = inFlight \ {u}
  /\ UNCHANGED <<now, row, balance, barred, tickVars, edits, faults, last>>

\* Sales, top-ups and refunds, traffic and adjustments.
Move(u, b) ==
  /\ balance' = [balance EXCEPT ![u] = b]
  /\ UNCHANGED <<now, row, inFlight, barred, tickVars, edits, faults, last>>

Bar(u) ==
  /\ barred' = IF u \in barred THEN barred \ {u} ELSE barred \cup {u}
  /\ edits < MaxEdits /\ edits' = edits + 1
  /\ UNCHANGED <<now, row, balance, inFlight, tickVars, faults, last>>

Pass ==
  /\ now < MaxTime
  /\ now' = now + 1
  /\ UNCHANGED <<row, userVars, tickVars, edits, faults, last>>

-----------------------------------------------------------------------------

\* What the worker does by itself, its interval over.
Tick == Start \/ (\E u \in Users : Evaluate(u)) \/ Finish \/ Collapse \/ Pay \/ Refuse

Next ==
  \/ Tick \/ Skip \/ Die \/ Pass
  \/ \E u \in Users :
       \/ \E b \in Bodies, on \in BOOLEAN : Put(u, b, on)
       \/ Disable(u) \/ Settle(u) \/ Bar(u)
       \/ \E a \in 0..MaxBalance : Withdraw(u, a) \/ Move(u, a)

Spec == Init /\ [][Next]_vars

\* The scheduler starts the job every minute, one instance at a time.
FairSpec == Spec /\ WF_vars(Tick)

-----------------------------------------------------------------------------
(* Properties.                                                             *)

TypeOK ==
  /\ now \in Time
  /\ row \in [Users -> Row \cup {NoConfig}]
  /\ balance \in [Users -> 0..MaxBalance]
  /\ inFlight \subseteq Users
  /\ barred \subseteq Users
  /\ pc \in {"idle", "loop", "create"} /\ start \in Time
  /\ todo \subseteq Users /\ held \subseteq Users
  /\ loaded \in [Users -> Row \cup {NoConfig}]
  /\ \A u \in todo : loaded[u] # NoConfig /\ row[u] # NoConfig
  /\ cur \in Users \cup {Nobody}
  /\ pc = "create" => cur \in Users \ todo /\ loaded[cur] # NoConfig /\ row[cur] # NoConfig
  /\ gross \in 0..MaxBalance
  /\ expired \in BOOLEAN
  /\ edits \in 0..MaxEdits /\ faults \in 0..MaxFaults
  /\ last \in [Users -> [at : Int, every : Nat]]

\* What lies between u's last automatic withdrawal and one the tick now begins.
Spaced(u, c) ==
  LET since == start - last[u].at IN
  IF c.mode = "time" THEN since >= c.every \/ since >= last[u].every
  ELSE since >= Cooldown \/ balance[u] >= 2 * c.threshold

\* Automatic withdrawals of a user keep their distance, whatever the user edits
\* meanwhile and wherever the worker stops: in time mode the interval, that of
\* the last one or the present one; in threshold mode the cooldown, unless the
\* balance is twice the threshold.
Paced ==
  [][pc = "loop" /\ pc' = "create" =>
       last[cur'] = Nothing \/ Spaced(cur', loaded[cur'].body)]_vars

\* A user whose config fires and whose withdrawal would be granted.
Due(u) ==
  /\ row[u] # NoConfig /\ row[u].on /\ u \notin barred
  /\ Wanted(u, row[u], now)
  /\ Gross(row[u], balance[u]) <= MaxUsd

\* A user who stays due is served, unless refusals of others cut tick after tick
\* short.
DueServed ==
  \A u \in Users : <>[]Due(u) => []<>(pc = "loop" /\ expired)

\* The promise of the job's docstring: each enabled config is evaluated, and a
\* refused one is just tried again in the next cycle.
EachEvaluated ==
  [][pc = "loop" /\ pc' = "idle" /\ faults' = faults => todo = {}]_vars
=============================================================================
