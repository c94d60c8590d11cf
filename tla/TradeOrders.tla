----------------------------- MODULE TradeOrders -----------------------------
(***************************************************************************)
(* A request to open a trade, from services/trade_service.py through       *)
(* services/execution/execution_service.py to the paper exchange, beside   *)
(* the control plane's kill switch and the task of main.py that cancels    *)
(* trades pending for an hour.                                             *)
(*                                                                         *)
(* A request is one database transaction (database.py: get_db), which      *)
(* other requests see when it commits.  What keeps concurrent requests     *)
(* apart is, in this order: the lock on the safety_state row that every    *)
(* approval updates, the unique index on active trades, and one            *)
(* asyncio.Lock per market.                                                *)
(*                                                                         *)
(* create_trade_execution evaluates a name it does not import              *)
(* (ExecutionPermission) once the exchange has answered, so a market order *)
(* always ends in a rollback; a limit order stays pending.  With no filled *)
(* order in the database close_trade can only raise, and is left out.      *)
(*                                                                         *)
(* The request carries the market's UUID and trades.market_id is a String: *)
(* the model takes the driver to accept it, as the tests' mocks do.        *)
(***************************************************************************)
EXTENDS Integers, FiniteSets

CONSTANTS
  Trades,       \* trades requested, each by one request
  Markets, Outcomes,
  Strategies,   \* agent_id of the request
  MaxOpen,      \* MAX_OPEN_POSITIONS (3)
  Nobody,       \* an asyncio.Lock nobody holds
  Seed          \* the safety_state row of earlier requests, if there were any

ASSUME OrderConstants ==
  /\ MaxOpen \in Nat
  /\ IsFiniteSet(Trades)
  /\ Nobody \notin Trades /\ Seed \notin Trades

VARIABLES
  req,      \* by trade: where its request is and what it asked for
  row,      \* by trade: the committed status, "none" when there is no row
  old,      \* trades whose row is older than _PENDING_TIMEOUT_SECONDS
  stamp,    \* by safety_state row: committed updated_at, 0 when absent
  clock,    \* bound to the number of requests: orders the updates
  lock,     \* _execution_locks
  enabled,  \* control:trading_enabled, in the process and in Redis
  paused,   \* control:paused_strategies, in the process and in Redis
  late,     \* requests that came while their strategy was paused, and still is
  fills     \* trades whose fill was published and broadcast

vars == <<req, row, old, stamp, clock, lock, enabled, paused, late, fills>>
database == <<row, old, stamp>>
control == <<enabled, paused, late>>

Kinds == {"limit", "market"}
Rows == Trades \cup {Seed}
New == [pc |-> "new"]
Done == [pc |-> "done"]

Init ==
  /\ req = [t \in Trades |-> New]
  /\ row = [t \in Trades |-> "none"]
  /\ old = {}
  /\ \E s \in {0, 1} : stamp = [r \in Rows |-> IF r = Seed THEN s ELSE 0]
  /\ clock = 1
  /\ lock = [m \in Markets |-> Nobody]
  /\ enabled = [local |-> TRUE, redis |-> TRUE]
  /\ paused = [local |-> {}, redis |-> {}]
  /\ late = {}
  /\ fills = {}

\* Trades the unique index and the limits count.
Active == {t \in Trades : row[t] = "pending"}

SamePosition(t, u) == req[t].market = req[u].market /\ req[t].outcome = req[u].outcome

\* The request has written, and not yet committed, its safety_state row;
\* its trade.
Locking == {t \in Trades : req[t].pc \notin {"new", "safety", "done", "committed"}}
Inserted == {t \in Locking : req[t].pc \notin {"check", "insert"}}

At(t, pc) == req[t].pc = pc
Go(t, pc) == req' = [req EXCEPT ![t].pc = pc]

\* The exception leaves create_trade: get_db rolls the transaction back.
RollBack(t) == req' = [req EXCEPT ![t] = Done]

-----------------------------------------------------------------------------
(* TradeService.create_trade *)

\* The row an approval updates: the latest, or a first one of its own.
SafetyRow(t) ==
  IF \A r \in Rows : stamp[r] = 0 THEN {t}
  ELSE {r \in Rows : stamp[r] > 0 /\ \A s \in Rows : stamp[s] <= stamp[r]}

\* SafetyService.check_trade_approval passes.  It ends in the update of a
\* safety_state row.
Arrive(t, m, o, k, s) ==
  /\ At(t, "new")
  /\ clock' = clock + 1
  /\ \E r \in SafetyRow(t) :
       req' = [req EXCEPT ![t] =
         [pc |-> "safety", market |-> m, outcome |-> o, kind |-> k,
          agent |-> s, at |-> clock + 1, safety |-> r]]
  /\ late' = IF s \in paused.local THEN late \cup {t} ELSE late
  /\ UNCHANGED <<database, lock, enabled, paused, fills>>

\* Mutant: the approval is no longer counted, so nothing is updated.
UpdateSafety_NotWritten(t) ==
  /\ At(t, "safety")
  /\ Go(t, "check")
  /\ UNCHANGED <<database, clock, lock, control, fills>>

\* The update waits for whoever has updated the same row and not committed.
UpdateSafety(t) ==
  /\ At(t, "safety")
  /\ \A u \in Locking : req[u].safety # req[t].safety
  /\ Go(t, "check")
  /\ UNCHANGED <<database, clock, lock, control, fills>>

Duplicate(t) == \E u \in Active : SamePosition(t, u)

\* Mutant: the number of positions may reach the limit and one more.
WithinLimits_OneMore(t) == Cardinality(Active) <= MaxOpen /\ ~ Duplicate(t)

\* No active trade on the same outcome, and GlobalRiskGuard's position count.
WithinLimits(t) == Cardinality(Active) < MaxOpen /\ ~ Duplicate(t)

CheckLimits(t) ==
  /\ At(t, "check")
  /\ IF WithinLimits(t) THEN Go(t, "insert") ELSE RollBack(t)
  /\ UNCHANGED <<database, clock, lock, control, fills>>

AfterInsert(t) == IF req[t].kind = "limit" THEN "commit" ELSE "execute"

\* Mutant: no unique index on the active trades.
Insert_NoIndex(t) ==
  /\ At(t, "insert")
  /\ Go(t, AfterInsert(t))
  /\ UNCHANGED <<database, clock, lock, control, fills>>

\* flush: ix_trades_unique_open_per_market_outcome makes it wait for an
\* uncommitted trade on the same outcome, and raise if one is committed.
Insert(t) ==
  /\ At(t, "insert")
  /\ \A u \in Inserted : ~ SamePosition(t, u)
  /\ IF Duplicate(t) THEN RollBack(t) ELSE Go(t, AfterInsert(t))
  /\ UNCHANGED <<database, clock, lock, control, fills>>

\* Mutant: the status is advanced whatever the order type.
Commit_Opens(t) ==
  /\ At(t, "commit")
  /\ row' = [row EXCEPT ![t] = "open"]
  /\ stamp' = [stamp EXCEPT ![req[t].safety] = req[t].at]
  /\ Go(t, "committed")
  /\ UNCHANGED <<old, clock, lock, control, fills>>

\* A limit order: the row stays pending, and get_db commits.
Commit(t) ==
  /\ At(t, "commit")
  /\ row' = [row EXCEPT ![t] = "pending"]
  /\ stamp' = [stamp EXCEPT ![req[t].safety] = req[t].at]
  /\ Go(t, "committed")
  /\ UNCHANGED <<old, clock, lock, control, fills>>

\* A check between two steps refuses the trade (an unknown market, the gates
\* and validators, a pause, the planner), or the database gives up on a
\* statement (statement_timeout).
Refused(t) ==
  /\ req[t].pc \in {"safety", "check", "insert", "commit", "execute", "safe"}
  /\ RollBack(t)
  /\ UNCHANGED <<database, clock, lock, control, fills>>

-----------------------------------------------------------------------------
(* ExecutionService.create_trade_execution, submit_intent *)

\* ControlPlane.is_trading_enabled: Redis answers with a str, which never
\* equals b"false"; the process's own flag counts when Redis does not answer.
IsTradingEnabled(answer) == IF answer THEN TRUE ELSE enabled.local

\* Mutant: only the shared set of paused strategies is consulted.
IsStrategyPaused_RedisOnly(s, answer) == answer /\ s \in paused.redis

\* ControlPlane.is_strategy_paused.
IsStrategyPaused(s, answer) == s \in paused.local \/ (answer /\ s \in paused.redis)

\* create_trade_execution's check, the only one that is given the trade.  (A
\* market is never found paused: the trade holds its UUID, the set its text.)
CheckPause(t) ==
  /\ At(t, "execute")
  /\ \E answer \in BOOLEAN :
       IF IsStrategyPaused(req[t].agent, answer) THEN RollBack(t) ELSE Go(t, "safe")
  /\ UNCHANGED <<database, clock, lock, control, fills>>

\* submit_intent's check.
CheckSafety(t) ==
  /\ At(t, "safe")
  /\ \E answer \in BOOLEAN :
       IF IsTradingEnabled(answer) THEN Go(t, "lock") ELSE RollBack(t)
  /\ UNCHANGED <<database, clock, lock, control, fills>>

AcquireLock(t) ==
  /\ At(t, "lock")
  /\ lock[req[t].market] = Nobody
  /\ lock' = [lock EXCEPT ![req[t].market] = t]
  /\ Go(t, "recheck")
  /\ UNCHANGED <<database, clock, control, fills>>

Release(t) == lock' = [lock EXCEPT ![req[t].market] = Nobody]

\* Mutant: the lock is taken by hand and kept when the recheck raises.
KillSwitchRecheck_KeepsLock(t) ==
  /\ At(t, "recheck")
  /\ \E answer \in BOOLEAN :
       IF IsTradingEnabled(answer) THEN Go(t, "submit") ELSE RollBack(t)
  /\ UNCHANGED <<database, clock, lock, control, fills>>

\* It is called without the trade, so a pause is not looked at again, and no
\* risk breaker is ever active (their checks return False).
KillSwitchRecheck(t) ==
  /\ At(t, "recheck")
  /\ \E answer \in BOOLEAN :
       IF IsTradingEnabled(answer)
       THEN Go(t, "submit") /\ UNCHANGED lock
       ELSE RollBack(t) /\ Release(t)
  /\ UNCHANGED <<database, clock, control, fills>>

\* PaperExchangeAdapter.submit_order fills the order at once; FillHandler
\* publishes the fill before anything is committed.
Submit(t) ==
  /\ At(t, "submit")
  /\ fills' = fills \cup {t}
  /\ Release(t)
  /\ Go(t, "authorize")
  /\ UNCHANGED <<database, clock, control>>

\* ADAPTER_TIMEOUT cancels the submission, before or after that publication.
SubmitTimeout(t) ==
  /\ At(t, "submit")
  /\ fills' \in {fills, fills \cup {t}}
  /\ Release(t)
  /\ Go(t, "authorize")
  /\ UNCHANGED <<database, clock, control>>

\* `ExecutionPermission.BUILD` raises NameError.
Authorize(t) ==
  /\ At(t, "authorize")
  /\ RollBack(t)
  /\ UNCHANGED <<database, clock, lock, control, fills>>

-----------------------------------------------------------------------------
(* The operators' endpoints, the periodic task, a restart *)

\* ControlPlane.set_trading_enabled; a failure to write Redis is ignored.
SetTradingEnabled(b) ==
  /\ enabled' \in {[local |-> b, redis |-> r] : r \in {b, enabled.redis}}
  /\ UNCHANGED <<req, database, clock, lock, paused, late, fills>>

\* ControlPlane.pause_strategy: the process's own set, and Redis if it answers.
PauseStrategy(s) ==
  /\ \E reached \in SUBSET {s} :
       paused' = [local |-> paused.local \cup {s}, redis |-> paused.redis \cup reached]
  /\ UNCHANGED <<req, database, clock, lock, enabled, late, fills>>

\* ControlPlane.resume_strategy.
ResumeStrategy(s) ==
  /\ \E reached \in SUBSET {s} :
       paused' = [local |-> paused.local \ {s}, redis |-> paused.redis \ reached]
  /\ late' = {t \in late : req[t].pc # "done" /\ req[t].agent # s}
  /\ UNCHANGED <<req, database, clock, lock, enabled, fills>>

\* Mutant: the rows are deleted, and the trades with them forgotten.
EmergencyStop_Deletes ==
  /\ row' = [t \in Trades |-> IF t \in Active THEN "none" ELSE row[t]]
  /\ UNCHANGED <<req, old, stamp, clock, lock, control, fills>>

\* TradeService.emergency_stop.  Its flag dies with the request's service.
EmergencyStop ==
  /\ row' = [t \in Trades |-> IF t \in Active THEN "cancelled" ELSE row[t]]
  /\ UNCHANGED <<req, old, stamp, clock, lock, control, fills>>

GrowOld(t) ==
  /\ t \in Active \ old
  /\ old' = old \cup {t}
  /\ UNCHANGED <<req, row, stamp, clock, lock, control, fills>>

\* Mutant: only trades that have been filled are looked for.
CancelStale_OpenOnly ==
  /\ row' = [t \in Trades |-> IF t \in old /\ row[t] = "open" THEN "cancelled" ELSE row[t]]
  /\ UNCHANGED <<req, old, stamp, clock, lock, control, fills>>

\* A pass of _periodic_pel_recovery.
CancelStale ==
  /\ row' = [t \in Trades |-> IF t \in Active \cap old THEN "cancelled" ELSE row[t]]
  /\ UNCHANGED <<req, old, stamp, clock, lock, control, fills>>

\* Requests and locks are lost; the flag of the process is TRUE again.
Restart ==
  /\ req' = [t \in Trades |-> IF req[t].pc \in {"new", "committed"} THEN req[t] ELSE Done]
  /\ lock' = [m \in Markets |-> Nobody]
  /\ enabled' = [enabled EXCEPT !.local = TRUE]
  /\ paused' = [paused EXCEPT !.local = {}]
  /\ late' = {}
  /\ UNCHANGED <<database, clock, fills>>

-----------------------------------------------------------------------------
Step(t) ==
  \/ UpdateSafety(t) \/ CheckLimits(t) \/ Insert(t) \/ Commit(t) \/ Refused(t)
  \/ CheckPause(t) \/ CheckSafety(t) \/ AcquireLock(t) \/ KillSwitchRecheck(t)
  \/ Submit(t) \/ SubmitTimeout(t) \/ Authorize(t)

Next ==
  \/ \E t \in Trades : Step(t) \/ GrowOld(t)
  \/ \E t \in Trades, m \in Markets, o \in Outcomes, k \in Kinds,
       s \in Strategies : Arrive(t, m, o, k, s)
  \/ \E b \in BOOLEAN : SetTradingEnabled(b)
  \/ \E s \in Strategies : PauseStrategy(s) \/ ResumeStrategy(s)
  \/ EmergencyStop \/ CancelStale \/ Restart

Spec == Init /\ [][Next]_vars

\* A request goes on whenever it can (the statement timeout ends what would
\* wait for ever), time passes, and the periodic task runs every two minutes
\* as long as the mode allows recovery.
FairSpec ==
  /\ Spec
  /\ \A t \in Trades : WF_vars(Step(t)) /\ WF_vars(GrowOld(t))
  /\ WF_vars(CancelStale)

-----------------------------------------------------------------------------
Steps == {"safety", "check", "insert", "commit", "committed", "execute", "safe", "lock",
          "recheck", "submit", "authorize"}
Requests == [pc : Steps, market : Markets, outcome : Outcomes, kind : Kinds,
             agent : Strategies, at : Nat, safety : Rows]

\* Statuses are the ones create_trade, emergency_stop and the timeout write:
\* with every market order rolled back nothing is ever open or closed.
TypeOK ==
  /\ req \in [Trades -> {New, Done} \cup Requests]
  /\ row \in [Trades -> {"none", "pending", "cancelled"}]
  /\ old \subseteq Trades
  /\ stamp \in [Rows -> Nat]
  /\ clock \in Nat
  /\ lock \in [Markets -> Trades \cup {Nobody}]
  /\ enabled \in [local : BOOLEAN, redis : BOOLEAN]
  /\ paused \in [local : SUBSET Strategies, redis : SUBSET Strategies]
  /\ late \subseteq Trades
  /\ fills \subseteq Trades

\* Never more active trades than the limit, although the count is read long
\* before the insert and no statement locks it: the counter that every
\* approval updates serializes the requests.  This needs its row to exist,
\* so a database in which no trade was ever approved is excluded.
PositionLimit == stamp[Seed] > 0 => Cardinality(Active) <= MaxOpen

\* Two racing requests never both get a trade on the same outcome.
OneActivePerOutcome ==
  \A t, u \in Active : t # u => ~ SamePosition(t, u)

\* A request that comes while its strategy is paused sends no order as long as
\* the pause stands, even if Redis missed the pause or does not answer.
PauseBlocks == late \cap fills = {}

\* Whom a request waits for: for the safety_state row, for the index, for the
\* lock of the market.
WaitsFor(t, u) ==
  \/ At(t, "safety") /\ u \in Locking /\ req[u].safety = req[t].safety
  \/ At(t, "insert") /\ u \in Inserted /\ SamePosition(t, u)
  \/ At(t, "lock") /\ lock[req[t].market] = u

\* The lock of a market is held by the one request that is between the recheck
\* and the end of its submission, and requests never wait for one another in a
\* circle, although they hold rows and trades of an open transaction while they
\* wait for the lock.
NoCircularWait ==
  /\ \A m \in Markets, t \in Trades :
       lock[m] = t <=> (req[t].pc \in {"recheck", "submit"} /\ req[t].market = m)
  /\ \A S \in SUBSET Trades : S # {} => \E t \in S : \A u \in S : ~ WaitsFor(t, u)

\* The position of a request's trade.
Position(t) == <<req[t].market, req[t].outcome>>

Book == INSTANCE PositionBook WITH
          Positions <- Markets \X Outcomes, Limit <- MaxOpen,
          book <- [t \in Active |-> Position(t)],
          over <- {t \in Trades : row[t] = "cancelled"}, limited <- stamp[Seed] > 0

\* To whoever reads the trades, every request is one step that looks for a free
\* position and takes it, although it waits for the database, the control plane
\* and the exchange in between; no trade changes its position or comes back.
ImplementsBook == Book!Spec

\* Every request comes to its end: the row lock, the index and the market's
\* lock are never waited for in a cycle nor kept by a request that is gone.
RequestsEnd ==
  \A t \in Trades : (req[t].pc \in Steps) ~> (req[t].pc \in {"done", "committed"})

\* A pending trade does not occupy its outcome and its place under the limit
\* for ever: the recovery task cancels it.
PendingEnds == \A t \in Trades : (t \in Active) ~> (row[t] = "cancelled")

\* "When trading is disabled, execution must be blocked"
\* (test_protocol_enforcement.py): no order goes to the exchange while both
\* copies of the flag say that trading is disabled.
KillSwitchBlocks ==
  [][\A t \in Trades :
       (At(t, "recheck") /\ req'[t].pc = "submit") => enabled.local \/ enabled.redis]_vars

=============================================================================
