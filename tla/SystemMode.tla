----------------------------- MODULE SystemMode -----------------------------
(***************************************************************************)
(* The system mode: core/system_mode.py (ModeManager), core/mode_context.py*)
(* (the thresholds of each mode), the evaluator loop of main.py            *)
(* (_periodic_mode_evaluator), the manual override of api/system.py and the*)
(* restart in main.py's lifespan.                                          *)
(*                                                                         *)
(* Every 15 seconds the evaluator reads the health metrics, adjusts them by*)
(* the sensitivity of the current mode, and lets the manager move to the   *)
(* mode the thresholds of the CURRENT mode propose, damped by hold times.  *)
(* The mode gates trading, writing and processing.  It is mirrored in a    *)
(* Redis key that a restarted process reads back.                          *)
(***************************************************************************)
EXTENDS Integers

CONSTANTS Worlds,       \* the true conditions: see WorldsAssumption
          Step,         \* seconds that pass in one Tick
          MaxElapsed,   \* elapsed times are not told apart above this
          MaxFaults,    \* bound on failed probes and failed Redis writes
          MaxRestarts,  \* bound on restarts of the process
          ShadowMode    \* settings.SHADOW_MODE

\* The order of the SystemMode enum, from the least to the most guarded.
Modes == {"normal", "shadow", "degraded", "protected", "read_only",
          "emergency_stop"}

Rank == [normal |-> 0, shadow |-> 1, degraded |-> 2, protected |-> 3,
         read_only |-> 4, emergency_stop |-> 5]

NoMode == "none"    \* Python's None: no override, no key in Redis, no write
NoEntry == -1       \* the mode has no entry in _entry_time

Writers == {"evaluator", "operator"}
Probes == {"db", "mem", "pending", "stream"}   \* each in a try of its own

ASSUME WorldsAssumption ==
  Worlds \subseteq [db : 0..100, mem : Nat, stream : 0..100, pending : Nat,
                    drawdown : 0..100]

ASSUME BoundsAssumption ==
  /\ Step \in Nat \ {0}
  /\ MaxElapsed \in Nat /\ MaxElapsed >= 120
  /\ MaxFaults \in Nat /\ MaxRestarts \in Nat
  /\ ShadowMode \in BOOLEAN

VARIABLES mode,       \* ModeManager._mode, which the gates read
          elapsed,    \* time since _entry_time[_mode], or NoEntry
          override,   \* the mode of ModeManager._override, or NoMode
          persisted,  \* the mode under the Redis key system:mode, or NoMode
          inflight,   \* the Redis write each writer is awaiting, or NoMode
          world,      \* the true conditions the probes look at
          due,        \* the evaluator's sleep is over
          faults, restarts,
          quiet       \* history: time since this process last entered
                      \* "protected", or NoEntry

vars == <<mode, elapsed, override, persisted, inflight, world, due, faults,
          restarts, quiet>>

-----------------------------------------------------------------------------
(* The thresholds of mode_context.py, in percent. *)

Context ==
  [normal    |-> [dbWarn |-> 70, dbCrit |-> 85, memCrit |-> 85,
                  streamWarn |-> 70, streamCrit |-> 90, sensitivity |-> 100],
   shadow    |-> [dbWarn |-> 70, dbCrit |-> 85, memCrit |-> 85,
                  streamWarn |-> 70, streamCrit |-> 90, sensitivity |-> 100],
   degraded  |-> [dbWarn |-> 80, dbCrit |-> 90, memCrit |-> 90,
                  streamWarn |-> 80, streamCrit |-> 95, sensitivity |-> 60],
   protected |-> [dbWarn |-> 85, dbCrit |-> 95, memCrit |-> 95,
                  streamWarn |-> 90, streamCrit |-> 98, sensitivity |-> 30],
   read_only |-> [dbWarn |-> 100, dbCrit |-> 100, memCrit |-> 100,
                  streamWarn |-> 100, streamCrit |-> 100, sensitivity |-> 0],
   emergency_stop |->
                 [dbWarn |-> 100, dbCrit |-> 100, memCrit |-> 100,
                  streamWarn |-> 100, streamCrit |-> 100, sensitivity |-> 0]]

HoldTime == [normal |-> 0, shadow |-> 0, degraded |-> 60, protected |-> 120,
             read_only |-> 300, emergency_stop |-> 10]

MinimumDuration == [normal |-> 120, shadow |-> 60, degraded |-> 60,
                    protected |-> 60, read_only |-> 30, emergency_stop |-> 10]

\* Mutant of Reading: every metric is damped, the structural ones included.
Reading_DampsAll(w, failed, m) ==
  LET s == Context[m].sensitivity
      Probed(p, x) == IF p \in failed THEN 0 ELSE x
  IN [stop |-> FALSE, breaker |-> FALSE, drawdown |-> 0,
      db |-> Probed("db", w.db) * s, mem |-> Probed("mem", w.mem) * s,
      pending |-> Probed("pending", w.pending) * s,
      stream |-> Probed("stream", w.stream) * s]

(* What the evaluator hands to the manager, in hundredths: structural       *)
(* metrics as they are, behavioural ones (pending, stream) times the        *)
(* sensitivity of the current mode.  A probe that raises reads as 0.  Three *)
(* metrics are constants of the shipped code: nothing supplies              *)
(* emergency_stop or kill_switch, get_bridge_circuit_state does not exist   *)
(* (its import fails, the breaker reads closed), and pipeline_metrics has   *)
(* no key portfolio_drawdown (the drawdown reads 0).                        *)
Reading(w, failed, m) ==
  LET Probed(p, x) == IF p \in failed THEN 0 ELSE x
      s == Context[m].sensitivity
  IN [stop |-> FALSE, breaker |-> FALSE, drawdown |-> 0,
      db |-> Probed("db", w.db) * 100, mem |-> Probed("mem", w.mem) * 100,
      pending |-> Probed("pending", w.pending) * s,
      stream |-> Probed("stream", w.stream) * s]

(* _compute_mode_from_metrics, by the thresholds of the current mode m. *)
Critical(r, m) ==
  \/ r.breaker
  \/ r.db >= 100 * Context[m].dbCrit
  \/ r.mem >= 100 * Context[m].memCrit
  \/ r.drawdown > 15 * 100
  \/ r.stream >= 100 * Context[m].streamCrit

Warning(r, m) ==
  \/ r.db >= 100 * Context[m].dbWarn
  \/ r.pending > 100 * 500
  \/ r.stream >= 100 * Context[m].streamWarn

ComputeMode(r, m) ==
  CASE r.stop                               -> "emergency_stop"
    [] ~r.stop /\ Critical(r, m)            -> "protected"
    [] ~r.stop /\ ~Critical(r, m) /\ Warning(r, m) -> "degraded"
    [] OTHER                                -> "normal"

\* Mutant of Hysteresis: recovery may skip the intermediate mode.
Hysteresis_Direct(target, m, e) ==
  CASE target = m -> m
    [] Rank[target] > Rank[m] /\ target # "emergency_stop" ->
         IF e # NoEntry /\ e < HoldTime[m] THEN m ELSE target
    [] Rank[target] < Rank[m] /\ e # NoEntry ->
         IF e < MinimumDuration[m] THEN m ELSE target
    [] OTHER -> target

\* Mutant of Hysteresis: a mode without an entry time is never left downwards.
Hysteresis_NoEntryHolds(target, m, e) ==
  CASE target = m -> m
    [] Rank[target] > Rank[m] /\ target # "emergency_stop" ->
         IF e # NoEntry /\ e < HoldTime[m] THEN m ELSE target
    [] Rank[target] < Rank[m] ->
         IF e = NoEntry \/ e < MinimumDuration[m] THEN m
         ELSE IF m = "protected" THEN "degraded"
         ELSE target
    [] OTHER -> target

(* _apply_hysteresis: where a proposal leads from mode m after e seconds.   *)
(* Upwards the mode must have been held for its hold time, except to        *)
(* emergency_stop; downwards for its minimum duration, and from "protected" *)
(* only to "degraded".  A mode loaded at startup has no entry time and is   *)
(* left at once, straight to the target.                                    *)
Hysteresis(target, m, e) ==
  CASE target = m -> m
    [] Rank[target] > Rank[m] /\ target # "emergency_stop" ->
         IF e # NoEntry /\ e < HoldTime[m] THEN m ELSE target
    [] Rank[target] < Rank[m] /\ e # NoEntry ->
         IF e < MinimumDuration[m] THEN m
         ELSE IF m = "protected" THEN "degraded"
         ELSE IF m = "degraded" THEN "normal"
         ELSE target
    [] OTHER -> target

(* The gates the rest of the system asks. *)
CanExecuteTrades == mode = "normal"
IsShadow == mode = "shadow"

-----------------------------------------------------------------------------
Capped(t) == IF t > MaxElapsed THEN MaxElapsed ELSE t
Later(t) == IF t = NoEntry THEN NoEntry ELSE Capped(t + Step)

(* _persist: the SET of the Redis key is awaited by its writer. *)
Writing(by, m) == inflight' = [inflight EXCEPT ![by] = m]

Boot(m) ==
  /\ mode' = m
  /\ elapsed' = NoEntry /\ quiet' = NoEntry
  /\ inflight' = [by \in Writers |-> NoMode]
  /\ due' = FALSE

Init ==
  /\ mode = "normal"
  /\ elapsed = NoEntry /\ quiet = NoEntry
  /\ override = IF ShadowMode THEN "shadow" ELSE NoMode
  /\ persisted = override
  /\ inflight = [by \in Writers |-> NoMode]
  /\ world \in Worlds
  /\ due = FALSE
  /\ faults = 0 /\ restarts = 0

(* Time passes; the evaluator's asyncio.sleep(15) is over. *)
Tick ==
  /\ elapsed' = Later(elapsed) /\ quiet' = Later(quiet)
  /\ due' = TRUE
  /\ UNCHANGED <<mode, override, persisted, inflight, world, faults, restarts>>

(* The conditions change. *)
Sense ==
  /\ world' \in Worlds \ {world}
  /\ UNCHANGED <<mode, elapsed, override, persisted, inflight, due, faults,
                 restarts, quiet>>

(* _transition: the new mode counts from now and is written to Redis. *)
Transition(target) ==
  /\ mode' = target
  /\ elapsed' = 0
  /\ quiet' = IF target = "protected" THEN 0 ELSE quiet
  /\ Writing("evaluator", target)

(* One turn of the evaluator.  A valid override ends evaluate() early. *)
EvaluateWith(failed) ==
  LET proposed == ComputeMode(Reading(world, failed, mode), mode)
      next     == Hysteresis(proposed, mode, elapsed)
  IN /\ due /\ inflight["evaluator"] = NoMode
     /\ due' = FALSE
     /\ \/ /\ override = NoMode /\ next # mode
           /\ Transition(next)
        \/ /\ override # NoMode \/ next = mode
           /\ UNCHANGED <<mode, elapsed, inflight, quiet>>
     /\ UNCHANGED <<override, persisted, world, restarts>>

Evaluate == EvaluateWith({}) /\ UNCHANGED faults

EvaluateBlind ==
  /\ faults < MaxFaults /\ faults' = faults + 1
  /\ \E failed \in SUBSET Probes \ {{}} : EvaluateWith(failed)

(* The awaited write reaches Redis, or raises and is only logged. *)
Persisted(by) ==
  /\ inflight[by] # NoMode
  /\ persisted' = inflight[by]
  /\ Writing(by, NoMode)
  /\ UNCHANGED <<mode, elapsed, override, world, due, faults, restarts, quiet>>

PersistFails(by) ==
  /\ inflight[by] # NoMode
  /\ faults < MaxFaults /\ faults' = faults + 1
  /\ Writing(by, NoMode)
  /\ UNCHANGED <<mode, elapsed, override, persisted, world, due, restarts,
                 quiet>>

(* POST /mode: the override takes effect at once, then is persisted. *)
SetManualOverride(m) ==
  /\ inflight["operator"] = NoMode
  /\ override' = m
  /\ Writing("operator", m)
  /\ UNCHANGED <<mode, elapsed, persisted, world, due, faults, restarts, quiet>>

(* DELETE /mode, or the ttl of the override runs out: the key in Redis      *)
(* keeps the mode of the override.                                          *)
OverrideEnds ==
  /\ override # NoMode /\ override' = NoMode
  /\ UNCHANGED <<mode, elapsed, persisted, inflight, world, due, faults,
                 restarts, quiet>>

(* The key expires an hour after it was written (external: Redis). *)
KeyExpires ==
  /\ persisted # NoMode /\ persisted' = NoMode
  /\ UNCHANGED <<mode, elapsed, override, inflight, world, due, faults,
                 restarts, quiet>>

\* Mutant of Loaded: load_from_redis without its "if raw" guard.
Loaded_Unguarded == {persisted}

(* load_from_redis: the mode under the key; without a key, or when Redis    *)
(* does not answer within 10 seconds, the manager stays "normal".           *)
Loaded == {"normal"} \cup ({persisted} \ {NoMode})

(* The process restarts: load_from_redis, then the shadow override, before  *)
(* any background task runs.  Overrides and entry times are lost.           *)
Restart ==
  /\ restarts < MaxRestarts /\ restarts' = restarts + 1
  /\ \E m \in Loaded : Boot(m)
  /\ override' = IF ShadowMode THEN "shadow" ELSE NoMode
  /\ persisted' \in IF ShadowMode THEN {"shadow", persisted} ELSE {persisted}
  /\ UNCHANGED <<world, faults>>

Next ==
  \/ Tick \/ Sense \/ Evaluate \/ EvaluateBlind
  \/ \E by \in Writers : Persisted(by) \/ PersistFails(by)
  \/ \E m \in Modes : SetManualOverride(m)
  \/ OverrideEnds \/ KeyExpires \/ Restart

Spec == Init /\ [][Next]_vars

(* Time passes, the evaluator runs again and its Redis calls return: each   *)
(* loop is a task of one event loop and Redis calls have a socket timeout.  *)
FairSpec ==
  /\ Spec
  /\ WF_vars(Tick) /\ WF_vars(Evaluate)
  /\ WF_vars(Persisted("evaluator"))

-----------------------------------------------------------------------------
(* The variables have the values the code can give them; in particular      *)
(* _mode is always a member of the enum.                                    *)
TypeOK ==
  /\ mode \in Modes
  /\ elapsed \in {NoEntry} \cup 0..MaxElapsed
  /\ quiet \in {NoEntry} \cup 0..MaxElapsed
  /\ override \in Modes \cup {NoMode}
  /\ persisted \in Modes \cup {NoMode}
  /\ inflight \in [Writers -> Modes \cup {NoMode}]
  /\ world \in Worlds
  /\ due \in BOOLEAN
  /\ faults \in 0..MaxFaults /\ restarts \in 0..MaxRestarts

(* Hysteresis: a process that entered "protected" does not allow trades     *)
(* again for at least 120 seconds (60 in protected, 60 in degraded),        *)
(* whatever the metrics, the overrides and the failed probes do.            *)
TradingResumesLate == CanExecuteTrades => quiet = NoEntry \/ quiet >= 120

(* A world below every threshold, and one critical under every context the  *)
(* manager escalates to.                                                    *)
Calm(w) == w.db < 70 /\ w.mem < 85 /\ w.stream < 70 /\ w.pending <= 500
Overloaded(w) == w.db >= 95 \/ w.mem >= 95

(* Once the metrics stay calm and no override is in force, trading comes    *)
(* back for good: no mode, not even one loaded from Redis, traps the system.*)
RecoversWhenCalm ==
  <>[](Calm(world) /\ override = NoMode) => <>[]CanExecuteTrades

(* Once the database pool or Redis memory stays critical and no override is *)
(* in force, the system settles in "protected": the looser thresholds of    *)
(* that mode do not let it out again.                                       *)
OverloadProtects ==
  <>[](Overloaded(world) /\ override = NoMode) => <>[](mode = "protected")

(* micro_capital_audit.md and test_protocol_enforcement.py: a drawdown      *)
(* beyond 15% stops all trading.                                            *)
DrawdownBlocks ==
  <>[](world.drawdown > 15 /\ override = NoMode) => <>[]~CanExecuteTrades

(* trade_service.py: "Shadow mode active. No trades may be created."  While *)
(* the shadow override of the configuration is in force, the gates agree.   *)
ShadowBlocksTrades == override = "shadow" => IsShadow
=============================================================================
