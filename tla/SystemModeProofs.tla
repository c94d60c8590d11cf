-------------------------- MODULE SystemModeProofs --------------------------
(***************************************************************************)
(* For any conditions, any step of time and any number of faults, restarts *)
(* and overrides: the mode is well typed, and a process that entered       *)
(* "protected" allows no trade for 120 seconds.                            *)
(***************************************************************************)
EXTENDS SystemMode, TLAPS

\* The strengthening of TradingResumesLate: once "protected" was entered, the
\* mode moves among three modes, and the time it has spent on the way down
\* bounds the time since that entry from below.
Damped ==
  quiet # NoEntry =>
    /\ mode \in {"normal", "degraded", "protected"}
    /\ elapsed # NoEntry
    /\ mode = "protected" => quiet >= elapsed
    /\ mode = "degraded"  => quiet >= 60 + elapsed \/ quiet >= 120
    /\ mode = "normal"    => quiet >= 120

Inv == TypeOK /\ Damped

\* The order of the three modes the evaluator proposes, and their waits.
LEMMA Tables ==
  /\ Rank["normal"] = 0 /\ Rank["degraded"] = 2 /\ Rank["protected"] = 3
  /\ MinimumDuration["degraded"] = 60 /\ MinimumDuration["protected"] = 60
BY DEF Rank, MinimumDuration

\* The evaluator never sees an emergency stop, so it proposes one of three.
LEMMA Proposals ==
  ASSUME NEW failed, NEW m, NEW w
  PROVE  ComputeMode(Reading(w, failed, m), m)
           \in {"normal", "degraded", "protected"}
<1> DEFINE r == Reading(w, failed, m)
<1>1. ~r.stop BY DEF Reading
<1> HIDE DEF r
<1>2. ComputeMode(r, m) \in {"normal", "degraded", "protected"}
  <2>1. CASE Critical(r, m) BY <1>1, <2>1 DEF ComputeMode
  <2>2. CASE ~Critical(r, m) /\ Warning(r, m) BY <1>1, <2>2 DEF ComputeMode
  <2>3. CASE ~Critical(r, m) /\ ~Warning(r, m) BY <1>1, <2>3 DEF ComputeMode
  <2> QED BY <2>1, <2>2, <2>3
<1> QED BY <1>2 DEF r

\* Hysteresis answers with the current mode, the target, or one step down.
LEMMA HysteresisRange ==
  ASSUME NEW m \in Modes, NEW e \in Int,
         NEW target \in {"normal", "degraded", "protected"}
  PROVE  Hysteresis(target, m, e) \in {m, "normal", "degraded", "protected"}
<1>1. CASE target = m BY <1>1 DEF Hysteresis
<1>2. CASE target # m /\ Rank[target] > Rank[m] BY <1>2 DEF Hysteresis
<1>3. CASE target # m /\ ~(Rank[target] > Rank[m]) BY <1>3 DEF Hysteresis
<1> QED BY <1>1, <1>2, <1>3

\* On the way down from "protected" every mode is held for its minimum
\* duration, and "normal" is only reached from "degraded".
LEMMA WayDown ==
  ASSUME NEW m \in {"normal", "degraded", "protected"},
         NEW e \in Nat, e # NoEntry,
         NEW target \in {"normal", "degraded", "protected"},
         Hysteresis(target, m, e) # m
  PROVE  /\ m = "protected" => Hysteresis(target, m, e) = "degraded" /\ e >= 60
         /\ m = "degraded" => \/ Hysteresis(target, m, e) = "protected"
                              \/ Hysteresis(target, m, e) = "normal" /\ e >= 60
         /\ m = "normal" => Hysteresis(target, m, e) \in {"degraded", "protected"}
<1>1. target # m BY Tables DEF Hysteresis
<1>2. CASE m = "protected" BY <1>1, <1>2, Tables DEF Hysteresis
<1>3. CASE m = "degraded" BY <1>1, <1>3, Tables DEF Hysteresis
<1>4. CASE m = "normal" BY <1>1, <1>4, Tables DEF Hysteresis
<1> QED BY <1>2, <1>3, <1>4

\* Time only lengthens a capped time, and leaves the missing entry missing.
LEMMA LaterFacts ==
  ASSUME NEW t \in {NoEntry} \cup 0..MaxElapsed
  PROVE  /\ Later(t) \in {NoEntry} \cup 0..MaxElapsed
         /\ Later(t) = NoEntry <=> t = NoEntry
         /\ t # NoEntry => Later(t) = IF t + Step > MaxElapsed
                                      THEN MaxElapsed ELSE t + Step
BY BoundsAssumption DEF Later, Capped, NoEntry

\* The initial states satisfy the invariant.
LEMMA InitInv == Init => Inv
<1> SUFFICES ASSUME Init PROVE Inv OBVIOUS
<1>1. override \in Modes \cup {NoMode} /\ persisted \in Modes \cup {NoMode}
  BY DEF Init, Modes
<1>2. inflight \in [Writers -> Modes \cup {NoMode}] BY DEF Init
<1>3. due \in BOOLEAN BY DEF Init
<1>4. faults \in 0..MaxFaults /\ restarts \in 0..MaxRestarts
  BY BoundsAssumption DEF Init
<1>5. TypeOK BY <1>1, <1>2, <1>3, <1>4 DEF Init, TypeOK, Modes
<1> QED BY <1>5 DEF Init, Inv, Damped

\* A Tick lengthens both times alike.
LEMMA TickInv == Inv /\ Tick => Inv'
<1> SUFFICES ASSUME Inv, Tick PROVE Inv' OBVIOUS
<1>1. elapsed' \in {NoEntry} \cup 0..MaxElapsed
      /\ quiet' \in {NoEntry} \cup 0..MaxElapsed
  BY LaterFacts DEF Inv, TypeOK, Tick
<1>2. due' \in BOOLEAN BY DEF Tick
<1>3. TypeOK' BY <1>1, <1>2 DEF Inv, TypeOK, Tick
<1>4. ASSUME quiet' # NoEntry
      PROVE  /\ mode \in {"normal", "degraded", "protected"}
             /\ elapsed' # NoEntry
             /\ mode = "protected" => quiet' >= elapsed'
             /\ mode = "degraded" => quiet' >= 60 + elapsed' \/ quiet' >= 120
             /\ mode = "normal" => quiet' >= 120
  <2>1. quiet \in {NoEntry} \cup 0..MaxElapsed
        /\ elapsed \in {NoEntry} \cup 0..MaxElapsed
    BY DEF Inv, TypeOK
  <2>2. quiet' = Later(quiet) /\ elapsed' = Later(elapsed) BY DEF Tick
  <2>3. quiet # NoEntry BY <1>4, <2>1, <2>2, LaterFacts
  <2>4. /\ mode \in {"normal", "degraded", "protected"}
        /\ elapsed # NoEntry
        /\ mode = "protected" => quiet >= elapsed
        /\ mode = "degraded" => quiet >= 60 + elapsed \/ quiet >= 120
        /\ mode = "normal" => quiet >= 120
    BY <2>3 DEF Inv, Damped
  <2>5. /\ quiet \in 0..MaxElapsed /\ elapsed \in 0..MaxElapsed
        /\ quiet' = IF quiet + Step > MaxElapsed THEN MaxElapsed ELSE quiet + Step
        /\ elapsed' = IF elapsed + Step > MaxElapsed THEN MaxElapsed
                      ELSE elapsed + Step
    BY <2>1, <2>2, <2>3, <2>4, LaterFacts
  <2>6. elapsed' # NoEntry BY <2>5, BoundsAssumption DEF NoEntry
  <2> QED BY <2>4, <2>5, <2>6, BoundsAssumption
<1>5. Damped' BY <1>4 DEF Damped, Tick
<1> QED BY <1>3, <1>5 DEF Inv

\* A turn of the evaluator, with whatever probes failed.
LEMMA EvaluateInv ==
  ASSUME Inv, NEW failed, EvaluateWith(failed), faults' \in 0..MaxFaults
  PROVE  Inv'
<1> DEFINE proposed == ComputeMode(Reading(world, failed, mode), mode)
           next == Hysteresis(proposed, mode, elapsed)
<1>1. proposed \in {"normal", "degraded", "protected"} BY Proposals
<1> HIDE DEF proposed
<1>2. elapsed \in Int /\ mode \in Modes BY BoundsAssumption DEF Inv, TypeOK, NoEntry
<1>3. next \in {mode, "normal", "degraded", "protected"}
  BY <1>1, <1>2, HysteresisRange
<1>4. CASE override = NoMode /\ next # mode /\ Transition(next)
  <2>1. next \in Modes /\ next \in {"normal", "degraded", "protected"}
    BY <1>3, <1>4 DEF Modes
  <2>2. mode' = next /\ elapsed' = 0
        /\ quiet' = (IF next = "protected" THEN 0 ELSE quiet)
    BY <1>4 DEF Transition
  <2>3. inflight' \in [Writers -> Modes \cup {NoMode}]
    BY <1>4, <2>1 DEF Transition, Writing, Inv, TypeOK
  <2>4. due' \in BOOLEAN BY DEF EvaluateWith
  <2>5. TypeOK'
    <3>1. /\ override' \in Modes \cup {NoMode}
          /\ persisted' \in Modes \cup {NoMode}
          /\ world' \in Worlds
          /\ restarts' \in 0..MaxRestarts
      BY DEF EvaluateWith, Inv, TypeOK
    <3>2. elapsed' \in 0..MaxElapsed /\ quiet' \in {NoEntry} \cup 0..MaxElapsed
      BY <2>2, BoundsAssumption DEF Inv, TypeOK
    <3> QED BY <2>1, <2>2, <2>3, <2>4, <3>1, <3>2 DEF TypeOK
  <2>6. CASE next = "protected"
    <3> HIDE DEF next
    <3> QED BY <2>2, <2>5, <2>6 DEF Inv, Damped, NoEntry
  <2>7. CASE next # "protected" /\ quiet = NoEntry
    <3> HIDE DEF next
    <3>1. quiet' = NoEntry BY <2>2, <2>7
    <3> QED BY <2>5, <3>1 DEF Inv, Damped
  <2>8. CASE next # "protected" /\ quiet # NoEntry
    <3>1. /\ mode \in {"normal", "degraded", "protected"}
          /\ elapsed # NoEntry
          /\ mode = "protected" => quiet >= elapsed
          /\ mode = "degraded" => quiet >= 60 + elapsed \/ quiet >= 120
          /\ mode = "normal" => quiet >= 120
      BY <2>8 DEF Inv, Damped
    <3>2. elapsed \in Nat /\ quiet \in Nat
      BY <2>8, <3>1, BoundsAssumption DEF Inv, TypeOK
    <3>3. /\ mode = "protected" => next = "degraded" /\ elapsed >= 60
          /\ mode = "degraded" => next = "normal" /\ elapsed >= 60
          /\ mode = "normal" => next = "degraded"
      BY <1>1, <1>4, <2>8, <3>1, <3>2, WayDown
    <3>4. /\ next = "degraded" => quiet >= 60
          /\ next = "normal" => quiet >= 120
      BY <3>1, <3>2, <3>3
    <3> HIDE DEF next
    <3>5. mode' \in {"normal", "degraded"} /\ elapsed' = 0 /\ quiet' = quiet
      BY <2>1, <2>2, <2>8
    <3>6. mode' = "degraded" => quiet' >= 60 + elapsed'
      BY <2>2, <3>2, <3>4, <3>5
    <3>7. mode' = "normal" => quiet' >= 120
      BY <2>2, <3>2, <3>4, <3>5
    <3> QED BY <2>5, <3>5, <3>6, <3>7 DEF Inv, Damped, NoEntry
  <2> QED BY <2>6, <2>7, <2>8
<1>5. CASE UNCHANGED <<mode, elapsed, inflight, quiet>>
  <2>1. due' \in BOOLEAN BY DEF EvaluateWith
  <2>2. TypeOK' BY <1>5, <2>1 DEF EvaluateWith, Inv, TypeOK
  <2>3. Damped' BY <1>5 DEF Inv, Damped
  <2> QED BY <2>2, <2>3 DEF Inv
<1> QED BY <1>4, <1>5 DEF EvaluateWith, proposed

\* The steps that leave the mode and both times alone.
LEMMA QuietSteps ==
  ASSUME Inv, UNCHANGED <<mode, elapsed, quiet>>, TypeOK'
  PROVE  Inv'
BY DEF Inv, Damped

\* Every step keeps it.
LEMMA NextInv == Inv /\ [Next]_vars => Inv'
<1> SUFFICES ASSUME Inv, [Next]_vars PROVE Inv' OBVIOUS
<1> USE DEF Inv
<1>1. CASE Tick BY <1>1, TickInv
<1>2. CASE Sense
  <2>1. TypeOK' BY <1>2 DEF Sense, TypeOK
  <2> QED BY <1>2, <2>1, QuietSteps DEF Sense
<1>3. CASE Evaluate
  <2>1. faults' \in 0..MaxFaults BY <1>3 DEF Evaluate, TypeOK
  <2> QED BY <1>3, <2>1, EvaluateInv DEF Evaluate
<1>4. CASE EvaluateBlind
  <2>1. faults' \in 0..MaxFaults BY <1>4, BoundsAssumption DEF EvaluateBlind, TypeOK
  <2> QED BY <1>4, <2>1, EvaluateInv DEF EvaluateBlind
<1>5. ASSUME NEW by \in Writers, Persisted(by) PROVE Inv'
  <2>1. inflight[by] \in Modes BY <1>5 DEF Persisted, TypeOK
  <2>2. inflight' \in [Writers -> Modes \cup {NoMode}]
    BY <1>5 DEF Persisted, Writing, TypeOK
  <2>3. TypeOK' BY <1>5, <2>1, <2>2 DEF Persisted, TypeOK
  <2> QED BY <1>5, <2>3, QuietSteps DEF Persisted
<1>6. ASSUME NEW by \in Writers, PersistFails(by) PROVE Inv'
  <2>1. faults' \in 0..MaxFaults BY <1>6, BoundsAssumption DEF PersistFails, TypeOK
  <2>2. inflight' \in [Writers -> Modes \cup {NoMode}]
    BY <1>6 DEF PersistFails, Writing, TypeOK
  <2>3. TypeOK' BY <1>6, <2>1, <2>2 DEF PersistFails, TypeOK
  <2> QED BY <1>6, <2>3, QuietSteps DEF PersistFails
<1>7. ASSUME NEW m \in Modes, SetManualOverride(m) PROVE Inv'
  <2>1. inflight' \in [Writers -> Modes \cup {NoMode}]
    BY <1>7 DEF SetManualOverride, Writing, TypeOK
  <2>2. TypeOK' BY <1>7, <2>1 DEF SetManualOverride, TypeOK
  <2> QED BY <1>7, <2>2, QuietSteps DEF SetManualOverride
<1>8. CASE OverrideEnds
  <2>1. TypeOK' BY <1>8 DEF OverrideEnds, TypeOK
  <2> QED BY <1>8, <2>1, QuietSteps DEF OverrideEnds
<1>9. CASE KeyExpires
  <2>1. TypeOK' BY <1>9 DEF KeyExpires, TypeOK
  <2> QED BY <1>9, <2>1, QuietSteps DEF KeyExpires
<1>10. CASE Restart
  <2>1. mode' \in Modes
    <3>1. PICK m \in Loaded : Boot(m) BY <1>10 DEF Restart
    <3>2. m \in Modes BY <3>1 DEF Loaded, TypeOK, Modes
    <3> QED BY <3>1, <3>2 DEF Boot
  <2>2. override' \in Modes \cup {NoMode} /\ persisted' \in Modes \cup {NoMode}
    BY <1>10 DEF Restart, TypeOK, Modes
  <2>3. inflight' \in [Writers -> Modes \cup {NoMode}] BY <1>10 DEF Restart, Boot
  <2>4. due' \in BOOLEAN BY <1>10 DEF Restart, Boot
  <2>5. restarts' \in 0..MaxRestarts
    BY <1>10, BoundsAssumption DEF Restart, TypeOK
  <2>6. elapsed' = NoEntry /\ quiet' = NoEntry BY <1>10 DEF Restart, Boot
  <2>7. TypeOK'
    BY <1>10, <2>1, <2>2, <2>3, <2>4, <2>5, <2>6 DEF Restart, TypeOK
  <2> QED BY <2>6, <2>7 DEF Damped
<1>11. CASE UNCHANGED vars BY <1>11 DEF vars, TypeOK, Damped
<1> QED BY <1>1, <1>2, <1>3, <1>4, <1>5, <1>6, <1>7, <1>8, <1>9, <1>10, <1>11
        DEF Next

\* The mode is always a member of the enum, and the rest well typed.
THEOREM TypeCorrect == Spec => []TypeOK
<1>1. Inv => TypeOK BY DEF Inv
<1> QED BY <1>1, InitInv, NextInv, PTL DEF Spec

\* No trade for 120 seconds after the process entered "protected", however
\* metrics, failed probes, overrides and Redis writes interleave.
THEOREM TradingResumesLateAlways == Spec => []TradingResumesLate
<1>1. Inv => TradingResumesLate
  BY DEF Inv, Damped, TradingResumesLate, CanExecuteTrades
<1> QED BY <1>1, InitInv, NextInv, PTL DEF Spec
=============================================================================
