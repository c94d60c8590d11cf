--------------------------- MODULE CircuitBreaker ---------------------------
(***************************************************************************)
(* core/circuit_breaker.py: the failure-window breaker that guards the     *)
(* persistence bridge.  The object is the record cb, time.monotonic() is   *)
(* the variable now.  The class's property `state` has a side effect (it   *)
(* turns an OPEN breaker HALF_OPEN), so reading it is an action.           *)
(***************************************************************************)
EXTENDS Integers, Sequences

CONSTANTS
  FailureThreshold,   \* failure_threshold
  WindowSeconds,      \* window_seconds
  RecoverySeconds,    \* recovery_seconds
  MaxTime             \* bound: the clock stops here

ASSUME BreakerConstants ==
  /\ FailureThreshold \in Nat \ {0}
  /\ WindowSeconds \in Nat \ {0}
  /\ RecoverySeconds \in Nat \ {0}
  /\ MaxTime \in Nat

VARIABLES cb, now

vars == <<cb, now>>

CircuitState == {"CLOSED", "OPEN", "HALF_OPEN"}

\* _last_open_time before the first opening: None, which is as falsy as 0.0.
NoTime == 0

Init ==
  /\ cb = [state |-> "CLOSED", failures |-> << >>, lastOpen |-> NoTime]
  /\ now = 1

Tick == now < MaxTime /\ now' = now + 1 /\ UNCHANGED cb

-----------------------------------------------------------------------------
CooledOff == cb.lastOpen # NoTime /\ now - cb.lastOpen >= RecoverySeconds

\* Mutant: the lazy flip forgets to test that the breaker is OPEN.
ReadState_AnyState ==
  /\ cb' = IF CooledOff THEN [cb EXCEPT !.state = "HALF_OPEN"] ELSE cb
  /\ UNCHANGED now

\* The property `state`, read by the consumer loop and by the stats endpoint.
ReadState ==
  /\ cb' = IF cb.state = "OPEN" /\ CooledOff
           THEN [cb EXCEPT !.state = "HALF_OPEN"] ELSE cb
  /\ UNCHANGED now

\* Mutant: a failure as old as the window is kept.
Kept_Inclusive(fs, time) ==
  LET kept[i \in 0 .. Len(fs)] ==
        IF i = 0 THEN << >>
        ELSE IF time - fs[i] <= WindowSeconds THEN Append(kept[i - 1], fs[i])
        ELSE kept[i - 1]
  IN  kept[Len(fs)]

\* The list comprehension of record_failure: what lies within the window.
Kept(fs, time) ==
  LET kept[i \in 0 .. Len(fs)] ==
        IF i = 0 THEN << >>
        ELSE IF time - fs[i] < WindowSeconds THEN Append(kept[i - 1], fs[i])
        ELSE kept[i - 1]
  IN  kept[Len(fs)]

\* The failures of the last WindowSeconds, and the one recorded now.
Recent == Append(Kept(cb.failures, now), now)

\* Mutant: no `_state != OPEN` test, every failure dates the opening anew.
Trips_EvenWhenOpen(fs) == Len(fs) >= FailureThreshold

\* record_failure opens the breaker, unless it is open already.
Trips(fs) == Len(fs) >= FailureThreshold /\ cb.state # "OPEN"

RecordFailure ==
  LET fs == Recent IN
  /\ cb' = IF Trips(fs)
           THEN [state |-> "OPEN", failures |-> fs, lastOpen |-> now]
           ELSE [cb EXCEPT !.failures = fs]
  /\ UNCHANGED now

\* Mutant: the failure window survives the closing.
RecordSuccess_KeepsFailures ==
  /\ cb' = IF cb.state = "HALF_OPEN" THEN [cb EXCEPT !.state = "CLOSED"] ELSE cb
  /\ UNCHANGED now

RecordSuccess ==
  /\ cb' = IF cb.state = "HALF_OPEN"
           THEN [cb EXCEPT !.state = "CLOSED", !.failures = << >>] ELSE cb
  /\ UNCHANGED now

Reset ==
  /\ cb' = [cb EXCEPT !.state = "CLOSED", !.failures = << >>]
  /\ UNCHANGED now

Next == Tick \/ ReadState \/ RecordFailure \/ RecordSuccess \/ Reset

Spec == Init /\ [][Next]_vars

\* The consumer loop reads `state` at least every few seconds for as long as
\* it runs, and time passes.
FairSpec == Spec /\ WF_vars(Tick) /\ WF_vars(ReadState)

-----------------------------------------------------------------------------
\* The state is a member of the enum and the window holds times since start.
TypeOK ==
  /\ cb \in [state : CircuitState, failures : Seq(Nat), lastOpen : Nat]
  /\ now \in Nat

\* A breaker in full service has fewer than FailureThreshold failures on
\* record: record_failure trips it in time, and record_success and reset
\* leave no old failure behind that would let the next one trip it alone.
ClosedBelowThreshold == cb.state = "CLOSED" => ~ (Len(cb.failures) >= FailureThreshold)

\* Failures add up to a trip only if they come close together: whatever is on
\* record when record_failure compares its number with the threshold lies
\* within one window.
WindowIsRecent ==
  \A i, j \in 1 .. Len(cb.failures) : cb.failures[j] - cb.failures[i] < WindowSeconds

\* An open breaker does not stay open, however many more failures the other
\* tasks of the bridge record meanwhile (the cool-off is not prolonged).
OpenEnds ==
  (cb.state = "OPEN" /\ cb.lastOpen + RecoverySeconds <= MaxTime)
     ~> (cb.state # "OPEN")

\* The abstract breaker, with the state as its only variable.
Contract == INSTANCE BreakerContract WITH state <- cb.state

\* The breaker keeps the contract its user relies on: every call maps to a
\* step of the abstract breaker or changes nothing it shows.
ImplementsContract == Contract!Spec

=============================================================================
