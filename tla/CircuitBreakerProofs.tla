----------------------- MODULE CircuitBreakerProofs -----------------------
(***************************************************************************)
(* For every threshold, window and cool-off: the breaker's failure window  *)
(* is consistent with its state, and its state follows BreakerContract.    *)
(***************************************************************************)
EXTENDS CircuitBreaker, NaturalsInduction, WellFoundedInduction, TLAPS

\* What the proofs need of TypeOK: the failure window stays opaque.
Shape ==
  /\ cb = [state |-> cb.state, failures |-> cb.failures, lastOpen |-> cb.lastOpen]
  /\ cb.state \in CircuitState

\* The record shape of the breaker object is kept by every operation.
LEMMA ShapeInvariant == Spec => []Shape
<1>1. Init => Shape
  BY DEF Init, Shape, CircuitState
<1>2. Shape /\ [Next]_vars => Shape'
  <2> SUFFICES ASSUME Shape, [Next]_vars PROVE Shape'
    OBVIOUS
  <2>1. CASE Tick BY <2>1 DEF Tick, Shape
  <2>2. CASE ReadState BY <2>2 DEF ReadState, Shape, CircuitState
  <2>3. CASE RecordFailure BY <2>3 DEF RecordFailure, Shape, CircuitState
  <2>4. CASE RecordSuccess BY <2>4 DEF RecordSuccess, Shape, CircuitState
  <2>5. CASE Reset BY <2>5 DEF Reset, Shape, CircuitState
  <2>6. CASE UNCHANGED vars BY <2>6 DEF vars, Shape
  <2> QED BY <2>1, <2>2, <2>3, <2>4, <2>5, <2>6 DEF Next
<1> QED BY <1>1, <1>2, PTL DEF Spec

\* A CLOSED breaker is below its threshold, for every threshold and window.
THEOREM ClosedBelowThresholdInvariant == Spec => []ClosedBelowThreshold
<1>1. Init => ClosedBelowThreshold
  BY BreakerConstants DEF Init, ClosedBelowThreshold
<1>2. Shape /\ ClosedBelowThreshold /\ [Next]_vars => ClosedBelowThreshold'
  <2> SUFFICES ASSUME Shape, ClosedBelowThreshold, [Next]_vars
               PROVE  ClosedBelowThreshold'
    OBVIOUS
  <2>1. CASE Tick BY <2>1 DEF Tick, ClosedBelowThreshold
  <2>2. CASE ReadState
    BY <2>2 DEF ReadState, Shape, ClosedBelowThreshold
  <2>3. CASE RecordFailure
    <3> DEFINE fs == Recent
    <3>1. CASE Trips(fs)
      BY <2>3, <3>1 DEF RecordFailure, ClosedBelowThreshold
    <3>2. CASE ~ Trips(fs)
      BY <2>3, <3>2 DEF RecordFailure, Trips, Shape, ClosedBelowThreshold
    <3> QED BY <3>1, <3>2
  <2>4. CASE RecordSuccess
    BY <2>4, BreakerConstants DEF RecordSuccess, Shape, ClosedBelowThreshold
  <2>5. CASE Reset
    BY <2>5, BreakerConstants DEF Reset, Shape, ClosedBelowThreshold
  <2>6. CASE UNCHANGED vars BY <2>6 DEF vars, ClosedBelowThreshold
  <2> QED BY <2>1, <2>2, <2>3, <2>4, <2>5, <2>6 DEF Next
<1> QED BY <1>1, <1>2, ShapeInvariant, PTL DEF Spec

\* The breaker implements the abstract contract: every step of the window
\* machine is a Trip, Probe, Heal or Reset of its state, or changes nothing.
THEOREM BreakerImplementsContract == Spec => ImplementsContract
<1>1. Init => Contract!Init
  BY DEF Init, Contract!Init
<1>2. Shape /\ [Next]_vars => [Contract!Next]_(cb.state)
  <2> SUFFICES ASSUME Shape, [Next]_vars PROVE [Contract!Next]_(cb.state)
    OBVIOUS
  <2> USE DEF Contract!Next
  <2>1. CASE Tick BY <2>1 DEF Tick
  <2>2. CASE ReadState BY <2>2 DEF ReadState, Shape, Contract!Probe
  <2>3. CASE RecordFailure
    BY <2>3 DEF RecordFailure, Trips, Shape, CircuitState, Contract!Trip
  <2>4. CASE RecordSuccess
    BY <2>4 DEF RecordSuccess, Shape, Contract!Heal
  <2>5. CASE Reset BY <2>5 DEF Reset, Shape, Contract!Reset
  <2>6. CASE UNCHANGED vars BY <2>6 DEF vars
  <2> QED BY <2>1, <2>2, <2>3, <2>4, <2>5, <2>6 DEF Next
<1> QED BY <1>1, <1>2, ShapeInvariant, PTL DEF Spec, ImplementsContract, Contract!Spec

-----------------------------------------------------------------------------
(***************************************************************************)
(* What the list comprehension of record_failure keeps, for a list of any  *)
(* length: by induction on the length, stated for sets of naturals.        *)
(***************************************************************************)
\* A set of naturals that is not empty has a least element.
LEMMA LeastNatural ==
  ASSUME NEW T \in SUBSET Nat, T # {}
  PROVE  \E x \in T : \A y \in T : x <= y
<1> DEFINE R == {ss \in Nat \X Nat : ss[1] < ss[2]}
<1>1. IsWellFoundedOn(R, Nat)
  BY Zenon, NatLessThanWellFounded DEF OpToRel
<1>2. \E x \in T : \A y \in T : ~ (<<y, x>> \in R)
  <2> HIDE DEF R
  <2> QED
    BY <1>1, WFMin
<1>3. \A x, y \in Nat : ~ (<<y, x>> \in R) => x <= y
  OBVIOUS
<1> HIDE DEF R
<1> QED
  BY <1>2, <1>3

\* Induction: a set that holds 0 and is closed under successors holds them all.
LEMMA SetInduction ==
  ASSUME NEW S \in SUBSET Nat, 0 \in S, \A n \in S : n + 1 \in S
  PROVE  S = Nat
<1> SUFFICES ASSUME Nat \ S # {} PROVE FALSE
  OBVIOUS
<1>1. PICK m \in Nat \ S : \A y \in Nat \ S : m <= y
  BY LeastNatural
<1>2. m # 0 /\ m - 1 \in Nat
  BY <1>1
<1>3. m - 1 \in S
  BY <1>1, <1>2
<1>4. m - 1 + 1 \in S
  BY <1>3
<1> QED
  BY <1>1, <1>4

\* One more element of the list: kept if it lies within the window.
Step(k, t, time) == IF time - t < WindowSeconds THEN Append(k, t) ELSE k

\* k[i] is what is kept of the first i elements of fs.
KeepsFirst(k, n, fs, time) ==
  k = [i \in 0 .. n |-> IF i = 0 THEN << >> ELSE Step(k[i - 1], fs[i], time)]

\* Failures that a list may keep.
Eligible(time) == {t \in Nat : time - t < WindowSeconds /\ t <= time}

\* The recursive definition has a solution for every length.
LEMMA KeepsFirstExists ==
  ASSUME NEW fs, NEW time
  PROVE  \A n \in Nat : \E k : KeepsFirst(k, n, fs, time)
<1> DEFINE S == {n \in Nat : \E k : KeepsFirst(k, n, fs, time)}
<1>1. 0 \in S
  <2>1. KeepsFirst([i \in 0 .. 0 |-> << >>], 0, fs, time)
    BY DEF KeepsFirst
  <2> QED
    BY <2>1
<1>2. ASSUME NEW n \in S PROVE n + 1 \in S
  <2>1. PICK k : KeepsFirst(k, n, fs, time)
    BY <1>2
  <2> DEFINE next == [i \in 0 .. n + 1 |-> IF i = n + 1 THEN Step(k[n], fs[n + 1], time) ELSE k[i]]
  <2>2. n \in Nat
    BY <1>2
  <2>3. \A i \in 0 .. n : k[i] = IF i = 0 THEN << >> ELSE Step(k[i - 1], fs[i], time)
    BY <2>1 DEF KeepsFirst
  <2>4. \A i \in 0 .. n + 1 :
          next[i] = IF i = 0 THEN << >> ELSE Step(next[i - 1], fs[i], time)
    <3> SUFFICES ASSUME NEW i \in 0 .. n + 1
                 PROVE  next[i] = IF i = 0 THEN << >> ELSE Step(next[i - 1], fs[i], time)
      OBVIOUS
    <3>1. CASE i = n + 1
      BY <2>2, <3>1
    <3>2. CASE i # n + 1
      <4>1. i \in 0 .. n /\ (i # 0 => i - 1 \in 0 .. n)
        BY <2>2, <3>2
      <4>2. next[i] = k[i] /\ (i # 0 => next[i - 1] = k[i - 1])
        BY <2>2, <4>1
      <4> QED
        BY <2>3, <4>1, <4>2
    <3> QED
      BY <3>1, <3>2
  <2>5. next = [i \in 0 .. n + 1 |->
                  IF i = 0 THEN << >> ELSE Step(next[i - 1], fs[i], time)]
    BY <2>4
  <2>6. KeepsFirst(next, n + 1, fs, time)
    <3> HIDE DEF next
    <3> QED BY <2>5 DEF KeepsFirst
  <2> QED
    BY <2>2, <2>6
<1>3. S = Nat
  <2> HIDE DEF S
  <2>1. S \in SUBSET Nat BY DEF S
  <2> QED BY <1>1, <1>2, <2>1, SetInduction
<1> QED
  BY <1>3

\* Everything kept is a failure of the list within the window.
LEMMA KeptFacts ==
  ASSUME NEW fs \in Seq(Nat), NEW time \in Nat, \A i \in 1 .. Len(fs) : fs[i] <= time
  PROVE  Kept(fs, time) \in Seq(Eligible(time))
<1> DEFINE n == Len(fs)
           k == CHOOSE k : KeepsFirst(k, n, fs, time)
           S == {i \in Nat : i <= n => k[i] \in Seq(Eligible(time))}
<1>1. n \in Nat
  OBVIOUS
<1>2. Kept(fs, time) = k[n]
  BY DEF Kept, KeepsFirst, Step
<1>3. KeepsFirst(k, n, fs, time)
  BY <1>1, KeepsFirstExists
<1> HIDE DEF k
<1>4. \A i \in 0 .. n : k[i] = IF i = 0 THEN << >> ELSE Step(k[i - 1], fs[i], time)
  BY <1>3 DEF KeepsFirst
<1>5. 0 \in S
  <2>1. k[0] = << >>
    BY <1>1, <1>4
  <2>2. << >> \in Seq(Eligible(time))
    OBVIOUS
  <2> QED
    BY <2>1, <2>2
<1>6. ASSUME NEW i \in S PROVE i + 1 \in S
  <2> SUFFICES ASSUME i + 1 <= n PROVE k[i + 1] \in Seq(Eligible(time))
    BY <1>6
  <2>1. i \in Nat /\ i + 1 \in 1 .. n /\ k[i] \in Seq(Eligible(time))
    BY <1>1, <1>6
  <2>2. k[i + 1] = Step(k[i], fs[i + 1], time)
    BY <1>1, <1>4, <2>1
  <2>3. fs[i + 1] \in Nat /\ fs[i + 1] <= time
    BY <2>1
  <2>4. time - fs[i + 1] < WindowSeconds => fs[i + 1] \in Eligible(time)
    BY <2>3 DEF Eligible
  <2> HIDE DEF n
  <2> QED
    BY <2>1, <2>2, <2>4 DEF Step
<1>7. S = Nat
  <2> HIDE DEF S
  <2>1. S \in SUBSET Nat BY DEF S
  <2> QED BY <1>5, <1>6, <2>1, SetInduction
<1> QED
  BY <1>1, <1>2, <1>7

-----------------------------------------------------------------------------
\* No failure on record lies in the future.
Past == \A i \in 1 .. Len(cb.failures) : cb.failures[i] <= now

WindowInv == TypeOK /\ Past /\ WindowIsRecent

\* The window record_failure leaves behind: times of the window that ends now.
LEMMA RecentFacts ==
  ASSUME TypeOK, Past
  PROVE  /\ Recent \in Seq(Nat)
         /\ \A i \in 1 .. Len(Recent) : Recent[i] <= now /\ now - Recent[i] < WindowSeconds
<1>1. cb.failures \in Seq(Nat) /\ now \in Nat
  BY DEF TypeOK
<1> DEFINE kept == Kept(cb.failures, now)
<1>2. kept \in Seq(Eligible(now))
  BY <1>1, KeptFacts DEF Past
<1>3. now \in Eligible(now)
  BY <1>1, BreakerConstants DEF Eligible
<1>4. Recent = Append(kept, now)
  BY DEF Recent
<1> HIDE DEF kept
<1>5. Recent \in Seq(Eligible(now))
  BY <1>2, <1>3, <1>4
<1>6. \A i \in 1 .. Len(Recent) : Recent[i] \in Eligible(now)
  BY <1>5
<1>7. Eligible(now) \in SUBSET Nat
  BY DEF Eligible
<1> QED
  BY <1>5, <1>6, <1>7 DEF Eligible

\* Every operation of the breaker keeps the window in order.
LEMMA WindowStep == WindowInv /\ [Next]_vars => WindowInv'
<1> SUFFICES ASSUME WindowInv, [Next]_vars PROVE WindowInv'
  OBVIOUS
<1> USE DEF WindowInv
<1>0. /\ cb \in [state : CircuitState, failures : Seq(Nat), lastOpen : Nat] /\ now \in Nat
      /\ cb.failures \in Seq(Nat) /\ Len(cb.failures) \in Nat
  BY DEF TypeOK
<1>1. CASE Tick
  BY <1>0, <1>1 DEF Tick, TypeOK, Past, WindowIsRecent
<1>2. ASSUME cb'.failures = cb.failures, cb'.lastOpen = cb.lastOpen, now' = now,
             cb' \in [state : CircuitState, failures : Seq(Nat), lastOpen : Nat]
      PROVE  WindowInv'
  BY <1>0, <1>2 DEF TypeOK, Past, WindowIsRecent
<1>3. ASSUME cb'.failures = << >>, now' = now,
             cb' \in [state : CircuitState, failures : Seq(Nat), lastOpen : Nat]
      PROVE  WindowInv'
  BY <1>0, <1>3 DEF TypeOK, Past, WindowIsRecent
<1>4. CASE ReadState
  BY <1>0, <1>2, <1>4 DEF ReadState, CircuitState
<1> DEFINE closed == [cb EXCEPT !.state = "CLOSED", !.failures = << >>]
<1>a. /\ closed \in [state : CircuitState, failures : Seq(Nat), lastOpen : Nat]
      /\ closed.failures = << >>
  <2>1. << >> \in Seq(Nat)
    OBVIOUS
  <2> QED
    BY <1>0, <2>1 DEF CircuitState
<1>5. CASE RecordSuccess
  <2>1. cb' = (IF cb.state = "HALF_OPEN" THEN closed ELSE cb) /\ now' = now
    BY <1>5 DEF RecordSuccess
  <2> HIDE DEF closed
  <2> QED
    BY <1>0, <1>2, <1>3, <1>a, <2>1
<1>6. CASE Reset
  <2>1. cb' = closed /\ now' = now
    BY <1>6 DEF Reset
  <2> HIDE DEF closed
  <2> QED
    BY <1>3, <1>a, <2>1
<1>7. CASE RecordFailure
  <2> DEFINE fs == Recent
  <2>1. /\ fs \in Seq(Nat)
        /\ \A i \in 1 .. Len(fs) : fs[i] <= now /\ now - fs[i] < WindowSeconds
    BY RecentFacts
  <2>2. cb' \in {[state |-> "OPEN", failures |-> fs, lastOpen |-> now],
                 [cb EXCEPT !.failures = fs]} /\ now' = now
    BY <1>7 DEF RecordFailure
  <2> HIDE DEF fs
  <2>3. /\ cb' \in [state : CircuitState, failures : Seq(Nat), lastOpen : Nat]
        /\ cb'.failures = fs
    BY <1>0, <2>1, <2>2 DEF CircuitState
  <2>4. \A i \in 1 .. Len(fs) : fs[i] \in Nat
    BY <2>1
  <2>5. ASSUME NEW i \in 1 .. Len(fs), NEW j \in 1 .. Len(fs)
        PROVE  fs[j] - fs[i] < WindowSeconds
    <3>1. fs[i] \in Nat /\ fs[j] \in Nat /\ now \in Nat /\ WindowSeconds \in Int
      BY <1>0, <2>4, BreakerConstants
    <3>2. fs[j] <= now /\ now - fs[i] < WindowSeconds
      BY <2>1
    <3> QED
      BY <3>1, <3>2
  <2> QED
    BY <1>0, <2>1, <2>2, <2>3, <2>5 DEF TypeOK, Past, WindowIsRecent
<1>8. CASE UNCHANGED vars
  BY <1>0, <1>2, <1>8 DEF vars
<1> QED
  BY <1>1, <1>4, <1>5, <1>6, <1>7, <1>8 DEF Next

\* The initial breaker has an empty window.
LEMMA WindowInit == Init => WindowInv
  BY DEF Init, WindowInv, TypeOK, Past, WindowIsRecent, CircuitState, NoTime

\* The state stays a member of the enum and the window a list of past times.
THEOREM TypeCorrect == Spec => []TypeOK
  BY WindowInit, WindowStep, PTL DEF Spec, WindowInv

\* For every threshold, window and cool-off: failures that lie further apart
\* than the window never add up to a trip.
THEOREM OldFailuresExpire == Spec => []WindowIsRecent
  BY WindowInit, WindowStep, PTL DEF Spec, WindowInv
=============================================================================
