-------------------------- MODULE TradeOrdersProofs --------------------------
(***************************************************************************)
(* PositionLimit, OneActivePerOutcome and PauseBlocks for any number of    *)
(* requests, markets and strategies.  None is inductive: the limit holds   *)
(* because at most one request at a time is past the update of the shared  *)
(* safety_state row, the index because requests that have inserted and     *)
(* not committed differ from one another too, and the pause because a      *)
(* request that came late cannot be past the check.                        *)
(* Then that a market order whose fill was announced never has a row, the  *)
(* refinement of PositionBook, and that the requests, which wait for rows, *)
(* the index and the market's lock, never do so in a circle.               *)
(***************************************************************************)
EXTENDS TradeOrders, FiniteSetTheorems, TLAPS

\* An active trade belongs to a request that has committed.
Committed == \A t \in Active : req[t].pc = "committed"

\* Trades inserted and not committed differ from each other and from the
\* active ones.
Apart ==
  \A t \in Inserted :
    /\ \A u \in Active : ~ SamePosition(t, u)
    /\ \A u \in Inserted : t # u => ~ SamePosition(t, u)

\* A late request is not past the check, and its strategy is still paused.
\* A fill belongs to a request that has submitted.
Held ==
  /\ \A t \in late :
       /\ t \notin fills
       /\ req[t].pc \in {"safety", "check", "insert", "commit", "committed", "execute", "done"}
       /\ req[t].pc # "done" => req[t].agent \in paused.local
  /\ \A t \in fills : req[t].pc \in {"authorize", "done"}

\* Every request updates the row of earlier requests if there is one.
Seeded ==
  /\ \A t \in Trades :
       req[t].pc \in Steps => req[t].at > 0 /\ (req[t].safety = Seed <=> stamp[Seed] > 0)
  /\ stamp[Seed] > 0 => \A t \in Trades : stamp[t] = 0

\* Then the requests go one after the other from there to their end, and the
\* one past its limits has room.
Serial ==
  stamp[Seed] > 0 =>
    /\ \A t, u \in Locking : t = u
    /\ \A t \in Locking : req[t].pc # "check" => Cardinality(Active) < MaxOpen

Inv ==
  TypeOK /\ Committed /\ OneActivePerOutcome /\ Apart /\ Held /\ Seeded /\ Serial
  /\ PositionLimit

-----------------------------------------------------------------------------
(* Facts about requests *)

\* A request that is under way is a record of what it asked for.
LEMMA IsRequest ==
  ASSUME TypeOK, NEW t \in Trades, req[t].pc \in Steps
  PROVE  req[t] \in Requests
<1>1. req[t] \in {New, Done} \cup Requests
  BY DEF TypeOK
<1>2. req[t] # New /\ req[t] # Done
  BY DEF New, Done, Steps
<1> QED
  BY <1>1, <1>2

\* A request moves on.
LEMMA GoFacts ==
  ASSUME TypeOK, NEW t \in Trades, req[t].pc \in Steps, NEW q \in Steps, Go(t, q)
  PROVE  /\ req' \in [Trades -> {New, Done} \cup Requests]
         /\ req'[t].pc = q /\ req'[t].market = req[t].market
         /\ req'[t].outcome = req[t].outcome /\ req'[t].agent = req[t].agent
         /\ req'[t].at = req[t].at /\ req'[t].safety = req[t].safety
         /\ \A u \in Trades : u # t => req'[u] = req[u]
<1>1. req[t] \in Requests /\ req \in [Trades -> {New, Done} \cup Requests]
  BY IsRequest DEF TypeOK
<1> DEFINE r == [req[t] EXCEPT !.pc = q]
<1>2. /\ r \in Requests /\ r.pc = q /\ r.market = req[t].market
      /\ r.outcome = req[t].outcome /\ r.agent = req[t].agent
      /\ r.at = req[t].at /\ r.safety = req[t].safety
  BY <1>1 DEF Requests
<1>3. req' = [req EXCEPT ![t] = r]
  BY DEF Go
<1> HIDE DEF r
<1> QED
  BY <1>1, <1>2, <1>3

\* A request is rolled back.
LEMMA RollBackFacts ==
  ASSUME TypeOK, NEW t \in Trades, RollBack(t)
  PROVE  /\ req' \in [Trades -> {New, Done} \cup Requests]
         /\ req'[t].pc = "done"
         /\ \A u \in Trades : u # t => req'[u] = req[u]
<1>1. req \in [Trades -> {New, Done} \cup Requests]
  BY DEF TypeOK
<1> QED
  BY <1>1 DEF RollBack, Done

\* The row an approval updates.
LEMMA SafetyRowFacts ==
  ASSUME TypeOK, Seeded, NEW t \in Trades, NEW r \in SafetyRow(t)
  PROVE  r \in Rows /\ (r = Seed <=> stamp[Seed] > 0)
<1>1. stamp \in [Rows -> Nat] /\ Seed \in Rows /\ Trades \subseteq Rows /\ t # Seed
  BY OrderConstants DEF TypeOK, Rows
<1>2. stamp[Seed] > 0 => \A s \in Rows : s # Seed => stamp[s] = 0
  BY DEF Seeded, Rows
<1> QED
  BY <1>1, <1>2 DEF SafetyRow

-----------------------------------------------------------------------------
(* Type correctness *)

\* No step writes a status, a stamp or a lock outside its type.
LEMMA TypeStep ==
  ASSUME TypeOK, [Next]_vars
  PROVE  TypeOK'
<1> USE DEF control, database
<1>1. ASSUME NEW t \in Trades, NEW m \in Markets, NEW o \in Outcomes, NEW k \in Kinds,
             NEW s \in Strategies, Arrive(t, m, o, k, s)
      PROVE  TypeOK'
  <2>1. PICK r \in SafetyRow(t) : req' = [req EXCEPT ![t] =
          [pc |-> "safety", market |-> m, outcome |-> o, kind |-> k,
           agent |-> s, at |-> clock + 1, safety |-> r]]
    BY <1>1 DEF Arrive
  <2>2. clock \in Nat /\ r \in Rows
    BY DEF TypeOK, SafetyRow, Rows
  <2>3. [pc |-> "safety", market |-> m, outcome |-> o, kind |-> k,
         agent |-> s, at |-> clock + 1, safety |-> r] \in Requests
    BY <2>2 DEF Requests, Steps
  <2>4. req' \in [Trades -> {New, Done} \cup Requests]
    BY <2>1, <2>3 DEF TypeOK
  <2>5. late' \subseteq Trades /\ clock' \in Nat
    BY <1>1, <2>2 DEF Arrive, TypeOK
  <2> QED
    BY <1>1, <2>4, <2>5 DEF Arrive, TypeOK
<1>2. ASSUME NEW t \in Trades, Step(t)
      PROVE  TypeOK'
  <2>1. req' \in [Trades -> {New, Done} \cup Requests]
    <3>1. CASE RollBack(t)
      BY <3>1, RollBackFacts
    <3>2. ASSUME NEW q \in Steps, Go(t, q), req[t].pc \in Steps PROVE req' \in [Trades -> {New, Done} \cup Requests]
      BY <3>2, GoFacts
    <3>3. RollBack(t) \/ (req[t].pc \in Steps /\ \E q \in Steps : Go(t, q))
      BY <1>2 DEF Step, UpdateSafety, CheckLimits, Insert, AfterInsert, Commit, Refused, CheckPause,
         CheckSafety, AcquireLock, KillSwitchRecheck, Submit, SubmitTimeout, Authorize, At, Steps
    <3> QED
      BY <3>1, <3>2, <3>3
  <2>2. lock' \in [Markets -> Trades \cup {Nobody}]
    <3>1. lock \in [Markets -> Trades \cup {Nobody}]
      BY DEF TypeOK
    <3>2. \/ lock' = lock
          \/ lock' = [lock EXCEPT ![req[t].market] = t]
          \/ lock' = [lock EXCEPT ![req[t].market] = Nobody]
      BY <1>2 DEF Step, UpdateSafety, CheckLimits, Insert, Commit, Refused, CheckPause,
         CheckSafety, AcquireLock, KillSwitchRecheck, Submit, SubmitTimeout, Authorize, Release
    <3> QED
      BY <3>1, <3>2
  <2>3. row' \in [Trades -> {"none", "pending", "cancelled"}] /\ stamp' \in [Rows -> Nat]
    <3>1. CASE Commit(t)
      <4>1. req[t] \in Requests
        BY <3>1, IsRequest DEF Commit, At, Steps
      <4>2. req[t].at \in Nat
        BY <4>1 DEF Requests
      <4> QED
        BY <3>1, <4>2 DEF Commit, TypeOK
    <3>2. CASE ~ Commit(t)
      BY <1>2, <3>2 DEF TypeOK, Step, UpdateSafety, CheckLimits, Insert, Refused, CheckPause,
         CheckSafety, AcquireLock, KillSwitchRecheck, Submit, SubmitTimeout, Authorize
    <3> QED
      BY <3>1, <3>2
  <2>4. UNCHANGED <<old, clock, enabled, paused, late>> /\ fills' \subseteq Trades
    BY <1>2 DEF TypeOK, Step, UpdateSafety, CheckLimits, Insert, Commit, Refused, CheckPause,
         CheckSafety, AcquireLock, KillSwitchRecheck, Submit, SubmitTimeout, Authorize
  <2> QED
    BY <2>1, <2>2, <2>3, <2>4 DEF TypeOK
<1>3. ASSUME NEW t \in Trades, GrowOld(t)
      PROVE  TypeOK'
  BY <1>3 DEF GrowOld, TypeOK
<1>4. ASSUME NEW b \in BOOLEAN, SetTradingEnabled(b)
      PROVE  TypeOK'
  <2>1. enabled' \in [local : BOOLEAN, redis : BOOLEAN]
    BY <1>4 DEF SetTradingEnabled, TypeOK
  <2> QED
    BY <1>4, <2>1 DEF SetTradingEnabled, TypeOK
<1>5. ASSUME NEW s \in Strategies, PauseStrategy(s) \/ ResumeStrategy(s)
      PROVE  TypeOK'
  <2>1. paused.local \subseteq Strategies /\ paused.redis \subseteq Strategies
    BY DEF TypeOK
  <2>2. paused' \in [local : SUBSET Strategies, redis : SUBSET Strategies] /\ late' \subseteq late
    BY <1>5, <2>1 DEF PauseStrategy, ResumeStrategy
  <2> QED
    BY <1>5, <2>2 DEF PauseStrategy, ResumeStrategy, TypeOK
<1>6. CASE EmergencyStop \/ CancelStale
  BY <1>6 DEF EmergencyStop, CancelStale, TypeOK
<1>7. CASE Restart
  <2>1. /\ req' \in [Trades -> {New, Done} \cup Requests]
        /\ lock' \in [Markets -> Trades \cup {Nobody}]
    BY <1>7 DEF Restart, TypeOK
  <2>2. /\ enabled' \in [local : BOOLEAN, redis : BOOLEAN]
        /\ paused' \in [local : SUBSET Strategies, redis : SUBSET Strategies]
    BY <1>7 DEF Restart, TypeOK
  <2> QED
    BY <1>7, <2>1, <2>2 DEF Restart, TypeOK
<1>8. CASE UNCHANGED vars
  BY <1>8 DEF vars, TypeOK
<1> QED
  BY <1>1, <1>2, <1>3, <1>4, <1>5, <1>6, <1>7, <1>8 DEF Next

-----------------------------------------------------------------------------
(* The parts of the invariant, when a request moves and no row changes *)

\* The active trades can be counted.
LEMMA ActiveFinite ==
  IsFiniteSet(Active) /\ Cardinality(Active) \in Nat
<1>1. IsFiniteSet(Active)
  BY OrderConstants, FS_Subset DEF Active
<1> QED
  BY <1>1, FS_CardinalityType

\* The request t moves on with what it asked for, or is over.
Moves(t) ==
  /\ t \in Trades /\ row' = row /\ stamp' = stamp /\ req[t].pc # "committed"
  /\ \A u \in Trades : u # t => req'[u] = req[u]
  /\ \/ req'[t].pc = "done"
     \/ /\ req[t].pc \in Steps /\ req'[t].pc \in Steps
        /\ req'[t].at = req[t].at /\ req'[t].safety = req[t].safety
        /\ req'[t].market = req[t].market /\ req'[t].outcome = req[t].outcome

\* A step of a request that commits nothing leaves the table as it is.
LEMMA MovesKeepsRows ==
  ASSUME Inv, NEW t, Moves(t)
  PROVE  /\ Active' = Active /\ t \notin Active
         /\ Committed' /\ OneActivePerOutcome' /\ Seeded' /\ PositionLimit'
<1>1. Active' = Active /\ t \notin Active
  BY DEF Active, Moves, Inv, Committed
<1>2. \A u \in Active : u \in Trades /\ req'[u] = req[u]
  BY <1>1 DEF Moves, Active
<1>3. Committed' /\ OneActivePerOutcome'
  BY <1>1, <1>2 DEF Inv, Committed, OneActivePerOutcome, SamePosition
<1>4. Seeded'
  BY DEF Moves, Inv, Seeded, Steps
<1>5. PositionLimit'
  BY <1>1 DEF Moves, Inv, PositionLimit
<1> QED
  BY <1>1, <1>3, <1>4, <1>5

\* It keeps uncommitted trades apart from the active ones unless it inserts.
LEMMA MovesKeepsApart ==
  ASSUME Inv, NEW t, Moves(t), t \in Inserted' => t \in Inserted
  PROVE  Apart'
<1>1. Active' = Active /\ t \notin Active
  BY MovesKeepsRows
<1>2. \A u \in Active : u \in Trades /\ req'[u] = req[u]
  BY <1>1 DEF Moves, Active
<1>3. \A u \in Inserted' : /\ u \in Inserted
                           /\ req'[u].market = req[u].market /\ req'[u].outcome = req[u].outcome
  BY DEF Moves, Inserted, Locking, Steps
<1> QED
  BY <1>1, <1>2, <1>3 DEF Inv, Apart, SamePosition

\* It keeps the requests serialized unless it takes the row or passes the count.
LEMMA MovesKeepsSerial ==
  ASSUME Inv, NEW t, Moves(t),
         t \in Locking' => t \in Locking /\ (req[t].pc # "check" \/ req'[t].pc = "check")
  PROVE  Serial'
<1>1. Active' = Active
  BY MovesKeepsRows
<1>2. \A u \in Locking' : u \in Locking /\ (req'[u].pc # "check" => req[u].pc # "check")
  BY DEF Moves, Locking
<1> QED
  BY <1>1, <1>2 DEF Inv, Serial, Moves

\* A rollback of a request that has not committed.
LEMMA RollBackMoves ==
  ASSUME Inv, NEW t \in Trades, RollBack(t), row' = row, stamp' = stamp, req[t].pc # "committed"
  PROVE  Moves(t) /\ t \notin Locking' /\ t \notin Inserted'
<1>1. req'[t].pc = "done" /\ \A u \in Trades : u # t => req'[u] = req[u]
  BY RollBackFacts DEF Inv
<1> QED
  BY <1>1 DEF Moves, Locking, Inserted

\* The next step of a request.
LEMMA GoMoves ==
  ASSUME Inv, NEW t \in Trades, req[t].pc \in Steps \ {"committed"}, NEW q \in Steps, Go(t, q),
         row' = row, stamp' = stamp
  PROVE  Moves(t) /\ req'[t].pc = q
  BY GoFacts DEF Moves, Inv

\* Late requests are held when late ones and fills stay, and a late request
\* does not pass the check.
LEMMA HeldKept ==
  ASSUME Inv, NEW t, Moves(t), late' = late, paused' = paused, fills' = fills,
         req'[t].pc # "done" => req'[t].agent = req[t].agent,
         t \in late => req'[t].pc \in
           {"safety", "check", "insert", "commit", "committed", "execute", "done"},
         t \in fills => req'[t].pc \in {"authorize", "done"}
  PROVE  Held'
<1>1. \A u \in late \cup fills : u \in Trades
  BY DEF Inv, TypeOK
<1>2. \A u \in late : req'[u].pc # "done" =>
        req[u].pc # "done" /\ req'[u].agent = req[u].agent
  BY <1>1 DEF Moves, Steps
<1> QED
  BY <1>1, <1>2 DEF Inv, Held, Moves

\* A rollback needs no more than that it was not committed.
LEMMA RollBackStep ==
  ASSUME Inv, TypeOK', NEW t \in Trades, RollBack(t), row' = row, stamp' = stamp,
         req[t].pc # "committed", late' = late, paused' = paused, fills' = fills
  PROVE  Inv'
<1>1. Moves(t) /\ t \notin Locking' /\ t \notin Inserted' /\ req'[t].pc = "done"
  BY RollBackMoves, RollBackFacts DEF Inv
<1>2. Held'
  BY <1>1, HeldKept
<1> QED
  BY <1>1, <1>2, MovesKeepsRows, MovesKeepsApart, MovesKeepsSerial DEF Inv

-----------------------------------------------------------------------------
(* One lemma per action, or per group of actions that touch the same state *)

\* A new request has written nothing yet, and is late if its strategy is paused.
LEMMA ArriveStep ==
  ASSUME Inv, TypeOK', NEW t \in Trades, NEW m \in Markets, NEW o \in Outcomes,
         NEW k \in Kinds, NEW s \in Strategies, Arrive(t, m, o, k, s)
  PROVE  Inv'
<1>1. PICK r \in SafetyRow(t) : req' = [req EXCEPT ![t] =
        [pc |-> "safety", market |-> m, outcome |-> o, kind |-> k,
         agent |-> s, at |-> clock + 1, safety |-> r]]
  BY DEF Arrive
<1>2. /\ req'[t].pc = "safety" /\ req'[t].at = clock + 1 /\ req'[t].safety = r
      /\ req'[t].agent = s
      /\ \A u \in Trades : u # t => req'[u] = req[u]
      /\ row' = row /\ stamp' = stamp /\ fills' = fills /\ paused' = paused
      /\ req[t].pc = "new"
      /\ late' = IF s \in paused.local THEN late \cup {t} ELSE late
  BY <1>1 DEF Arrive, At, Inv, TypeOK, database
<1>3. (r = Seed <=> stamp[Seed] > 0) /\ clock \in Nat
  BY SafetyRowFacts DEF Inv, TypeOK
<1>4. Active' = Active /\ t \notin Active
  BY <1>2 DEF Active, Inv, Committed
<1>5. \A u \in Active : u \in Trades /\ req'[u] = req[u]
  BY <1>2, <1>4 DEF Active
<1>6. Locking' = Locking /\ Inserted' = Inserted /\ t \notin Locking
  BY <1>2 DEF Locking, Inserted
<1>7. \A u \in Locking : u \in Trades /\ req'[u] = req[u]
  BY <1>2, <1>6 DEF Locking
<1>8. Committed' /\ OneActivePerOutcome'
  BY <1>4, <1>5 DEF Inv, Committed, OneActivePerOutcome, SamePosition
<1>9. Apart'
  BY <1>4, <1>5, <1>6, <1>7 DEF Inv, Apart, SamePosition, Inserted
<1>10. Seeded'
  BY <1>2, <1>3 DEF Inv, Seeded
<1>11. Serial' /\ PositionLimit'
  BY <1>2, <1>4, <1>6, <1>7 DEF Inv, Serial, PositionLimit
<1>12. Held'
  <2>1. t \notin late /\ t \notin fills
    BY <1>2 DEF Inv, Held
  <2>2. \A u \in late \cup fills : u \in Trades
    BY DEF Inv, TypeOK
  <2> QED
    BY <1>2, <2>1, <2>2 DEF Inv, Held
<1> QED
  BY <1>8, <1>9, <1>10, <1>11, <1>12 DEF Inv

\* The request waits until no other holds the shared row.
LEMMA UpdateSafetyStep ==
  ASSUME Inv, TypeOK', NEW t \in Trades, UpdateSafety(t)
  PROVE  Inv'
<1>1. /\ req[t].pc = "safety" /\ Go(t, "check") /\ row' = row /\ stamp' = stamp
      /\ late' = late /\ paused' = paused /\ fills' = fills
      /\ \A u \in Locking : req[u].safety # req[t].safety
  BY DEF UpdateSafety, At, database, control
<1>2. Moves(t) /\ req'[t].pc = "check" /\ req'[t].agent = req[t].agent
  BY <1>1, GoMoves, GoFacts DEF Inv, Steps
<1>3. t \notin Inserted'
  BY <1>2 DEF Inserted
<1>4. Held'
  BY <1>1, <1>2, HeldKept DEF Inv, Held
<1>5. Serial'
  <2> SUFFICES ASSUME stamp[Seed] > 0
               PROVE  \A u \in Locking' : u = t /\ req'[u].pc = "check"
    BY <1>1 DEF Serial
  <2>1. \A u \in Trades : req[u].pc \in Steps => req[u].safety = Seed
    BY DEF Inv, Seeded
  <2>2. \A u \in Locking : u \in Trades /\ req[u].pc \in Steps
    <3> TAKE u \in Locking
    <3>1. req[u] \in {New, Done} \cup Requests /\ u \in Trades
      BY DEF Inv, TypeOK, Locking
    <3>2. req[u].pc # "new" /\ req[u].pc # "done"
      BY DEF Locking
    <3> QED
      BY <3>1, <3>2 DEF New, Done, Requests
  <2>3. Locking = {}
    BY <1>1, <2>1, <2>2 DEF Steps
  <2> QED
    BY <1>2, <2>3 DEF Locking, Moves
<1> QED
  BY <1>2, <1>3, <1>4, <1>5, MovesKeepsRows, MovesKeepsApart DEF Inv

\* The count that is compared with the limit is that of the active trades.
LEMMA CheckLimitsStep ==
  ASSUME Inv, TypeOK', NEW t \in Trades, CheckLimits(t)
  PROVE  Inv'
<1>1. /\ req[t].pc = "check" /\ row' = row /\ stamp' = stamp
      /\ late' = late /\ paused' = paused /\ fills' = fills
  BY DEF CheckLimits, At, database, control
<1>2. CASE RollBack(t)
  BY <1>1, <1>2, RollBackStep
<1>3. CASE WithinLimits(t) /\ Go(t, "insert")
  <2>1. Moves(t) /\ req'[t].pc = "insert" /\ req'[t].agent = req[t].agent
    BY <1>1, <1>3, GoMoves, GoFacts DEF Inv, Steps
  <2>2. t \notin Inserted' /\ t \in Locking
    BY <1>1, <2>1 DEF Inserted, Locking
  <2>3. Held'
    BY <1>1, <2>1, HeldKept DEF Inv, Held
  <2>4. Serial'
    <3>1. Active' = Active /\ Cardinality(Active) < MaxOpen
      BY <1>3, <2>1, MovesKeepsRows DEF WithinLimits
    <3>2. Locking' = Locking
      BY <2>1, <2>2 DEF Moves, Locking
    <3> QED
      BY <1>1, <3>1, <3>2 DEF Inv, Serial
  <2> QED
    BY <2>1, <2>2, <2>3, <2>4, MovesKeepsRows, MovesKeepsApart DEF Inv
<1> QED
  BY <1>2, <1>3 DEF CheckLimits

\* The unique index.
LEMMA InsertStep ==
  ASSUME Inv, TypeOK', NEW t \in Trades, Insert(t)
  PROVE  Inv'
<1>1. /\ req[t].pc = "insert" /\ row' = row /\ stamp' = stamp
      /\ late' = late /\ paused' = paused /\ fills' = fills
      /\ \A u \in Inserted : ~ SamePosition(t, u)
  BY DEF Insert, At, database, control
<1>2. CASE RollBack(t)
  BY <1>1, <1>2, RollBackStep
<1>3. CASE ~ Duplicate(t) /\ Go(t, AfterInsert(t))
  <2>1. AfterInsert(t) \in {"commit", "execute"} /\ AfterInsert(t) \in Steps
    BY DEF AfterInsert, Steps
  <2>2. Moves(t) /\ req'[t].pc \in {"commit", "execute"} /\ req'[t].agent = req[t].agent
    BY <1>1, <1>3, <2>1, GoMoves, GoFacts DEF Inv, Steps
  <2>3. t \in Locking
    BY <1>1 DEF Locking
  <2>4. Held'
    BY <1>1, <2>2, HeldKept DEF Inv, Held
  <2>5. Serial'
    BY <1>1, <2>2, <2>3, MovesKeepsSerial
  <2>6. Apart'
    <3>1. Active' = Active /\ t \notin Active
      BY <2>2, MovesKeepsRows
    <3>2. \A u \in Active : u \in Trades /\ req'[u] = req[u]
      BY <2>2, <3>1 DEF Moves, Active
    <3>3. \A u \in Inserted' : u = t \/ u \in Inserted
      BY <2>2 DEF Moves, Inserted, Locking
    <3>4. \A u \in Inserted' \cup Active :
            req'[u].market = req[u].market /\ req'[u].outcome = req[u].outcome
      BY <2>2, <3>2 DEF Moves, Inserted, Locking
    <3>5. \A u \in Active : ~ SamePosition(t, u)
      BY <1>3 DEF Duplicate
    <3>6. \A u \in Inserted : ~ SamePosition(t, u) /\ ~ SamePosition(u, t)
      BY <1>1 DEF SamePosition
    <3> QED
      BY <3>1, <3>3, <3>4, <3>5, <3>6 DEF Inv, Apart, SamePosition
  <2> QED
    BY <2>2, <2>4, <2>5, <2>6, MovesKeepsRows DEF Inv
<1> QED
  BY <1>2, <1>3 DEF Insert

\* The commit makes a trade active that was counted and is alone on its outcome.
LEMMA CommitStep ==
  ASSUME Inv, TypeOK', NEW t \in Trades, Commit(t)
  PROVE  Inv'
<1>1. /\ req[t].pc = "commit" /\ Go(t, "committed")
      /\ row' = [row EXCEPT ![t] = "pending"]
      /\ stamp' = [stamp EXCEPT ![req[t].safety] = req[t].at]
      /\ late' = late /\ paused' = paused /\ fills' = fills
  BY DEF Commit, At, control
<1>2. /\ req'[t].pc = "committed" /\ req'[t].market = req[t].market
      /\ req'[t].outcome = req[t].outcome /\ req'[t].agent = req[t].agent
      /\ req'[t].at = req[t].at /\ req'[t].safety = req[t].safety
      /\ \A u \in Trades : u # t => req'[u] = req[u]
  BY <1>1, GoFacts DEF Inv, Steps
<1>3. Active' = Active \cup {t} /\ t \notin Active
  BY <1>1 DEF Active, Inv, TypeOK, Committed
<1>4. t \in Inserted /\ t \in Locking /\ Inserted' = Inserted \ {t} /\ Locking' = Locking \ {t}
  BY <1>1, <1>2 DEF Inserted, Locking
<1>5. \A u \in Active \cup Inserted \cup {t} :
        req'[u].market = req[u].market /\ req'[u].outcome = req[u].outcome
  BY <1>2 DEF Active, Inserted, Locking
<1>6. Committed'
  BY <1>1, <1>2, <1>3 DEF Inv, Committed, Active
<1>7. OneActivePerOutcome'
  BY <1>3, <1>4, <1>5 DEF Inv, OneActivePerOutcome, Apart, SamePosition
<1>8. Apart'
  BY <1>3, <1>4, <1>5 DEF Inv, Apart, SamePosition
<1>9. Held'
  <2>1. \A u \in late \cup fills : u \in Trades
    BY DEF Inv, TypeOK
  <2> QED
    BY <1>1, <1>2, <2>1 DEF Inv, Held
<1>10. /\ req[t].at > 0 /\ req[t].safety \in Rows /\ req[t].at \in Nat /\ Seed \in Rows
       /\ (req[t].safety = Seed <=> stamp[Seed] > 0)
       /\ stamp \in [Rows -> Nat] /\ Seed \notin Trades /\ Trades \subseteq Rows
  <2>1. req[t] \in Requests
    BY <1>1, IsRequest DEF Inv, Steps
  <2> QED
    BY <1>1, <2>1, OrderConstants DEF Inv, Seeded, Requests, Steps, Rows, TypeOK
<1>11. stamp'[Seed] > 0 <=> stamp[Seed] > 0
  BY <1>1, <1>10
<1>12. Seeded'
  <2>1. \A u \in Trades : req'[u].pc \in Steps =>
          req'[u].at > 0 /\ (req'[u].safety = Seed <=> stamp[Seed] > 0)
    BY <1>1, <1>2 DEF Inv, Seeded, Steps
  <2>2. stamp'[Seed] > 0 => \A u \in Trades : stamp'[u] = 0
    BY <1>1, <1>10, <1>11 DEF Inv, Seeded
  <2> QED
    BY <1>11, <2>1, <2>2 DEF Seeded
<1>13. Serial'
  BY <1>4, <1>11 DEF Inv, Serial
<1>14. PositionLimit'
  <2> SUFFICES ASSUME stamp[Seed] > 0 PROVE Cardinality(Active \cup {t}) <= MaxOpen
    BY <1>3, <1>11 DEF PositionLimit
  <2>1. Cardinality(Active) < MaxOpen
    BY <1>1, <1>4 DEF Inv, Serial
  <2>2. Cardinality(Active \cup {t}) = Cardinality(Active) + 1
    BY <1>3, ActiveFinite, FS_AddElement
  <2> QED
    BY <2>1, <2>2, ActiveFinite, OrderConstants
<1> QED
  BY <1>6, <1>7, <1>8, <1>9, <1>12, <1>13, <1>14 DEF Inv

\* From the check of the pause on, nothing is written.
LEMMA ExecutionStep ==
  ASSUME Inv, TypeOK', NEW t \in Trades,
         Refused(t) \/ CheckPause(t) \/ CheckSafety(t) \/ AcquireLock(t)
         \/ KillSwitchRecheck(t) \/ Submit(t) \/ SubmitTimeout(t) \/ Authorize(t)
  PROVE  Inv'
<1>1. row' = row /\ stamp' = stamp /\ late' = late /\ paused' = paused
  BY DEF Refused, CheckPause, CheckSafety, AcquireLock, KillSwitchRecheck, Submit,
         SubmitTimeout, Authorize, database, control
<1>2. CASE RollBack(t) /\ fills' = fills /\ req[t].pc # "committed"
  BY <1>1, <1>2, RollBackStep
<1>3. ASSUME NEW q \in {"safe", "lock", "recheck", "submit"}, Go(t, q), fills' = fills,
             req[t].pc \in {"execute", "safe", "lock", "recheck"},
             req[t].pc = "execute" => req[t].agent \notin paused.local
      PROVE  Inv'
  <2>1. Moves(t) /\ req'[t].pc = q /\ req'[t].agent = req[t].agent
    BY <1>1, <1>3, GoMoves, GoFacts DEF Inv, Steps
  <2>2. t \in Inserted /\ t \in Locking
    BY <1>3 DEF Inserted, Locking
  <2>3. t \notin late /\ t \notin fills
    BY <1>3 DEF Inv, Held
  <2>4. Held'
    BY <1>1, <1>3, <2>1, <2>3, HeldKept
  <2> QED
    BY <1>3, <2>1, <2>2, <2>4, MovesKeepsRows, MovesKeepsApart, MovesKeepsSerial DEF Inv
<1>4. CASE Submit(t) \/ SubmitTimeout(t)
  <2>1. req[t].pc = "submit" /\ Go(t, "authorize") /\ fills' \subseteq fills \cup {t}
    BY <1>4 DEF Submit, SubmitTimeout, At
  <2>2. Moves(t) /\ req'[t].pc = "authorize" /\ req'[t].agent = req[t].agent
    BY <1>1, <2>1, GoMoves, GoFacts DEF Inv, Steps
  <2>3. t \in Inserted /\ t \in Locking
    BY <2>1 DEF Inserted, Locking
  <2>4. t \notin late
    BY <2>1 DEF Inv, Held
  <2>5. \A u \in late \cup fills : u \in Trades
    BY DEF Inv, TypeOK
  <2>6. Held'
    BY <1>1, <2>1, <2>2, <2>4, <2>5 DEF Inv, Held, Moves
  <2> QED
    BY <2>1, <2>2, <2>3, <2>6, MovesKeepsRows, MovesKeepsApart, MovesKeepsSerial DEF Inv
<1>5. CASE Refused(t) \/ Authorize(t)
  BY <1>2, <1>5 DEF Refused, Authorize, At
<1>6. CASE CheckPause(t)
  BY <1>2, <1>3, <1>6 DEF CheckPause, At, IsStrategyPaused
<1>7. CASE CheckSafety(t) \/ AcquireLock(t) \/ KillSwitchRecheck(t)
  BY <1>2, <1>3, <1>7 DEF CheckSafety, AcquireLock, KillSwitchRecheck, At
<1> QED
  BY <1>4, <1>5, <1>6, <1>7

\* Active trades are cancelled, and no request moves.
LEMMA CancelStep ==
  ASSUME Inv, TypeOK', EmergencyStop \/ CancelStale
  PROVE  Inv'
<1>1. /\ req' = req /\ stamp' = stamp /\ late' = late /\ paused' = paused /\ fills' = fills
      /\ Active' \subseteq Active
  BY DEF EmergencyStop, CancelStale, control, Active
<1>2. Cardinality(Active') <= Cardinality(Active) /\ Cardinality(Active') \in Nat
  BY <1>1, ActiveFinite, FS_Subset, FS_CardinalityType
<1>3. Locking' = Locking /\ Inserted' = Inserted
  BY <1>1 DEF Locking, Inserted
<1>4. Committed' /\ OneActivePerOutcome' /\ Apart'
  BY <1>1, <1>3 DEF Inv, Committed, OneActivePerOutcome, Apart, SamePosition
<1>5. Held' /\ Seeded'
  BY <1>1 DEF Inv, Held, Seeded
<1>6. Serial' /\ PositionLimit'
  BY <1>1, <1>2, <1>3, ActiveFinite, OrderConstants DEF Inv, Serial, PositionLimit
<1> QED
  BY <1>4, <1>5, <1>6 DEF Inv

\* Nothing but the pauses changes.
LEMMA PauseStep ==
  ASSUME Inv, TypeOK', NEW s \in Strategies, PauseStrategy(s) \/ ResumeStrategy(s)
  PROVE  Inv'
<1>1. req' = req /\ row' = row /\ stamp' = stamp /\ fills' = fills
  BY DEF PauseStrategy, ResumeStrategy, database
<1>2. Held'
  <2>1. CASE PauseStrategy(s)
    <3>1. late' = late /\ paused.local \subseteq paused'.local
      BY <2>1 DEF PauseStrategy
    <3> QED
      BY <1>1, <3>1 DEF Inv, Held
  <2>2. CASE ResumeStrategy(s)
    <3>1. /\ paused'.local = paused.local \ {s}
          /\ late' = {t \in late : req[t].pc # "done" /\ req[t].agent # s}
      BY <2>2 DEF ResumeStrategy
    <3> QED
      BY <1>1, <3>1 DEF Inv, Held
  <2> QED
    BY <2>1, <2>2
<1>3. Active' = Active /\ Locking' = Locking /\ Inserted' = Inserted
  BY <1>1 DEF Active, Locking, Inserted
<1> QED
  BY <1>1, <1>2, <1>3
     DEF Inv, Committed, OneActivePerOutcome, Apart, SamePosition, Seeded, Serial, PositionLimit

\* Requests that have not committed are gone.
LEMMA RestartStep ==
  ASSUME Inv, TypeOK', Restart
  PROVE  Inv'
<1>1. /\ row' = row /\ stamp' = stamp /\ late' = {} /\ fills' = fills
      /\ \A t \in Trades : req'[t] = IF req[t].pc \in {"new", "committed"} THEN req[t] ELSE Done
  BY DEF Restart, database
<1>2. Active' = Active /\ \A t \in Active : t \in Trades /\ req'[t] = req[t]
  BY <1>1 DEF Active, Inv, Committed
<1>3. Locking' = {} /\ Inserted' = {}
  BY <1>1 DEF Locking, Inserted, Done
<1>4. Committed' /\ OneActivePerOutcome'
  BY <1>2 DEF Inv, Committed, OneActivePerOutcome, SamePosition
<1>5. Apart' /\ Serial'
  BY <1>3 DEF Apart, Serial
<1>6. Held'
  <2>1. \A t \in fills : t \in Trades
    BY DEF Inv, TypeOK
  <2> QED
    BY <1>1, <2>1 DEF Inv, Held, Done
<1>7. Seeded'
  BY <1>1 DEF Inv, Seeded, Done, Steps
<1>8. PositionLimit'
  BY <1>1, <1>2 DEF Inv, PositionLimit
<1> QED
  BY <1>4, <1>5, <1>6, <1>7, <1>8 DEF Inv

\* Every step keeps the invariant: one lemma per action or group of actions.
LEMMA InvStep ==
  ASSUME Inv, [Next]_vars
  PROVE  Inv'
<1>1. TypeOK'
  BY TypeStep DEF Inv
<1>2. ASSUME UNCHANGED <<req, row, stamp, paused, late, fills>>
      PROVE  Inv'
  <2>1. Active' = Active /\ Locking' = Locking /\ Inserted' = Inserted
    BY <1>2 DEF Active, Locking, Inserted
  <2> QED
    BY <1>1, <1>2, <2>1 DEF Inv, Committed, OneActivePerOutcome, Apart, SamePosition, Held,
         Seeded, Serial, PositionLimit
<1>3. ASSUME NEW t \in Trades, GrowOld(t)
      PROVE  Inv'
  BY <1>2, <1>3 DEF GrowOld, control
<1>4. ASSUME NEW b \in BOOLEAN, SetTradingEnabled(b)
      PROVE  Inv'
  BY <1>2, <1>4 DEF SetTradingEnabled, database
<1>5. CASE UNCHANGED vars
  BY <1>2, <1>5 DEF vars
<1>6. ASSUME NEW t \in Trades, Step(t)
      PROVE  Inv'
  BY <1>1, <1>6, UpdateSafetyStep, CheckLimitsStep, InsertStep, CommitStep, ExecutionStep DEF Step
<1> QED
  BY <1>1, <1>3, <1>4, <1>5, <1>6, ArriveStep, CancelStep, PauseStep, RestartStep DEF Next

\* The initial states satisfy it.
LEMMA InitInv ==
  ASSUME Init
  PROVE  Inv
<1>1. TypeOK
  BY DEF Init, TypeOK, Rows
<1>2. Active = {} /\ Locking = {} /\ Inserted = {}
  BY DEF Init, Active, Locking, Inserted, New
<1>3. Committed /\ OneActivePerOutcome /\ Apart
  BY <1>2 DEF Committed, OneActivePerOutcome, Apart
<1>4. Held
  BY DEF Init, Held
<1>5. Seeded
  BY OrderConstants DEF Init, Seeded, New, Steps, Rows
<1>6. Serial
  BY <1>2 DEF Serial
<1>7. PositionLimit
  BY <1>2, FS_EmptySet, OrderConstants DEF PositionLimit
<1> QED
  BY <1>1, <1>3, <1>4, <1>5, <1>6, <1>7 DEF Inv

-----------------------------------------------------------------------------
\* Requests and rows have their types: nothing is ever open or closed.
THEOREM TypeCorrect == Spec => []TypeOK
<1>1. Init => TypeOK
  BY InitInv DEF Inv
<1>2. TypeOK /\ [Next]_vars => TypeOK'
  BY TypeStep
<1> QED
  BY <1>1, <1>2, PTL DEF Spec

\* The limit on open positions holds for any number of concurrent requests,
\* once a trade was ever approved: they queue for the safety_state row.
THEOREM LimitKept == Spec => []PositionLimit
<1>1. Inv => PositionLimit
  BY DEF Inv
<1> QED
  BY <1>1, InitInv, InvStep, PTL DEF Spec

\* Two active trades are never on the same outcome of the same market.
THEOREM OneActive == Spec => []OneActivePerOutcome
<1>1. Inv => OneActivePerOutcome
  BY DEF Inv
<1> QED
  BY <1>1, InitInv, InvStep, PTL DEF Spec

\* A paused strategy's request sends no order while the pause stands.
THEOREM PauseHolds == Spec => []PauseBlocks
<1>1. Inv => PauseBlocks
  BY DEF Inv, Held, PauseBlocks
<1> QED
  BY <1>1, InitInv, InvStep, PTL DEF Spec


-----------------------------------------------------------------------------
(***************************************************************************)
(* The refinement of PositionBook.  A request has no row before it commits *)
(* (Written), so the commit is the one step that takes a position; Serial  *)
(* and Apart, established when the limits were checked and the row was     *)
(* inserted, still hold then, and make it an Open of the book.             *)
(***************************************************************************)
Written == \A t \in Trades : row[t] # "none" => req[t].pc = "committed"

\* What the book shows of a state.
Taken == [t \in Active |-> Position(t)]
Over == {t \in Trades : row[t] = "cancelled"}
Limited == stamp[Seed] > 0

\* A step that leaves the rows, and the requests that have committed, alone.
Hidden ==
  /\ row' = row /\ stamp' = stamp
  /\ \A t \in Trades : req[t].pc = "committed" => req'[t] = req[t]

\* The one step of a request that the book shows is its commit.
LEMMA StepIsHidden ==
  ASSUME Inv, [Next]_vars,
         ~ (\E t \in Trades : Commit(t)), ~ EmergencyStop, ~ CancelStale
  PROVE  Hidden
<1>1. ASSUME NEW t \in Trades, NEW q \in Steps, req[t].pc # "committed",
             req' = [req EXCEPT ![t] = Done] \/ Go(t, q), row' = row, stamp' = stamp
      PROVE  Hidden
  <2>1. \A u \in Trades : u # t => req'[u] = req[u]
    BY <1>1 DEF Go, Inv, TypeOK
  <2> QED
    BY <1>1, <2>1 DEF Hidden
<1>2. ASSUME NEW t \in Trades, NEW m \in Markets, NEW o \in Outcomes, NEW k \in Kinds,
             NEW s \in Strategies, Arrive(t, m, o, k, s)
      PROVE  Hidden
  <2>1. req[t].pc = "new" /\ row' = row /\ stamp' = stamp
    BY <1>2 DEF Arrive, At, database
  <2>2. \A u \in Trades : u # t => req'[u] = req[u]
    BY <1>2 DEF Arrive, Inv, TypeOK
  <2> QED
    BY <2>1, <2>2 DEF Hidden
<1>3. ASSUME NEW t \in Trades, Step(t) PROVE Hidden
  <2>1. req[t].pc # "committed" /\ row' = row /\ stamp' = stamp
    BY <1>3 DEF Step, UpdateSafety, CheckLimits, Insert, Refused, CheckPause, CheckSafety,
       AcquireLock, KillSwitchRecheck, Submit, SubmitTimeout, Authorize, At, database
  <2>2. \E q \in Steps : req' = [req EXCEPT ![t] = Done] \/ Go(t, q)
    BY <1>3 DEF Step, UpdateSafety, CheckLimits, Insert, AfterInsert, Refused, CheckPause,
       CheckSafety, AcquireLock, KillSwitchRecheck, Submit, SubmitTimeout, Authorize, RollBack, Steps
  <2> QED
    BY <1>1, <2>1, <2>2
<1>4. ASSUME UNCHANGED <<req, row, stamp>> PROVE Hidden
  BY <1>4 DEF Hidden
<1>5. CASE \/ \E t \in Trades : GrowOld(t)
           \/ \E b \in BOOLEAN : SetTradingEnabled(b)
           \/ \E s \in Strategies : PauseStrategy(s) \/ ResumeStrategy(s)
           \/ UNCHANGED vars
  BY <1>4, <1>5 DEF GrowOld, SetTradingEnabled, PauseStrategy, ResumeStrategy, database, vars
<1>6. CASE Restart
  <2>1. \A t \in Trades : req[t].pc = "committed" => req'[t] = req[t]
    BY <1>6 DEF Restart
  <2> QED
    BY <1>6, <2>1 DEF Restart, Hidden, database
<1> QED
  BY <1>2, <1>3, <1>5, <1>6 DEF Next

\* What a commit does to the requests and the rows.
LEMMA CommitFacts ==
  ASSUME Inv, Written, NEW t \in Trades, Commit(t)
  PROVE  /\ row[t] = "none" /\ row' = [row EXCEPT ![t] = "pending"]
         /\ t \in Inserted /\ t \in Locking /\ req[t].pc = "commit"
         /\ req'[t].pc = "committed" /\ Position(t)' = Position(t)
         /\ Position(t) \in Markets \X Outcomes
         /\ \A u \in Trades : u # t => req'[u] = req[u]
         /\ Limited' <=> Limited
<1>1. /\ req[t].pc = "commit" /\ Go(t, "committed")
      /\ row' = [row EXCEPT ![t] = "pending"]
      /\ stamp' = [stamp EXCEPT ![req[t].safety] = req[t].at]
  BY DEF Commit, At
<1>2. /\ req'[t].pc = "committed" /\ req'[t].market = req[t].market
      /\ req'[t].outcome = req[t].outcome
      /\ \A u \in Trades : u # t => req'[u] = req[u]
  BY <1>1, GoFacts DEF Inv, Steps
<1>3. row[t] = "none" /\ t \in Inserted /\ t \in Locking
  BY <1>1 DEF Written, Inserted, Locking
<1>4. req[t] \in Requests
  BY <1>1, IsRequest DEF Inv, Steps
<1>5. Limited' <=> Limited
  <2>1. /\ req[t].at > 0 /\ req[t].safety \in Rows /\ Seed \in Rows
        /\ (req[t].safety = Seed <=> stamp[Seed] > 0) /\ stamp \in [Rows -> Nat]
    BY <1>1, <1>4, OrderConstants DEF Inv, Seeded, Requests, Steps, Rows, TypeOK
  <2> QED
    BY <1>1, <2>1 DEF Limited
<1> QED
  BY <1>1, <1>2, <1>3, <1>4, <1>5 DEF Position, Requests

\* A row is written by the commit of its request, and by no other step first.
LEMMA WrittenStep ==
  ASSUME Inv, Written, [Next]_vars
  PROVE  Written'
<1>1. ASSUME Hidden PROVE Written'
  BY <1>1 DEF Hidden, Written
<1>2. ASSUME NEW t \in Trades, Commit(t) PROVE Written'
  BY <1>2, CommitFacts DEF Written, Inv, TypeOK
<1>3. CASE EmergencyStop \/ CancelStale
  BY <1>3 DEF EmergencyStop, CancelStale, Written, Active
<1> QED
  BY <1>1, <1>2, <1>3, StepIsHidden

\* No trade in the table belongs to a fill that was announced.
FillsHaveNoTrade == \A t \in fills : row[t] = "none"

\* What becomes of market orders: the fill is published before anything is
\* committed, and the error that follows rolls each of these requests back, so
\* no fill that was announced has, or ever gets, a row.
THEOREM AnnouncedFillsAreRolledBack == Spec => []FillsHaveNoTrade
<1>1. Init => Inv /\ Written
  BY InitInv DEF Init, Written
<1>2. Inv /\ Written /\ [Next]_vars => (Inv /\ Written)'
  BY InvStep, WrittenStep
<1>3. Inv /\ Written => FillsHaveNoTrade
  <2> SUFFICES ASSUME Inv, Written, NEW t \in fills PROVE row[t] = "none"
    BY DEF FillsHaveNoTrade
  <2>1. t \in Trades /\ req[t].pc \in {"authorize", "done"}
    BY DEF Inv, TypeOK, Held
  <2> QED
    BY <2>1 DEF Written
<1> QED
  BY <1>1, <1>2, <1>3, PTL DEF Spec

\* A hidden step leaves the book as it is.
LEMMA HiddenKeepsBook ==
  ASSUME Inv, Hidden
  PROVE  Taken' = Taken /\ Over' = Over /\ (Limited' <=> Limited)
<1>1. Active' = Active
  BY DEF Hidden, Active
<1>2. \A t \in Active : Position(t)' = Position(t)
  BY DEF Hidden, Position, Inv, Committed, Active
<1>3. Taken' = Taken
  BY <1>1, <1>2 DEF Taken
<1> QED
  BY <1>3 DEF Hidden, Over, Limited

\* A commit takes one free position, under the limit.
LEMMA CommitOpens ==
  ASSUME Inv, Written, NEW t \in Trades, Commit(t)
  PROVE  /\ t \notin Active \cup Over
         /\ \A u \in Active : Taken[u] # Position(t)
         /\ Limited => Cardinality(Active) < MaxOpen
         /\ Taken' = [u \in Active \cup {t} |-> IF u = t THEN Position(t) ELSE Taken[u]]
         /\ Over' = Over /\ (Limited' <=> Limited)
<1>1. /\ row[t] = "none" /\ row' = [row EXCEPT ![t] = "pending"]
      /\ t \in Inserted /\ t \in Locking /\ req[t].pc = "commit"
      /\ Position(t)' = Position(t)
      /\ \A u \in Trades : u # t => req'[u] = req[u]
      /\ Limited' <=> Limited
  BY CommitFacts
<1>2. row \in [Trades -> {"none", "pending", "cancelled"}]
  BY DEF Inv, TypeOK
<1>3. t \notin Active \cup Over /\ Active' = Active \cup {t} /\ Over' = Over
  BY <1>1, <1>2 DEF Active, Over
<1>4. \A u \in Active : Taken[u] # Position(t)
  <2>1. \A u \in Active : ~ SamePosition(t, u)
    BY <1>1 DEF Inv, Apart
  <2> QED
    BY <2>1 DEF Taken, Position, SamePosition
<1>5. Limited => Cardinality(Active) < MaxOpen
  BY <1>1 DEF Inv, Serial, Limited
<1>6. \A u \in Active : u \in Trades /\ u # t /\ Position(u)' = Position(u)
  BY <1>1, <1>3 DEF Position, Active
<1>7. Taken' = [u \in Active \cup {t} |-> IF u = t THEN Position(t) ELSE Taken[u]]
  BY <1>1, <1>3, <1>6 DEF Taken
<1> QED
  BY <1>1, <1>3, <1>4, <1>5, <1>7

\* A cancellation gives positions up, and marks their trades for good.
LEMMA CancelCancels ==
  ASSUME Inv, EmergencyStop \/ CancelStale
  PROVE  \E S \in SUBSET Active :
           /\ Taken' = [u \in Active \ S |-> Taken[u]]
           /\ Over' = Over \cup S
           /\ (Limited' <=> Limited)
<1>1. PICK S \in SUBSET Active :
        /\ row' = [t \in Trades |-> IF t \in S THEN "cancelled" ELSE row[t]]
        /\ req' = req /\ stamp' = stamp
  <2>1. CASE EmergencyStop
    BY <2>1 DEF EmergencyStop
  <2>2. CASE CancelStale
    BY <2>2 DEF CancelStale
  <2> QED
    BY <2>1, <2>2
<1>2. Active \subseteq Trades /\ Active' = Active \ S /\ Over' = Over \cup S
  BY <1>1 DEF Active, Over
<1>3. \A u \in Trades : Position(u)' = Position(u)
  BY <1>1 DEF Position
<1>4. Taken' = [u \in Active \ S |-> Taken[u]]
  BY <1>2, <1>3 DEF Taken
<1> QED
  BY <1>1, <1>2, <1>4 DEF Limited

\* The book counts as the requests do.
LEMMA SameCount ==
  ASSUME NEW S
  PROVE  Book!Cardinality(S) = Cardinality(S)
  BY Zenon DEF Book!Cardinality, Cardinality, Book!IsFiniteSet, IsFiniteSet

\* For any number of overlapping requests, cancellations and restarts: what
\* the table of trades shows is a book in which positions are taken one at a
\* time, each after a look at all the others.
THEOREM RequestsAreAtomic == Spec => ImplementsBook
<1>1. Init => Inv /\ Written
  BY InitInv DEF Init, Written
<1>2. Inv /\ Written /\ [Next]_vars => (Inv /\ Written)'
  BY InvStep, WrittenStep
<1>3. Init => Book!Init
  <2> SUFFICES ASSUME Init PROVE Book!Init
    OBVIOUS
  <2>1. Active = {} /\ Over = {}
    BY DEF Init, Active, Over
  <2>2. Taken = [t \in {} |-> t]
    BY <2>1 DEF Taken
  <2> QED
    BY <2>1, <2>2 DEF Book!Init, Taken, Over
<1>4. Inv /\ Written /\ [Next]_vars => [Book!Next]_(<<Taken, Over, Limited>>)
  <2> SUFFICES ASSUME Inv, Written, [Next]_vars
               PROVE  Book!Next \/ (Taken' = Taken /\ Over' = Over /\ Limited' = Limited)
    OBVIOUS
  <2>0. DOMAIN Taken = Active /\ Active \subseteq Trades
    BY DEF Taken, Active
  <2>1. CASE Hidden
    BY <2>1, HiddenKeepsBook DEF Limited
  <2>2. ASSUME NEW t \in Trades, Commit(t) PROVE Book!Next
    <3> DEFINE opens ==
          /\ t \notin DOMAIN Taken \cup Over
          /\ \A u \in DOMAIN Taken : Taken[u] # Position(t)
          /\ Limited => Cardinality(DOMAIN Taken) < MaxOpen
          /\ Taken' = [u \in DOMAIN Taken \cup {t} |-> IF u = t THEN Position(t) ELSE Taken[u]]
          /\ Over' = Over /\ Limited' = Limited
    <3>a. Limited \in BOOLEAN /\ Limited' \in BOOLEAN
      BY DEF Limited
    <3>b. opens
      <4>1. DOMAIN Taken = Active
        BY <2>0
      <4> QED
        BY <2>2, <3>a, <4>1, CommitOpens
    <3>1. Book!Open(t, Position(t))
      BY Zenon, <3>b, SameCount DEF Book!Open, Book!Holding, Taken, Over, Limited
    <3> QED
      BY <2>2, <3>1, CommitFacts DEF Book!Next
  <2>3. CASE EmergencyStop \/ CancelStale
    <3>1. PICK S \in SUBSET Active :
            /\ Taken' = [u \in Active \ S |-> Taken[u]]
            /\ Over' = Over \cup S /\ (Limited' <=> Limited)
      BY <2>3, CancelCancels
    <3>2. Book!Cancel(S)
      BY <2>0, <3>1 DEF Book!Cancel, Book!Holding, Taken, Over, Limited
    <3> QED
      BY <2>0, <3>1, <3>2 DEF Book!Next, Book!Holding, Taken
  <2> QED
    BY <2>1, <2>2, <2>3, StepIsHidden
<1> QED
  BY <1>1, <1>2, <1>3, <1>4, PTL DEF Spec, ImplementsBook, Book!Spec, Taken, Over, Limited

-----------------------------------------------------------------------------
(***************************************************************************)
(* NoCircularWait.  Who holds a lock is inductive (Inside); that the waits *)
(* have no circle follows from their order: a request waits for the        *)
(* safety_state row before it waits for the index, for the index before    *)
(* the lock, and for nobody with the lock in hand.                         *)
(***************************************************************************)
Inside ==
  \A m \in Markets, t \in Trades :
    lock[m] = t <=> (req[t].pc \in {"recheck", "submit"} /\ req[t].market = m)

\* Where the lock of the request's market stays as it is, no request may enter
\* or leave the section that the lock protects.
LEMMA InsideKept ==
  ASSUME TypeOK, Inside, NEW t \in Trades, lock' = lock,
         \A u \in Trades : u # t => req'[u] = req[u],
         req[t].pc \in {"recheck", "submit"} <=> req'[t].pc \in {"recheck", "submit"},
         req[t].pc \in {"recheck", "submit"} => req'[t].market = req[t].market
  PROVE  Inside'
  BY DEF Inside

\* A request that leaves gives back its own lock.
LEMMA InsideReleased ==
  ASSUME TypeOK, Inside, NEW t \in Trades, Release(t), req[t].pc \in {"recheck", "submit"},
         \A u \in Trades : u # t => req'[u] = req[u],
         req'[t].pc \notin {"recheck", "submit"}
  PROVE  Inside'
<1>1. req[t].market \in Markets /\ lock[req[t].market] = t
  BY IsRequest DEF Requests, Steps, Inside
<1>2. lock' = [lock EXCEPT ![req[t].market] = Nobody] /\ Nobody \notin Trades
  BY OrderConstants DEF Release
<1>3. \A m \in Markets : lock'[m] = IF m = req[t].market THEN Nobody ELSE lock[m]
  BY <1>1, <1>2 DEF TypeOK
<1>4. \A m \in Markets, u \in Trades :
        lock'[m] = u <=> (lock[m] = u /\ u # t)
  BY <1>1, <1>2, <1>3 DEF Inside
<1> QED
  BY <1>4 DEF Inside

\* A lock that nobody holds goes to the one request that takes it.
LEMMA InsideAcquired ==
  ASSUME TypeOK, Inside, NEW t \in Trades, AcquireLock(t)
  PROVE  Inside'
<1>1. req[t].pc = "lock" /\ req[t] \in Requests
  BY IsRequest DEF AcquireLock, At, Steps
<1>2. req[t].market \in Markets /\ lock[req[t].market] = Nobody /\ Nobody \notin Trades
  BY <1>1, OrderConstants DEF AcquireLock, Requests
<1>3. /\ req'[t].pc = "recheck" /\ req'[t].market = req[t].market
      /\ \A u \in Trades : u # t => req'[u] = req[u]
  BY <1>1, GoFacts DEF AcquireLock, Steps
<1>4. \A m \in Markets : lock'[m] = IF m = req[t].market THEN t ELSE lock[m]
  BY <1>2 DEF AcquireLock, TypeOK
<1> QED
  BY <1>1, <1>2, <1>3, <1>4 DEF Inside

\* Every step keeps lock and section together.
LEMMA InsideStep == TypeOK /\ Inside /\ [Next]_vars => Inside'
<1> SUFFICES ASSUME TypeOK, Inside, [Next]_vars PROVE Inside'
  OBVIOUS
<1>1. ASSUME NEW t \in Trades, RollBack(t), lock' = lock,
             req[t].pc \notin {"recheck", "submit"}
      PROVE  Inside'
  BY <1>1, RollBackFacts, InsideKept
<1>2. ASSUME NEW t \in Trades, NEW q \in Steps, Go(t, q), lock' = lock, req[t].pc \in Steps,
             req[t].pc \in {"recheck", "submit"} <=> q \in {"recheck", "submit"}
      PROVE  Inside'
  BY <1>2, GoFacts, InsideKept
<1>3. ASSUME NEW t \in Trades, NEW m \in Markets, NEW o \in Outcomes, NEW k \in Kinds,
             NEW s \in Strategies, Arrive(t, m, o, k, s)
      PROVE  Inside'
  <2>1. /\ req'[t].pc = "safety" /\ req[t].pc = "new" /\ lock' = lock
        /\ \A u \in Trades : u # t => req'[u] = req[u]
    BY <1>3 DEF Arrive, At, TypeOK
  <2> QED
    BY <2>1, InsideKept
<1>4. ASSUME NEW t \in Trades, Step(t) PROVE Inside'
  <2>1. CASE UpdateSafety(t) \/ CheckLimits(t) \/ Insert(t) \/ Commit(t) \/ Refused(t)
             \/ CheckPause(t) \/ CheckSafety(t) \/ Authorize(t)
    <3>1. /\ lock' = lock /\ req[t].pc \in Steps \ {"recheck", "submit"}
          /\ RollBack(t) \/ \E q \in Steps \ {"recheck", "submit"} : Go(t, q)
      BY <2>1 DEF UpdateSafety, CheckLimits, Insert, AfterInsert, Commit, Refused, CheckPause,
         CheckSafety, Authorize, At, Steps
    <3> QED
      BY <1>1, <1>2, <3>1
  <2>2. CASE AcquireLock(t)
    BY <2>2, InsideAcquired
  <2>3. CASE KillSwitchRecheck(t)
    <3>1. CASE Go(t, "submit") /\ UNCHANGED lock
      BY <1>2, <2>3, <3>1 DEF KillSwitchRecheck, At, Steps
    <3>2. CASE RollBack(t) /\ Release(t)
      BY <2>3, <3>2, RollBackFacts, InsideReleased DEF KillSwitchRecheck, At
    <3> QED
      BY <2>3, <3>1, <3>2 DEF KillSwitchRecheck
  <2>4. CASE Submit(t) \/ SubmitTimeout(t)
    <3>1. req[t].pc = "submit" /\ Release(t) /\ Go(t, "authorize")
      BY <2>4 DEF Submit, SubmitTimeout, At
    <3> QED
      BY <3>1, GoFacts, InsideReleased DEF Steps
  <2> QED
    BY <1>4, <2>1, <2>2, <2>3, <2>4 DEF Step
<1>5. CASE Restart
  <2>1. /\ \A t \in Trades : req'[t].pc \in {"new", "committed", "done"}
        /\ \A m \in Markets : lock'[m] = Nobody
    BY <1>5 DEF Restart, Done
  <2> QED
    BY <2>1, OrderConstants DEF Inside
<1>6. ASSUME UNCHANGED <<req, lock>> PROVE Inside'
  BY <1>6 DEF Inside
<1>7. CASE \/ \E t \in Trades : GrowOld(t)
           \/ \E b \in BOOLEAN : SetTradingEnabled(b)
           \/ \E s \in Strategies : PauseStrategy(s) \/ ResumeStrategy(s)
           \/ EmergencyStop \/ CancelStale \/ UNCHANGED vars
  BY <1>6, <1>7 DEF GrowOld, SetTradingEnabled, PauseStrategy, ResumeStrategy, EmergencyStop,
     CancelStale, vars
<1> QED
  BY <1>3, <1>4, <1>5, <1>7 DEF Next

\* A request that waits waits for one that is further on; none that has the
\* lock waits, so no set of requests can wait in itself.
LEMMA WaitsEnd ==
  ASSUME TypeOK, Inside, NEW S \in SUBSET Trades, S # {}
  PROVE  \E t \in S : \A u \in S : ~ WaitsFor(t, u)
<1> SUFFICES ASSUME \A t \in S : \E u \in S : WaitsFor(t, u) PROVE FALSE
  OBVIOUS
<1>1. \A t \in S : req[t].pc \in {"safety", "insert", "lock"}
  BY DEF WaitsFor, At
<1>2. \A t \in S : req[t].pc # "lock"
  <2> SUFFICES ASSUME NEW t \in S, req[t].pc = "lock" PROVE FALSE
    OBVIOUS
  <2>1. PICK u \in S : lock[req[t].market] = u
    BY DEF WaitsFor, At
  <2>2. req[t].market \in Markets
    BY IsRequest DEF Requests, Steps
  <2> QED
    BY <1>1, <2>1, <2>2 DEF Inside
<1>3. \A t \in S : req[t].pc # "insert"
  <2> SUFFICES ASSUME NEW t \in S, req[t].pc = "insert" PROVE FALSE
    OBVIOUS
  <2>1. PICK u \in S : u \in Inserted
    BY DEF WaitsFor, At
  <2>2. req[u].pc \notin {"insert", "lock", "safety"}
    BY <1>2, <2>1 DEF Inserted, Locking
  <2> QED
    BY <1>1, <2>2
<1> QED
  BY <1>1, <1>2, <1>3 DEF WaitsFor, At, Locking

\* Any number of requests, on any number of markets: they never wait for one
\* another in a circle, and no lock outlives the request that took it.
THEOREM WaitsAreOrdered == Spec => []NoCircularWait
<1>1. Init => TypeOK /\ Inside
  <2> SUFFICES ASSUME Init PROVE Inside
    BY InitInv DEF Inv
  <2> QED
    BY OrderConstants DEF Init, Inside, New
<1>2. TypeOK /\ Inside /\ [Next]_vars => (TypeOK /\ Inside)'
  BY TypeStep, InsideStep
<1>3. TypeOK /\ Inside => NoCircularWait
  BY WaitsEnd DEF NoCircularWait, Inside
<1> QED
  BY <1>1, <1>2, <1>3, PTL DEF Spec
=============================================================================
