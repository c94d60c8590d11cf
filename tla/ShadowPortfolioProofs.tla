----------------------- MODULE ShadowPortfolioProofs -----------------------
(***************************************************************************)
(* For any number of positions, tasks and prices: the shadow portfolio is  *)
(* well typed, and every closed row reconciles, however the two loops, the *)
(* openers and the manual closes interleave.                               *)
(***************************************************************************)
EXTENDS ShadowPortfolio, TLAPS

\* What a pass decides is a real exit: the exit price and the reason agree.
SoundVerdict(x, why) ==
  /\ x \in Column
  /\ why \in {"manual", "take_profit", "stop_loss", "timeout"}
  /\ why = "take_profit" => x = TakeProfit
  /\ why = "stop_loss" => x = StopLoss
  /\ why = "timeout" => StopLoss < x /\ x < TakeProfit

\* Every column value, NULL included, is modelled by a number.
LEMMA ColumnIsInt == ASSUME NEW x \in Column PROVE x \in Int
<1>1. CASE x \in Prices BY <1>1, PortfolioConstants
<1>2. CASE x \in {Entry, TakeProfit, StopLoss} BY <1>2, PortfolioConstants
<1>3. CASE x = NoPrice BY <1>3 DEF NoPrice
<1> QED BY <1>1, <1>2, <1>3 DEF Column, Price

\* Verdict on any well-typed row is sound, or holds the position.
LEMMA VerdictIsSound ==
  ASSUME NEW row \in Row, Verdict(row)[2] # "held"
  PROVE  SoundVerdict(Verdict(row)[1], Verdict(row)[2])
<1> DEFINE p == Effective(row.at)
<1>1. p \in Column /\ p \in Int
  <2>1. row.at \in Column BY DEF Row
  <2>2. p \in Column BY <2>1 DEF Effective, Column, Price
  <2> QED BY <2>2, ColumnIsInt
<1>2. CASE p >= TakeProfit
  BY <1>1, <1>2, PortfolioConstants DEF Verdict, SoundVerdict, Column, Price
<1>3. CASE p < TakeProfit /\ p <= StopLoss
  BY <1>1, <1>3, PortfolioConstants DEF Verdict, SoundVerdict, Column, Price
<1>4. CASE p < TakeProfit /\ p > StopLoss /\ row.old
  BY <1>1, <1>4, PortfolioConstants DEF Verdict, SoundVerdict, Column, Price
<1>5. CASE p < TakeProfit /\ p > StopLoss /\ ~ row.old
  BY <1>1, <1>5, PortfolioConstants DEF Verdict
<1> QED BY <1>1, <1>2, <1>3, <1>4, <1>5, PortfolioConstants

\* The PnL of a price is a number.
LEMMA PnlIsInt == ASSUME NEW x \in Column PROVE ComputePnl(x) \in Int
<1>1. x \in Int /\ Entry \in Int /\ Quantity \in Int /\ Fee \in Int
  BY ColumnIsInt, PortfolioConstants
<1>2. ASSUME NEW a \in Int, NEW b \in Int PROVE a * b \in Int
  OBVIOUS
<1>3. (x - Entry) * Quantity \in Int
  BY <1>1, <1>2
<1> QED BY <1>1, <1>3 DEF ComputePnl

\* A sound close of one row keeps the column types and the reconciliation.
LEMMA CloseRowIsClean ==
  ASSUME TypeOK, ReconcilesClean, NEW t \in Trades, NEW x, NEW why,
         SoundVerdict(x, why), CloseRow(t, x, why)
  PROVE  /\ status' \in [Trades -> {"absent", "open", "closed"}]
         /\ current' \in [Trades -> Column] /\ exit' \in [Trades -> Column]
         /\ net' \in [Trades -> Int]
         /\ reason' \in [Trades -> {"none", "manual", "take_profit", "stop_loss", "timeout"}]
         /\ ReconcilesClean'
<1>1. ComputePnl(x) \in Int BY PnlIsInt DEF SoundVerdict
<1>2. /\ status' \in [Trades -> {"absent", "open", "closed"}]
      /\ current' \in [Trades -> Column] /\ exit' \in [Trades -> Column]
      /\ net' \in [Trades -> Int]
      /\ reason' \in [Trades -> {"none", "manual", "take_profit", "stop_loss", "timeout"}]
  BY <1>1 DEF TypeOK, CloseRow, SoundVerdict, Column
<1>3. ReconcilesClean'
  <2> SUFFICES ASSUME NEW u \in Trades, status'[u] = "closed"
               PROVE  /\ net'[u] = ComputePnl(exit'[u])
                      /\ reason'[u] # "none"
                      /\ reason'[u] = "take_profit" => exit'[u] = TakeProfit
                      /\ reason'[u] = "stop_loss" => exit'[u] = StopLoss
                      /\ reason'[u] = "timeout" => StopLoss < exit'[u] /\ exit'[u] < TakeProfit
    BY DEF ReconcilesClean, ComputePnl
  <2>1. CASE u = t
    BY <2>1 DEF TypeOK, CloseRow, SoundVerdict
  <2>2. CASE u # t
    BY <2>2 DEF TypeOK, CloseRow, ReconcilesClean
  <2> QED BY <2>1, <2>2
<1> QED BY <1>2, <1>3

IInv == TypeOK /\ ReconcilesClean

\* The initial states satisfy the invariant.
LEMMA InitInvariant == Init => IInv
<1> SUFFICES ASSUME Init PROVE IInv
  OBVIOUS
<1>1. TypeOK
  BY PortfolioConstants DEF Init, TypeOK, Column, NoPrice, Task
<1>2. ReconcilesClean
  BY DEF Init, ReconcilesClean
<1> QED BY <1>1, <1>2 DEF IInv

\* Steps that leave the table alone.
LEMMA TableUntouched ==
  ASSUME ReconcilesClean, UNCHANGED columns
  PROVE  ReconcilesClean'
  BY DEF columns, ReconcilesClean, ComputePnl

\* A row is inserted open, with nothing to reconcile.
LEMMA OpenSteps ==
  ASSUME IInv, NEW k \in Tasks,
         OpenInsert(k) \/ \E t \in Trades : OpenRead(k, t)
  PROVE  IInv'
<1> USE DEF IInv
<1>1. CASE \E t \in Trades : OpenRead(k, t)
  <2> PICK t \in Trades : OpenRead(k, t) BY <1>1
  <2>1. ReconcilesClean' BY TableUntouched DEF OpenRead
  <2>2. task' \in [Tasks -> Task]
    BY DEF OpenRead, TypeOK, Task
  <2> QED BY <2>1, <2>2 DEF OpenRead, TypeOK, columns
<1>2. CASE OpenInsert(k)
  <2> DEFINE t == task[k].of
  <2>1. t \in Trades
    BY <1>2 DEF OpenInsert, TypeOK, Task, Idle
  <2>2. task' \in [Tasks -> Task] /\ gauge' \in [open : Int, closed : Int]
    BY <1>2 DEF OpenInsert, TypeOK, Task
  <2>3. CASE status[t] = "absent"
    <3>1. TypeOK'
      BY <1>2, <2>1, <2>2, <2>3, PortfolioConstants DEF OpenInsert, TypeOK, Column, Price
    <3>2. ReconcilesClean'
      BY <1>2, <2>1, <2>3 DEF OpenInsert, TypeOK, ReconcilesClean, ComputePnl
    <3> QED BY <3>1, <3>2
  <2>4. CASE status[t] # "absent"
    BY <1>2, <2>2, <2>4, TableUntouched DEF OpenInsert, TypeOK, columns
  <2> QED BY <2>3, <2>4
<1> QED BY <1>1, <1>2

\* A manual close writes price, reason and PnL together.
LEMMA CloseSteps ==
  ASSUME IInv, NEW k \in Tasks,
         CloseWrite(k) \/ \E t \in Trades : CloseRead(k, t)
  PROVE  IInv'
<1> USE DEF IInv
<1>1. CASE \E t \in Trades : CloseRead(k, t)
  <2> PICK t \in Trades : CloseRead(k, t) BY <1>1
  <2>1. ReconcilesClean' BY TableUntouched DEF CloseRead
  <2>2. task' \in [Tasks -> Task]
    <3>1. Effective(current[t]) \in Column
      BY DEF TypeOK, Effective, Column, Price
    <3> QED BY <3>1 DEF CloseRead, TypeOK, Task
  <2> QED BY <2>1, <2>2 DEF CloseRead, TypeOK, columns
<1>2. CASE CloseWrite(k)
  <2>1. task[k].of \in Trades /\ task[k].at \in Column
    BY <1>2 DEF CloseWrite, TypeOK, Task, Idle
  <2>2. SoundVerdict(task[k].at, "manual")
    BY <2>1 DEF SoundVerdict, Column
  <2>3. task' \in [Tasks -> Task] /\ gauge' \in [open : Int, closed : Int]
    BY <1>2 DEF CloseWrite, CountClosed, TypeOK, Task
  <2> QED BY <1>2, <2>1, <2>2, <2>3, CloseRowIsClean DEF CloseWrite, TypeOK
<1> QED BY <1>1, <1>2

\* So does a close by the evaluation, from whichever row it read.
LEMMA EvalSteps ==
  ASSUME IInv, EvalPass \/ EvalError
  PROVE  IInv'
<1> USE DEF IInv
<1>1. CASE EvalBegin
  <2>1. evalList' \subseteq Row
    <3> SUFFICES ASSUME NEW t \in Open
                 PROVE  [of |-> t, at |-> current[t], old |-> t \in expired] \in Row
      BY <1>1 DEF EvalBegin
    <3>1. t \in Trades /\ current[t] \in Column BY DEF Open, TypeOK
    <3>2. (t \in expired) \in BOOLEAN OBVIOUS
    <3> QED BY <3>1, <3>2, Zenon DEF Row
  <2> QED BY <1>1, <2>1, TableUntouched DEF EvalBegin, TypeOK, columns
<1>2. CASE \E row \in evalList : EvalOne(row)
  <2> PICK row \in evalList : EvalOne(row) BY <1>2
  <2>1. row \in Row /\ row.of \in Trades BY DEF TypeOK, Row
  <2>2. CASE Verdict(row)[2] = "held"
    BY <2>2, TableUntouched DEF EvalOne, TypeOK, columns
  <2>3. CASE Verdict(row)[2] # "held"
    <3>1. SoundVerdict(Verdict(row)[1], Verdict(row)[2])
      BY <2>1, <2>3, VerdictIsSound
    <3>2. CloseRow(row.of, Verdict(row)[1], Verdict(row)[2]) /\ CountClosed
      BY <2>3 DEF EvalOne
    <3>3. gauge' \in [open : Int, closed : Int]
      BY <3>2 DEF CountClosed, TypeOK
    <3> QED BY <2>1, <3>1, <3>2, <3>3, CloseRowIsClean DEF EvalOne, TypeOK
  <2> QED BY <2>2, <2>3
<1>3. CASE EvalError
  BY <1>3, TableUntouched, PortfolioConstants DEF EvalError, TypeOK, columns
<1> QED BY <1>1, <1>2, <1>3 DEF EvalPass

\* The price tracker writes the current price only.
LEMMA TrackSteps ==
  ASSUME IInv,
         \/ TrackBegin \/ TrackError
         \/ \E t \in trackList : TrackSkip(t) \/ \E p \in Prices : TrackOne(t, p)
  PROVE  IInv'
<1> USE DEF IInv
<1>1. CASE TrackBegin
  BY <1>1, TableUntouched DEF TrackBegin, TypeOK, columns, Open
<1>2. CASE TrackError
  BY <1>2, TableUntouched, PortfolioConstants DEF TrackError, TypeOK, columns
<1>3. CASE \E t \in trackList : TrackSkip(t)
  BY <1>3, TableUntouched DEF TrackSkip, TypeOK, columns
<1>4. CASE \E t \in trackList, p \in Prices : TrackOne(t, p)
  <2> PICK t \in trackList, p \in Prices : TrackOne(t, p) BY <1>4
  <2>1. TypeOK'
    BY DEF TrackOne, UpdateCurrentPrice, TypeOK, Column, Price
  <2>2. ReconcilesClean'
    BY DEF TrackOne, UpdateCurrentPrice, ReconcilesClean, ComputePnl
  <2> QED BY <2>1, <2>2
<1> QED BY <1>1, <1>2, <1>3, <1>4

\* Every step keeps the invariant.
LEMMA NextInvariant == IInv /\ [Next]_vars => IInv'
<1> SUFFICES ASSUME IInv, [Next]_vars PROVE IInv'
  OBVIOUS
<1>1. CASE \E t \in Trades : Age(t)
  BY <1>1, TableUntouched DEF Age, IInv, TypeOK, columns
<1>2. CASE \E k \in Tasks, t \in Trades : OpenRead(k, t) \/ CloseRead(k, t)
  BY <1>2, OpenSteps, CloseSteps
<1>3. CASE \E k \in Tasks : OpenInsert(k) \/ CloseWrite(k)
  BY <1>3, OpenSteps, CloseSteps
<1>4. CASE EvalPass \/ EvalError
  BY <1>4, EvalSteps
<1>5. CASE \/ TrackBegin \/ TrackError
           \/ \E t \in trackList : TrackSkip(t) \/ \E p \in Prices : TrackOne(t, p)
  BY <1>5, TrackSteps
<1>6. CASE UNCHANGED vars
  BY <1>6, TableUntouched DEF vars, columns, IInv, TypeOK
<1> QED BY <1>1, <1>2, <1>3, <1>4, <1>5, <1>6 DEF Next

\* The types of the table, of the lists the loops hold and of the tasks.
THEOREM TypeCorrect == Spec => []TypeOK
<1>1. IInv => TypeOK BY DEF IInv
<1> QED BY <1>1, InitInvariant, NextInvariant, PTL DEF Spec

\* Every closed row reconciles with its own exit price and trigger, for any
\* set of trades, tasks and prices and any number of database errors.
THEOREM ClosedRowsReconcile == Spec => []ReconcilesClean
<1>1. IInv => ReconcilesClean BY DEF IInv
<1> QED BY <1>1, InitInvariant, NextInvariant, PTL DEF Spec

\* No step of any actor re-opens a closed row.
THEOREM ClosedForGood == Spec => ClosedStaysClosed
<1>1. TypeOK /\ [Next]_vars =>
        [\A t \in Trades : status[t] = "closed" => status'[t] = "closed"]_vars
  <2> SUFFICES ASSUME TypeOK, [Next]_vars, NEW t \in Trades, status[t] = "closed"
               PROVE  status'[t] = "closed"
    OBVIOUS
  <2>1. CASE UNCHANGED status BY <2>1
  <2>2. ASSUME NEW u, NEW x, NEW why, CloseRow(u, x, why)
        PROVE  status'[t] = "closed"
    BY <2>2 DEF CloseRow, TypeOK
  <2>3. CASE \E k \in Tasks : OpenInsert(k)
    BY <2>3 DEF OpenInsert, TypeOK, columns
  <2>4. CASE \E k \in Tasks : CloseWrite(k)
    BY <2>2, <2>4 DEF CloseWrite
  <2>5. CASE \E row \in evalList : EvalOne(row)
    <3> PICK row \in evalList : EvalOne(row) BY <2>5
    <3>1. CASE Verdict(row)[2] = "held" BY <3>1, <2>1 DEF EvalOne, columns
    <3>2. CASE Verdict(row)[2] # "held" BY <3>2, <2>2 DEF EvalOne
    <3> QED BY <3>1, <3>2
  <2>6. CASE \E u \in trackList, p \in Prices : TrackOne(u, p)
    BY <2>6 DEF TrackOne, UpdateCurrentPrice
  <2> QED
    BY <2>1, <2>3, <2>4, <2>5, <2>6
    DEF Next, vars, columns, Age, OpenRead, CloseRead, EvalPass, EvalBegin,
        EvalError, TrackBegin, TrackSkip, TrackError
<1> QED BY <1>1, TypeCorrect, PTL DEF Spec, ClosedStaysClosed
=============================================================================
