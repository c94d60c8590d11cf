-------------------------- MODULE ShadowPortfolio --------------------------
(***************************************************************************)
(* The Solana shadow portfolio: services/shadow_portfolio_service.py, the  *)
(* table behind it (repositories/shadow_position_repository.py) and the    *)
(* two loops of main.py that run over it, the price tracker and the        *)
(* evaluation.                                                             *)
(*                                                                         *)
(* Each loop reads the open rows once and then works through that list,    *)
(* one committed UPDATE per row and an await around each, while the other  *)
(* loop, an opener and a manual close do the same in sessions of their     *)
(* own.  An action is what one of them does between two awaits.            *)
(***************************************************************************)
EXTENDS Integers, FiniteSets

CONSTANTS
  Trades,       \* research trades a position may be opened from
  Prices,       \* token prices the price chain can answer
  Entry,        \* entry_price of every position
  TakeProfit,   \* tp_price
  StopLoss,     \* sl_price
  Quantity,     \* size_usd / entry_price
  Fee,          \* size_usd * SOLANA_SHADOW_FEE_PCT, paid on entry and on exit
  Tasks,        \* request tasks: each opens or closes positions
  MaxErrors     \* bound: database errors that abort a pass of a loop

ASSUME PortfolioConstants ==
  /\ Prices \subseteq Nat
  /\ Entry \in Nat /\ TakeProfit \in Nat /\ StopLoss \in Nat
  /\ 0 < StopLoss /\ StopLoss < Entry /\ Entry < TakeProfit
  /\ Quantity \in Nat /\ Fee \in Nat
  /\ MaxErrors \in Nat

VARIABLES
  status, current, exit, net, reason,   \* columns of shadow_positions, by trade
  expired,     \* trades opened more than SOLANA_SHADOW_TIMEOUT_HOURS ago
  evalList,    \* rows left in this pass of _shadow_eval_loop, as they were read
  trackList,   \* rows left in this pass of _shadow_price_tracker_loop
  task,        \* what each request task has read and not yet acted on
  gauge,       \* solana_shadow_positions_total, by status
  errors       \* database errors so far

columns == <<status, current, exit, net, reason>>
vars == <<status, current, exit, net, reason, expired,
          evalList, trackList, task, gauge, errors>>

NoPrice == -1      \* NULL in a price or PnL column
Idle == [op |-> "idle"]

Open == {t \in Trades : status[t] = "open"}

\* _compute_pnl: entry price and size of a position never change.
ComputePnl(x) == (x - Entry) * Quantity - 2 * Fee

\* float(pos.current_price or pos.entry_price): NULL and a price of zero are falsy.
Effective(p) == IF p \in {0, NoPrice} THEN Entry ELSE p

Init ==
  /\ status  = [t \in Trades |-> "absent"]
  /\ current = [t \in Trades |-> NoPrice]
  /\ exit    = [t \in Trades |-> NoPrice]
  /\ net     = [t \in Trades |-> NoPrice]
  /\ reason  = [t \in Trades |-> "none"]
  /\ expired = {}
  /\ evalList = {} /\ trackList = {}
  /\ task = [k \in Tasks |-> Idle]
  /\ gauge = [open |-> 0, closed |-> 0]
  /\ errors = 0

\* Time passes: an open position reaches its maximum age.
Age(t) ==
  /\ status[t] = "open" /\ t \notin expired
  /\ expired' = expired \cup {t}
  /\ UNCHANGED <<columns, evalList, trackList, task, gauge, errors>>

-----------------------------------------------------------------------------
(* open_from_research_trade *)

\* get_by_research_trade: an existing position is returned as it is.
OpenRead(k, t) ==
  /\ task[k] = Idle
  /\ status[t] = "absent"
  /\ task' = [task EXCEPT ![k] = [op |-> "open", of |-> t]]
  /\ UNCHANGED <<columns, expired, evalList, trackList, gauge, errors>>

\* create: the unique constraint on research_trade_id turns the second INSERT
\* into a read of the first row.  The gauge counts both.
OpenInsert(k) ==
  /\ task[k].op = "open"
  /\ LET t == task[k].of IN
       IF status[t] = "absent"
       THEN /\ status'  = [status EXCEPT ![t] = "open"]
            /\ current' = [current EXCEPT ![t] = Entry]
            /\ net'     = [net EXCEPT ![t] = 0]
            /\ UNCHANGED <<exit, reason>>
       ELSE UNCHANGED columns
  /\ gauge' = [gauge EXCEPT !.open = @ + 1]
  /\ task' = [task EXCEPT ![k] = Idle]
  /\ UNCHANGED <<expired, evalList, trackList, errors>>

-----------------------------------------------------------------------------
(* ShadowPositionRepository.close_position and its callers *)

\* Mutant: the PnL columns are left to the next price update.
CloseRow_KeepsPnl(t, x, why) ==
  /\ status'  = [status EXCEPT ![t] = "closed"]
  /\ current' = [current EXCEPT ![t] = x]
  /\ exit'    = [exit EXCEPT ![t] = x]
  /\ reason'  = [reason EXCEPT ![t] = why]
  /\ UNCHANGED net

\* One UPDATE ... WHERE id = position_id, committed.  The status is not in
\* the WHERE clause.
CloseRow(t, x, why) ==
  /\ status'  = [status EXCEPT ![t] = "closed"]
  /\ current' = [current EXCEPT ![t] = x]
  /\ exit'    = [exit EXCEPT ![t] = x]
  /\ net'     = [net EXCEPT ![t] = ComputePnl(x)]
  /\ reason'  = [reason EXCEPT ![t] = why]

CountClosed == gauge' = [open |-> gauge.open - 1, closed |-> gauge.closed + 1]

\* ShadowPortfolioService.close_position reads the row and returns None
\* unless it is open ...
CloseRead(k, t) ==
  /\ task[k] = Idle
  /\ status[t] = "open"
  /\ task' = [task EXCEPT ![k] =
                [op |-> "close", of |-> t, at |-> Effective(current[t])]]
  /\ UNCHANGED <<columns, expired, evalList, trackList, gauge, errors>>

\* ... and closes it at the price it read.
CloseWrite(k) ==
  /\ task[k].op = "close"
  /\ CloseRow(task[k].of, task[k].at, "manual")
  /\ CountClosed
  /\ task' = [task EXCEPT ![k] = Idle]
  /\ UNCHANGED <<expired, evalList, trackList, errors>>

-----------------------------------------------------------------------------
(* _shadow_eval_loop: evaluate_all *)

\* The rows and the time are read once, at the start of the pass.
EvalBegin ==
  /\ evalList = {} /\ Open # {}
  /\ evalList' = {[of |-> t, at |-> current[t], old |-> t \in expired] : t \in Open}
  /\ UNCHANGED <<columns, expired, trackList, task, gauge, errors>>

\* Mutant: a take-profit exit is booked at the price seen, not at tp_price.
Verdict_AtMarket(row) ==
  LET p == Effective(row.at) IN
  CASE p >= TakeProfit -> <<p, "take_profit">>
    [] p < TakeProfit /\ p <= StopLoss -> <<StopLoss, "stop_loss">>
    [] p < TakeProfit /\ p > StopLoss /\ row.old -> <<p, "timeout">>
    [] OTHER -> <<p, "held">>

\* Mutant: only a position that never got a price times out.
Verdict_NoTimeout(row) ==
  LET p == Effective(row.at) IN
  CASE p >= TakeProfit -> <<TakeProfit, "take_profit">>
    [] p < TakeProfit /\ p <= StopLoss -> <<StopLoss, "stop_loss">>
    [] p < TakeProfit /\ p > StopLoss /\ row.old /\ row.at = NoPrice -> <<p, "timeout">>
    [] OTHER -> <<p, "held">>

\* The exit price and the reason evaluate_all decides for a row.
Verdict(row) ==
  LET p == Effective(row.at) IN
  CASE p >= TakeProfit -> <<TakeProfit, "take_profit">>
    [] p < TakeProfit /\ p <= StopLoss -> <<StopLoss, "stop_loss">>
    [] p < TakeProfit /\ p > StopLoss /\ row.old -> <<p, "timeout">>
    [] OTHER -> <<p, "held">>

EvalOne(row) ==
  /\ row \in evalList
  /\ evalList' = evalList \ {row}
  /\ LET v == Verdict(row) IN
       IF v[2] = "held"
       THEN UNCHANGED <<columns, gauge>>
       ELSE CloseRow(row.of, v[1], v[2]) /\ CountClosed
  /\ UNCHANGED <<expired, trackList, task, errors>>

\* A database error ends the pass; the loop starts the next one 5 s later.
EvalError ==
  /\ evalList # {} /\ errors < MaxErrors
  /\ evalList' = {} /\ errors' = errors + 1
  /\ UNCHANGED <<columns, expired, trackList, task, gauge>>

-----------------------------------------------------------------------------
(* _shadow_price_tracker_loop *)

TrackBegin ==
  /\ trackList = {} /\ Open # {}
  /\ trackList' = Open
  /\ UNCHANGED <<columns, expired, evalList, task, gauge, errors>>

\* Mutant: the whole row, as it was read, is written back.
UpdateCurrentPrice_WholeRow(t, p) ==
  /\ current' = [current EXCEPT ![t] = p]
  /\ status' = [status EXCEPT ![t] = "open"]
  /\ UNCHANGED <<exit, net, reason>>

\* ShadowPositionRepository.update_current_price: again no test of the status.
UpdateCurrentPrice(t, p) ==
  /\ current' = [current EXCEPT ![t] = p]
  /\ UNCHANGED <<status, exit, net, reason>>

\* The price chain answered p for the row's mint.
TrackOne(t, p) ==
  /\ t \in trackList
  /\ trackList' = trackList \ {t}
  /\ UpdateCurrentPrice(t, p)
  /\ UNCHANGED <<expired, evalList, task, gauge, errors>>

\* The chain ended in source="unavailable": the row keeps its price.
TrackSkip(t) ==
  /\ t \in trackList
  /\ trackList' = trackList \ {t}
  /\ UNCHANGED <<columns, expired, evalList, task, gauge, errors>>

TrackError ==
  /\ trackList # {} /\ errors < MaxErrors
  /\ trackList' = {} /\ errors' = errors + 1
  /\ UNCHANGED <<columns, expired, evalList, task, gauge>>

-----------------------------------------------------------------------------
EvalPass == EvalBegin \/ \E row \in evalList : EvalOne(row)

Next ==
  \/ \E t \in Trades : Age(t)
  \/ \E k \in Tasks, t \in Trades : OpenRead(k, t) \/ CloseRead(k, t)
  \/ \E k \in Tasks : OpenInsert(k) \/ CloseWrite(k)
  \/ EvalPass
  \/ EvalError
  \/ TrackBegin
  \/ \E t \in trackList : TrackSkip(t) \/ \E p \in Prices : TrackOne(t, p)
  \/ TrackError

Spec == Init /\ [][Next]_vars

\* The evaluation loop runs for ever and every position grows old; nothing
\* is assumed of the tracker, of the requests or of the price chain.
FairSpec ==
  /\ Spec
  /\ WF_vars(EvalPass)
  /\ \A t \in Trades : WF_vars(Age(t))

-----------------------------------------------------------------------------
Price == Prices \cup {Entry, TakeProfit, StopLoss}
Column == Price \cup {NoPrice}
Row == [of : Trades, at : Column, old : BOOLEAN]
Task == {Idle} \cup [op : {"open"}, of : Trades]
               \cup [op : {"close"}, of : Trades, at : Column]

\* Columns, work lists and gauge have the types of the schema; close_reason
\* is one of the reasons the model class lists (_CLOSED_REASONS).
TypeOK ==
  /\ status \in [Trades -> {"absent", "open", "closed"}]
  /\ current \in [Trades -> Column] /\ exit \in [Trades -> Column]
  /\ net \in [Trades -> Int]
  /\ reason \in [Trades -> {"none", "manual", "take_profit", "stop_loss", "timeout"}]
  /\ expired \subseteq Trades
  /\ evalList \subseteq Row /\ trackList \subseteq Trades
  /\ task \in [Tasks -> Task]
  /\ gauge \in [open : Int, closed : Int]
  /\ errors \in 0 .. MaxErrors

\* Reconciliation (shadow_reconciliation_service.reconcile_all) finds nothing
\* to report on a closed row, whichever of the racing closers wrote it last:
\* its PnL is the one its own exit price gives, a take-profit or stop-loss
\* exit is booked exactly at its trigger, and a timeout strictly between them.
ReconcilesClean ==
  \A t \in Trades : status[t] = "closed" =>
    /\ net[t] = ComputePnl(exit[t])
    /\ reason[t] # "none"
    /\ reason[t] = "take_profit" => exit[t] = TakeProfit
    /\ reason[t] = "stop_loss" => exit[t] = StopLoss
    /\ reason[t] = "timeout" => StopLoss < exit[t] /\ exit[t] < TakeProfit

\* No loop that still holds a row it read as open brings it back to life, and
\* the price tracker in particular never touches status, PnL or exit price.
ClosedStaysClosed ==
  [][\A t \in Trades : status[t] = "closed" => status'[t] = "closed"]_vars

\* Every position is closed in the end, whatever the price chain does: the
\* timeout works from the row's own data, and an aborted pass is run again.
EventuallyClosed == \A t \in Trades : (status[t] = "open") ~> (status[t] = "closed")

\* docs/SPRINT3_PRODUCTION_READINESS.md:53: a close is final, so a second
\* closer changes neither the exit nor the reason of a closed position.
ClosedOnce ==
  [][\A t \in Trades : status[t] = "closed" =>
       exit'[t] = exit[t] /\ reason'[t] = reason[t]]_vars

\* docs/SPRINT3_RELEASE_CHECKLIST.md:55: no shadow metric goes negative.
GaugeNotNegative == gauge.open >= 0

\* docs/SPRINT3_PRODUCTION_READINESS.md, evaluation pipeline: a pass that
\* reads a price at or below sl_price closes the position.
StopLossHonoured ==
  [][\A row \in evalList \ evalList' :
       (row.at # NoPrice /\ row.at <= StopLoss /\ evalList' = evalList \ {row}
          /\ errors' = errors)
         => status'[row.of] = "closed"]_vars
=============================================================================
