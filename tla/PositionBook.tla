---------------------------- MODULE PositionBook ----------------------------
(***************************************************************************)
(* What opening and cancelling trades amounts to, whatever the requests do *)
(* on the way and however they overlap: one book, in which a trade takes a *)
(* free position in a single step, under a limit on the positions held,    *)
(* keeps it until it is cancelled, and never comes back.  TradeOrders      *)
(* implements it.                                                          *)
(***************************************************************************)
EXTENDS Integers, FiniteSets

CONSTANTS Trades, Positions, Limit

VARIABLES
  book,      \* the position of each trade that holds one
  over,      \* trades that have been cancelled
  limited    \* whether the limit is kept (see TradeOrders!PositionLimit)

Holding == DOMAIN book

Init == book = [t \in {} |-> t] /\ over = {} /\ limited \in BOOLEAN

Open(t, p) ==
  /\ t \notin Holding \cup over
  /\ \A u \in Holding : book[u] # p
  /\ limited => Cardinality(Holding) < Limit
  /\ book' = [u \in Holding \cup {t} |-> IF u = t THEN p ELSE book[u]]
  /\ UNCHANGED <<over, limited>>

\* Any number of trades at once: by the timeout or by the emergency stop.
Cancel(S) ==
  /\ book' = [u \in Holding \ S |-> book[u]]
  /\ over' = over \cup S
  /\ UNCHANGED limited

Next ==
  \/ \E t \in Trades, p \in Positions : Open(t, p)
  \/ \E S \in SUBSET Holding : Cancel(S)

Spec == Init /\ [][Next]_<<book, over, limited>>
=============================================================================
