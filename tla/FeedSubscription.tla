-------------------------- MODULE FeedSubscription --------------------------
(***************************************************************************)
(* The websocket connection of PolymarketWSIngester and the assets it is   *)
(* subscribed to (ingesters/polymarket_ws.py).  Three tasks share self.ws, *)
(* the mapping of assets to markets and the list _subscribed_assets:       *)
(*   - the message loop receives, and connects and subscribes again when   *)
(*     the connection is gone or silent;                                   *)
(*   - the subscription refresher reads the markets every five minutes and *)
(*     subscribes to the new ones;                                         *)
(*   - the stale watchdog closes the connection when the last message is   *)
(*     older than WS_STALE_TIMEOUT.                                        *)
(* Each runs until its next await.  The heartbeat keeps the server talking *)
(* and changes nothing here.                                               *)
(*                                                                         *)
(* Two assumptions.  A market enters the selection of _refresh_mappings    *)
(* once and leaves it for good when it is resolved.  And one pass of the   *)
(* refresher has at most nine chunks to send, which at 0.2 s each is less  *)
(* than the shortest backoff of the loop, 2 s: somewhere in the backoff    *)
(* the refresher is not sending (see Backoff).                             *)
(***************************************************************************)
EXTENDS FeedState, FiniteSetsExt

vars == <<market, mapped, recorded, ws, subs, loop, refresher, watchdog, last,
          started, faults>>

Listed == {a \in Assets : market[a] = "listed"}

\* A list that holds each asset of a set once, and the length of a list.
Once(S) == [a \in Assets |-> IF a \in S THEN 1 ELSE 0]
Length(list) == FoldSet(LAMBDA a, n : list[a] + n, 0, Assets)

At(pc) == [pc |-> pc, rows |-> {}, todo |-> {}]
Asleep == [pc |-> "sleep", rows |-> {}, current |-> {}, new |-> {}, todo |-> {}]

Init ==
  /\ market \in [Assets -> {"unlisted", "listed"}]
  /\ mapped = {} /\ recorded = Once({})
  /\ ws = "none" /\ subs = {}
  /\ loop = At("dial")
  /\ refresher = Asleep /\ watchdog = "idle"
  /\ last = "never" /\ started = FALSE
  /\ faults = 0

Fault == faults < MaxFaults /\ faults' = faults + 1

\* _try_subscribe: the message reaches the server on an open connection, is
\* lost on a dead one, and fails on one that is closing, closed or None.
TrySubscribe(chunk) == subs' = IF ws = "open" THEN subs \cup chunk ELSE subs

Chunks(S) == {c \in SUBSET S : Cardinality(c) = Min({ChunkSize, Cardinality(S)})}

-----------------------------------------------------------------------------
\* The message loop.

\* Its top: with no connection it backs off and connects, else it receives.
Top ==
  /\ loop.pc = "top"
  /\ loop' = At(IF ws \in {"none", "closed"} THEN "backoff" ELSE "recv")
  /\ started' = TRUE
  /\ UNCHANGED <<market, mapped, recorded, ws, subs, refresher, watchdog, last, faults>>

Receive ==
  /\ loop.pc = "recv" /\ ws # "mute"
  /\ last' = "recent"
  /\ loop' = At("top")
  /\ UNCHANGED <<market, mapped, recorded, ws, subs, refresher, watchdog, started, faults>>

\* Mutant: recv has no timeout.
ReceiveFails_NoTimeout ==
  /\ loop.pc = "recv"
  /\ ws \in {"none", "closed"} /\ UNCHANGED faults
  /\ loop' = At("backoff")
  /\ UNCHANGED <<market, mapped, recorded, ws, subs, refresher, watchdog, last, started>>

\* ConnectionClosed, or no message for a minute; the connection that is silent
\* is not closed.
ReceiveFails ==
  /\ loop.pc = "recv"
  /\ IF ws = "open" THEN Fault ELSE UNCHANGED faults
  /\ loop' = At("backoff")
  /\ UNCHANGED <<market, mapped, recorded, ws, subs, refresher, watchdog, last, started>>

\* It sleeps from 2 s to 60 s, long enough for a pass of the refresher.
Backoff ==
  /\ loop.pc = "backoff" /\ refresher.pc \in {"sleep", "assign"}
  /\ loop' = At("dial")
  /\ UNCHANGED <<market, mapped, recorded, ws, subs, refresher, watchdog, last, started, faults>>

\* connect(), up to its first await after the connection is made.
Dial ==
  /\ loop.pc = "dial"
  /\ ws' = "open" /\ subs' = {}
  /\ loop' = At("query")
  /\ UNCHANGED <<market, mapped, recorded, refresher, watchdog, last, started, faults>>

DialFails ==
  /\ loop.pc = "dial" /\ Fault
  /\ loop' = At("top")
  /\ UNCHANGED <<market, mapped, recorded, ws, subs, refresher, watchdog, last, started>>

\* _refresh_mappings: the rows are read, and assigned when the session has
\* been closed; an error leaves the mapping as it is.
Query ==
  /\ loop.pc = "query"
  /\ \/ loop' = [At("assign") EXCEPT !.rows = Listed] /\ UNCHANGED faults
     \/ loop' = At("plan") /\ Fault
  /\ UNCHANGED <<market, mapped, recorded, ws, subs, refresher, watchdog, last, started>>

Assign ==
  /\ loop.pc = "assign"
  /\ mapped' = loop.rows
  /\ loop' = At("plan")
  /\ UNCHANGED <<market, recorded, ws, subs, refresher, watchdog, last, started, faults>>

\* Mutant: on a new connection only what the list lacks is sent.
Plan_OnlyNew ==
  LET new == {a \in mapped : recorded[a] = 0} IN
  /\ loop.pc = "plan"
  /\ recorded' = Once(mapped)
  /\ loop' = IF new = {} THEN At("top") ELSE [At("send") EXCEPT !.todo = new]
  /\ UNCHANGED <<market, mapped, ws, subs, refresher, watchdog, last, started, faults>>

\* After half a second: all mapped assets are recorded as subscribed and then
\* sent; with none the connection is closed.
Plan ==
  /\ loop.pc = "plan"
  /\ recorded' = Once(mapped)
  /\ IF mapped = {}
     THEN loop' = At("top") /\ ws' = "none"
     ELSE loop' = [At("send") EXCEPT !.todo = mapped] /\ UNCHANGED ws
  /\ UNCHANGED <<market, mapped, subs, refresher, watchdog, last, started, faults>>

Send ==
  /\ loop.pc = "send"
  /\ \E chunk \in Chunks(loop.todo) :
       /\ TrySubscribe(chunk)
       /\ loop' = IF loop.todo = chunk THEN At("top") ELSE [loop EXCEPT !.todo = @ \ chunk]
  /\ UNCHANGED <<market, mapped, recorded, ws, refresher, watchdog, last, started, faults>>

-----------------------------------------------------------------------------
\* The subscription refresher.

\* What it does with the mapping it has: new assets are sent before they are
\* recorded; when the list is longer than the mapping, the mapping replaces it.
Compare(current) ==
  LET new == {a \in current : recorded[a] = 0} IN
  IF new # {}
  THEN /\ refresher' = [Asleep EXCEPT !.pc = "send", !.current = current, !.new = new, !.todo = new]
       /\ UNCHANGED recorded
  ELSE /\ refresher' = Asleep
       /\ recorded' = IF Length(recorded) > Cardinality(current) THEN Once(current) ELSE recorded

Refresh ==
  /\ started /\ refresher.pc = "sleep"
  /\ \/ /\ refresher' = [Asleep EXCEPT !.pc = "assign", !.rows = Listed]
        /\ UNCHANGED <<recorded, faults>>
     \/ Compare(mapped) /\ Fault
  /\ UNCHANGED <<market, mapped, ws, subs, loop, watchdog, last, started>>

RefresherAssign ==
  /\ refresher.pc = "assign"
  /\ mapped' = refresher.rows
  /\ Compare(refresher.rows)
  /\ UNCHANGED <<market, ws, subs, loop, watchdog, last, started, faults>>

RefresherSend ==
  /\ refresher.pc = "send"
  /\ \E chunk \in Chunks(refresher.todo) :
       /\ TrySubscribe(chunk)
       /\ refresher' = [refresher EXCEPT
            !.todo = @ \ chunk, !.pc = IF refresher.todo = chunk THEN "record" ELSE "send"]
  /\ UNCHANGED <<market, mapped, recorded, ws, loop, watchdog, last, started, faults>>

Record ==
  /\ refresher.pc = "record"
  /\ LET longer == [a \in Assets |-> recorded[a] + Once(refresher.new)[a]] IN
     recorded' = IF Length(longer) > Cardinality(refresher.current)
                 THEN Once(refresher.current) ELSE longer
  /\ refresher' = Asleep
  /\ UNCHANGED <<market, mapped, ws, subs, loop, watchdog, last, started, faults>>

-----------------------------------------------------------------------------
\* The stale watchdog closes the connection it sees and, when the closing
\* handshake is over, sets self.ws to None whatever it is by then.
Stale ==
  /\ started /\ watchdog = "idle" /\ last = "old"
  /\ \/ ws = "open" /\ Fault /\ ws' = "closing" /\ watchdog' = "closing"
     \/ ws = "mute" /\ ws' = "closing" /\ watchdog' = "closing" /\ UNCHANGED faults
     \/ ws = "closed" /\ ws' = "none" /\ UNCHANGED <<watchdog, faults>>
  /\ UNCHANGED <<market, mapped, recorded, subs, loop, refresher, last, started>>

StaleClosed ==
  /\ watchdog = "closing"
  /\ ws' = "none" /\ watchdog' = "idle"
  /\ UNCHANGED <<market, mapped, recorded, subs, loop, refresher, last, started, faults>>

-----------------------------------------------------------------------------
\* The environment: markets, the network and time.
ListMarket(a) ==
  /\ market[a] = "unlisted"
  /\ market' = [market EXCEPT ![a] = "listed"]
  /\ UNCHANGED <<mapped, recorded, ws, subs, loop, refresher, watchdog, last, started, faults>>

ResolveMarket(a) ==
  /\ market[a] = "listed"
  /\ market' = [market EXCEPT ![a] = "resolved"]
  /\ UNCHANGED <<mapped, recorded, ws, subs, loop, refresher, watchdog, last, started, faults>>

\* The connection is closed by the other side, or dies unnoticed.
Disconnect ==
  /\ Fault
  /\ \/ ws \in {"open", "mute"} /\ ws' = "closed"
     \/ ws = "open" /\ ws' = "mute"
  /\ UNCHANGED <<market, mapped, recorded, subs, loop, refresher, watchdog, last, started>>

GrowOld ==
  /\ last = "recent" /\ last' = "old"
  /\ UNCHANGED <<market, mapped, recorded, ws, subs, loop, refresher, watchdog, started, faults>>

Loop == \/ Top \/ Receive \/ ReceiveFails \/ Backoff \/ Dial \/ DialFails \/ Query \/ Assign \/ Plan \/ Send
Refresher == Refresh \/ RefresherAssign \/ RefresherSend \/ Record

Next ==
  \/ Loop \/ Refresher \/ Stale \/ StaleClosed \/ Disconnect \/ GrowOld
  \/ \E a \in Assets : ListMarket(a) \/ ResolveMarket(a)

Spec == Init /\ [][Next]_vars

\* The event loop runs every task that is ready; a silent connection times out
\* in recv, and close() returns after its own timeout.
FairSpec == Spec /\ WF_vars(Loop) /\ WF_vars(Refresher) /\ WF_vars(StaleClosed)

-----------------------------------------------------------------------------
\* A market that stays listed is subscribed in the end, and stays subscribed,
\* after any finite number of lost, silent and refused connections, failed
\* queries and interventions of the watchdog.
ListedIsSubscribed ==
  \A a \in Assets :
    <>[](market[a] = "listed") => <>[](ws = "open" /\ a \in subs)
=============================================================================
