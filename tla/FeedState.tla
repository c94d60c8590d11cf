------------------------------ MODULE FeedState -----------------------------
(***************************************************************************)
(* What the tasks of PolymarketWSIngester share about its connection       *)
(* (ingesters/polymarket_ws.py), and what must hold of it in every state.  *)
(* FeedSubscription says how it changes.                                   *)
(***************************************************************************)
EXTENDS Naturals, FiniteSets

CONSTANTS
  Assets,      \* the token ids, each of one market
  ChunkSize,   \* ids of one subscription message (200)
  MaxFaults    \* bound: failures of the network, the server and the database

ASSUME FeedAssumption ==
  /\ IsFiniteSet(Assets)
  /\ ChunkSize \in Nat \ {0} /\ MaxFaults \in Nat

VARIABLES
  market,      \* by asset: unlisted, listed or resolved, in the database
  mapped,      \* _condition_to_asset: the assets of the last query
  recorded,    \* _subscribed_assets: how often each asset is in the list
  ws,          \* self.ws and the state of its connection
  subs,        \* the assets the server has subscribed on that connection
  loop,        \* the message loop, in connect() where pc is not top or recv
  refresher,   \* the subscription refresher
  watchdog,    \* idle, or closing while it awaits ws.close()
  last,        \* _last_message_time: never, recent, or old past the timeout
  started,     \* run() has created the background tasks
  faults

\* The variables have their types, a task sends only while it has something to
\* send, and the list holds no asset more than twice.
FeedTypeOK ==
  /\ market \in [Assets -> {"unlisted", "listed", "resolved"}]
  /\ mapped \subseteq Assets
  /\ recorded \in [Assets -> 0 .. 2]
  /\ ws \in {"none", "open", "mute", "closing", "closed"}
  /\ subs \subseteq Assets
  /\ loop \in [pc : {"top", "recv", "backoff", "dial", "query", "assign", "plan", "send"},
               rows : SUBSET Assets, todo : SUBSET Assets]
  /\ refresher \in [pc : {"sleep", "assign", "send", "record"}, rows : SUBSET Assets,
                    current : SUBSET Assets, new : SUBSET Assets, todo : SUBSET Assets]
  /\ loop.pc = "send" => loop.todo # {}
  /\ refresher.pc = "send" => refresher.todo # {}
  /\ refresher.todo \subseteq refresher.new /\ refresher.new \subseteq refresher.current
  /\ watchdog \in {"idle", "closing"}
  /\ last \in {"never", "recent", "old"}
  /\ started \in BOOLEAN
  /\ faults \in Nat

\* While the loop receives on an open connection, every mapped asset the list
\* holds is subscribed there: the refresher, which skips what is in the list,
\* never skips an asset the server does not send.  The list is written by the
\* loop and by the refresher, each from a mapping the other may have replaced.
RecordedIsSubscribed ==
  loop.pc \in {"top", "recv"} /\ ws = "open" =>
    \A a \in mapped : recorded[a] > 0 => a \in subs
=============================================================================
