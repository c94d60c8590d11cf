----------------------------- MODULE EventDedup -----------------------------
(***************************************************************************)
(* The way of a market event from the websocket to the stream market:data  *)
(* (ingesters/polymarket_ws.py, core/dedup.py).  The feed sends messages,  *)
(* each a list of items.  The message loop of an ingester takes the items  *)
(* one after the other: a trade or a price change is looked up in the      *)
(* ingester's own cache of hashes, then in Redis, is entered in both and   *)
(* published; any other item is published as it is.                        *)
(*                                                                         *)
(* The compose file starts the ingester twice, in the API process and as a *)
(* service of its own.  Both are subscribed to the same feed, so each      *)
(* event reaches both, and they share Redis.  Every Redis call is an await *)
(* between which the other ingester runs.                                  *)
(*                                                                         *)
(* An event stands for its hash; an item that fails _validate_normalized   *)
(* or is no publication at all (a ping, an acknowledgement) leaves no      *)
(* trace here and is left out of the messages.                             *)
(***************************************************************************)
EXTENDS Naturals, Sequences, FiniteSets

CONSTANTS
  Ingesters,     \* the processes that run the ingester
  Events,        \* the events that are looked up, as their hashes
  Raw,           \* an item published without a lookup (a book, an unknown type)
  Messages,      \* the messages of the feed, each a sequence of items
  CacheSize,     \* _max_hash_cache
  MaxMessages    \* bound: messages an ingester receives

Items == Events \cup {Raw}

ASSUME DedupAssumption ==
  /\ Raw \notin Events
  /\ Messages \subseteq Seq(Items)
  /\ CacheSize \in Nat /\ MaxMessages \in Nat

VARIABLES
  received,   \* messages each ingester has taken from its connection
  queue,      \* items of the message at hand, the current one first
  pc,         \* where in the handling of the current item
  cache,      \* _recent_hash_order, oldest first; its elements are _recent_hashes
  redis,      \* hashes with a live key in Redis
  copies,     \* how often each ingester has published an event
  unmarked,   \* history: events Redis has forgotten or not answered for
  forgotten,  \* history: events an ingester has dropped from its cache
  lost        \* history: events given up after a failed publication or a crash

vars == <<received, queue, pc, cache, redis, copies, unmarked, forgotten, lost>>

\* The hashes an ingester remembers.
Cached(i) == {cache[i][n] : n \in DOMAIN cache[i]}

\* The events still to be handled in the message of an ingester.
Waiting(i) == {queue[i][n] : n \in DOMAIN queue[i]} \ {Raw}

Published(e) == \E i \in Ingesters : copies[i][e] > 0

Init ==
  /\ received = [i \in Ingesters |-> 0]
  /\ queue = [i \in Ingesters |-> << >>]
  /\ pc = [i \in Ingesters |-> "next"]
  /\ cache = [i \in Ingesters |-> << >>]
  /\ redis = {}
  /\ copies = [i \in Ingesters |-> [e \in Events |-> 0]]
  /\ unmarked = {} /\ lost = {}
  /\ forgotten = [i \in Ingesters |-> {}]

\* recv: the feed may repeat an event, in a message or in a later one.
Receive(i) ==
  /\ queue[i] = << >>
  /\ received[i] < MaxMessages
  /\ received' = [received EXCEPT ![i] = @ + 1]
  /\ \E m \in Messages : queue' = [queue EXCEPT ![i] = m]
  /\ UNCHANGED <<pc, cache, redis, copies, unmarked, forgotten, lost>>

\* The loop goes on with the next item of the message.
NextItem(i) ==
  /\ queue' = [queue EXCEPT ![i] = Tail(@)]
  /\ pc' = [pc EXCEPT ![i] = "next"]

\* Mutant: the cache is never trimmed.
Remember_NoEviction(i, e) ==
  cache' = [cache EXCEPT ![i] = Append(@, e)] /\ UNCHANGED forgotten

\* The hash is entered as the newest one; past _max_hash_cache the oldest goes.
Remember(i, e) ==
  LET longer == Append(cache[i], e) IN
  IF Len(longer) > CacheSize
  THEN /\ cache' = [cache EXCEPT ![i] = Tail(longer)]
       /\ forgotten' = [forgotten EXCEPT ![i] = @ \cup {Head(longer)}]
  ELSE /\ cache' = [cache EXCEPT ![i] = longer]
       /\ UNCHANGED forgotten

\* Mutant: a duplicate ends the message, not the item.
Duplicate_EndsMessage(i) ==
  /\ pc[i] = "next" /\ queue[i] # << >>
  /\ Head(queue[i]) \in Cached(i) \cup redis
  /\ queue' = [queue EXCEPT ![i] = << >>]
  /\ UNCHANGED <<received, pc, cache, redis, copies, unmarked, forgotten, lost>>

\* The hash is known, to the ingester or to Redis: the item is dropped.
Duplicate(i) ==
  /\ pc[i] = "next" /\ queue[i] # << >>
  /\ Head(queue[i]) \in Cached(i) \cup redis
  /\ NextItem(i)
  /\ UNCHANGED <<received, cache, redis, copies, unmarked, forgotten, lost>>

\* The hash is new, or Redis does not answer, which counts as new.
Fresh(i) ==
  /\ pc[i] = "next" /\ queue[i] # << >>
  /\ LET e == Head(queue[i]) IN
       /\ e \in Events \ Cached(i)
       /\ \/ e \notin redis /\ UNCHANGED unmarked
          \/ unmarked' = unmarked \cup {e}
       /\ Remember(i, e)
  /\ pc' = [pc EXCEPT ![i] = "mark"]
  /\ UNCHANGED <<received, queue, redis, copies, lost>>

\* Mutant: the hash is never entered in Redis.
Mark_None(i) ==
  /\ pc[i] = "mark"
  /\ pc' = [pc EXCEPT ![i] = "publish"]
  /\ UNCHANGED <<received, queue, cache, redis, copies, unmarked, forgotten, lost>>

\* Mutant: a failed mark abandons the item.
Mark_Abandons(i) ==
  /\ pc[i] = "mark"
  /\ LET e == Head(queue[i]) IN
       \/ redis' = redis \cup {e} /\ pc' = [pc EXCEPT ![i] = "publish"] /\ UNCHANGED <<queue, unmarked>>
       \/ unmarked' = unmarked \cup {e} /\ NextItem(i) /\ UNCHANGED redis
  /\ UNCHANGED <<received, cache, copies, forgotten, lost>>

\* mark_event_processed: the key is set, or the call fails and is logged.
Mark(i) ==
  /\ pc[i] = "mark"
  /\ LET e == Head(queue[i]) IN
       \/ redis' = redis \cup {e} /\ UNCHANGED unmarked
       \/ unmarked' = unmarked \cup {e} /\ UNCHANGED redis
  /\ pc' = [pc EXCEPT ![i] = "publish"]
  /\ UNCHANGED <<received, queue, cache, copies, forgotten, lost>>

\* The normalised event is published; a failure is logged and the event is
\* gone, for it counts as a duplicate from now on.
Publish(i) ==
  /\ pc[i] = "publish"
  /\ LET e == Head(queue[i]) IN
       \/ copies' = [copies EXCEPT ![i][e] = @ + 1] /\ UNCHANGED lost
       \/ lost' = lost \cup {e} /\ UNCHANGED copies
  /\ NextItem(i)
  /\ UNCHANGED <<received, cache, redis, unmarked, forgotten>>

\* Any other item is published as it is.
PublishRaw(i) ==
  /\ pc[i] = "next" /\ queue[i] # << >>
  /\ Head(queue[i]) = Raw
  /\ NextItem(i)
  /\ UNCHANGED <<received, cache, redis, copies, unmarked, forgotten, lost>>

\* Its publication fails: the exception leaves the loop over the message, and
\* the items behind it are not handled.
RawFails(i) ==
  /\ pc[i] = "next" /\ queue[i] # << >>
  /\ Head(queue[i]) = Raw
  /\ lost' = lost \cup Waiting(i)
  /\ queue' = [queue EXCEPT ![i] = << >>]
  /\ UNCHANGED <<received, pc, cache, redis, copies, unmarked, forgotten>>

\* The key of an event expires after DEDUP_TTL_SECONDS.
Expire(e) ==
  /\ e \in redis
  /\ redis' = redis \ {e}
  /\ unmarked' = unmarked \cup {e}
  /\ UNCHANGED <<received, queue, pc, cache, copies, forgotten, lost>>

\* The process stops, at whichever await it is, and is started again with an
\* empty cache; the message at hand is gone.
Restart(i) ==
  /\ lost' = lost \cup Waiting(i)
  /\ forgotten' = [forgotten EXCEPT ![i] = @ \cup Cached(i)]
  /\ cache' = [cache EXCEPT ![i] = << >>]
  /\ queue' = [queue EXCEPT ![i] = << >>]
  /\ pc' = [pc EXCEPT ![i] = "next"]
  /\ UNCHANGED <<received, redis, copies, unmarked>>

\* A step of the message loop that has a message at hand.
Handle(i) ==
  Duplicate(i) \/ Fresh(i) \/ Mark(i) \/ Publish(i) \/ PublishRaw(i) \/ RawFails(i)

Next ==
  \/ \E i \in Ingesters : Receive(i) \/ Handle(i) \/ Restart(i)
  \/ \E e \in Events : Expire(e)

Spec == Init /\ [][Next]_vars

\* The event loop of a process runs the handling of a message to its end:
\* every Redis call returns or raises.
FairSpec == Spec /\ \A i \in Ingesters : WF_vars(Handle(i))

-----------------------------------------------------------------------------
\* The variables have their types, the cache keeps its size and holds no hash
\* twice, and an item is marked and published only while it is at hand.
TypeOK ==
  /\ received \in [Ingesters -> Nat]
  /\ queue \in [Ingesters -> Seq(Items)]
  /\ pc \in [Ingesters -> {"next", "mark", "publish"}]
  /\ \A i \in Ingesters : pc[i] # "next" => queue[i] # << >> /\ Head(queue[i]) \in Events
  /\ cache \in [Ingesters -> Seq(Events)]
  /\ \A i \in Ingesters : Len(cache[i]) <= CacheSize
  /\ \A i \in Ingesters : \A m, n \in DOMAIN cache[i] : cache[i][m] = cache[i][n] => m = n
  /\ redis \subseteq Events
  /\ copies \in [Ingesters -> [Events -> Nat]]
  /\ unmarked \subseteq Events
  /\ forgotten \in [Ingesters -> SUBSET Events]
  /\ lost \subseteq Events

\* An ingester publishes an event a second time only when both memories have
\* failed: Redis has lost the key, or a call to it has failed, and the hash has
\* left the ingester's own cache, pushed out or by a restart.
RepeatedOnlyForgotten ==
  \A i \in Ingesters, e \in Events :
    copies[i][e] > 1 => e \in unmarked /\ e \in forgotten[i]

\* The ingester is about to mark or to publish the event.
InHand(i, e) == pc[i] # "next" /\ Head(queue[i]) = e

\* A hash is entered in the cache and in Redis before its event is published,
\* so whoever finds it drops the event on trust: each event that is known
\* anywhere was published, is in the hands of some ingester, or is recorded as
\* lost by a failed publication or a crash.
KnownIsAccounted ==
  \A e \in Events :
    (e \in redis \/ \E i \in Ingesters : e \in Cached(i)) =>
      Published(e) \/ e \in lost \/ \E i \in Ingesters : InHand(i, e)

\* An event one of the ingesters has received is published by one of them in
\* the end, although each leaves it to the other as soon as it finds the mark
\* the other has set before publishing.  Only a failed publication or a crash
\* with the event at hand loses it.
ReceivedIsPublished ==
  \A i \in Ingesters, e \in Events :
    (e \in Waiting(i)) ~> (Published(e) \/ e \in lost)

\* Both ingesters publish an event only if each has looked it up before the
\* other had marked it, or Redis has lost the mark: what one has marked or
\* published is not new to the other.
MarkedIsKnown ==
  [][\A i, j \in Ingesters, e \in Events :
       /\ pc[i] = "next" /\ InHand(i, e)'
       /\ copies[j][e] > 0 \/ (pc[j] = "publish" /\ Head(queue[j]) = e)
       => e \in unmarked']_vars

\* docs/ws_event_types.md:148 "Events with duplicate hash ... dropped": while
\* Redis answers and remembers, no event is published twice.
PublishedOnce ==
  \A e \in Events \ unmarked : \A i, j \in Ingesters :
    copies[i][e] > 0 /\ copies[j][e] > 0 => i = j
=============================================================================
