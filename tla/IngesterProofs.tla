-------------------------- MODULE IngesterProofs ----------------------------
(***************************************************************************)
(* The two halves of the websocket ingester, each for any number of        *)
(* assets, events, messages and failures and any size of the cache.        *)
(*                                                                         *)
(* EventDedup: an ingester repeats an event only when Redis and its own    *)
(* cache have both lost it.  The invariant needs to be strengthened by     *)
(* what the two memories hold: a published event is, or was, in both       *)
(* (Known), and an event between the lookup and the publication has not    *)
(* been published by this ingester before unless both memories failed at   *)
(* the lookup (AtHand).                                                    *)
(* Hence what one has marked is not new to another, while Redis has the    *)
(* mark.  An event that is dropped as known was published, is in the hands *)
(* of some ingester, or is on record as lost.                              *)
(*                                                                         *)
(* FeedSubscription: what the list of subscribed assets holds is           *)
(* subscribed.  The list is written by two tasks, each from a mapping the  *)
(* other may have replaced since, so the strengthening (Covered) says for  *)
(* every step of the loop what the list, and a pass of the refresher that  *)
(* is not yet entered in it, may hold beyond the subscriptions made.       *)
(***************************************************************************)
EXTENDS EventDedup, FeedState, SequenceTheorems, TLAPS

\* What an ingester has published was entered in Redis and in its cache.
Known ==
  \A i \in Ingesters, e \in Events :
    copies[i][e] > 0 => /\ e \in redis \cup unmarked
                        /\ e \in Cached(i) \cup forgotten[i]

\* What holds of the event an ingester is about to mark or to publish.
AtHand ==
  \A i \in Ingesters : pc[i] # "next" =>
    /\ Head(queue[i]) \in Cached(i) \cup forgotten[i]
    /\ pc[i] = "publish" => Head(queue[i]) \in redis \cup unmarked
    /\ copies[i][Head(queue[i])] > 0 =>
         Head(queue[i]) \in unmarked /\ Head(queue[i]) \in forgotten[i]

Inv == TypeOK /\ Known /\ AtHand /\ RepeatedOnlyForgotten

-----------------------------------------------------------------------------
\* What the cache is after a new hash has been entered: typed, within its
\* size, without repetition, and no hash goes unrecorded.
LEMMA RememberKeeps ==
  ASSUME TypeOK, NEW i \in Ingesters, NEW e \in Events \ Cached(i), Remember(i, e)
  PROVE  /\ cache' \in [Ingesters -> Seq(Events)]
         /\ forgotten' \in [Ingesters -> SUBSET Events]
         /\ Len(cache'[i]) <= CacheSize
         /\ \A m, n \in DOMAIN cache'[i] : cache'[i][m] = cache'[i][n] => m = n
         /\ \A j \in Ingesters \ {i} : cache'[j] = cache[j] /\ forgotten'[j] = forgotten[j]
         /\ forgotten[i] \subseteq forgotten'[i]
         /\ Cached(i) \cup {e} \subseteq Cached(i)' \cup forgotten'[i]
<1> DEFINE old == cache[i]
           longer == Append(old, e)
<1>1. old \in Seq(Events) /\ Len(old) \in Nat /\ DOMAIN old = 1 .. Len(old) /\ Len(old) <= CacheSize
  BY DEF TypeOK
<1>2. /\ longer \in Seq(Events) /\ Len(longer) = Len(old) + 1
      /\ \A n \in 1 .. Len(old) : longer[n] = old[n]
      /\ longer[Len(old) + 1] = e
  BY <1>1
<1>3. \A m, n \in 1 .. Len(old) + 1 : longer[m] = longer[n] => m = n
  <2>1. \A m, n \in 1 .. Len(old) : old[m] = old[n] => m = n
    BY <1>1 DEF TypeOK
  <2>2. \A n \in 1 .. Len(old) : old[n] # e
    BY <1>1 DEF Cached
  <2> QED  BY <1>1, <1>2, <2>1, <2>2
<1>4. CASE Len(longer) > CacheSize
  <2>1. /\ cache' = [cache EXCEPT ![i] = Tail(longer)]
        /\ forgotten' = [forgotten EXCEPT ![i] = @ \cup {Head(longer)}]
    BY <1>4 DEF Remember
  <2>2. /\ Tail(longer) \in Seq(Events) /\ Len(Tail(longer)) = Len(old)
        /\ \A n \in 1 .. Len(old) : Tail(longer)[n] = longer[n + 1]
        /\ Head(longer) = longer[1] /\ Head(longer) \in Events
        /\ DOMAIN Tail(longer) = 1 .. Len(old)
    <3>1. longer # << >> /\ Len(longer) - 1 = Len(old) /\ Len(longer) \in Nat \ {0}
      BY <1>1, <1>2
    <3>2. Tail(longer) \in Seq(Events) /\ Len(Tail(longer)) = Len(old)
      BY <1>2, <3>1
    <3>3. \A n \in 1 .. Len(old) : Tail(longer)[n] = longer[n + 1]
      BY <1>2, <3>1
    <3>4. Head(longer) = longer[1] /\ Head(longer) \in Events
      BY <1>2, <3>1
    <3>5. DOMAIN Tail(longer) = 1 .. Len(old)
      BY <3>2
    <3> QED  BY <3>2, <3>3, <3>4, <3>5
  <2>3. cache'[i] = Tail(longer) /\ forgotten'[i] = forgotten[i] \cup {Head(longer)}
    BY <2>1 DEF TypeOK
  <2>4. cache' \in [Ingesters -> Seq(Events)] /\ forgotten' \in [Ingesters -> SUBSET Events]
    BY <2>1, <2>2 DEF TypeOK
  <2>5. \A m, n \in DOMAIN cache'[i] : cache'[i][m] = cache'[i][n] => m = n
    <3>1. ASSUME NEW m \in 1 .. Len(old), NEW n \in 1 .. Len(old),
                 Tail(longer)[m] = Tail(longer)[n]
          PROVE  m = n
      <4>1. m + 1 \in 1 .. Len(old) + 1 /\ n + 1 \in 1 .. Len(old) + 1
        BY <1>1
      <4>2. longer[m + 1] = longer[n + 1]
        BY <2>2, <3>1
      <4>3. m + 1 = n + 1
        BY <1>3, <4>1, <4>2
      <4> QED  BY <1>1, <4>3
    <3>2. DOMAIN cache'[i] = 1 .. Len(old) /\ cache'[i] = Tail(longer)
      BY <2>2, <2>3
    <3> HIDE DEF longer
    <3> QED  BY <3>1, <3>2
  <2>6. Cached(i) \cup {e} \subseteq Cached(i)' \cup forgotten'[i]
    <3> SUFFICES ASSUME NEW n \in 1 .. Len(old) + 1
                 PROVE  longer[n] \in Cached(i)' \cup forgotten'[i]
      BY <1>1, <1>2 DEF Cached
    <3>1. CASE n = 1
      <4>1. longer[n] = Head(longer)
        BY <2>2, <3>1
      <4>2. Head(longer) \in forgotten'[i]
        BY <2>3
      <4> QED  BY <4>1, <4>2
    <3>2. CASE n # 1
      <4>1. n - 1 \in 1 .. Len(old) /\ (n - 1) + 1 = n
        BY <1>1, <3>2
      <4>2. Tail(longer)[n - 1] = longer[n]
        BY <2>2, <4>1
      <4>3. n - 1 \in DOMAIN cache'[i] /\ cache'[i][n - 1] = longer[n]
        BY <2>2, <2>3, <4>1, <4>2
      <4> HIDE DEF longer
      <4> QED  BY <4>3 DEF Cached
    <3> QED  BY <3>1, <3>2
  <2>7. \A j \in Ingesters \ {i} : cache'[j] = cache[j] /\ forgotten'[j] = forgotten[j]
    BY <2>1 DEF TypeOK
  <2> QED  BY <1>1, <2>2, <2>3, <2>4, <2>5, <2>6, <2>7
<1>5. CASE ~(Len(longer) > CacheSize)
  <2>1. cache' = [cache EXCEPT ![i] = longer] /\ forgotten' = forgotten
    BY <1>5 DEF Remember
  <2>2. cache'[i] = longer /\ DOMAIN longer = 1 .. Len(old) + 1
    BY <1>1, <1>2, <2>1 DEF TypeOK
  <2>3. cache' \in [Ingesters -> Seq(Events)] /\ forgotten' \in [Ingesters -> SUBSET Events]
    BY <1>2, <2>1 DEF TypeOK
  <2>4. Cached(i) \cup {e} \subseteq Cached(i)'
    BY <1>1, <1>2, <2>2 DEF Cached
  <2>5. Len(longer) <= CacheSize
    BY <1>1, <1>2, <1>5, DedupAssumption
  <2>6. \A j \in Ingesters \ {i} : cache'[j] = cache[j] /\ forgotten'[j] = forgotten[j]
    BY <2>1 DEF TypeOK
  <2> QED  BY <1>3, <2>1, <2>2, <2>3, <2>4, <2>5, <2>6
<1> QED  BY <1>4, <1>5

\* The rest of a queue is a queue.
LEMMA TailKeeps ==
  ASSUME TypeOK, NEW i \in Ingesters, queue[i] # << >>
  PROVE  Tail(queue[i]) \in Seq(Items) /\ Head(queue[i]) \in Items
  BY DEF TypeOK

\* Each step keeps the invariant.
LEMMA ReceiveStep ==
  ASSUME Inv, NEW i \in Ingesters, Receive(i)
  PROVE  Inv'
<1>1. PICK m \in Messages : queue' = [queue EXCEPT ![i] = m]
  BY DEF Receive
<1>2. m \in Seq(Items)
  BY DedupAssumption
<1>3. pc[i] = "next"
  BY DEF Inv, TypeOK, Receive
<1>4. TypeOK'
  <2>1. queue' \in [Ingesters -> Seq(Items)] /\ \A j \in Ingesters \ {i} : queue'[j] = queue[j]
    BY <1>1, <1>2 DEF Inv, TypeOK
  <2>2. received' \in [Ingesters -> Nat]
    BY DEF Inv, TypeOK, Receive
  <2> QED  BY <1>3, <2>1, <2>2 DEF Inv, TypeOK, Receive
<1>5. AtHand'
  BY <1>1, <1>3 DEF Inv, TypeOK, AtHand, Receive, Cached
<1>6. Known' /\ RepeatedOnlyForgotten'
  BY DEF Inv, Known, RepeatedOnlyForgotten, Receive, Cached
<1> QED  BY <1>4, <1>5, <1>6 DEF Inv

\* A step that only takes the current item, or the rest of the message with
\* it, off the queue of an ingester and possibly records losses.
LEMMA DropStep ==
  ASSUME Inv, NEW i \in Ingesters, NEW q \in Seq(Items),
         queue' = [queue EXCEPT ![i] = q],
         pc' = [pc EXCEPT ![i] = "next"],
         lost' \subseteq Events,
         UNCHANGED <<received, cache, redis, copies, unmarked, forgotten>>
  PROVE  Inv'
<1>1. TypeOK'
  BY DEF Inv, TypeOK
<1>2. AtHand'
  BY DEF Inv, TypeOK, AtHand, Cached
<1>3. Known' /\ RepeatedOnlyForgotten'
  BY DEF Inv, Known, RepeatedOnlyForgotten, Cached
<1> QED  BY <1>1, <1>2, <1>3 DEF Inv

\* The hash was new: if the ingester has published it before, both memories
\* have lost it.
LEMMA FreshStep ==
  ASSUME Inv, NEW i \in Ingesters, Fresh(i)
  PROVE  Inv'
<1> DEFINE e == Head(queue[i])
<1>1. /\ e \in Events \ Cached(i) /\ Remember(i, e)
      /\ (e \notin redis /\ unmarked' = unmarked) \/ unmarked' = unmarked \cup {e}
      /\ queue[i] # << >>
      /\ pc' = [pc EXCEPT ![i] = "mark"]
      /\ UNCHANGED <<received, queue, redis, copies, lost>>
  BY DEF Fresh
<1>2. /\ cache' \in [Ingesters -> Seq(Events)]
      /\ forgotten' \in [Ingesters -> SUBSET Events]
      /\ Len(cache'[i]) <= CacheSize
      /\ \A m, n \in DOMAIN cache'[i] : cache'[i][m] = cache'[i][n] => m = n
      /\ \A j \in Ingesters \ {i} : cache'[j] = cache[j] /\ forgotten'[j] = forgotten[j]
      /\ forgotten[i] \subseteq forgotten'[i]
      /\ Cached(i) \cup {e} \subseteq Cached(i)' \cup forgotten'[i]
  BY <1>1, RememberKeeps DEF Inv
<1>3. TypeOK'
  <2>1. \A j \in Ingesters :
          /\ Len(cache'[j]) <= CacheSize
          /\ \A m, n \in DOMAIN cache'[j] : cache'[j][m] = cache'[j][n] => m = n
    <3> TAKE j \in Ingesters
    <3>1. CASE j = i  BY <1>2, <3>1
    <3>2. CASE j # i  BY <1>2, <3>2 DEF Inv, TypeOK
    <3> QED  BY <3>1, <3>2
  <2>2. /\ pc' \in [Ingesters -> {"next", "mark", "publish"}]
        /\ \A j \in Ingesters : pc'[j] # "next" => queue'[j] # << >> /\ Head(queue'[j]) \in Events
    BY <1>1 DEF Inv, TypeOK
  <2>3. unmarked' \subseteq Events
    BY <1>1 DEF Inv, TypeOK
  <2>4. /\ received' \in [Ingesters -> Nat] /\ queue' \in [Ingesters -> Seq(Items)]
        /\ redis' \subseteq Events /\ copies' \in [Ingesters -> [Events -> Nat]]
        /\ lost' \subseteq Events
    BY <1>1 DEF Inv, TypeOK
  <2> QED  BY <1>2, <2>1, <2>2, <2>3, <2>4 DEF TypeOK
<1>4. \A j \in Ingesters : Cached(j) \cup forgotten[j] \subseteq Cached(j)' \cup forgotten'[j]
  <2> TAKE j \in Ingesters
  <2>1. CASE j = i  BY <1>2, <2>1
  <2>2. CASE j # i  BY <1>2, <2>2 DEF Cached
  <2> QED  BY <2>1, <2>2
<1>5. unmarked \subseteq unmarked' /\ redis' = redis /\ copies' = copies /\ queue' = queue
  BY <1>1
<1>6. \A j \in Ingesters : forgotten[j] \subseteq forgotten'[j]
  BY <1>2
<1>7. Known'
  BY <1>4, <1>5 DEF Inv, Known
<1>8. copies[i][e] > 0 => e \in unmarked' /\ e \in forgotten'[i]
  BY <1>1, <1>6 DEF Inv, Known
<1>9. AtHand'
  <2> SUFFICES ASSUME NEW j \in Ingesters, pc'[j] # "next"
               PROVE  /\ Head(queue[j]) \in Cached(j)' \cup forgotten'[j]
                      /\ pc'[j] = "publish" => Head(queue[j]) \in redis \cup unmarked'
                      /\ copies[j][Head(queue[j])] > 0 =>
                           Head(queue[j]) \in unmarked' /\ Head(queue[j]) \in forgotten'[j]
    BY <1>5 DEF AtHand
  <2>1. CASE j = i
    <3>1. pc'[i] = "mark"
      BY <1>1 DEF Inv, TypeOK
    <3> QED  BY <1>2, <1>8, <2>1, <3>1
  <2>2. CASE j # i
    <3>1. pc[j] = pc'[j]
      BY <1>1, <2>2 DEF Inv, TypeOK
    <3> QED  BY <1>4, <1>5, <1>6, <3>1 DEF Inv, AtHand
  <2> QED  BY <2>1, <2>2
<1>10. RepeatedOnlyForgotten'
  BY <1>5, <1>6 DEF Inv, RepeatedOnlyForgotten
<1> QED  BY <1>3, <1>7, <1>9, <1>10 DEF Inv

\* Redis has the hash, or the failed call is on record.
LEMMA MarkStep ==
  ASSUME Inv, NEW i \in Ingesters, Mark(i)
  PROVE  Inv'
<1> DEFINE e == Head(queue[i])
<1>1. e \in Events
  BY DEF Inv, TypeOK, Mark
<1>2. /\ redis \subseteq redis' /\ unmarked \subseteq unmarked'
      /\ redis' \subseteq Events /\ unmarked' \subseteq Events
      /\ e \in redis' \cup unmarked'
  BY <1>1 DEF Inv, TypeOK, Mark
<1>3. TypeOK'
  BY <1>2 DEF Inv, TypeOK, Mark
<1>4. AtHand'
  BY <1>2 DEF Inv, TypeOK, AtHand, Mark, Cached
<1>5. Known' /\ RepeatedOnlyForgotten'
  BY <1>2 DEF Inv, Known, RepeatedOnlyForgotten, Mark, Cached
<1> QED  BY <1>3, <1>4, <1>5 DEF Inv

\* A second copy is published only of an event both memories have lost.
LEMMA PublishStep ==
  ASSUME Inv, NEW i \in Ingesters, Publish(i)
  PROVE  Inv'
<1> DEFINE e == Head(queue[i])
<1>1. e \in Events /\ queue[i] # << >> /\ pc[i] = "publish"
  BY DEF Inv, TypeOK, Publish
<1>2. Tail(queue[i]) \in Seq(Items)
  BY <1>1, TailKeeps DEF Inv
<1>3. CASE copies' = copies
  <2>1. lost' \subseteq Events
    BY <1>1 DEF Inv, TypeOK, Publish
  <2> QED  BY <1>2, <1>3, <2>1, DropStep DEF Publish, NextItem
<1>4. CASE copies' = [copies EXCEPT ![i][e] = @ + 1] /\ lost' = lost
  <2>1. TypeOK'
    <3>1. copies' \in [Ingesters -> [Events -> Nat]]
      BY <1>1, <1>4 DEF Inv, TypeOK
    <3> QED  BY <1>2, <1>4, <3>1 DEF Inv, TypeOK, Publish, NextItem
  <2>2. \A j \in Ingesters, f \in Events : (j # i \/ f # e) => copies'[j][f] = copies[j][f]
    BY <1>1, <1>4 DEF Inv, TypeOK
  <2>3. copies'[i][e] = copies[i][e] + 1 /\ copies[i][e] \in Nat
    BY <1>1, <1>4 DEF Inv, TypeOK
  <2>4. /\ e \in Cached(i) \cup forgotten[i] /\ e \in redis \cup unmarked
        /\ copies[i][e] > 0 => e \in unmarked /\ e \in forgotten[i]
    BY <1>1 DEF Inv, AtHand
  <2>5. UNCHANGED <<cache, redis, unmarked, forgotten>>
    BY DEF Publish
  <2>6. Known'
    BY <2>2, <2>4, <2>5 DEF Inv, Known, Cached
  <2>7. AtHand'
    <3> SUFFICES ASSUME NEW j \in Ingesters, pc'[j] # "next"
                 PROVE  /\ Head(queue'[j]) \in Cached(j)' \cup forgotten'[j]
                        /\ pc'[j] = "publish" => Head(queue'[j]) \in redis' \cup unmarked'
                        /\ copies'[j][Head(queue'[j])] > 0 =>
                             Head(queue'[j]) \in unmarked' /\ Head(queue'[j]) \in forgotten'[j]
      BY DEF AtHand
    <3>1. j # i /\ pc'[j] = pc[j] /\ queue'[j] = queue[j]
      BY DEF Inv, TypeOK, Publish, NextItem
    <3>2. Head(queue[j]) \in Events
      BY <3>1 DEF Inv, TypeOK
    <3> QED  BY <2>2, <2>5, <3>1, <3>2 DEF Inv, AtHand, Cached
  <2>8. RepeatedOnlyForgotten'
    BY <2>2, <2>3, <2>4, <2>5 DEF Inv, RepeatedOnlyForgotten
  <2> QED  BY <2>1, <2>6, <2>7, <2>8 DEF Inv
<1> QED  BY <1>3, <1>4 DEF Publish

\* A key that expires is on record as lost by Redis.
LEMMA ExpireStep ==
  ASSUME Inv, NEW e \in Events, Expire(e)
  PROVE  Inv'
<1>1. TypeOK'
  BY DEF Inv, TypeOK, Expire
<1>2. AtHand'
  BY DEF Inv, TypeOK, AtHand, Expire, Cached
<1>3. Known' /\ RepeatedOnlyForgotten'
  BY DEF Inv, Known, RepeatedOnlyForgotten, Expire, Cached
<1> QED  BY <1>1, <1>2, <1>3 DEF Inv

\* A restart empties the cache and puts on record what was in it.
LEMMA RestartStep ==
  ASSUME Inv, NEW i \in Ingesters, Restart(i)
  PROVE  Inv'
<1>1. Waiting(i) \subseteq Events /\ Cached(i) \subseteq Events
  BY DEF Inv, TypeOK, Waiting, Cached, Items
<1>2. TypeOK'
  <2>1. lost' \subseteq Events /\ forgotten' \in [Ingesters -> SUBSET Events]
    BY <1>1 DEF Inv, TypeOK, Restart
  <2>2. /\ cache' \in [Ingesters -> Seq(Events)] /\ queue' \in [Ingesters -> Seq(Items)]
        /\ pc' \in [Ingesters -> {"next", "mark", "publish"}]
    BY DEF Inv, TypeOK, Restart
  <2>3. \A j \in Ingesters :
          /\ Len(cache'[j]) <= CacheSize
          /\ \A m, n \in DOMAIN cache'[j] : cache'[j][m] = cache'[j][n] => m = n
    BY DedupAssumption DEF Inv, TypeOK, Restart
  <2>4. \A j \in Ingesters : pc'[j] # "next" => queue'[j] # << >> /\ Head(queue'[j]) \in Events
    BY DEF Inv, TypeOK, Restart
  <2>5. /\ received' \in [Ingesters -> Nat] /\ redis' \subseteq Events
        /\ copies' \in [Ingesters -> [Events -> Nat]] /\ unmarked' \subseteq Events
    BY DEF Inv, TypeOK, Restart
  <2> QED  BY <2>1, <2>2, <2>3, <2>4, <2>5 DEF TypeOK
<1>3. \A j \in Ingesters : /\ forgotten[j] \subseteq forgotten'[j]
                           /\ Cached(j) \subseteq Cached(j)' \cup forgotten'[j]
  BY DEF Inv, TypeOK, Restart, Cached
<1>4. Known' /\ RepeatedOnlyForgotten'
  BY <1>3 DEF Inv, Known, RepeatedOnlyForgotten, Restart
<1>5. AtHand'
  BY <1>3 DEF Inv, TypeOK, AtHand, Restart
<1> QED  BY <1>2, <1>4, <1>5 DEF Inv

-----------------------------------------------------------------------------
\* The initial states satisfy the invariant.
LEMMA InitInv == Init => Inv
  BY DedupAssumption DEF Init, Inv, TypeOK, Known, AtHand, RepeatedOnlyForgotten, Cached

\* Every step keeps it.
LEMMA InvStep == Inv /\ [Next]_vars => Inv'
<1> SUFFICES ASSUME Inv, [Next]_vars PROVE Inv'
  OBVIOUS
<1>1. ASSUME NEW i \in Ingesters, Receive(i) PROVE Inv'
  BY <1>1, ReceiveStep
<1>2. ASSUME NEW i \in Ingesters, Duplicate(i) \/ PublishRaw(i) PROVE Inv'
  <2>1. Tail(queue[i]) \in Seq(Items)
    BY <1>2, TailKeeps DEF Inv, Duplicate, PublishRaw
  <2>2. lost' \subseteq Events
    BY <1>2 DEF Inv, TypeOK, Duplicate, PublishRaw
  <2> QED  BY <1>2, <2>1, <2>2, DropStep DEF Duplicate, PublishRaw, NextItem
<1>3. ASSUME NEW i \in Ingesters, RawFails(i) PROVE Inv'
  <2>1. lost' \subseteq Events
    BY <1>3 DEF Inv, TypeOK, RawFails, Waiting, Items
  <2>2. pc' = [pc EXCEPT ![i] = "next"]
    BY <1>3 DEF Inv, TypeOK, RawFails
  <2>3. << >> \in Seq(Items)
    OBVIOUS
  <2> QED  BY <1>3, <2>1, <2>2, <2>3, DropStep DEF RawFails
<1>4. ASSUME NEW i \in Ingesters, Fresh(i) PROVE Inv'
  BY <1>4, FreshStep
<1>5. ASSUME NEW i \in Ingesters, Mark(i) PROVE Inv'
  BY <1>5, MarkStep
<1>6. ASSUME NEW i \in Ingesters, Publish(i) PROVE Inv'
  BY <1>6, PublishStep
<1>7. ASSUME NEW i \in Ingesters, Restart(i) PROVE Inv'
  BY <1>7, RestartStep
<1>8. ASSUME NEW e \in Events, Expire(e) PROVE Inv'
  BY <1>8, ExpireStep
<1>9. ASSUME UNCHANGED vars PROVE Inv'
  BY <1>9 DEF Inv, TypeOK, Known, AtHand, RepeatedOnlyForgotten, Cached, vars
<1> QED
  BY <1>1, <1>2, <1>3, <1>4, <1>5, <1>6, <1>7, <1>8, <1>9 DEF Next, Handle

\* The state keeps its type, and the cache its size.
THEOREM TypeCorrect == Spec => []TypeOK
<1>1. Inv => TypeOK
  BY DEF Inv
<1> QED  BY <1>1, InitInv, InvStep, PTL DEF Spec

\* An ingester publishes an event again only after Redis and its own cache
\* have both lost it, whatever the size of the cache and the feed.
THEOREM Repeated == Spec => []RepeatedOnlyForgotten
<1>1. Inv => RepeatedOnlyForgotten
  BY DEF Inv
<1> QED  BY <1>1, InitInv, InvStep, PTL DEF Spec

-----------------------------------------------------------------------------
\* An ingester that finds a hash new, which another has marked or published,
\* does so because Redis has lost the mark or does not answer.
LEMMA KnownToOthers ==
  ASSUME Inv, [Next]_vars, NEW i \in Ingesters, NEW j \in Ingesters, NEW e \in Events,
         pc[i] = "next", InHand(i, e)',
         copies[j][e] > 0 \/ (pc[j] = "publish" /\ Head(queue[j]) = e)
  PROVE  e \in unmarked'
<1>1. Fresh(i)
  <2>1. pc \in [Ingesters -> {"next", "mark", "publish"}] /\ pc'[i] # "next"
    BY DEF Inv, TypeOK, InHand
  <2>2. ASSUME NEW k \in Ingesters, Fresh(k) PROVE k = i
    BY <2>1, <2>2 DEF Fresh
  <2>3. ASSUME NEW k \in Ingesters, Handle(k), ~ Fresh(k) PROVE FALSE
    BY <2>1, <2>3 DEF Handle, Duplicate, Mark, Publish, PublishRaw, RawFails, NextItem
  <2>4. ASSUME NEW k \in Ingesters, Receive(k) \/ Restart(k) PROVE FALSE
    BY <2>1, <2>4 DEF Receive, Restart
  <2>5. ASSUME NEW x \in Events, Expire(x) PROVE FALSE
    BY <2>1, <2>5 DEF Expire
  <2>6. ~ UNCHANGED vars
    BY <2>1 DEF vars
  <2> QED  BY <2>2, <2>3, <2>4, <2>5, <2>6 DEF Next
<1>2. /\ e = Head(queue[i])
      /\ (e \notin redis /\ unmarked' = unmarked) \/ unmarked' = unmarked \cup {e}
  BY <1>1 DEF Fresh, InHand
<1>3. e \in redis \cup unmarked
  BY DEF Inv, Known, AtHand
<1> QED  BY <1>2, <1>3

\* Two ingesters publish the same event only if each has looked it up before
\* the other had marked it, or Redis has lost the mark, for any number of
\* ingesters and of failures.
THEOREM MarksAreSeen == Spec => MarkedIsKnown
<1>1. Inv /\ [Next]_vars => [\A i, j \in Ingesters, e \in Events :
                               /\ pc[i] = "next" /\ InHand(i, e)'
                               /\ copies[j][e] > 0 \/ (pc[j] = "publish" /\ Head(queue[j]) = e)
                               => e \in unmarked']_vars
  BY KnownToOthers
<1> QED  BY <1>1, InitInv, InvStep, PTL DEF Spec, MarkedIsKnown

-----------------------------------------------------------------------------
(***************************************************************************)
(* KnownIsAccounted: what is known is published, lost or in somebody's     *)
(* hands.  A step adds to what is known only the event its ingester has in *)
(* hand (KnownBefore), and no step takes an event out of all three         *)
(* (AccountedStays).                                                       *)
(***************************************************************************)
Accounted(e) == Published(e) \/ e \in lost \/ \E i \in Ingesters : InHand(i, e)

KnownAnywhere(e) == e \in redis \/ \E i \in Ingesters : e \in Cached(i)

\* Entering a hash adds no other.
LEMMA RememberAdds ==
  ASSUME TypeOK, NEW i \in Ingesters, NEW e \in Events, Remember(i, e),
         NEW j \in Ingesters
  PROVE  Cached(j)' \subseteq Cached(j) \cup {e}
<1> DEFINE old == cache[i]
           longer == Append(old, e)
<1>1. old \in Seq(Events) /\ Len(old) \in Nat /\ DOMAIN old = 1 .. Len(old)
  BY DEF TypeOK
<1>2. /\ longer \in Seq(Events) /\ Len(longer) = Len(old) + 1 /\ longer # << >>
      /\ \A n \in 1 .. Len(longer) : longer[n] \in Cached(i) \cup {e}
  <2>1. /\ longer \in Seq(Events) /\ Len(longer) = Len(old) + 1
        /\ \A n \in 1 .. Len(old) : longer[n] = old[n]
        /\ longer[Len(old) + 1] = e
    BY <1>1
  <2>2. longer # << >>
    BY <1>1, <2>1
  <2>3. \A n \in 1 .. Len(longer) : n \in 1 .. Len(old) \/ n = Len(old) + 1
    BY <1>1, <2>1
  <2> QED  BY <1>1, <2>1, <2>2, <2>3 DEF Cached
<1>3. CASE j # i
  BY <1>3 DEF TypeOK, Remember, Cached
<1>4. CASE j = i /\ cache' = [cache EXCEPT ![i] = longer]
  BY <1>2, <1>4 DEF TypeOK, Cached
<1>5. CASE j = i /\ cache' = [cache EXCEPT ![i] = Tail(longer)]
  <2>1. /\ Len(Tail(longer)) = Len(old) /\ DOMAIN Tail(longer) = 1 .. Len(old)
        /\ \A n \in 1 .. Len(old) : Tail(longer)[n] = longer[n + 1]
    BY <1>1, <1>2, HeadTailProperties
  <2>2. \A n \in 1 .. Len(old) : n + 1 \in 1 .. Len(longer)
    BY <1>1, <1>2
  <2>3. cache'[i] = Tail(longer)
    BY <1>5 DEF TypeOK
  <2>4. \A n \in DOMAIN Tail(longer) : Tail(longer)[n] \in Cached(i) \cup {e}
    BY <1>2, <2>1, <2>2
  <2> HIDE DEF longer
  <2> QED  BY <1>5, <2>3, <2>4 DEF Cached
<1> QED  BY <1>3, <1>4, <1>5 DEF Remember

\* What is known after a step was known before, or is in hand after it.
LEMMA KnownBefore ==
  ASSUME Inv, Next, NEW e \in Events, KnownAnywhere(e)'
  PROVE  KnownAnywhere(e) \/ \E i \in Ingesters : InHand(i, e)'
<1>1. ASSUME NEW i \in Ingesters, Fresh(i)
      PROVE  KnownAnywhere(e) \/ InHand(i, e)'
  <2>1. Head(queue[i]) \in Events /\ Remember(i, Head(queue[i]))
    BY <1>1 DEF Fresh
  <2>2. CASE e = Head(queue[i])
    BY <1>1, <2>2 DEF Inv, TypeOK, Fresh, InHand
  <2>3. CASE e # Head(queue[i])
    BY <1>1, <2>1, <2>3, RememberAdds DEF Inv, Fresh, KnownAnywhere
  <2> QED  BY <2>2, <2>3
<1>2. ASSUME NEW i \in Ingesters, Mark(i)
      PROVE  KnownAnywhere(e) \/ InHand(i, e)'
  BY <1>2 DEF Inv, TypeOK, Mark, KnownAnywhere, Cached, InHand
<1>3. ASSUME NEW i \in Ingesters,
             Receive(i) \/ Duplicate(i) \/ Publish(i) \/ PublishRaw(i) \/ RawFails(i)
      PROVE  KnownAnywhere(e)
  BY <1>3 DEF Receive, Duplicate, Publish, PublishRaw, RawFails, KnownAnywhere, Cached
<1>4. ASSUME NEW i \in Ingesters, Restart(i)
      PROVE  KnownAnywhere(e)
  <2>1. \A j \in Ingesters : Cached(j)' \subseteq Cached(j)
    BY <1>4 DEF Inv, TypeOK, Restart, Cached
  <2> QED  BY <1>4, <2>1 DEF Restart, KnownAnywhere
<1>5. ASSUME NEW f \in Events, Expire(f)
      PROVE  KnownAnywhere(e)
  BY <1>5 DEF Expire, KnownAnywhere, Cached
<1> QED  BY <1>1, <1>2, <1>3, <1>4, <1>5 DEF Next, Handle

\* Only a publication and a restart take an event out of an ingester's hands:
\* the one publishes it or records it as lost, the other records it as lost.
LEMMA AccountedStays ==
  ASSUME Inv, Next, NEW e \in Events, Accounted(e)
  PROVE  Accounted(e)'
<1>1. lost \subseteq lost'
  BY DEF Next, Handle, Receive, Duplicate, Fresh, Mark, Publish, PublishRaw, RawFails,
         Restart, Expire
<1>2. Published(e) => Published(e)'
  <2>1. ASSUME NEW i \in Ingesters, Publish(i)
        PROVE  \A j \in Ingesters : copies[j][e] > 0 => copies'[j][e] > 0
    <3> DEFINE h == Head(queue[i])
    <3>1. h \in Events
      BY <2>1 DEF Inv, TypeOK, Publish
    <3>2. copies' = copies \/ copies' = [copies EXCEPT ![i][h] = copies[i][h] + 1]
      BY <2>1 DEF Publish
    <3>3. \A j \in Ingesters : copies[j] \in [Events -> Nat] /\ copies[j][e] \in Nat
      BY DEF Inv, TypeOK
    <3>4. CASE copies' = [copies EXCEPT ![i][h] = copies[i][h] + 1]
      <4>1. \A j \in Ingesters : copies'[j][e] \in {copies[j][e], copies[j][e] + 1}
        BY <3>1, <3>4 DEF Inv, TypeOK
      <4> QED  BY <3>3, <4>1
    <3> QED  BY <3>2, <3>4
  <2>2. ASSUME NEW i \in Ingesters, Publish(i), Published(e)
        PROVE  Published(e)'
    BY <2>1, <2>2 DEF Published
  <2>3. (\E i \in Ingesters : Publish(i)) \/ copies' = copies
    BY DEF Next, Handle, Receive, Duplicate, Fresh, Mark, PublishRaw, RawFails, Restart, Expire
  <2> QED  BY <2>2, <2>3 DEF Published
<1>3. ASSUME NEW j \in Ingesters, InHand(j, e)
      PROVE  Accounted(e)'
  <2>0. pc[j] # "next" /\ Head(queue[j]) = e /\ queue[j] # << >>
    BY <1>3 DEF Inv, TypeOK, InHand
  <2>1. ASSUME NEW i \in Ingesters, i # j, Receive(i) \/ Handle(i) \/ Restart(i)
        PROVE  InHand(j, e)'
    BY <2>0, <2>1 DEF Inv, TypeOK, InHand, Handle, Receive, Duplicate, Fresh, Mark, Publish,
       PublishRaw, RawFails, Restart, NextItem
  <2>2. ASSUME Mark(j)  PROVE  InHand(j, e)'
    BY <2>0, <2>2 DEF Inv, TypeOK, InHand, Mark
  <2>3. ASSUME Publish(j)  PROVE  Published(e)' \/ e \in lost'
    BY <2>0, <2>3 DEF Inv, TypeOK, Publish, Published
  <2>4. ASSUME Restart(j)  PROVE  e \in lost'
    <3>1. 1 \in DOMAIN queue[j] /\ queue[j][1] = e
      BY <2>0 DEF Inv, TypeOK
    <3> QED  BY <2>4, <3>1, DedupAssumption DEF Restart, Waiting
  <2>5. ~ Receive(j) /\ ~ Duplicate(j) /\ ~ Fresh(j) /\ ~ PublishRaw(j) /\ ~ RawFails(j)
    BY <2>0 DEF Receive, Duplicate, Fresh, PublishRaw, RawFails
  <2>6. ASSUME NEW f \in Events, Expire(f)  PROVE  InHand(j, e)'
    BY <2>0, <2>6 DEF Expire, InHand
  <2> QED  BY <2>1, <2>2, <2>3, <2>4, <2>5, <2>6 DEF Next, Handle, Accounted
<1> QED  BY <1>1, <1>2, <1>3 DEF Accounted

\* An ingester that drops an event because its hash is known never drops one
\* that nobody has published or will publish, unless it is recorded as lost.
THEOREM DroppedOnTrust == Spec => []KnownIsAccounted
<1> DEFINE Strong == Inv /\ KnownIsAccounted
<1>1. Init => Strong
  BY InitInv DEF Init, KnownIsAccounted, Cached
<1>2. Strong /\ [Next]_vars => Strong'
  <2> SUFFICES ASSUME Inv, KnownIsAccounted, [Next]_vars PROVE KnownIsAccounted'
    BY InvStep
  <2>1. ASSUME Next, NEW e \in Events, KnownAnywhere(e)'
        PROVE  Accounted(e)'
    <3>1. KnownAnywhere(e) => Accounted(e)'
      BY <2>1, AccountedStays DEF KnownIsAccounted, KnownAnywhere, Accounted
    <3> QED  BY <2>1, <3>1, KnownBefore DEF Accounted
  <2>2. CASE Next
    BY <2>1, <2>2 DEF KnownIsAccounted, KnownAnywhere, Accounted
  <2>3. CASE UNCHANGED vars
    BY <2>3 DEF vars, KnownIsAccounted, Published, InHand, Cached
  <2> QED  BY <2>2, <2>3
<1> QED  BY <1>1, <1>2, PTL DEF Spec

-----------------------------------------------------------------------------
(***************************************************************************)
(* The other half of the ingester: its connection and its subscriptions.   *)
(***************************************************************************)
Feed == INSTANCE FeedSubscription

\* The refresher is between its comparison and its entry in the list.
Sending == refresher.pc \in {"send", "record"}

\* The list, as a set.
Entered == {a \in Assets : recorded[a] > 0}

Resolved == {a \in Assets : market[a] = "resolved"}

\* A task holds rows, or assets to send, only at the steps that use them; what
\* the refresher is about to enter is in the list at most once.
Buffers ==
  /\ loop.pc # "assign" => loop.rows = {}
  /\ loop.pc # "send" => loop.todo = {}
  /\ refresher.pc # "assign" => refresher.rows = {}
  /\ refresher.pc # "send" => refresher.todo = {}
  /\ Sending => \A a \in refresher.new : recorded[a] <= 1

\* What the tasks hold has been listed at some time.
Seen ==
  \A a \in mapped \cup Entered \cup loop.rows \cup refresher.rows \cup refresher.current :
    market[a] # "unlisted"

\* Once the loop has planned its subscriptions on an open connection: what is
\* in the list is subscribed or about to be, or has left the selection for good.
Steady == ws = "open" /\ loop.pc \in {"send", "top", "recv", "backoff", "dial"}
SteadyList ==
  Steady => \A a \in Entered \ (subs \cup loop.todo) :
              a \in Resolved \ (mapped \cup refresher.rows)
SteadyPass ==
  Steady /\ Sending =>
    \A a \in refresher.current \ (subs \cup loop.todo \cup refresher.todo) :
      a \in Resolved \ mapped

\* While the loop connects, a pass of the refresher works with the mapping the
\* loop will find.
ConnectPass ==
  loop.pc \in {"dial", "query", "assign"} /\ Sending => refresher.current \subseteq mapped

\* With rows at hand that it is about to assign, the loop will find among them
\* what the list and the pass have, unless that is subscribed or resolved.
RowsCover ==
  ws = "open" /\ loop.pc = "assign" =>
    /\ Entered \subseteq loop.rows \cup subs \cup Resolved
    /\ Sending => refresher.current \subseteq loop.rows \cup subs \cup refresher.todo \cup Resolved

PlanCovers ==
  ws = "open" /\ loop.pc = "plan" /\ Sending =>
    refresher.current \subseteq mapped \cup subs \cup refresher.todo \cup Resolved

Covered == SteadyList /\ SteadyPass /\ ConnectPass /\ RowsCover /\ PlanCovers

FeedInv == FeedTypeOK /\ Buffers /\ Seen /\ Covered

-----------------------------------------------------------------------------
\* A chunk is part of what is to be sent.
LEMMA ChunkOf == ASSUME NEW S, NEW c \in Feed!Chunks(S) PROVE c \subseteq S
  BY DEF Feed!Chunks

\* The records of the two tasks.
LEMMA TaskRecords ==
  /\ \A p : Feed!At(p).pc = p /\ Feed!At(p).rows = {} /\ Feed!At(p).todo = {}
  /\ Feed!Asleep.pc = "sleep" /\ Feed!Asleep.rows = {} /\ Feed!Asleep.current = {}
  /\ Feed!Asleep.new = {} /\ Feed!Asleep.todo = {}
  BY DEF Feed!At, Feed!Asleep

\* The types of the two tasks' records.
LoopType == [pc : {"top", "recv", "backoff", "dial", "query", "assign", "plan", "send"},
             rows : SUBSET Assets, todo : SUBSET Assets]
RefresherType == [pc : {"sleep", "assign", "send", "record"}, rows : SUBSET Assets,
                  current : SUBSET Assets, new : SUBSET Assets, todo : SUBSET Assets]

\* The records of the two tasks have these types.
LEMMA AtType ==
  /\ \A p \in {"top", "recv", "backoff", "dial", "query", "plan"} : Feed!At(p) \in LoopType
  /\ Feed!Asleep \in RefresherType
  BY DEF Feed!At, Feed!Asleep, LoopType, RefresherType

\* A list made of a set.
LEMMA OnceFacts ==
  ASSUME NEW S \in SUBSET Assets
  PROVE  /\ Feed!Once(S) \in [Assets -> 0 .. 2]
         /\ \A a \in Assets : (Feed!Once(S)[a] > 0 <=> a \in S) /\ Feed!Once(S)[a] <= 1
  BY DEF Feed!Once

\* What the refresher's comparison leaves: a pass to be sent, or a list that
\* is no longer than it was.
LEMMA CompareFacts ==
  ASSUME FeedTypeOK, NEW current \in SUBSET Assets, Feed!Compare(current)
  PROVE  /\ refresher' \in RefresherType /\ recorded' \in [Assets -> 0 .. 2]
         /\ refresher'.rows = {} /\ refresher'.pc \in {"sleep", "send"}
         /\ refresher'.pc = "sleep" => refresher' = Feed!Asleep
         /\ refresher'.pc = "send" =>
              /\ refresher'.current = current /\ recorded' = recorded
              /\ refresher'.new = current \ Entered /\ refresher'.todo = current \ Entered
              /\ refresher'.new # {}
         /\ Entered' \subseteq Entered
<1> DEFINE new == {a \in current : recorded[a] = 0}
<1>0. new = current \ Entered /\ new \in SUBSET Assets
  BY DEF FeedTypeOK, Entered
<1>1. CASE new # {}
  <2>1. /\ refresher' = [Feed!Asleep EXCEPT !.pc = "send", !.current = current,
                                              !.new = new, !.todo = new]
        /\ recorded' = recorded
    BY <1>1 DEF Feed!Compare
  <2>2. refresher' = [pc |-> "send", rows |-> {}, current |-> current, new |-> new, todo |-> new]
    BY <2>1 DEF Feed!Asleep
  <2> HIDE DEF new
  <2>3. refresher' \in RefresherType
    BY <1>0, <2>2 DEF RefresherType
  <2>4. recorded' \in [Assets -> 0 .. 2] /\ Entered' = Entered
    BY <2>1 DEF FeedTypeOK, Entered
  <2>5. /\ refresher'.rows = {} /\ refresher'.pc = "send" /\ refresher'.current = current
        /\ refresher'.new = new /\ refresher'.todo = new
    BY <2>2
  <2> QED
    BY <1>0, <1>1, <2>1, <2>3, <2>4, <2>5
<1>2. CASE new = {}
  <2>1. /\ refresher' = Feed!Asleep
        /\ recorded' \in {recorded, Feed!Once(current)}
    BY <1>2 DEF Feed!Compare
  <2>2. current \subseteq Entered
    BY <1>0, <1>2
  <2>3. recorded' \in [Assets -> 0 .. 2] /\ Entered' \subseteq Entered
    BY <2>1, <2>2, OnceFacts DEF FeedTypeOK, Entered
  <2> QED
    BY <2>1, <2>3, TaskRecords, AtType
<1> QED
  BY <1>1, <1>2

\* What is entered in the list at the end of a pass: assets of the list and of
\* the pass, none of them three times.
LEMMA RecordFacts ==
  ASSUME FeedTypeOK, Buffers, Feed!Record
  PROVE  /\ recorded' \in [Assets -> 0 .. 2]
         /\ Entered' \subseteq Entered \cup refresher.current
<1>0. /\ recorded \in [Assets -> 0 .. 2] /\ refresher.current \in SUBSET Assets
      /\ refresher.new \in SUBSET Assets /\ refresher.new \subseteq refresher.current
      /\ \A a \in refresher.new : recorded[a] <= 1
  BY DEF FeedTypeOK, Buffers, Feed!Record, Sending
<1> DEFINE longer == [a \in Assets |-> recorded[a] + Feed!Once(refresher.new)[a]]
<1>1. recorded' \in {longer, Feed!Once(refresher.current)}
  BY DEF Feed!Record
<1>2. \A a \in Assets : longer[a] = recorded[a] + (IF a \in refresher.new THEN 1 ELSE 0)
  BY DEF Feed!Once
<1>3. longer \in [Assets -> 0 .. 2]
  <2>1. \A a \in Assets : longer[a] \in 0 .. 2
    BY <1>0, <1>2
  <2> QED
    BY <2>1
<1>4. \A a \in Assets : longer[a] > 0 => a \in Entered \cup refresher.current
  BY <1>0, <1>2 DEF Entered
<1> HIDE DEF longer
<1>5. CASE recorded' = longer
  BY <1>3, <1>4, <1>5 DEF Entered
<1>6. CASE recorded' = Feed!Once(refresher.current)
  BY <1>0, <1>6, OnceFacts DEF Entered
<1> QED
  BY <1>1, <1>5, <1>6

\* The flag started, kept apart from the rest.
LEMMA StartedType == started \in BOOLEAN /\ [Feed!Next]_(Feed!vars) => started' \in BOOLEAN
<1> SUFFICES ASSUME started \in BOOLEAN, [Feed!Next]_(Feed!vars) PROVE started' \in BOOLEAN
  OBVIOUS
<1> QED
  BY Zenon DEF Feed!Next, Feed!vars, Feed!Loop, Feed!Refresher, Feed!Top, Feed!Receive,
     Feed!ReceiveFails, Feed!Backoff, Feed!Dial, Feed!DialFails,
     Feed!Query, Feed!Assign, Feed!Plan, Feed!Send, Feed!Refresh, Feed!RefresherAssign,
     Feed!RefresherSend, Feed!Record, Feed!Stale,
     Feed!StaleClosed, Feed!Disconnect, Feed!GrowOld, Feed!ListMarket, Feed!ResolveMarket


-----------------------------------------------------------------------------
\* What TypeOK says of the two records, field by field.
LEMMA Fields ==
  ASSUME FeedTypeOK
  PROVE  /\ loop \in LoopType /\ refresher \in RefresherType
         /\ loop.rows \in SUBSET Assets /\ loop.todo \in SUBSET Assets
         /\ refresher.rows \in SUBSET Assets /\ refresher.current \in SUBSET Assets
         /\ refresher.new \in SUBSET Assets /\ refresher.todo \in SUBSET Assets
         /\ Entered \in SUBSET Assets /\ Resolved \in SUBSET Assets /\ Feed!Listed \in SUBSET Assets
  BY DEF FeedTypeOK, LoopType, RefresherType, Entered, Resolved, Feed!Listed

\* An asset of the selection is listed; what has been listed is so still or is
\* resolved.
LEMMA SeenFacts ==
  ASSUME FeedTypeOK
  PROVE  /\ \A a \in Feed!Listed : market[a] # "unlisted" /\ a \notin Resolved
         /\ Seen => Entered \subseteq Feed!Listed \cup Resolved
  BY DEF FeedTypeOK, Feed!Listed, Resolved, Seen, Entered

\* A step of the loop that changes neither list nor connection and ends with
\* nothing at hand keeps the types.
LEMMA LoopMoves ==
  ASSUME FeedInv, NEW p \in {"top", "recv", "backoff", "dial", "query", "plan"},
         loop' = Feed!At(p), UNCHANGED <<market, mapped, recorded, refresher, watchdog>>,
         started' \in BOOLEAN, last' \in {"never", "recent", "old"}, faults' \in Nat,
         ws' \in {"none", "open", "mute", "closing", "closed"}, subs' \in SUBSET Assets
  PROVE  FeedTypeOK' /\ Buffers' /\ Seen'
<1>1. loop'.pc = p /\ loop'.rows = {} /\ loop'.todo = {} /\ loop' \in LoopType
  BY TaskRecords, AtType
<1>2. FeedTypeOK'
  BY <1>1 DEF FeedInv, FeedTypeOK, LoopType
<1>3. Buffers'
  BY <1>1 DEF FeedInv, Buffers, Sending
<1>4. Seen'
  BY <1>1 DEF FeedInv, Seen, Entered
<1> QED
  BY <1>2, <1>3, <1>4

\* The message loop keeps the invariant.
LEMMA LoopStep ==
  ASSUME FeedInv, Feed!Loop, started' \in BOOLEAN
  PROVE  FeedInv'
<1> USE DEF FeedInv
<1>0. /\ loop \in LoopType /\ refresher \in RefresherType
      /\ loop.rows \in SUBSET Assets /\ loop.todo \in SUBSET Assets
      /\ refresher.rows \in SUBSET Assets /\ refresher.current \in SUBSET Assets
      /\ refresher.new \in SUBSET Assets /\ refresher.todo \in SUBSET Assets
      /\ Entered \in SUBSET Assets /\ Resolved \in SUBSET Assets /\ Feed!Listed \in SUBSET Assets
  BY Fields
<1>a. ASSUME UNCHANGED <<market, mapped, recorded, refresher>>
      PROVE  /\ Entered' = Entered /\ Resolved' = Resolved /\ Feed!Listed' = Feed!Listed
             /\ (Sending' <=> Sending)
  BY <1>a DEF Entered, Resolved, Feed!Listed, Sending
<1>1. CASE Feed!Top
  <2>1. PICK p \in {"backoff", "recv"} : loop' = Feed!At(p)
    BY <1>1 DEF Feed!Top
  <2>2. loop'.pc = p /\ loop'.rows = {} /\ loop'.todo = {} /\ loop.pc = "top" /\ loop.todo = {}
    BY <1>1, <2>1, TaskRecords DEF Feed!Top, Buffers
  <2>3. UNCHANGED <<market, mapped, recorded, ws, subs, refresher, watchdog, last, faults>>
    BY <1>1 DEF Feed!Top
  <2>4. FeedTypeOK' /\ Buffers' /\ Seen'
    BY <2>1, <2>3, LoopMoves DEF FeedTypeOK
  <2>5. Covered'
    BY <1>a, <2>2, <2>3 DEF Covered, Steady, SteadyList, SteadyPass, ConnectPass, RowsCover,
       PlanCovers
  <2> QED
    BY <2>4, <2>5
<1>2. CASE Feed!Receive \/ Feed!ReceiveFails
  <2>1. PICK p \in {"top", "backoff"} : loop' = Feed!At(p)
    BY <1>2 DEF Feed!Receive, Feed!ReceiveFails
  <2>2. loop'.pc = p /\ loop'.rows = {} /\ loop'.todo = {} /\ loop.pc = "recv" /\ loop.todo = {}
    BY <1>2, <2>1, TaskRecords DEF Feed!Receive, Feed!ReceiveFails, Buffers
  <2>3. UNCHANGED <<market, mapped, recorded, ws, subs, refresher, watchdog>>
    BY <1>2 DEF Feed!Receive, Feed!ReceiveFails
  <2>4. FeedTypeOK' /\ Buffers' /\ Seen'
    <3>1. last' \in {"never", "recent", "old"} /\ faults' \in Nat
      BY <1>2 DEF Feed!Receive, Feed!ReceiveFails, Feed!Fault, FeedTypeOK
    <3> QED
      BY <2>1, <2>3, <3>1, LoopMoves DEF FeedTypeOK
  <2>5. Covered'
    BY <1>a, <2>2, <2>3 DEF Covered, Steady, SteadyList, SteadyPass, ConnectPass, RowsCover,
       PlanCovers
  <2> QED
    BY <2>4, <2>5
<1>3. CASE Feed!Backoff
  <2>2. /\ loop'.pc = "dial" /\ loop'.rows = {} /\ loop'.todo = {}
        /\ loop.pc = "backoff" /\ loop.todo = {} /\ ~ Sending
    BY <1>3, TaskRecords DEF Feed!Backoff, Buffers, Sending
  <2>3. UNCHANGED <<market, mapped, recorded, ws, subs, refresher, watchdog, last, faults>>
    BY <1>3 DEF Feed!Backoff
  <2>4. FeedTypeOK' /\ Buffers' /\ Seen'
    BY <1>3, <2>3, LoopMoves DEF Feed!Backoff, FeedTypeOK
  <2>5. Covered'
    BY <1>a, <2>2, <2>3 DEF Covered, Steady, SteadyList, SteadyPass, ConnectPass, RowsCover,
       PlanCovers
  <2> QED
    BY <2>4, <2>5
<1>4. CASE Feed!Dial
  <2>2. /\ loop'.pc = "query" /\ loop'.rows = {} /\ loop'.todo = {} /\ loop.pc = "dial"
    BY <1>4, TaskRecords DEF Feed!Dial
  <2>3. UNCHANGED <<market, mapped, recorded, refresher, watchdog, last, faults>>
        /\ subs' = {} /\ ws' = "open"
    BY <1>4 DEF Feed!Dial
  <2>4. FeedTypeOK' /\ Buffers' /\ Seen'
    BY <1>4, <2>3, LoopMoves DEF Feed!Dial, FeedTypeOK
  <2>5. Covered'
    BY <1>a, <2>2, <2>3 DEF Covered, Steady, SteadyList, SteadyPass, ConnectPass, RowsCover,
       PlanCovers
  <2> QED
    BY <2>4, <2>5
<1>5. CASE Feed!DialFails
  <2>2. /\ loop'.pc = "top" /\ loop'.rows = {} /\ loop'.todo = {}
        /\ loop.pc = "dial" /\ loop.todo = {}
    BY <1>5, TaskRecords DEF Feed!DialFails, Buffers
  <2>3. UNCHANGED <<market, mapped, recorded, ws, subs, refresher, watchdog, last>>
    BY <1>5 DEF Feed!DialFails
  <2>4. FeedTypeOK' /\ Buffers' /\ Seen'
    <3>1. faults' \in Nat
      BY <1>5 DEF Feed!DialFails, Feed!Fault, FeedTypeOK
    <3> QED
      BY <1>5, <2>3, <3>1, LoopMoves DEF Feed!DialFails, FeedTypeOK
  <2>5. Covered'
    BY <1>a, <2>2, <2>3 DEF Covered, Steady, SteadyList, SteadyPass, ConnectPass, RowsCover,
       PlanCovers
  <2> QED
    BY <2>4, <2>5
<1>6. CASE Feed!Query
  <2>1. UNCHANGED <<market, mapped, recorded, ws, subs, refresher, watchdog, last>>
        /\ loop.pc = "query"
    BY <1>6 DEF Feed!Query
  <2>2. CASE loop' = [Feed!At("assign") EXCEPT !.rows = Feed!Listed] /\ UNCHANGED faults
    <3>1. loop' = [pc |-> "assign", rows |-> Feed!Listed, todo |-> {}]
      BY <2>2 DEF Feed!At
    <3>2. loop' \in LoopType /\ loop'.pc = "assign" /\ loop'.rows = Feed!Listed /\ loop'.todo = {}
      BY <1>0, <3>1 DEF LoopType
    <3>3. FeedTypeOK'
      BY <2>1, <2>2, <3>2 DEF FeedTypeOK, LoopType
    <3>4. Buffers'
      BY <2>1, <3>2 DEF Buffers, Sending
    <3>5. Seen'
      BY <2>1, <3>2, <1>a, SeenFacts DEF Seen
    <3>6. Covered'
      <4>1. Entered \subseteq Feed!Listed \cup Resolved
        BY SeenFacts
      <4>2. Sending => refresher.current \subseteq Feed!Listed \cup Resolved
        <5>1. \A a \in refresher.current : market[a] # "unlisted"
          BY DEF Seen
        <5> QED
          BY <1>0, <5>1 DEF Feed!Listed, Resolved, FeedTypeOK
      <4> QED
        BY <1>a, <2>1, <3>2, <4>1, <4>2
           DEF Covered, Steady, SteadyList, SteadyPass, ConnectPass, RowsCover, PlanCovers
    <3> QED
      BY <3>3, <3>4, <3>5, <3>6
  <2>3. CASE loop' = Feed!At("plan") /\ Feed!Fault
    <3>1. loop'.pc = "plan" /\ loop'.rows = {} /\ loop'.todo = {}
      BY <2>3, TaskRecords
    <3>2. faults' \in Nat
      BY <2>3 DEF Feed!Fault, FeedTypeOK
    <3>3. FeedTypeOK' /\ Buffers' /\ Seen'
      BY <2>1, <2>3, <3>2, LoopMoves DEF FeedTypeOK
    <3>4. Covered'
      BY <1>a, <2>1, <3>1 DEF Covered, Steady, SteadyList, SteadyPass, ConnectPass, RowsCover,
         PlanCovers
    <3> QED
      BY <3>3, <3>4
  <2> QED
    BY <1>6, <2>2, <2>3 DEF Feed!Query
<1>7. CASE Feed!Assign
  <2>1. /\ UNCHANGED <<market, recorded, ws, subs, refresher, watchdog, last, faults>>
        /\ loop.pc = "assign" /\ mapped' = loop.rows
    BY <1>7 DEF Feed!Assign
  <2>2. loop'.pc = "plan" /\ loop'.rows = {} /\ loop'.todo = {} /\ loop' \in LoopType
    BY <1>7, TaskRecords, AtType DEF Feed!Assign
  <2>3. FeedTypeOK'
    BY <1>0, <2>1, <2>2 DEF FeedTypeOK, LoopType
  <2>4. Entered' = Entered /\ Resolved' = Resolved /\ (Sending' <=> Sending)
    BY <2>1 DEF Entered, Resolved, Sending
  <2>5. Buffers' /\ Seen'
    BY <2>1, <2>2, <2>4 DEF Buffers, Seen
  <2>6. Covered'
    BY <2>1, <2>2, <2>4 DEF Covered, Steady, SteadyList, SteadyPass, ConnectPass, RowsCover,
       PlanCovers
  <2> QED
    BY <2>3, <2>5, <2>6
<1>8. CASE Feed!Plan
  <2>1. /\ UNCHANGED <<market, mapped, subs, refresher, watchdog, last, faults>>
        /\ loop.pc = "plan" /\ recorded' = Feed!Once(mapped) /\ mapped \in SUBSET Assets
    BY <1>8 DEF Feed!Plan, FeedTypeOK
  <2>2. /\ loop'.pc = (IF mapped = {} THEN "top" ELSE "send") /\ loop'.rows = {}
        /\ loop'.todo = mapped /\ loop' \in LoopType
        /\ ws' = (IF mapped = {} THEN "none" ELSE ws)
    <3>1. CASE mapped = {}
      BY <1>8, <3>1, TaskRecords, AtType DEF Feed!Plan
    <3>2. CASE mapped # {}
      <4>1. loop' = [Feed!At("send") EXCEPT !.todo = mapped] /\ ws' = ws
        BY <1>8, <3>2 DEF Feed!Plan
      <4>2. loop' = [pc |-> "send", rows |-> {}, todo |-> mapped]
        BY <4>1 DEF Feed!At
      <4> QED
        BY <2>1, <3>2, <4>1, <4>2 DEF LoopType
    <3> QED
      BY <3>1, <3>2
  <2>3. recorded' \in [Assets -> 0 .. 2] /\ Entered' = mapped /\ \A a \in Assets : recorded'[a] <= 1
    BY <2>1, OnceFacts DEF Entered
  <2>4. FeedTypeOK'
    BY <2>1, <2>2, <2>3 DEF FeedTypeOK, LoopType
  <2>5. Resolved' = Resolved /\ (Sending' <=> Sending)
    BY <2>1 DEF Resolved, Sending
  <2>6. Buffers' /\ Seen'
    BY <1>0, <2>1, <2>2, <2>3, <2>5 DEF Buffers, Seen
  <2>7. Covered'
    BY <2>1, <2>2, <2>3, <2>5 DEF Covered, Steady, SteadyList, SteadyPass, ConnectPass,
       RowsCover, PlanCovers
  <2> QED
    BY <2>4, <2>6, <2>7
<1>9. CASE Feed!Send
  <2>1. /\ UNCHANGED <<market, mapped, recorded, ws, refresher, watchdog, last, faults>>
        /\ loop.pc = "send"
    BY <1>9 DEF Feed!Send
  <2>2. PICK chunk \in Feed!Chunks(loop.todo) :
          /\ subs' = IF ws = "open" THEN subs \cup chunk ELSE subs
          /\ loop' = IF loop.todo = chunk THEN Feed!At("top") ELSE [loop EXCEPT !.todo = @ \ chunk]
    BY <1>9 DEF Feed!Send, Feed!TrySubscribe
  <2>3. chunk \subseteq loop.todo
    BY <2>2, ChunkOf
  <2>4. /\ loop' \in LoopType /\ loop'.rows = {} /\ loop'.todo = loop.todo \ chunk
        /\ loop'.pc = IF loop.todo = chunk THEN "top" ELSE "send"
    <3>1. CASE loop.todo = chunk
      BY <2>2, <3>1, TaskRecords, AtType
    <3>2. CASE loop.todo # chunk
      BY <1>0, <2>1, <2>2, <3>2 DEF LoopType, Buffers
    <3> QED
      BY <3>1, <3>2
  <2>5. FeedTypeOK'
    BY <1>0, <2>1, <2>2, <2>3, <2>4 DEF FeedTypeOK, LoopType
  <2>6. Buffers' /\ Seen'
    BY <1>a, <2>1, <2>3, <2>4 DEF Buffers, Seen
  <2>7. Covered'
    BY <1>a, <2>1, <2>2, <2>3, <2>4
       DEF Covered, Steady, SteadyList, SteadyPass, ConnectPass, RowsCover, PlanCovers
  <2> QED
    BY <2>5, <2>6, <2>7
<1> QED
  BY <1>1, <1>2, <1>3, <1>4, <1>5, <1>6, <1>7, <1>8, <1>9 DEF Feed!Loop

\* The refresher's comparison, with a mapping that the loop can see.
LEMMA ComparePass ==
  ASSUME FeedInv, Feed!Compare(mapped'), mapped' \in SUBSET Assets, started' \in BOOLEAN,
         \/ mapped' = refresher.rows /\ refresher.pc = "assign"
         \/ mapped' = mapped /\ refresher.pc = "sleep",
         UNCHANGED <<market, ws, subs, loop, watchdog, last>>, faults' \in Nat
  PROVE  FeedInv'
<1> USE DEF FeedInv
<1>0. /\ refresher.rows \in SUBSET Assets /\ Entered \in SUBSET Assets
      /\ Resolved' = Resolved /\ Feed!Listed' = Feed!Listed /\ ~ Sending
  BY Fields DEF Resolved, Feed!Listed, Sending
<1>1. /\ refresher' \in RefresherType /\ recorded' \in [Assets -> 0 .. 2]
      /\ refresher'.rows = {} /\ refresher'.pc \in {"sleep", "send"}
      /\ refresher'.pc = "sleep" => refresher' = Feed!Asleep
      /\ refresher'.pc = "send" =>
           /\ refresher'.current = mapped' /\ recorded' = recorded
           /\ refresher'.new = mapped' \ Entered /\ refresher'.todo = mapped' \ Entered
           /\ refresher'.new # {}
      /\ Entered' \subseteq Entered
  BY CompareFacts
<1>2. refresher'.pc = "sleep" =>
        refresher'.current = {} /\ refresher'.new = {} /\ refresher'.todo = {} /\ ~ Sending'
  BY <1>1, TaskRecords DEF Sending
<1>3. FeedTypeOK'
  BY <1>1, <1>2 DEF FeedTypeOK, RefresherType
<1>4. Buffers'
  <2>1. Sending' => \A a \in refresher'.new : recorded'[a] <= 1
    BY <1>1, <1>2 DEF Entered, FeedTypeOK
  <2> QED
    BY <1>1, <1>2, <2>1 DEF Buffers
<1>5. Seen'
  BY <1>1, <1>2 DEF Seen
<1>6. SteadyList'
  BY <1>0, <1>1 DEF Covered, SteadyList, Steady
<1>7. SteadyPass'
  BY <1>0, <1>1, <1>2 DEF Covered, SteadyList, SteadyPass, Steady
<1>8. ConnectPass' /\ PlanCovers'
  BY <1>1, <1>2 DEF ConnectPass, PlanCovers
<1>9. RowsCover'
  BY <1>0, <1>1, <1>2 DEF Covered, RowsCover
<1> QED
  BY <1>3, <1>4, <1>5, <1>6, <1>7, <1>8, <1>9 DEF Covered

\* The subscription refresher keeps the invariant.
LEMMA RefresherStep ==
  ASSUME FeedInv, Feed!Refresher, started' \in BOOLEAN
  PROVE  FeedInv'
<1> USE DEF FeedInv
<1>0. /\ loop \in LoopType /\ refresher \in RefresherType
      /\ loop.rows \in SUBSET Assets /\ loop.todo \in SUBSET Assets
      /\ refresher.rows \in SUBSET Assets /\ refresher.current \in SUBSET Assets
      /\ refresher.new \in SUBSET Assets /\ refresher.todo \in SUBSET Assets
      /\ Entered \in SUBSET Assets /\ Resolved \in SUBSET Assets /\ Feed!Listed \in SUBSET Assets
  BY Fields
<1>1. CASE Feed!Refresh
  <2>1. UNCHANGED <<market, mapped, ws, subs, loop, watchdog, last>> /\ refresher.pc = "sleep"
    BY <1>1 DEF Feed!Refresh
  <2>2. CASE Feed!Compare(mapped) /\ Feed!Fault
    <3>1. faults' \in Nat
      BY <2>2 DEF Feed!Fault, FeedTypeOK
    <3>2. Feed!Compare(mapped')
      BY <2>1, <2>2
    <3> QED
      BY <2>1, <3>1, <3>2, ComparePass DEF FeedTypeOK
  <2>3. CASE /\ refresher' = [Feed!Asleep EXCEPT !.pc = "assign", !.rows = Feed!Listed]
             /\ UNCHANGED <<recorded, faults>>
    <3>1. refresher' = [pc |-> "assign", rows |-> Feed!Listed, current |-> {}, new |-> {}, todo |-> {}]
      BY <2>3 DEF Feed!Asleep
    <3>2. /\ refresher' \in RefresherType /\ refresher'.pc = "assign" /\ refresher'.rows = Feed!Listed
          /\ refresher'.current = {} /\ refresher'.new = {} /\ refresher'.todo = {}
      BY <1>0, <3>1 DEF RefresherType
    <3>3. Entered' = Entered /\ Resolved' = Resolved /\ ~ Sending'
      BY <2>1, <2>3, <3>2 DEF Entered, Resolved, Sending
    <3>4. FeedTypeOK'
      BY <2>1, <2>3, <3>2 DEF FeedTypeOK, RefresherType
    <3>5. Buffers' /\ Seen'
      BY <2>1, <3>2, <3>3, SeenFacts DEF Buffers, Seen
    <3>6. Covered'
      BY <2>1, <3>2, <3>3, SeenFacts
         DEF Covered, Steady, SteadyList, SteadyPass, ConnectPass, RowsCover, PlanCovers
    <3> QED
      BY <3>4, <3>5, <3>6
  <2> QED
    BY <1>1, <2>2, <2>3 DEF Feed!Refresh
<1>2. CASE Feed!RefresherAssign
  <2>1. /\ UNCHANGED <<market, ws, subs, loop, watchdog, last, faults>>
        /\ refresher.pc = "assign" /\ mapped' = refresher.rows
    BY <1>2 DEF Feed!RefresherAssign
  <2>2. Feed!Compare(mapped')
    BY <1>2, <2>1 DEF Feed!RefresherAssign
  <2> QED
    BY <1>0, <2>1, <2>2, ComparePass DEF FeedTypeOK
<1>3. CASE Feed!RefresherSend
  <2>1. /\ UNCHANGED <<market, mapped, recorded, ws, loop, watchdog, last, faults>>
        /\ refresher.pc = "send" /\ Sending
    BY <1>3 DEF Feed!RefresherSend, Sending
  <2>2. PICK chunk \in Feed!Chunks(refresher.todo) :
          /\ subs' = IF ws = "open" THEN subs \cup chunk ELSE subs
          /\ refresher' = [refresher EXCEPT
               !.todo = @ \ chunk, !.pc = IF refresher.todo = chunk THEN "record" ELSE "send"]
    BY <1>3 DEF Feed!RefresherSend, Feed!TrySubscribe
  <2>3. chunk \subseteq refresher.todo
    BY <2>2, ChunkOf
  <2>4. /\ refresher' \in RefresherType /\ refresher'.rows = refresher.rows
        /\ refresher'.current = refresher.current /\ refresher'.new = refresher.new
        /\ refresher'.todo = refresher.todo \ chunk
        /\ refresher'.pc = IF refresher.todo = chunk THEN "record" ELSE "send"
    BY <1>0, <2>2 DEF RefresherType
  <2>5. FeedTypeOK'
    <3>1. subs' \subseteq Assets
      <4>1. chunk \subseteq Assets
        BY <1>0, <2>3 DEF RefresherType
      <4> QED
        BY <2>2, <4>1 DEF FeedTypeOK
    <3>2. refresher'.pc = "send" => refresher'.todo # {}
      BY <2>3, <2>4
    <3>3. refresher'.todo \subseteq refresher'.new /\ refresher'.new \subseteq refresher'.current
      BY <2>4 DEF FeedTypeOK
    <3> QED
      BY <2>1, <2>4, <3>1, <3>2, <3>3 DEF FeedTypeOK, RefresherType
  <2>6. Entered' = Entered /\ Resolved' = Resolved /\ Sending'
    BY <2>1, <2>4 DEF Entered, Resolved, Sending
  <2>7. Buffers' /\ Seen'
    BY <2>1, <2>3, <2>4, <2>6 DEF Buffers, Seen
  <2>8. Covered'
    BY <2>1, <2>2, <2>3, <2>4, <2>6
       DEF Covered, Steady, SteadyList, SteadyPass, ConnectPass, RowsCover, PlanCovers
  <2> QED
    BY <2>5, <2>7, <2>8
<1>4. CASE Feed!Record
  <2>1. /\ UNCHANGED <<market, mapped, ws, subs, loop, watchdog, last, faults>>
        /\ refresher.pc = "record" /\ Sending /\ refresher' = Feed!Asleep
    BY <1>4 DEF Feed!Record, Sending
  <2>2. recorded' \in [Assets -> 0 .. 2] /\ Entered' \subseteq Entered \cup refresher.current
    BY <1>4, RecordFacts
  <2>3. /\ refresher'.pc = "sleep" /\ refresher'.rows = {} /\ refresher'.current = {}
        /\ refresher'.new = {} /\ refresher'.todo = {} /\ refresher' \in RefresherType
        /\ ~ Sending' /\ refresher.todo = {} /\ Resolved' = Resolved
    BY <2>1, TaskRecords, AtType DEF Sending, Buffers, Resolved
  <2>4. FeedTypeOK'
    BY <2>1, <2>2, <2>3 DEF FeedTypeOK, RefresherType
  <2>5. Buffers' /\ Seen'
    BY <2>1, <2>2, <2>3 DEF Buffers, Seen
  <2>6. Covered'
    BY <2>1, <2>2, <2>3
       DEF Covered, Steady, SteadyList, SteadyPass, ConnectPass, RowsCover, PlanCovers
  <2> QED
    BY <2>4, <2>5, <2>6
<1> QED
  BY <1>1, <1>2, <1>3, <1>4 DEF Feed!Refresher

\* So do the watchdog, the network, time and the markets.
LEMMA EnvironmentStep ==
  ASSUME FeedInv, started' \in BOOLEAN,
         \/ Feed!Stale \/ Feed!StaleClosed \/ Feed!Disconnect \/ Feed!GrowOld \/ UNCHANGED Feed!vars
         \/ \E a \in Assets : Feed!ListMarket(a) \/ Feed!ResolveMarket(a)
  PROVE  FeedInv'
<1> USE DEF FeedInv
<1>1. UNCHANGED <<mapped, recorded, subs, loop, refresher>>
      /\ (ws' = "open" => ws = "open")
      /\ ws' \in {"none", "open", "mute", "closing", "closed"}
      /\ watchdog' \in {"idle", "closing"} /\ last' \in {"never", "recent", "old"}
      /\ faults' \in Nat
  BY DEF Feed!Stale, Feed!StaleClosed, Feed!Disconnect, Feed!GrowOld, Feed!vars,
     Feed!ListMarket, Feed!ResolveMarket, Feed!Fault, FeedTypeOK
<1>2. /\ market' \in [Assets -> {"unlisted", "listed", "resolved"}]
      /\ \A a \in Assets : (market[a] # "unlisted" => market'[a] # "unlisted")
      /\ Resolved \subseteq Resolved'
  BY DEF Feed!Stale, Feed!StaleClosed, Feed!Disconnect, Feed!GrowOld, Feed!vars,
     Feed!ListMarket, Feed!ResolveMarket, FeedTypeOK, Resolved
<1>3. Entered' = Entered /\ (Sending' <=> Sending)
  BY <1>1 DEF Entered, Sending
<1>4. FeedTypeOK'
  BY <1>1, <1>2 DEF FeedTypeOK
<1>5. Buffers'
  BY <1>1, <1>3 DEF Buffers
<1>6. Seen'
  BY <1>1, <1>2, <1>3, Fields DEF Seen, FeedTypeOK
<1>7. Covered'
  BY <1>1, <1>2, <1>3
     DEF Covered, Steady, SteadyList, SteadyPass, ConnectPass, RowsCover, PlanCovers
<1> QED
  BY <1>4, <1>5, <1>6, <1>7

\* The connection before the first message is no connection.
LEMMA FeedInit == Feed!Init => FeedInv
<1> SUFFICES ASSUME Feed!Init PROVE FeedInv
  OBVIOUS
<1>1. started \in BOOLEAN
  BY Zenon DEF Feed!Init
<1>2. loop.pc = "dial" /\ loop.rows = {} /\ loop.todo = {} /\ loop \in LoopType
      /\ refresher.pc = "sleep" /\ refresher.rows = {} /\ refresher.current = {}
      /\ refresher.new = {} /\ refresher.todo = {} /\ refresher \in RefresherType
  BY TaskRecords, AtType DEF Feed!Init
<1>3. recorded \in [Assets -> 0 .. 2] /\ Entered = {}
  BY OnceFacts DEF Feed!Init, Entered
<1>4. FeedTypeOK
  BY <1>1, <1>2, <1>3 DEF Feed!Init, FeedTypeOK, LoopType, RefresherType
<1> QED
  BY <1>2, <1>3, <1>4 DEF Feed!Init, FeedInv, Buffers, Seen, Sending, Covered, Steady,
     SteadyList,
     SteadyPass, ConnectPass, RowsCover, PlanCovers

\* Every step of the three tasks and of their environment.
LEMMA FeedStep == FeedInv /\ [Feed!Next]_(Feed!vars) => FeedInv'
<1> SUFFICES ASSUME FeedInv, [Feed!Next]_(Feed!vars) PROVE FeedInv'
  OBVIOUS
<1>1. started' \in BOOLEAN
  BY StartedType DEF FeedInv, FeedTypeOK
<1> QED
  BY <1>1, LoopStep, RefresherStep, EnvironmentStep DEF Feed!Next

\* The ingester's shared state keeps its types, and no asset is in the list of
\* subscribed assets more than twice, for any number of assets.
THEOREM FeedTypeCorrect == Feed!Spec => []FeedTypeOK
  BY FeedInit, FeedStep, PTL DEF Feed!Spec, FeedInv

\* For any number of assets, chunks and failures: the refresher never skips an
\* asset that the server does not send.
THEOREM NothingSkipped == Feed!Spec => []RecordedIsSubscribed
<1>1. FeedInv => RecordedIsSubscribed
  BY Fields DEF FeedInv, Covered, SteadyList, Steady, Buffers, Entered,
     RecordedIsSubscribed, FeedTypeOK
<1> QED
  BY FeedInit, FeedStep, <1>1, PTL DEF Feed!Spec
=============================================================================
