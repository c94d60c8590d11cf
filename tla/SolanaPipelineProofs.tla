------------------------ MODULE SolanaPipelineProofs ------------------------
(***************************************************************************)
(* What the pipeline promises, for any number of transactions, requests,   *)
(* faults, losses and retries.                                             *)
(*                                                                         *)
(* NothingLost is not inductive as it stands: an event that is only at the *)
(* head of the dead-letter stream while the replay loop is about to delete *)
(* that head would be lost.  OnItsWay leaves that case out, and the replay *)
(* actions make it good before they reach it.  One lemma about it, WayStep,*)
(* gives NothingLost (no loss at all) and LossesAreInFlight (what a loss   *)
(* may take).  CountedOnce follows from an account of the copies of an     *)
(* event, Budget, which its own section explains, and PoisonIsLate from    *)
(* the counters of the dead-letter entries, which never reach the limit    *)
(* that is shipped (NeverGivenUp).                                         *)
(***************************************************************************)
EXTENDS SolanaPipeline, FiniteSetTheorems, TLAPS

\* Each group's batch lies within what the stream holds.
Cursors == \A g \in Groups : handled[g] <= delivered[g] /\ delivered[g] <= Len(stream)

\* NothingLost, with OnItsWay for where an event is.
Safe == losses = 0 => \A t \in stored, g \in Groups : OnItsWay(g, t)

Inv == TypeOK /\ Cursors /\ Safe

-----------------------------------------------------------------------------
\* What Append does to a sequence.
LEMMA AppendFacts ==
  ASSUME NEW S, NEW s \in Seq(S), NEW x \in S
  PROVE  /\ Append(s, x) \in Seq(S) /\ Append(s, x) # << >>
         /\ Len(Append(s, x)) = Len(s) + 1 /\ Len(s) \in Nat
         /\ Append(s, x)[Len(s) + 1] = x
         /\ \A i \in 1 .. Len(s) : Append(s, x)[i] = s[i]
  OBVIOUS

\* An entry made of a transaction is an entry, and so is a requeued one.
LEMMA EntryTypes ==
  /\ \A t \in Txs : Fresh(t) \in Entry /\ Fresh(t).tx = t
  /\ \A e \in Entry : Requeued(e) \in Entry /\ Requeued(e).tx = e.tx
  BY DEF Fresh, Requeued, Entry

\* A request past its lookup holds a transaction.
LEMMA RequestTx ==
  ASSUME TypeOK, NEW q \in Requests, request[q].pc \in {"insert", "publish"}
  PROVE  /\ request[q] \in [pc : {"insert", "publish"}, tx : Txs]
         /\ request[q].tx \in Txs
<1>1. request[q] \in {Idle} \cup [pc : {"insert", "publish"}, tx : Txs]
  BY DEF TypeOK
<1>2. request[q] # Idle
  BY DEF Idle
<1> QED
  BY <1>1, <1>2

\* The oldest entry of the dead-letter stream.
LEMMA HeadEntry ==
  ASSUME TypeOK, dlq # << >>
  PROVE  Len(dlq) \in Nat \ {0} /\ Head(dlq) = dlq[1] /\ Head(dlq) \in Entry /\ Head(dlq).tx \in Txs
<1>1. dlq \in Seq(Entry)
  BY DEF TypeOK
<1>2. Len(dlq) \in Nat \ {0} /\ Head(dlq) = dlq[1] /\ Head(dlq) \in Entry
  BY <1>1
<1> QED
  BY <1>2 DEF Entry

\* What a handler commits has the type of its table.
LEMMA EffectType ==
  ASSUME TypeOK, NEW g \in Groups, NEW t \in Txs, Effect(g, t)
  PROVE  applied' \in [Groups -> [Txs -> Nat]] /\ seeds' \in Nat
<1>1. applied' = [applied EXCEPT ![g] = [applied[g] EXCEPT ![t] = applied[g][t] + 1]]
  BY DEF Effect
<1>2. applied[g] \in [Txs -> Nat] /\ applied[g][t] + 1 \in Nat
  BY DEF TypeOK
<1>3. [applied[g] EXCEPT ![t] = applied[g][t] + 1] \in [Txs -> Nat]
  BY <1>2
<1>4. applied' \in [Groups -> [Txs -> Nat]]
  BY <1>1, <1>3 DEF TypeOK
<1>5. seeds' \in {seeds, seeds + 1}
  BY DEF Effect
<1> QED
  BY <1>4, <1>5 DEF TypeOK

\* The message a group handles next is a transaction of the stream.
LEMMA NextMessage ==
  ASSUME TypeOK, Cursors, NEW g \in Groups, handled[g] < delivered[g]
  PROVE  /\ handled[g] + 1 \in 1 .. Len(stream)
         /\ stream[handled[g] + 1] \in Txs
  BY DEF TypeOK, Cursors

\* The type of the signal worker's flag, kept apart from the arithmetic.
LEMMA CoolingType == cooling \in BOOLEAN /\ [Next]_vars => cooling' \in BOOLEAN
<1> SUFFICES ASSUME cooling \in BOOLEAN, [Next]_vars PROVE cooling' \in BOOLEAN
  OBVIOUS
<1> QED
  BY Zenon DEF Next, vars, redis, consumers, Serve, Work, Replay, Lookup, Insert, Publish,
     PublishFails, PublishLost, ReadBatch, Consume, ConsumeFails, ConsumeLost, AckFails,
     Effect, Poison, Republish, RepublishFails, Delete, ReplayAborts, Restart

-----------------------------------------------------------------------------
\* The initial state satisfies the invariant.
LEMMA InitInv == Init => Inv
<1> SUFFICES ASSUME Init PROVE Inv
  OBVIOUS
<1>1. cooling \in BOOLEAN
  BY Zenon DEF Init
<1>2. TypeOK
  BY <1>1 DEF Init, TypeOK, Idle
<1> QED
  BY <1>2 DEF Init, Inv, Cursors, Safe

\* Every step preserves the types and the cursors.
LEMMA TypeStep == TypeOK /\ Cursors /\ [Next]_vars => TypeOK' /\ Cursors'
<1> SUFFICES ASSUME TypeOK, Cursors, [Next]_vars PROVE TypeOK' /\ Cursors'
  OBVIOUS
<1> USE PipelineConstants
<1>0. cooling' \in BOOLEAN
  BY CoolingType DEF TypeOK
<1>1. ASSUME NEW q \in Requests, NEW t \in Txs, Lookup(q, t) PROVE TypeOK' /\ Cursors'
  BY <1>0, <1>1 DEF Lookup, TypeOK, Cursors, redis, consumers, NoFault, Idle
<1>2. ASSUME NEW q \in Requests, Insert(q) PROVE TypeOK' /\ Cursors'
  <2>1. request[q] \in [pc : {"insert", "publish"}, tx : Txs] /\ request[q].tx \in Txs
    BY <1>2, RequestTx DEF Insert
  <2>2. [request[q] EXCEPT !.pc = "publish"] \in [pc : {"insert", "publish"}, tx : Txs]
    BY <2>1
  <2>3. request' \in [Requests -> {Idle} \cup [pc : {"insert", "publish"}, tx : Txs]]
    BY <1>2, <2>2 DEF Insert, TypeOK
  <2>4. stored' \subseteq Txs
    BY <1>2, <2>1 DEF Insert, TypeOK
  <2> QED
    BY <1>0, <1>2, <2>3, <2>4 DEF Insert, TypeOK, Cursors, redis, consumers, NoFault
<1>3. ASSUME NEW q \in Requests, Publish(q) PROVE TypeOK' /\ Cursors'
  <2>1. request[q].tx \in Txs
    BY <1>3, RequestTx DEF Publish
  <2> QED
    BY <1>0, <1>3, <2>1 DEF Publish, TypeOK, Cursors, consumers, NoFault
<1>4. ASSUME NEW q \in Requests, PublishFails(q) PROVE TypeOK' /\ Cursors'
  <2>1. request[q].tx \in Txs
    BY <1>4, RequestTx DEF PublishFails
  <2>2. stream' \in Seq(Txs) /\ Len(stream) <= Len(stream')
    <3>1. stream' = stream \/ stream' = Append(stream, request[q].tx)
      BY <1>4 DEF PublishFails
    <3>2. stream \in Seq(Txs) /\ Len(stream) \in Nat
      BY DEF TypeOK
    <3> QED
      BY <2>1, <3>1, <3>2, AppendFacts
  <2>3. dlq' \in Seq(Entry) /\ (dlq # << >> => dlq' # << >>)
    <3>1. dlq' = Append(dlq, Fresh(request[q].tx)) /\ Fresh(request[q].tx) \in Entry
      BY <1>4, <2>1, EntryTypes DEF PublishFails
    <3>2. dlq \in Seq(Entry)
      BY DEF TypeOK
    <3> QED
      BY <3>1, <3>2, AppendFacts
  <2>4. Cursors'
    BY <1>4, <2>2 DEF PublishFails, Cursors, TypeOK, consumers
  <2> QED
    BY <1>0, <1>4, <2>2, <2>3, <2>4 DEF PublishFails, TypeOK, consumers, Fault
<1>5. ASSUME NEW q \in Requests, PublishLost(q) PROVE TypeOK' /\ Cursors'
  BY <1>0, <1>5 DEF PublishLost, TypeOK, Cursors, redis, consumers, Loss
<1>6. ASSUME NEW g \in Groups, ReadBatch(g) PROVE TypeOK' /\ Cursors'
  <2> DEFINE last == IF delivered[g] + BatchSize < Len(stream)
                     THEN delivered[g] + BatchSize ELSE Len(stream)
  <2>1. last \in Nat /\ delivered[g] <= last /\ last <= Len(stream)
    BY <1>6 DEF ReadBatch, TypeOK
  <2>2. delivered' = [delivered EXCEPT ![g] = last] /\ handled' = handled /\ stream' = stream
    BY <1>6 DEF ReadBatch
  <2>3. pending' = [pending EXCEPT ![g] = pending[g] \cup (delivered[g] + 1 .. last)]
    BY <1>6 DEF ReadBatch
  <2> HIDE DEF last
  <2>4. Cursors'
    BY <2>1, <2>2 DEF Cursors, TypeOK
  <2>5. delivered' \in [Groups -> Nat] /\ pending' \in [Groups -> SUBSET Nat]
    BY <2>1, <2>2, <2>3 DEF TypeOK
  <2> QED
    BY <1>0, <1>6, <2>4, <2>5 DEF ReadBatch, TypeOK, NoFault
<1>7. ASSUME NEW g \in Groups, Consume(g) PROVE TypeOK' /\ Cursors'
  <2>1. applied' \in [Groups -> [Txs -> Nat]] /\ seeds' \in Nat
    BY <1>7, NextMessage, EffectType DEF Consume, Ack
  <2>2. handled' \in [Groups -> Nat] /\ pending' \in [Groups -> SUBSET Nat] /\ Cursors'
    BY <1>7 DEF Consume, Ack, TypeOK, Cursors
  <2> QED
    BY <1>0, <1>7, <2>1, <2>2 DEF Consume, TypeOK, NoFault
<1>8. ASSUME NEW g \in Groups, ConsumeFails(g) PROVE TypeOK' /\ Cursors'
  <2>1. stream[handled[g] + 1] \in Txs
    BY <1>8, NextMessage DEF ConsumeFails, Ack
  <2>2. dlq' \in Seq(Entry) /\ dlq' # << >>
    BY <1>8, <2>1, EntryTypes DEF ConsumeFails, TypeOK
  <2>3. applied' \in [Groups -> [Txs -> Nat]] /\ seeds' \in Nat
    <3>1. CASE Effect(g, stream[handled[g] + 1])
      BY <2>1, <3>1, EffectType
    <3>2. CASE UNCHANGED <<applied, seeds>>
      BY <3>2 DEF TypeOK
    <3> QED
      BY <1>8, <3>1, <3>2 DEF ConsumeFails
  <2>4. handled' \in [Groups -> Nat] /\ pending' \in [Groups -> SUBSET Nat] /\ Cursors'
    BY <1>8 DEF ConsumeFails, Ack, TypeOK, Cursors
  <2>5. UNCHANGED <<stored, request, stream, delivered, replayer, poison, losses>>
        /\ faults' = faults + 1
    BY <1>8 DEF ConsumeFails, Fault
  <2> QED
    BY <1>0, <2>2, <2>3, <2>4, <2>5 DEF TypeOK
<1>9. ASSUME NEW g \in Groups, ConsumeLost(g) PROVE TypeOK' /\ Cursors'
  BY <1>0, <1>9 DEF ConsumeLost, Ack, TypeOK, Cursors, Loss
<1>10. ASSUME NEW g \in Groups, AckFails(g) PROVE TypeOK' /\ Cursors'
  <2>1. stream[handled[g] + 1] \in Txs
    BY <1>10, NextMessage DEF AckFails
  <2>2. applied' \in [Groups -> [Txs -> Nat]] /\ seeds' \in Nat
        /\ dlq' \in Seq(Entry) /\ (dlq # << >> => dlq' # << >>)
    <3>1. CASE Effect(g, stream[handled[g] + 1]) /\ UNCHANGED dlq
      BY <2>1, <3>1, EffectType DEF TypeOK
    <3>2. CASE UNCHANGED <<applied, seeds>>
               /\ dlq' = Append(dlq, Fresh(stream[handled[g] + 1]))
      <4>1. dlq' \in Seq(Entry) /\ dlq' # << >>
        <5>1. Fresh(stream[handled[g] + 1]) \in Entry BY <2>1, EntryTypes
        <5>2. dlq \in Seq(Entry) BY DEF TypeOK
        <5> QED BY <3>2, <5>1, <5>2, AppendFacts
      <4> QED
        BY <3>2, <4>1 DEF TypeOK
    <3> QED
      BY <1>10, <3>1, <3>2 DEF AckFails
  <2>3. handled' \in [Groups -> Nat] /\ pending' \in [Groups -> SUBSET Nat] /\ Cursors'
    <3>1. pending' \in [Groups -> SUBSET Nat]
      <4>1. CASE pending' = pending BY <4>1 DEF TypeOK
      <4>2. CASE pending' = [pending EXCEPT ![g] = @ \ {handled[g] + 1}]
        BY <4>2 DEF TypeOK
      <4> QED BY <1>10, <4>1, <4>2 DEF AckFails
    <3>2. handled' = [handled EXCEPT ![g] = delivered[g]] /\ UNCHANGED <<stream, delivered>>
      BY <1>10 DEF AckFails
    <3>3. handled' \in [Groups -> Nat] /\ Cursors'
      BY <3>2 DEF TypeOK, Cursors
    <3> QED BY <3>1, <3>3
  <2>4. UNCHANGED <<stored, request, stream, delivered, poison, replayer, faults>>
        /\ losses' = losses + 1
    BY <1>10 DEF AckFails, Loss
  <2> QED
    BY <1>0, <2>2, <2>3, <2>4 DEF TypeOK
<1>11. CASE Poison
  BY <1>0, <1>11, HeadEntry DEF Poison, TypeOK, Cursors, consumers, NoFault
<1>12. CASE Republish
  BY <1>0, <1>12, HeadEntry DEF Republish, TypeOK, Cursors, consumers, NoFault
<1>13. CASE RepublishFails
  <2>1. Head(dlq) \in Entry /\ Head(dlq).tx \in Txs
    BY <1>13, HeadEntry DEF RepublishFails
  <2>2. stream' \in Seq(Txs) /\ Len(stream) <= Len(stream')
    <3>1. stream' = stream \/ stream' = Append(stream, Head(dlq).tx)
      BY <1>13 DEF RepublishFails
    <3>2. stream \in Seq(Txs) /\ Len(stream) \in Nat
      BY DEF TypeOK
    <3> QED
      BY <2>1, <3>1, <3>2, AppendFacts
  <2>3. dlq' \in Seq(Entry) /\ dlq' # << >>
    <3>1. dlq' = Append(dlq, Requeued(Head(dlq))) /\ Requeued(Head(dlq)) \in Entry
      BY <1>13, <2>1, EntryTypes DEF RepublishFails
    <3>2. dlq \in Seq(Entry)
      BY DEF TypeOK
    <3> QED
      BY <3>1, <3>2, AppendFacts
  <2>4. Cursors'
    BY <1>13, <2>2 DEF RepublishFails, Cursors, TypeOK, consumers
  <2> QED
    BY <1>0, <1>13, <2>2, <2>3, <2>4 DEF RepublishFails, TypeOK, consumers, Fault
<1>14. CASE Delete
  BY <1>0, <1>14 DEF Delete, TypeOK, Cursors, consumers, NoFault
<1>15. CASE ReplayAborts
  BY <1>0, <1>15 DEF ReplayAborts, TypeOK, Cursors, redis, consumers, Fault
<1>16. CASE Restart
  BY <1>0, <1>16 DEF Restart, TypeOK, Cursors, redis, Loss, Idle
<1>17. CASE UNCHANGED vars
  BY <1>0, <1>17 DEF vars, TypeOK, Cursors
<1> QED
  BY <1>1, <1>2, <1>3, <1>4, <1>5, <1>6, <1>7, <1>8, <1>9, <1>10, <1>11, <1>12, <1>13,
     <1>14, <1>15, <1>16, <1>17 DEF Next, Serve, Work, Replay

-----------------------------------------------------------------------------
\* A longer stream keeps every event ahead of a group that has not moved, and
\* the one appended is ahead of every group.
LEMMA AppendStream ==
  ASSUME TypeOK, Cursors, NEW g \in Groups, NEW x \in Txs, NEW t \in Txs,
         stream' = Append(stream, x), handled' = handled
  PROVE  (Ahead(g, t) => Ahead(g, t)') /\ Ahead(g, x)'
<1>1. /\ Len(stream') = Len(stream) + 1 /\ Len(stream) \in Nat
      /\ stream'[Len(stream) + 1] = x
      /\ \A i \in 1 .. Len(stream) : stream'[i] = stream[i]
  BY AppendFacts DEF TypeOK
<1>2. handled[g] \in Nat /\ handled[g] <= Len(stream)
  BY DEF TypeOK, Cursors
<1>3. Ahead(g, x)'
  <2>1. Len(stream) + 1 \in 1 .. Len(stream') /\ Len(stream) + 1 > handled'[g]
    BY <1>1, <1>2
  <2> QED
    BY <1>1, <2>1 DEF Ahead
<1>4. ASSUME Ahead(g, t) PROVE Ahead(g, t)'
  <2>1. PICK i \in 1 .. Len(stream) : i > handled[g] /\ stream[i] = t
    BY <1>4 DEF Ahead
  <2>2. i \in 1 .. Len(stream') /\ i > handled'[g] /\ stream'[i] = t
    BY <1>1, <2>1
  <2> QED
    BY <2>2 DEF Ahead
<1> QED
  BY <1>3, <1>4

\* A longer dead-letter stream holds what it held, and the entry appended
\* unless the replay loop is about to delete the only one there is.
LEMMA AppendDlq ==
  ASSUME TypeOK, NEW e \in Entry, NEW t \in Txs, dlq' = Append(dlq, e),
         replayer' = replayer
  PROVE  (Held(t) => Held(t)') /\ (e.tx = t => Held(t)')
<1>1. /\ Len(dlq') = Len(dlq) + 1 /\ Len(dlq) \in Nat
      /\ dlq'[Len(dlq) + 1] = e
      /\ \A i \in 1 .. Len(dlq) : dlq'[i] = dlq[i]
  BY AppendFacts DEF TypeOK
<1>2. ASSUME Held(t) PROVE Held(t)'
  <2>1. PICK i \in 1 .. Len(dlq) : dlq[i].tx = t /\ (i = 1 => replayer = "idle")
    BY <1>2 DEF Held
  <2>2. i \in 1 .. Len(dlq') /\ dlq'[i].tx = t /\ (i = 1 => replayer' = "idle")
    BY <1>1, <2>1
  <2> QED
    BY <2>2 DEF Held
<1>3. ASSUME e.tx = t PROVE Held(t)'
  <2>1. Len(dlq) + 1 = 1 => replayer' = "idle"
    <3>1. Len(dlq) = 0 => dlq = << >>
      BY DEF TypeOK
    <3> QED
      BY <1>1, <3>1 DEF TypeOK
  <2>2. Len(dlq) + 1 \in 1 .. Len(dlq') /\ dlq'[Len(dlq) + 1].tx = t
    BY <1>1, <1>3
  <2> QED
    BY <2>1, <2>2 DEF Held
<1> QED
  BY <1>2, <1>3

\* Acknowledging a message leaves the others ahead of the group where they are.
LEMMA AckAhead ==
  ASSUME TypeOK, Cursors, NEW h \in Groups, Ack(h), stream' = stream,
         NEW g \in Groups, NEW t \in Txs, Ahead(g, t)
  PROVE  Ahead(g, t)' \/ (g = h /\ t = stream[handled[h] + 1] /\ InHand(g, t))
<1>1. PICK i \in 1 .. Len(stream) : i > handled[g] /\ stream[i] = t
  BY DEF Ahead
<1>2. handled' = [handled EXCEPT ![h] = handled[h] + 1] /\ handled[h] < delivered[h]
  BY DEF Ack
<1>3. /\ handled \in [Groups -> Nat] /\ handled[g] \in Nat /\ handled[h] \in Nat
      /\ delivered[h] \in Nat
  BY DEF TypeOK
<1>4. CASE g # h
  <2>1. i > handled'[g]
    BY <1>1, <1>2, <1>3, <1>4
  <2> QED
    BY <1>1, <2>1 DEF Ahead
<1>5. CASE g = h /\ i # handled[h] + 1
  <2>1. handled'[g] = handled[h] + 1
    BY <1>2, <1>3, <1>5
  <2>2. i > handled'[g]
    BY <1>1, <1>3, <1>5, <2>1
  <2> QED
    BY <1>1, <2>2 DEF Ahead
<1>6. CASE g = h /\ i = handled[h] + 1
  <2>1. handled[g] < i /\ i <= delivered[g]
    BY <1>2, <1>3, <1>6
  <2> QED
    BY <1>1, <1>6, <2>1 DEF InHand
<1> QED
  BY <1>4, <1>5, <1>6

\* What Effect applies stays applied, and includes the message at hand.
LEMMA EffectApplies ==
  ASSUME TypeOK, NEW h \in Groups, NEW x \in Txs, Effect(h, x),
         NEW g \in Groups, NEW t \in Txs
  PROVE  /\ applied[g][t] > 0 => applied'[g][t] > 0
         /\ g = h /\ t = x => applied'[g][t] > 0
<1>1. applied' = [applied EXCEPT ![h][x] = applied[h][x] + 1]
  BY DEF Effect
<1>2. applied \in [Groups -> [Txs -> Nat]] /\ applied[g][t] \in Nat /\ applied[h][x] \in Nat
  BY DEF TypeOK
<1>3. applied'[g][t] = IF g = h /\ t = x THEN applied[h][x] + 1 ELSE applied[g][t]
  BY <1>1, <1>2
<1> QED
  BY <1>2, <1>3

\* Every step keeps a stored trade on its way; one that does not counts a
\* loss, of a trade that was being published or was in the group's batch.
LEMMA WayStep ==
  ASSUME TypeOK, Cursors, [Next]_vars, NEW g \in Groups, NEW t \in stored',
         t \in stored => OnItsWay(g, t)
  PROVE  \/ OnItsWay(g, t)'
         \/ (losses' = losses + 1 /\ (Publishing(t) \/ InHand(g, t)))
<1>b. TypeOK' /\ t \in Txs
  BY TypeStep DEF TypeOK
<1>c. t \in stored => OnItsWay(g, t)
  OBVIOUS
<1>1. ASSUME NEW q \in Requests, NEW x \in Txs, Lookup(q, x) PROVE OnItsWay(g, t)'
  <2>1. Publishing(t) => Publishing(t)'
    BY <1>1 DEF Lookup, Publishing, Idle, TypeOK
  <2> QED
    BY <1>1, <1>c, <2>1
       DEF Lookup, OnItsWay, Held, Ahead, redis, consumers
<1>2. ASSUME NEW q \in Requests, Insert(q) PROVE OnItsWay(g, t)'
  <2>1. ASSUME t \notin stored PROVE Publishing(t)'
    <3>1. t = request[q].tx /\ request' = [request EXCEPT ![q].pc = "publish"]
      BY <1>2, <2>1 DEF Insert
    <3>2. request[q] \in [pc : {"insert", "publish"}, tx : Txs]
      BY <1>2, RequestTx DEF Insert
    <3>3. request'[q] = [request[q] EXCEPT !.pc = "publish"]
      BY <3>1 DEF TypeOK
    <3>4. request'[q].pc = "publish" /\ request'[q].tx = t
      BY <3>1, <3>2, <3>3
    <3> QED
      BY <3>4 DEF Publishing
  <2>2. Publishing(t) => Publishing(t)'
    BY <1>2 DEF Insert, Publishing, TypeOK
  <2> QED
    BY <1>2, <1>c, <2>1, <2>2 DEF Insert, OnItsWay, Held, Ahead, redis, consumers
<1>3. ASSUME NEW q \in Requests, Publish(q) PROVE OnItsWay(g, t)'
  <2>1. PICK x \in Txs : x = request[q].tx
    BY <1>3, RequestTx DEF Publish
  <2>2. (Ahead(g, t) => Ahead(g, t)') /\ Ahead(g, x)'
    BY <1>3, <1>b, <2>1, AppendStream DEF Publish, consumers
  <2>3. Publishing(t) => Publishing(t)' \/ t = x
    BY <2>1, <1>3 DEF Publish, Publishing, TypeOK
  <2> QED
    BY <1>3, <1>c, <2>2, <2>3 DEF Publish, OnItsWay, Held, consumers
<1>4. ASSUME NEW q \in Requests, PublishFails(q) PROVE OnItsWay(g, t)'
  <2>1. request[q].tx \in Txs /\ Fresh(request[q].tx) \in Entry
        /\ Fresh(request[q].tx).tx = request[q].tx
    BY <1>4, RequestTx, EntryTypes DEF PublishFails
  <2>2. (Held(t) => Held(t)') /\ (t = request[q].tx => Held(t)')
    BY <1>4, <1>b, <2>1, AppendDlq DEF PublishFails
  <2>3. Publishing(t) => Publishing(t)' \/ t = request[q].tx
    BY <1>4 DEF PublishFails, Publishing, TypeOK
  <2>4. Ahead(g, t) => Ahead(g, t)'
    <3>1. CASE stream' = stream
      BY <1>4, <3>1 DEF PublishFails, Ahead, consumers
    <3>2. CASE stream' = Append(stream, request[q].tx)
      BY <1>4, <1>b, <2>1, <3>2, AppendStream DEF PublishFails, consumers
    <3> QED
      BY <1>4, <3>1, <3>2 DEF PublishFails
  <2> QED
    BY <1>4, <1>c, <2>2, <2>3, <2>4 DEF PublishFails, OnItsWay, consumers
<1>5. ASSUME NEW h \in Groups, ReadBatch(h) PROVE OnItsWay(g, t)'
  BY <1>5, <1>c DEF ReadBatch, OnItsWay, Publishing, Held, Ahead
<1>6. ASSUME NEW h \in Groups, Consume(h) PROVE OnItsWay(g, t)'
  <2>1. stream[handled[h] + 1] \in Txs
    BY <1>6, NextMessage DEF Consume, Ack
  <2> DEFINE x == stream[handled[h] + 1]
  <2>2. /\ applied[g][t] > 0 => applied'[g][t] > 0
        /\ g = h /\ t = x => applied'[g][t] > 0
    BY <1>6, <1>b, <2>1, EffectApplies DEF Consume
  <2>3. Ahead(g, t) => Ahead(g, t)' \/ applied'[g][t] > 0
    BY <1>6, <1>b, <2>2, AckAhead DEF Consume
  <2> QED
    BY <1>6, <1>c, <2>2, <2>3 DEF Consume, OnItsWay, Publishing, Held
<1>7. ASSUME NEW h \in Groups, ConsumeFails(h) PROVE OnItsWay(g, t)'
  <2> DEFINE x == stream[handled[h] + 1]
  <2>1. x \in Txs /\ Fresh(x) \in Entry /\ Fresh(x).tx = x
    BY <1>7, NextMessage, EntryTypes DEF ConsumeFails, Ack
  <2>2. (Held(t) => Held(t)') /\ (t = x => Held(t)')
    BY <1>7, <1>b, <2>1, AppendDlq DEF ConsumeFails
  <2>3. applied[g][t] > 0 => applied'[g][t] > 0
    <3>1. CASE Effect(h, x)
      BY <1>b, <2>1, <3>1, EffectApplies
    <3>2. CASE UNCHANGED <<applied, seeds>>
      BY <3>2
    <3> QED
      BY <1>7, <3>1, <3>2 DEF ConsumeFails
  <2>4. Ahead(g, t) => Ahead(g, t)' \/ t = x
    BY <1>7, <1>b, AckAhead DEF ConsumeFails
  <2> QED
    BY <1>7, <1>c, <2>2, <2>3, <2>4 DEF ConsumeFails, OnItsWay, Publishing
<1>8. CASE Poison
  <2>1. Len(dlq) \in Nat \ {0} /\ Head(dlq) = dlq[1]
    BY <1>8, HeadEntry DEF Poison
  <2>2. Held(t) => Held(t)' \/ t = Head(dlq).tx
    BY <1>8, <2>1 DEF Poison, Held
  <2> QED
    BY <1>8, <1>c, <2>2 DEF Poison, OnItsWay, Publishing, Ahead, consumers
<1>9. CASE Republish
  <2>1. Len(dlq) \in Nat \ {0} /\ Head(dlq) = dlq[1] /\ Head(dlq).tx \in Txs
    BY <1>9, HeadEntry DEF Republish
  <2>2. Held(t) => Held(t)' \/ t = Head(dlq).tx
    BY <1>9, <2>1 DEF Republish, Held
  <2>3. (Ahead(g, t) => Ahead(g, t)') /\ Ahead(g, Head(dlq).tx)'
    BY <1>9, <1>b, <2>1, AppendStream DEF Republish, consumers
  <2> QED
    BY <1>9, <1>c, <2>2, <2>3 DEF Republish, OnItsWay, Publishing, consumers
<1>10. CASE RepublishFails
  <2> DEFINE e == Requeued(Head(dlq))
  <2>1. /\ Len(dlq) \in Nat \ {0} /\ Head(dlq) = dlq[1] /\ Head(dlq).tx \in Txs
        /\ e \in Entry /\ e.tx = Head(dlq).tx
    BY <1>10, HeadEntry, EntryTypes DEF RepublishFails
  <2>2. dlq' = Append(dlq, e) /\ dlq \in Seq(Entry)
    BY <1>10 DEF RepublishFails, TypeOK
  <2> HIDE DEF e
  <2>3. /\ Len(dlq') = Len(dlq) + 1 /\ dlq'[Len(dlq) + 1] = e
        /\ \A i \in 1 .. Len(dlq) : dlq'[i] = dlq[i]
    BY <2>1, <2>2, AppendFacts
  <2>4. ASSUME Held(t) PROVE Held(t)'
    <3>1. PICK i \in 1 .. Len(dlq) : dlq[i].tx = t
      BY <2>4 DEF Held
    <3>2. \E j \in 1 .. Len(dlq') : dlq'[j].tx = t /\ j # 1
      BY <2>1, <2>3, <3>1
    <3> QED
      BY <3>2 DEF Held
  <2>5. Ahead(g, t) => Ahead(g, t)'
    <3>1. CASE stream' = stream
      BY <1>10, <3>1 DEF RepublishFails, Ahead, consumers
    <3>2. CASE stream' = Append(stream, Head(dlq).tx)
      BY <1>10, <1>b, <2>1, <3>2, AppendStream DEF RepublishFails, consumers
    <3> QED
      BY <1>10, <3>1, <3>2 DEF RepublishFails
  <2> QED
    BY <1>10, <1>c, <2>4, <2>5 DEF RepublishFails, OnItsWay, Publishing, consumers
<1>11. CASE Delete
  <2>1. dlq # << >> /\ dlq \in Seq(Entry)
    BY <1>11 DEF Delete, TypeOK
  <2>2. /\ Len(dlq) \in Nat /\ Len(dlq') = Len(dlq) - 1
        /\ \A i \in 1 .. Len(dlq') : dlq'[i] = dlq[i + 1]
    BY <1>11, <2>1 DEF Delete
  <2>3. ASSUME Held(t) PROVE Held(t)'
    <3>1. PICK i \in 1 .. Len(dlq) : dlq[i].tx = t /\ i # 1
      BY <1>11, <2>3 DEF Held, Delete
    <3>2. i - 1 \in 1 .. Len(dlq') /\ dlq'[i - 1].tx = t
      BY <2>2, <3>1
    <3> QED
      BY <1>11, <3>2 DEF Held, Delete
  <2> QED
    BY <1>11, <1>c, <2>3 DEF Delete, OnItsWay, Publishing, Ahead, consumers
<1>12. CASE ReplayAborts
  BY <1>12, <1>c DEF ReplayAborts, OnItsWay, Publishing, Held, Ahead, redis, consumers
<1>13. CASE UNCHANGED vars
  BY <1>13, <1>c DEF vars, OnItsWay, Publishing, Held, Ahead
<1>14. ASSUME NEW q \in Requests, PublishLost(q)
       PROVE  OnItsWay(g, t)' \/ (losses' = losses + 1 /\ Publishing(t))
  BY <1>14, <1>c DEF PublishLost, Loss, OnItsWay, Held, Ahead, redis, consumers
<1>15. ASSUME NEW h \in Groups, ConsumeLost(h)
       PROVE  OnItsWay(g, t)' \/ (losses' = losses + 1 /\ InHand(g, t))
  <2>1. Ahead(g, t) => Ahead(g, t)' \/ InHand(g, t)
    BY <1>15, <1>b, AckAhead DEF ConsumeLost
  <2> QED
    BY <1>15, <1>c, <2>1 DEF ConsumeLost, Loss, OnItsWay, Publishing, Held
<1>16. ASSUME NEW h \in Groups, AckFails(h)
       PROVE  OnItsWay(g, t)' \/ (losses' = losses + 1 /\ InHand(g, t))
  <2> DEFINE x == stream[handled[h] + 1]
  <2>1. x \in Txs /\ Fresh(x) \in Entry
    BY <1>16, NextMessage, EntryTypes DEF AckFails
  <2>2. Held(t) => Held(t)'
    <3>1. replayer' = replayer /\ (dlq' = dlq \/ dlq' = Append(dlq, Fresh(x)))
      BY <1>16 DEF AckFails
    <3>2. CASE dlq' = dlq
      BY <3>1, <3>2 DEF Held
    <3>3. CASE dlq' = Append(dlq, Fresh(x))
      BY <1>b, <2>1, <3>1, <3>3, AppendDlq
    <3> QED
      BY <3>1, <3>2, <3>3
  <2>3. applied[g][t] > 0 => applied'[g][t] > 0
    <3>1. CASE Effect(h, x)
      BY <1>b, <2>1, <3>1, EffectApplies
    <3>2. CASE UNCHANGED applied
      BY <3>2
    <3> QED
      BY <1>16, <3>1, <3>2 DEF AckFails
  <2>4. Ahead(g, t) => Ahead(g, t)' \/ InHand(g, t)
    <3>1. stream' = stream /\ handled' = [handled EXCEPT ![h] = delivered[h]]
      BY <1>16 DEF AckFails
    <3> QED
      BY <3>1 DEF Ahead, InHand, TypeOK
  <2> QED
    BY <1>16, <1>c, <2>2, <2>3, <2>4 DEF AckFails, Loss, OnItsWay, Publishing
<1>17. CASE Restart
  <2>1. Ahead(g, t) => Ahead(g, t)' \/ InHand(g, t)
    BY <1>17 DEF Restart, Ahead, InHand, TypeOK, redis
  <2>2. Held(t) => Held(t)'
    BY <1>17 DEF Restart, Held, redis
  <2> QED
    BY <1>17, <1>c, <2>1, <2>2 DEF Restart, Loss, OnItsWay, redis
<1> QED
  BY <1>1, <1>2, <1>3, <1>4, <1>5, <1>6, <1>7, <1>8, <1>9, <1>10, <1>11, <1>12, <1>13,
     <1>14, <1>15, <1>16, <1>17 DEF Next, Serve, Work, Replay

\* As long as there is no loss, every stored trade stays on its way.
LEMMA SafeStep == Inv /\ [Next]_vars => Safe'
<1> SUFFICES ASSUME Inv, [Next]_vars, losses' = 0, NEW t \in stored', NEW g \in Groups
             PROVE  OnItsWay(g, t)'
  BY DEF Safe
<1>1. losses' \in {losses, losses + 1} /\ losses \in Nat
  BY DEF Inv, TypeOK, Next, vars, Serve, Work, Replay, Lookup, Insert, Publish, PublishFails,
     PublishLost, ReadBatch, Consume, ConsumeFails, ConsumeLost, AckFails, Poison,
     Republish, RepublishFails, Delete, ReplayAborts, Restart, Fault, NoFault, Loss
<1>2. losses = 0 /\ losses' # losses + 1
  BY <1>1
<1>3. t \in stored => OnItsWay(g, t)
  BY <1>2 DEF Inv, Safe
<1> QED
  BY <1>2, <1>3, WayStep DEF Inv

-----------------------------------------------------------------------------
\* The pipeline's state has the types the tables and streams have.
THEOREM TypeCorrect == Spec => []TypeOK
<1>1. Inv /\ [Next]_vars => Inv'
  BY TypeStep, SafeStep DEF Inv
<1> QED
  BY InitInv, <1>1, PTL DEF Spec, Inv

\* A stored trade is never lost by a failing publication, handler or replay.
THEOREM StoredIsNeverLost == Spec => []NothingLost
<1>1. Inv /\ [Next]_vars => Inv'
  BY TypeStep, SafeStep DEF Inv
<1>2. Inv => NothingLost
  BY DEF Inv, Safe, OnItsWay, Held, NothingLost, DeadLettered
<1> QED
  BY InitInv, <1>1, <1>2, PTL DEF Spec

\* A restart, a failing acknowledgement and a dead-letter stream that takes
\* nothing lose publications under way and the group's own batch, and nothing
\* of what waits in Redis.
THEOREM OnlyInFlightIsLost == Spec => LossesAreInFlight
<1>1. ASSUME TypeOK, Cursors, [Next]_vars, NEW g \in Groups, NEW t \in stored, OnItsWay(g, t)
      PROVE  OnItsWay(g, t)' \/ Publishing(t) \/ InHand(g, t)
  <2>1. stored \subseteq stored'
    BY <1>1 DEF Next, vars, Serve, Work, Replay, Lookup, Insert, Publish, PublishFails,
       PublishLost, ReadBatch, Consume, ConsumeFails, ConsumeLost, AckFails, Poison,
       Republish, RepublishFails, Delete, ReplayAborts, Restart
  <2> QED
    BY <1>1, <2>1, WayStep
<1>2. TypeOK /\ Cursors /\ [Next]_vars =>
        [\A g \in Groups : \A t \in stored :
           OnItsWay(g, t) => OnItsWay(g, t)' \/ Publishing(t) \/ InHand(g, t)]_vars
  BY <1>1
<1>3. Init => TypeOK /\ Cursors
  BY InitInv DEF Inv
<1> QED
  BY <1>2, <1>3, TypeStep, PTL DEF Spec, LossesAreInFlight

-----------------------------------------------------------------------------
\* What is at hand stays pending until it is acknowledged, one entry at a time.
LEMMA AckedStep ==
  ASSUME TypeOK, Cursors, AckedAfterHandling, [Next]_vars
  PROVE  AckedAfterHandling'
<1>1. ASSUME UNCHANGED <<handled, delivered, pending>> PROVE AckedAfterHandling'
  BY <1>1 DEF AckedAfterHandling
<1>2. ASSUME NEW g \in Groups, ReadBatch(g) PROVE AckedAfterHandling'
  <2> DEFINE last == IF delivered[g] + BatchSize < Len(stream)
                     THEN delivered[g] + BatchSize ELSE Len(stream)
  <2>1. /\ delivered' = [delivered EXCEPT ![g] = last]
        /\ pending' = [pending EXCEPT ![g] = pending[g] \cup (delivered[g] + 1 .. last)]
    BY <1>2 DEF ReadBatch
  <2>2. handled' = handled /\ handled[g] = delivered[g]
    BY <1>2 DEF ReadBatch
  <2> QED
    BY <2>1, <2>2 DEF AckedAfterHandling, TypeOK
<1>3. ASSUME NEW g \in Groups, Ack(g), delivered' = delivered PROVE AckedAfterHandling'
  <2>1. \A h \in Groups : handled[h] \in Nat /\ delivered[h] \in Nat
    BY DEF TypeOK
  <2>2. /\ handled'[g] = handled[g] + 1 /\ pending'[g] = pending[g] \ {handled[g] + 1}
        /\ \A h \in Groups : h # g => handled'[h] = handled[h] /\ pending'[h] = pending[h]
    BY <1>3 DEF Ack, TypeOK
  <2>3. handled'[g] + 1 .. delivered[g] \subseteq pending'[g]
    BY <2>1, <2>2 DEF AckedAfterHandling
  <2> QED
    BY <1>3, <2>2, <2>3 DEF AckedAfterHandling
<1>4. ASSUME NEW g \in Groups, AckFails(g) PROVE AckedAfterHandling'
  <2>1. /\ delivered' = delivered /\ handled'[g] = delivered[g]
        /\ \A h \in Groups : h # g => handled'[h] = handled[h] /\ pending'[h] = pending[h]
    BY <1>4 DEF AckFails, TypeOK
  <2>2. handled'[g] + 1 .. delivered[g] = {}
    BY <2>1 DEF TypeOK
  <2> QED
    BY <2>1, <2>2 DEF AckedAfterHandling
<1>5. ASSUME Restart PROVE AckedAfterHandling'
  <2>1. handled' = delivered /\ delivered' = delivered
    BY <1>5 DEF Restart, redis
  <2>2. \A g \in Groups : delivered[g] + 1 .. delivered[g] = {}
    BY DEF TypeOK
  <2> QED
    BY <2>1, <2>2 DEF AckedAfterHandling
<1>6. CASE \E q \in Requests : \/ Serve(q) \/ \E t \in Txs : Lookup(q, t)
                             \/ PublishFails(q) \/ PublishLost(q)
  BY <1>1, <1>6 DEF Serve, Lookup, Insert, Publish, PublishFails, PublishLost, redis, consumers
<1>7. CASE Replay \/ RepublishFails \/ ReplayAborts
  BY <1>1, <1>7 DEF Replay, Poison, Republish, RepublishFails, Delete, ReplayAborts, redis,
     consumers
<1>8. ASSUME NEW g \in Groups, Work(g) \/ ConsumeFails(g) \/ ConsumeLost(g) \/ AckFails(g)
      PROVE  AckedAfterHandling'
  BY <1>2, <1>3, <1>4, <1>8 DEF Work, Consume, ConsumeFails, ConsumeLost
<1>9. CASE UNCHANGED vars
  BY <1>1, <1>9 DEF vars
<1> QED
  BY <1>5, <1>6, <1>7, <1>8, <1>9 DEF Next

\* For any number of trades, batches and failures: what a restart interrupts is
\* still in the group's pending list.
THEOREM InterruptedIsPending == Spec => []AckedAfterHandling
<1>1. Init => TypeOK /\ Cursors /\ AckedAfterHandling
  BY InitInv DEF Init, Inv, AckedAfterHandling
<1>2. TypeOK /\ Cursors /\ AckedAfterHandling /\ [Next]_vars
        => (TypeOK /\ Cursors /\ AckedAfterHandling)'
  BY TypeStep, AckedStep
<1> QED
  BY <1>1, <1>2, PTL DEF Spec

-----------------------------------------------------------------------------
(***************************************************************************)
(* CountedOnce says nothing of the copies of an event that have yet to     *)
(* reach the handler.  Its strengthening counts them too: for a group and  *)
(* a trade, what is applied, the copies ahead in the stream, the ones the  *)
(* replay loop has yet to take up, the publication under way and the row   *)
(* that may still be created are together at most one more than the        *)
(* failures so far.                                                        *)
(***************************************************************************)
AheadAt(g, t) == {i \in 1 .. Len(stream) : i > handled[g] /\ stream[i] = t}
HeldAt(t) == {i \in 1 .. Len(dlq) : dlq[i].tx = t /\ (i = 1 => replayer = "idle")}

Copies(g, t) ==
  applied[g][t] + Cardinality(AheadAt(g, t)) + Cardinality(HeldAt(t))
  + (IF Publishing(t) THEN 1 ELSE 0) + (IF t \in stored THEN 0 ELSE 1)

Budget == \A g \in Groups, t \in Txs : Copies(g, t) <= 1 + faults + losses

\* The row's unique key: a trade is published by the request that created it.
OnePublisher ==
  \A q \in Requests : request[q].pc = "publish" =>
    /\ request[q].tx \in stored
    /\ \A r \in Requests : request[r].pc = "publish" /\ request[r].tx = request[q].tx => r = q

CountInv == TypeOK /\ Cursors /\ OnePublisher /\ Budget

-----------------------------------------------------------------------------
\* The sets of positions are finite, and so have a number of elements.
LEMMA PositionsFinite ==
  ASSUME TypeOK, NEW g \in Groups, NEW t \in Txs
  PROVE  /\ IsFiniteSet(AheadAt(g, t)) /\ Cardinality(AheadAt(g, t)) \in Nat
         /\ IsFiniteSet(HeldAt(t)) /\ Cardinality(HeldAt(t)) \in Nat
<1>1. Len(stream) \in Nat /\ Len(dlq) \in Nat
  BY DEF TypeOK
<1>2. IsFiniteSet(1 .. Len(stream)) /\ IsFiniteSet(1 .. Len(dlq))
  BY <1>1, FS_Interval
<1>3. AheadAt(g, t) \in SUBSET (1 .. Len(stream)) /\ HeldAt(t) \in SUBSET (1 .. Len(dlq))
  BY DEF AheadAt, HeldAt
<1>4. IsFiniteSet(AheadAt(g, t)) /\ IsFiniteSet(HeldAt(t))
  BY <1>2, <1>3, FS_Subset
<1> QED
  BY <1>4, FS_CardinalityType

\* One more element is at most one more to count.
LEMMA AddAtMostOne ==
  ASSUME NEW S, NEW x, IsFiniteSet(S)
  PROVE  /\ IsFiniteSet(S \cup {x}) /\ Cardinality(S) \in Nat
         /\ Cardinality(S \cup {x}) <= Cardinality(S) + 1
<1>1. /\ IsFiniteSet(S \cup {x})
      /\ Cardinality(S \cup {x}) = IF x \in S THEN Cardinality(S) ELSE Cardinality(S) + 1
  BY FS_AddElement
<1>2. Cardinality(S) \in Nat
  BY FS_CardinalityType
<1> QED
  BY <1>1, <1>2

\* An event appended to the stream is one more copy ahead of every group.
LEMMA AppendAhead ==
  ASSUME TypeOK, Cursors, NEW g \in Groups, NEW x \in Txs, NEW t \in Txs,
         stream' = Append(stream, x), handled' = handled
  PROVE  Cardinality(AheadAt(g, t)') = Cardinality(AheadAt(g, t)) + (IF x = t THEN 1 ELSE 0)
<1>1. /\ Len(stream') = Len(stream) + 1 /\ Len(stream) \in Nat
      /\ stream'[Len(stream) + 1] = x
      /\ \A i \in 1 .. Len(stream) : stream'[i] = stream[i]
  BY AppendFacts DEF TypeOK
<1>2. handled[g] \in Nat /\ handled[g] <= Len(stream)
  BY DEF TypeOK, Cursors
<1>3. Len(stream) + 1 \notin AheadAt(g, t)
  BY <1>1 DEF AheadAt
<1>4. AheadAt(g, t)' = IF x = t THEN AheadAt(g, t) \cup {Len(stream) + 1} ELSE AheadAt(g, t)
  BY <1>1, <1>2 DEF AheadAt
<1>5. IsFiniteSet(AheadAt(g, t)) /\ Cardinality(AheadAt(g, t)) \in Nat
  BY PositionsFinite
<1>6. Cardinality(AheadAt(g, t) \cup {Len(stream) + 1}) = Cardinality(AheadAt(g, t)) + 1
  BY <1>3, <1>5, FS_AddElement
<1> QED
  BY <1>4, <1>5, <1>6

\* A group that moves on leaves the next message behind, and perhaps more.
LEMMA PassAhead ==
  ASSUME TypeOK, Cursors, NEW g \in Groups, NEW t \in Txs,
         stream' = stream, handled'[g] \in Nat, handled'[g] >= handled[g]
  PROVE  /\ Cardinality(AheadAt(g, t)') \in Nat
         /\ Cardinality(AheadAt(g, t)') <= Cardinality(AheadAt(g, t))
         /\ handled'[g] > handled[g] /\ handled[g] < Len(stream) /\ stream[handled[g] + 1] = t
              => Cardinality(AheadAt(g, t)') + 1 <= Cardinality(AheadAt(g, t))
<1>1. handled[g] \in Nat /\ Len(stream) \in Nat
  BY DEF TypeOK
<1>2. IsFiniteSet(AheadAt(g, t)) /\ Cardinality(AheadAt(g, t)) \in Nat
  BY PositionsFinite
<1>3. AheadAt(g, t)' \in SUBSET AheadAt(g, t)
  BY <1>1 DEF AheadAt
<1>4. IsFiniteSet(AheadAt(g, t)') /\ Cardinality(AheadAt(g, t)') <= Cardinality(AheadAt(g, t))
  BY <1>2, <1>3, FS_Subset
<1>5. Cardinality(AheadAt(g, t)') \in Nat
  BY <1>4, FS_CardinalityType
<1>6. ASSUME handled'[g] > handled[g], handled[g] < Len(stream), stream[handled[g] + 1] = t
      PROVE  Cardinality(AheadAt(g, t)') + 1 <= Cardinality(AheadAt(g, t))
  <2>1. handled[g] + 1 \in AheadAt(g, t)
    BY <1>1, <1>6 DEF AheadAt
  <2>2. AheadAt(g, t)' \in SUBSET (AheadAt(g, t) \ {handled[g] + 1})
    BY <1>1, <1>6 DEF AheadAt
  <2>3. /\ IsFiniteSet(AheadAt(g, t) \ {handled[g] + 1})
        /\ Cardinality(AheadAt(g, t) \ {handled[g] + 1}) = Cardinality(AheadAt(g, t)) - 1
    BY <1>2, <2>1, FS_RemoveElement
  <2>4. Cardinality(AheadAt(g, t)') <= Cardinality(AheadAt(g, t) \ {handled[g] + 1})
    BY <2>2, <2>3, FS_Subset
  <2> QED
    BY <1>2, <1>5, <2>3, <2>4
<1> QED
  BY <1>4, <1>5, <1>6

\* An entry appended to the dead-letter stream is one more copy of its event.
LEMMA AppendHeld ==
  ASSUME TypeOK, NEW e \in Entry, NEW t \in Txs, dlq' = Append(dlq, e), replayer' = replayer
  PROVE  /\ Cardinality(HeldAt(t)') \in Nat
         /\ Cardinality(HeldAt(t)') <= Cardinality(HeldAt(t)) + (IF e.tx = t THEN 1 ELSE 0)
<1>1. /\ Len(dlq') = Len(dlq) + 1 /\ Len(dlq) \in Nat
      /\ dlq'[Len(dlq) + 1] = e
      /\ \A i \in 1 .. Len(dlq) : dlq'[i] = dlq[i]
  BY AppendFacts DEF TypeOK
<1>2. HeldAt(t)' \in SUBSET (IF e.tx = t THEN HeldAt(t) \cup {Len(dlq) + 1} ELSE HeldAt(t))
  BY <1>1 DEF HeldAt
<1>3. IsFiniteSet(HeldAt(t)) /\ Cardinality(HeldAt(t)) \in Nat
  BY PositionsFinite DEF Groups
<1>4. /\ IsFiniteSet(HeldAt(t) \cup {Len(dlq) + 1})
      /\ Cardinality(HeldAt(t) \cup {Len(dlq) + 1}) <= Cardinality(HeldAt(t)) + 1
  BY <1>3, AddAtMostOne
<1>5. CASE e.tx = t
  <2>1. /\ IsFiniteSet(HeldAt(t)')
        /\ Cardinality(HeldAt(t)') <= Cardinality(HeldAt(t) \cup {Len(dlq) + 1})
    BY <1>2, <1>4, <1>5, FS_Subset
  <2>2. Cardinality(HeldAt(t)') \in Nat /\ Cardinality(HeldAt(t) \cup {Len(dlq) + 1}) \in Nat
    BY <1>4, <2>1, FS_CardinalityType
  <2> QED
    BY <1>3, <1>4, <1>5, <2>1, <2>2
<1>6. CASE e.tx # t
  <2>1. IsFiniteSet(HeldAt(t)') /\ Cardinality(HeldAt(t)') <= Cardinality(HeldAt(t))
    BY <1>2, <1>3, <1>6, FS_Subset
  <2>2. Cardinality(HeldAt(t)') \in Nat
    BY <2>1, FS_CardinalityType
  <2> QED
    BY <1>3, <1>6, <2>1, <2>2
<1> QED
  BY <1>5, <1>6

\* The entry the replay loop takes up no longer counts.
LEMMA TakeHead ==
  ASSUME TypeOK, dlq # << >>, replayer = "idle", replayer' = "delete", dlq' = dlq, NEW t \in Txs
  PROVE  /\ Cardinality(HeldAt(t)') \in Nat
         /\ Cardinality(HeldAt(t)') =
              Cardinality(HeldAt(t)) - (IF Head(dlq).tx = t THEN 1 ELSE 0)
<1>1. Len(dlq) \in Nat \ {0} /\ Head(dlq) = dlq[1]
  BY HeadEntry
<1>2. IsFiniteSet(HeldAt(t)) /\ Cardinality(HeldAt(t)) \in Nat
  BY PositionsFinite DEF Groups
<1>3. HeldAt(t)' = HeldAt(t) \ {1}
  BY <1>1 DEF HeldAt
<1>4. 1 \in HeldAt(t) <=> Head(dlq).tx = t
  BY <1>1 DEF HeldAt
<1>5. IsFiniteSet(HeldAt(t) \ {1})
      /\ Cardinality(HeldAt(t) \ {1}) =
           IF 1 \in HeldAt(t) THEN Cardinality(HeldAt(t)) - 1 ELSE Cardinality(HeldAt(t))
  BY <1>2, FS_RemoveElement
<1>6. Cardinality(HeldAt(t) \ {1}) \in Nat
  BY <1>5, FS_CardinalityType
<1> QED
  BY <1>2, <1>3, <1>4, <1>5, <1>6

\* An entry that is taken up and put back at the end counts as before.
LEMMA RequeueHead ==
  ASSUME TypeOK, dlq # << >>, replayer = "idle", replayer' = "delete", NEW t \in Txs,
         dlq' = Append(dlq, Requeued(Head(dlq)))
  PROVE  /\ Cardinality(HeldAt(t)') \in Nat
         /\ Cardinality(HeldAt(t)') <= Cardinality(HeldAt(t))
<1> DEFINE e == Requeued(Head(dlq))
<1>1. Len(dlq) \in Nat \ {0} /\ Head(dlq) = dlq[1] /\ e \in Entry /\ e.tx = Head(dlq).tx
  BY HeadEntry, EntryTypes
<1>2. dlq' = Append(dlq, e) /\ dlq \in Seq(Entry)
  BY DEF TypeOK
<1> HIDE DEF e
<1>3. /\ Len(dlq') = Len(dlq) + 1 /\ dlq'[Len(dlq) + 1] = e
      /\ \A i \in 1 .. Len(dlq) : dlq'[i] = dlq[i]
  BY <1>1, <1>2, AppendFacts
<1>4. IsFiniteSet(HeldAt(t)) /\ Cardinality(HeldAt(t)) \in Nat
  BY PositionsFinite DEF Groups
<1>5. CASE e.tx = t
  <2>1. 1 \in HeldAt(t)
    BY <1>1, <1>5 DEF HeldAt
  <2>2. HeldAt(t)' \in SUBSET ((HeldAt(t) \ {1}) \cup {Len(dlq) + 1})
    BY <1>1, <1>3 DEF HeldAt
  <2>3. /\ IsFiniteSet(HeldAt(t) \ {1})
        /\ Cardinality(HeldAt(t) \ {1}) = Cardinality(HeldAt(t)) - 1
    BY <1>4, <2>1, FS_RemoveElement
  <2>4. /\ IsFiniteSet((HeldAt(t) \ {1}) \cup {Len(dlq) + 1})
        /\ Cardinality((HeldAt(t) \ {1}) \cup {Len(dlq) + 1}) <= Cardinality(HeldAt(t))
    <3>1. /\ IsFiniteSet((HeldAt(t) \ {1}) \cup {Len(dlq) + 1})
          /\ Cardinality((HeldAt(t) \ {1}) \cup {Len(dlq) + 1})
               <= Cardinality(HeldAt(t) \ {1}) + 1
      BY <2>3, AddAtMostOne
    <3> QED
      BY <1>4, <2>3, <3>1
  <2>5. /\ IsFiniteSet(HeldAt(t)')
        /\ Cardinality(HeldAt(t)') <= Cardinality((HeldAt(t) \ {1}) \cup {Len(dlq) + 1})
    BY <2>2, <2>4, FS_Subset
  <2>6. /\ Cardinality(HeldAt(t)') \in Nat
        /\ Cardinality((HeldAt(t) \ {1}) \cup {Len(dlq) + 1}) \in Nat
    BY <2>4, <2>5, FS_CardinalityType
  <2> QED
    BY <1>4, <2>4, <2>5, <2>6
<1>6. CASE e.tx # t
  <2>1. HeldAt(t)' \in SUBSET HeldAt(t)
    BY <1>1, <1>3, <1>6 DEF HeldAt
  <2>2. IsFiniteSet(HeldAt(t)') /\ Cardinality(HeldAt(t)') <= Cardinality(HeldAt(t))
    BY <1>4, <2>1, FS_Subset
  <2> QED
    BY <2>2, FS_CardinalityType
<1> QED
  BY <1>5, <1>6

\* Deleting the head moves every other entry up by one.
LEMMA DeleteHead ==
  ASSUME TypeOK, replayer = "delete", replayer' = "idle", dlq' = Tail(dlq), NEW t \in Txs
  PROVE  /\ Cardinality(HeldAt(t)') \in Nat
         /\ Cardinality(HeldAt(t)') <= Cardinality(HeldAt(t))
<1>1. dlq # << >> /\ dlq \in Seq(Entry)
  BY DEF TypeOK
<1>2. /\ Len(dlq) \in Nat /\ Len(dlq') = Len(dlq) - 1
      /\ \A i \in 1 .. Len(dlq') : dlq'[i] = dlq[i + 1]
  BY <1>1
<1>3. IsFiniteSet(HeldAt(t)) /\ Cardinality(HeldAt(t)) \in Nat
  BY PositionsFinite DEF Groups
<1> DEFINE up == [i \in HeldAt(t)' |-> i + 1]
<1>4. \A i \in HeldAt(t)' : i \in Nat /\ i + 1 \in HeldAt(t)
  BY <1>2 DEF HeldAt
<1>5. up \in [HeldAt(t)' -> HeldAt(t)] /\ \A i, j \in HeldAt(t)' : up[i] = up[j] => i = j
  BY <1>4
<1>6. up \in Injection(HeldAt(t)', HeldAt(t))
  BY <1>5 DEF Injection, IsInjective
<1> HIDE DEF up
<1>7. IsFiniteSet(HeldAt(t)') /\ Cardinality(HeldAt(t)') <= Cardinality(HeldAt(t))
  BY <1>3, <1>6, FS_Injection
<1> QED
  BY <1>7, FS_CardinalityType

\* A replay that is given up leaves the head to be taken up again.
LEMMA ReleaseHead ==
  ASSUME TypeOK, replayer' = "idle", dlq' = dlq, NEW t \in Txs
  PROVE  /\ Cardinality(HeldAt(t)') \in Nat
         /\ Cardinality(HeldAt(t)') <= Cardinality(HeldAt(t)) + 1
<1>1. IsFiniteSet(HeldAt(t)) /\ Cardinality(HeldAt(t)) \in Nat
  BY PositionsFinite DEF Groups
<1>2. HeldAt(t)' \in SUBSET (HeldAt(t) \cup {1})
  BY DEF HeldAt
<1>3. /\ IsFiniteSet(HeldAt(t) \cup {1})
      /\ Cardinality(HeldAt(t) \cup {1}) <= Cardinality(HeldAt(t)) + 1
  BY <1>1, AddAtMostOne
<1>4. IsFiniteSet(HeldAt(t)') /\ Cardinality(HeldAt(t)') <= Cardinality(HeldAt(t) \cup {1})
  BY <1>2, <1>3, FS_Subset
<1>5. Cardinality(HeldAt(t)') \in Nat /\ Cardinality(HeldAt(t) \cup {1}) \in Nat
  BY <1>3, <1>4, FS_CardinalityType
<1> QED
  BY <1>1, <1>3, <1>4, <1>5

-----------------------------------------------------------------------------
\* Only the request that creates a row goes on to publish it.
LEMMA OnePublisherStep ==
  ASSUME TypeOK, OnePublisher, [Next]_vars
  PROVE  OnePublisher'
<1>1. stored \subseteq stored'
  BY DEF Next, vars, redis, Serve, Work, Replay, Lookup, Insert, Publish, PublishFails,
     PublishLost, ReadBatch, Consume, ConsumeFails, ConsumeLost, AckFails, Poison, Republish,
     RepublishFails, Delete, ReplayAborts, Restart
<1>2. ASSUME \A q \in Requests : request'[q].pc = "publish" => request'[q] = request[q]
      PROVE  OnePublisher'
  BY <1>1, <1>2 DEF OnePublisher
<1>3. ASSUME NEW q \in Requests, NEW t \in Txs, Lookup(q, t) PROVE OnePublisher'
  <2>1. /\ request'[q] = [pc |-> "insert", tx |-> t]
        /\ \A r \in Requests : r # q => request'[r] = request[r]
    BY <1>3 DEF Lookup, TypeOK
  <2> QED
    BY <1>2, <2>1
<1>4. ASSUME NEW q \in Requests, request' = [request EXCEPT ![q] = Idle] PROVE OnePublisher'
  <2>1. request'[q] = Idle /\ \A r \in Requests : r # q => request'[r] = request[r]
    BY <1>4 DEF TypeOK
  <2> QED
    BY <1>2, <2>1 DEF Idle
<1>5. ASSUME NEW q \in Requests, Insert(q), request[q].tx \notin stored PROVE OnePublisher'
  <2>1. request[q] \in [pc : {"insert", "publish"}, tx : Txs]
    BY <1>5, RequestTx DEF Insert
  <2>2. request' = [request EXCEPT ![q].pc = "publish"] /\ request[q].tx \in stored'
    BY <1>5 DEF Insert
  <2>3. request'[q].tx = request[q].tx /\ \A r \in Requests : r # q => request'[r] = request[r]
    BY <2>1, <2>2 DEF TypeOK
  <2>4. \A r \in Requests : r # q /\ request'[r].pc = "publish" =>
          request'[r].tx \in stored /\ request'[r].tx # request'[q].tx
    BY <1>5, <2>3 DEF OnePublisher
  <2> QED
    BY <1>1, <2>2, <2>3, <2>4 DEF OnePublisher
<1>6. ASSUME request' = request PROVE OnePublisher'
  BY <1>2, <1>6
<1>7. CASE \E q \in Requests : \/ Serve(q) \/ PublishFails(q) \/ PublishLost(q)
                             \/ \E t \in Txs : Lookup(q, t)
  BY <1>3, <1>4, <1>5, <1>7 DEF Serve, Insert, Publish, PublishFails, PublishLost
<1>8. CASE Restart
  BY <1>2, <1>8 DEF Restart, Idle
<1>9. CASE \/ Replay \/ RepublishFails \/ ReplayAborts \/ UNCHANGED vars
           \/ \E g \in Groups : Work(g) \/ ConsumeFails(g) \/ ConsumeLost(g) \/ AckFails(g)
  BY <1>6, <1>9 DEF Replay, Poison, Republish, Delete, RepublishFails, ReplayAborts, vars,
     Work, ReadBatch, Consume, ConsumeFails, ConsumeLost, AckFails
<1> QED
  BY <1>7, <1>8, <1>9 DEF Next

\* A publication that ends, whatever its outcome, ends for its trade.
LEMMA PublisherEnds ==
  ASSUME TypeOK, OnePublisher, NEW q \in Requests, request[q].pc = "publish",
         request' = [request EXCEPT ![q] = Idle], NEW t \in Txs
  PROVE  IF t = request[q].tx THEN Publishing(t) /\ ~ Publishing(t)'
                              ELSE Publishing(t)' <=> Publishing(t)
<1>1. request'[q] = Idle /\ \A r \in Requests : r # q => request'[r] = request[r]
  BY DEF TypeOK
<1>2. request'[q].pc # "publish"
  BY <1>1 DEF Idle
<1>3. CASE t = request[q].tx
  <2>1. \A r \in Requests : r # q => ~ (request[r].pc = "publish" /\ request[r].tx = t)
    BY <1>3 DEF OnePublisher
  <2> QED
    BY <1>1, <1>2, <1>3, <2>1 DEF Publishing
<1>4. CASE t # request[q].tx
  BY <1>1, <1>2, <1>4 DEF Publishing
<1> QED
  BY <1>3, <1>4

\* The handler of one group counts one trade once more.
LEMMA EffectCounts ==
  ASSUME TypeOK, NEW h \in Groups, NEW x \in Txs, Effect(h, x), NEW g \in Groups, NEW t \in Txs
  PROVE  applied'[g][t] = applied[g][t] + (IF g = h /\ t = x THEN 1 ELSE 0)
<1>1. applied' = [applied EXCEPT ![h] = [applied[h] EXCEPT ![x] = applied[h][x] + 1]]
  BY DEF Effect
<1>2. applied[g] \in [Txs -> Nat] /\ applied[h] \in [Txs -> Nat] /\ applied[g][t] \in Nat
  BY DEF TypeOK
<1>3. applied'[g] = IF g = h THEN [applied[h] EXCEPT ![x] = applied[h][x] + 1] ELSE applied[g]
  BY <1>1 DEF TypeOK
<1> QED
  BY <1>2, <1>3

\* No step makes a copy of a trade's event that it does not take from the
\* account or pay for with a failure.
LEMMA BudgetStep == CountInv /\ [Next]_vars => Budget'
<1> SUFFICES ASSUME CountInv, [Next]_vars, NEW g \in Groups, NEW t \in Txs
             PROVE  (Copies(g, t) <= 1 + faults + losses)'
  BY DEF Budget
<1> USE DEF CountInv
<1> DEFINE ahead == Cardinality(AheadAt(g, t))
           held == Cardinality(HeldAt(t))
           pub == IF Publishing(t) THEN 1 ELSE 0
           new == IF t \in stored THEN 0 ELSE 1
           Within == applied'[g][t] + ahead' + held' + pub' + new' <= 1 + faults' + losses'
<1>a. /\ applied[g][t] \in Nat /\ ahead \in Nat /\ held \in Nat
      /\ pub \in {0, 1} /\ new \in {0, 1} /\ faults \in Nat /\ losses \in Nat
      /\ applied[g][t] + ahead + held + pub + new <= 1 + faults + losses
  BY PositionsFinite DEF TypeOK, Budget, Copies
<1>b. SUFFICES Within
  BY DEF Copies
<1>c. ASSUME UNCHANGED <<stream, handled>> PROVE ahead' = ahead
  BY <1>c DEF AheadAt
<1>d. ASSUME UNCHANGED <<dlq, replayer>> PROVE held' = held
  BY <1>d DEF HeldAt
<1>e. ASSUME UNCHANGED request PROVE pub' = pub
  BY <1>e DEF Publishing
<1>f. ASSUME NEW x \in Txs, stream' \in {stream, Append(stream, x)}, handled' = handled
      PROVE  ahead' \in Nat /\ ahead' <= ahead + (IF x = t THEN 1 ELSE 0)
  <2>1. CASE stream' = stream
    BY <1>a, <1>c, <1>f, <2>1
  <2>2. CASE stream' = Append(stream, x)
    BY <1>a, <1>f, <2>2, AppendAhead
  <2> QED
    BY <1>f, <2>1, <2>2
<1>1. ASSUME NEW q \in Requests, NEW x \in Txs, Lookup(q, x) PROVE Within
  <2>1. UNCHANGED <<stored, stream, handled, applied, dlq, replayer, faults, losses>>
    BY <1>1 DEF Lookup, redis, consumers, NoFault
  <2>2. Publishing(t)' => Publishing(t)
    BY <1>1 DEF Lookup, Publishing, TypeOK
  <2> QED
    BY <1>a, <1>c, <1>d, <2>1, <2>2
<1>2. ASSUME NEW q \in Requests, Insert(q) PROVE Within
  <2>1. UNCHANGED <<stream, handled, applied, dlq, replayer, faults, losses>>
    BY <1>2 DEF Insert, redis, consumers, NoFault
  <2>2. request[q] \in [pc : {"insert", "publish"}, tx : Txs] /\ request[q].tx \in Txs
    BY <1>2, RequestTx DEF Insert
  <2>3. pub' + new' <= pub + new
    <3>1. CASE request[q].tx \in stored
      <4>1. request' = [request EXCEPT ![q] = Idle] /\ stored' = stored
        BY <1>2, <3>1 DEF Insert
      <4>2. Publishing(t)' => Publishing(t)
        BY <4>1 DEF Publishing, TypeOK, Idle
      <4> QED
        BY <4>1, <4>2
    <3>2. CASE request[q].tx \notin stored
      <4>1. /\ request' = [request EXCEPT ![q].pc = "publish"]
            /\ stored' = stored \cup {request[q].tx}
        BY <1>2, <3>2 DEF Insert
      <4>2. /\ request'[q].tx = request[q].tx
            /\ \A r \in Requests : r # q => request'[r] = request[r]
        BY <2>2, <4>1 DEF TypeOK
      <4>3. CASE t = request[q].tx
        <5>1. ~ Publishing(t)
          BY <3>2, <4>3 DEF Publishing, OnePublisher
        <5>2. new = 1 /\ new' = 0
          BY <3>2, <4>1, <4>3
        <5> QED
          BY <5>1, <5>2
      <4>4. CASE t # request[q].tx
        <5>1. Publishing(t)' => Publishing(t)
          BY <4>2, <4>4 DEF Publishing
        <5>2. new' = new
          BY <4>1, <4>4
        <5> QED
          BY <5>1, <5>2
      <4> QED
        BY <4>3, <4>4
    <3> QED
      BY <3>1, <3>2
  <2> QED
    BY <1>a, <1>c, <1>d, <2>1, <2>3
<1>3. ASSUME NEW q \in Requests, Publish(q) PROVE Within
  <2>1. UNCHANGED <<stored, applied, dlq, replayer, handled, faults, losses>>
    BY <1>3 DEF Publish, consumers, NoFault
  <2>2. PICK x \in Txs : x = request[q].tx
    BY <1>3, RequestTx DEF Publish
  <2>3. ahead' \in Nat /\ ahead' <= ahead + (IF x = t THEN 1 ELSE 0)
    BY <1>3, <1>f, <2>1, <2>2 DEF Publish
  <2>4. pub' = pub - (IF x = t THEN 1 ELSE 0)
    <3>1. IF t = x THEN Publishing(t) /\ ~ Publishing(t)' ELSE Publishing(t)' <=> Publishing(t)
      BY <1>3, <2>2, PublisherEnds DEF Publish
    <3> QED
      BY <3>1
  <2> QED
    BY <1>a, <1>d, <2>1, <2>3, <2>4
<1>4. ASSUME NEW q \in Requests, PublishFails(q) PROVE Within
  <2>1. /\ UNCHANGED <<stored, applied, replayer, handled, losses>> /\ faults' = faults + 1
    BY <1>4 DEF PublishFails, consumers, Fault
  <2>2. PICK x \in Txs : x = request[q].tx
    BY <1>4, RequestTx DEF PublishFails
  <2>3. ahead' \in Nat /\ ahead' <= ahead + (IF x = t THEN 1 ELSE 0)
    BY <1>4, <1>f, <2>1, <2>2 DEF PublishFails
  <2>4. pub' = pub - (IF x = t THEN 1 ELSE 0)
    <3>1. IF t = x THEN Publishing(t) /\ ~ Publishing(t)' ELSE Publishing(t)' <=> Publishing(t)
      BY <1>4, <2>2, PublisherEnds DEF PublishFails
    <3> QED
      BY <3>1
  <2>5. held' \in Nat /\ held' <= held + (IF x = t THEN 1 ELSE 0)
    BY <1>4, <2>1, <2>2, EntryTypes, AppendHeld DEF PublishFails
  <2> QED
    BY <1>a, <2>1, <2>3, <2>4, <2>5
<1>5. ASSUME NEW q \in Requests, PublishLost(q) PROVE Within
  <2>1. /\ UNCHANGED <<stored, stream, handled, applied, dlq, replayer, faults>>
        /\ losses' = losses + 1
    BY <1>5 DEF PublishLost, redis, consumers, Loss
  <2>2. Publishing(t)' => Publishing(t)
    BY <1>5 DEF PublishLost, Publishing, TypeOK, Idle
  <2> QED
    BY <1>a, <1>c, <1>d, <2>1, <2>2
<1>6. ASSUME NEW h \in Groups, ReadBatch(h) PROVE Within
  <2>1. UNCHANGED <<stored, request, stream, handled, applied, dlq, replayer, faults, losses>>
    BY <1>6 DEF ReadBatch, NoFault
  <2> QED
    BY <1>a, <1>c, <1>d, <1>e, <2>1
\* The group that handles the message x gives up one copy ahead of it.
<1>g. ASSUME NEW h \in Groups, NEW x \in Txs, x = stream[handled[h] + 1],
             handled[h] < delivered[h], stream' = stream,
             \/ handled' = [handled EXCEPT ![h] = @ + 1]
             \/ handled' = [handled EXCEPT ![h] = delivered[h]]
      PROVE  ahead' \in Nat /\ ahead' <= ahead - (IF g = h /\ t = x THEN 1 ELSE 0)
  <2>1. /\ handled[g] \in Nat /\ handled[h] \in Nat /\ delivered[h] \in Nat
        /\ handled[h] < Len(stream)
    BY <1>g DEF TypeOK, Cursors
  <2>2. /\ handled'[g] \in Nat /\ handled'[g] >= handled[g]
        /\ g = h => handled'[g] > handled[g]
    <3>1. handled \in [Groups -> Nat]
      BY DEF TypeOK
    <3>2. CASE g # h
      BY <1>g, <2>1, <3>1, <3>2
    <3>3. CASE g = h
      <4>1. handled'[g] = handled[g] + 1 \/ handled'[g] = delivered[g]
        BY <1>g, <3>1, <3>3
      <4> QED
        BY <1>g, <2>1, <3>3, <4>1
    <3> QED
      BY <3>2, <3>3
  <2>3. /\ ahead' \in Nat /\ ahead' <= ahead
        /\ g = h /\ t = x => ahead' + 1 <= ahead
    BY <1>g, <2>1, <2>2, PassAhead
  <2> QED
    BY <1>a, <2>3
<1>7. ASSUME NEW h \in Groups, Consume(h) PROVE Within
  <2>1. UNCHANGED <<stored, request, stream, dlq, replayer, faults, losses>>
    BY <1>7 DEF Consume, NoFault
  <2>2. PICK x \in Txs : x = stream[handled[h] + 1]
    BY <1>7, NextMessage DEF Consume, Ack
  <2>3. ahead' \in Nat /\ ahead' <= ahead - (IF g = h /\ t = x THEN 1 ELSE 0)
    BY <1>7, <1>g, <2>1, <2>2 DEF Consume, Ack
  <2>4. applied'[g][t] = applied[g][t] + (IF g = h /\ t = x THEN 1 ELSE 0)
    BY <1>7, <2>2, EffectCounts DEF Consume
  <2> QED
    BY <1>a, <1>d, <1>e, <2>1, <2>3, <2>4
<1>8. ASSUME NEW h \in Groups, ConsumeFails(h) PROVE Within
  <2>1. UNCHANGED <<stored, request, stream, replayer, losses>> /\ faults' = faults + 1
    BY <1>8 DEF ConsumeFails, Fault
  <2>2. PICK x \in Txs : x = stream[handled[h] + 1]
    BY <1>8, NextMessage DEF ConsumeFails, Ack
  <2>3. ahead' \in Nat /\ ahead' <= ahead - (IF g = h /\ t = x THEN 1 ELSE 0)
    BY <1>8, <1>g, <2>1, <2>2 DEF ConsumeFails, Ack
  <2>4. /\ applied'[g][t] \in Nat
        /\ applied'[g][t] <= applied[g][t] + (IF g = h /\ t = x THEN 1 ELSE 0)
    <3>1. CASE Effect(h, x)
      BY <1>a, <3>1, EffectCounts
    <3>2. CASE applied' = applied
      BY <1>a, <3>2
    <3> QED
      BY <1>8, <2>2, <3>1, <3>2 DEF ConsumeFails
  <2>5. held' \in Nat /\ held' <= held + (IF x = t THEN 1 ELSE 0)
    BY <1>8, <2>1, <2>2, EntryTypes, AppendHeld DEF ConsumeFails
  <2> QED
    BY <1>a, <1>e, <2>1, <2>3, <2>4, <2>5
<1>9. ASSUME NEW h \in Groups, ConsumeLost(h) PROVE Within
  <2>1. /\ UNCHANGED <<stored, request, stream, applied, dlq, replayer, faults>>
        /\ losses' = losses + 1
    BY <1>9 DEF ConsumeLost, Loss
  <2>2. PICK x \in Txs : x = stream[handled[h] + 1]
    BY <1>9, NextMessage DEF ConsumeLost, Ack
  <2>3. ahead' \in Nat /\ ahead' <= ahead - (IF g = h /\ t = x THEN 1 ELSE 0)
    BY <1>9, <1>g, <2>1, <2>2 DEF ConsumeLost, Ack
  <2> QED
    BY <1>a, <1>d, <1>e, <2>1, <2>3
<1>10. ASSUME NEW h \in Groups, AckFails(h) PROVE Within
  <2>1. UNCHANGED <<stored, request, stream, replayer, faults>> /\ losses' = losses + 1
    BY <1>10 DEF AckFails, Loss
  <2>2. PICK x \in Txs : x = stream[handled[h] + 1]
    BY <1>10, NextMessage DEF AckFails
  <2>3. ahead' \in Nat /\ ahead' <= ahead - (IF g = h /\ t = x THEN 1 ELSE 0)
    BY <1>10, <1>g, <2>1, <2>2 DEF AckFails
  <2>4. CASE Effect(h, x) /\ UNCHANGED dlq
    <3>1. applied'[g][t] = applied[g][t] + (IF g = h /\ t = x THEN 1 ELSE 0)
      BY <2>4, EffectCounts
    <3> QED
      BY <1>a, <1>d, <1>e, <2>1, <2>3, <2>4, <3>1
  <2>5. CASE UNCHANGED applied /\ dlq' = Append(dlq, Fresh(x))
    <3>1. held' \in Nat /\ held' <= held + (IF x = t THEN 1 ELSE 0)
      BY <2>1, <2>5, EntryTypes, AppendHeld
    <3>2. applied'[g][t] = applied[g][t] /\ pub' = pub /\ new' = new
      BY <1>e, <2>1, <2>5
    <3> QED
      BY <1>a, <2>1, <2>3, <3>1, <3>2
  <2> QED
    BY <1>10, <2>2, <2>4, <2>5 DEF AckFails
<1>11. CASE Poison
  <2>1. UNCHANGED <<stored, request, stream, handled, applied, faults, losses>>
    BY <1>11 DEF Poison, consumers, NoFault
  <2>2. held' \in Nat /\ held' <= held
    BY <1>11, <1>a, TakeHead DEF Poison
  <2> QED
    BY <1>a, <1>c, <1>e, <2>1, <2>2
<1>12. CASE Republish
  <2>1. UNCHANGED <<stored, request, handled, applied, faults, losses>>
    BY <1>12 DEF Republish, consumers, NoFault
  <2>2. PICK x \in Txs : x = Head(dlq).tx
    BY <1>12, HeadEntry DEF Republish
  <2>3. held' \in Nat /\ held' = held - (IF x = t THEN 1 ELSE 0)
    BY <1>12, <2>2, TakeHead DEF Republish
  <2>4. ahead' \in Nat /\ ahead' <= ahead + (IF x = t THEN 1 ELSE 0)
    BY <1>12, <1>f, <2>1, <2>2 DEF Republish
  <2> QED
    BY <1>a, <1>e, <2>1, <2>3, <2>4
<1>13. CASE RepublishFails
  <2>1. UNCHANGED <<stored, request, handled, applied, losses>> /\ faults' = faults + 1
    BY <1>13 DEF RepublishFails, consumers, Fault
  <2>2. PICK x \in Txs : x = Head(dlq).tx
    BY <1>13, HeadEntry DEF RepublishFails
  <2>3. held' \in Nat /\ held' <= held
    BY <1>13, RequeueHead DEF RepublishFails
  <2>4. ahead' \in Nat /\ ahead' <= ahead + (IF x = t THEN 1 ELSE 0)
    BY <1>13, <1>f, <2>1, <2>2 DEF RepublishFails
  <2> QED
    BY <1>a, <1>e, <2>1, <2>3, <2>4
<1>14. CASE Delete
  <2>1. UNCHANGED <<stored, request, stream, handled, applied, faults, losses>>
    BY <1>14 DEF Delete, consumers, NoFault
  <2>2. held' \in Nat /\ held' <= held
    BY <1>14, DeleteHead DEF Delete
  <2> QED
    BY <1>a, <1>c, <1>e, <2>1, <2>2
<1>15. CASE ReplayAborts
  <2>1. UNCHANGED <<stored, request, stream, handled, applied, losses>> /\ faults' = faults + 1
    BY <1>15 DEF ReplayAborts, redis, consumers, Fault
  <2>2. held' \in Nat /\ held' <= held + 1
    BY <1>15, ReleaseHead DEF ReplayAborts, redis
  <2> QED
    BY <1>a, <1>c, <1>e, <2>1, <2>2
<1>16. CASE Restart
  <2>1. UNCHANGED <<stored, stream, applied, faults>> /\ losses' = losses + 1
    BY <1>16 DEF Restart, redis, Loss
  <2>2. held' \in Nat /\ held' <= held + 1
    BY <1>16, ReleaseHead DEF Restart, redis
  <2>3. ahead' \in Nat /\ ahead' <= ahead
    <3>1. handled'[g] \in Nat /\ handled'[g] >= handled[g]
      BY <1>16 DEF Restart, TypeOK, Cursors
    <3> QED
      BY <2>1, <3>1, PassAhead
  <2>4. pub' = 0
    BY <1>16 DEF Restart, Publishing, Idle
  <2> QED
    BY <1>a, <2>1, <2>2, <2>3, <2>4
<1>17. CASE UNCHANGED vars
  BY <1>a, <1>c, <1>d, <1>e, <1>17 DEF vars
<1> QED
  BY <1>1, <1>2, <1>3, <1>4, <1>5, <1>6, <1>7, <1>8, <1>9, <1>10, <1>11, <1>12, <1>13,
     <1>14, <1>15, <1>16, <1>17 DEF Next, Serve, Work, Replay

\* However many webhooks report a trade, and however they interleave with
\* failures, replays and restarts: a group counts it once, and once more at
\* most for every failure.
THEOREM CountedOncePerFailure == Spec => []CountedOnce
<1>1. Init => CountInv
  <2> SUFFICES ASSUME Init PROVE OnePublisher /\ Budget
    BY InitInv DEF Inv, CountInv
  <2>1. OnePublisher
    BY DEF Init, OnePublisher, Idle
  <2>2. ASSUME NEW g \in Groups, NEW t \in Txs PROVE Copies(g, t) <= 1 + faults + losses
    <3>1. AheadAt(g, t) = {} /\ HeldAt(t) = {} /\ ~ Publishing(t)
      BY DEF Init, AheadAt, HeldAt, Publishing, Idle
    <3> QED
      BY <3>1, FS_EmptySet DEF Init, Copies
  <2> QED
    BY <2>1, <2>2 DEF Budget
<1>2. CountInv /\ [Next]_vars => CountInv'
  BY TypeStep, OnePublisherStep, BudgetStep DEF CountInv
<1>3. CountInv => CountedOnce
  <2> SUFFICES ASSUME CountInv, NEW g \in Groups, NEW t \in Txs
               PROVE  applied[g][t] <= 1 + faults + losses
    BY DEF CountedOnce
  <2>1. /\ applied[g][t] \in Nat /\ faults \in Nat /\ losses \in Nat
        /\ Cardinality(AheadAt(g, t)) \in Nat /\ Cardinality(HeldAt(t)) \in Nat
    BY PositionsFinite DEF CountInv, TypeOK
  <2> QED
    BY <2>1 DEF CountInv, Budget, Copies
<1> QED
  BY <1>1, <1>2, <1>3, PTL DEF Spec

-----------------------------------------------------------------------------
(***************************************************************************)
(* PoisonIsLate.  The counter an entry carries never runs ahead of the     *)
(* failures there have been: the one that dead-lettered the event and one  *)
(* per replay that failed (Counters).  It runs behind them, for a requeued *)
(* entry keeps the counter it has (AtMostOne): with a limit above one the  *)
(* counter never reaches it.                                               *)
(***************************************************************************)
\* All that has failed, whether the code carries on from it or not.
Failures == faults + losses

\* No counter is ahead of the replays of its entry, nor these of the failures.
Counters ==
  \A n \in 1 .. Len(dlq) :
    dlq[n].retries <= dlq[n].tries /\ dlq[n].tries + 1 <= Failures

\* An entry counts the first of its replays that failed, and no other.
AtMostOne == \A n \in 1 .. Len(dlq) : dlq[n].retries <= 1

\* PoisonIsLate, in terms of Failures.
Late == poison # {} => Failures > MaxRetries

LateInv == TypeOK /\ Cursors /\ Counters /\ Late

\* What a step does to the dead-letter stream: nothing, or the head goes, or an
\* entry is appended, a first one of its event or the head requeued, and one
\* more failure is counted.
LEMMA DlqMoves ==
  ASSUME TypeOK, Cursors, [Next]_vars
  PROVE  \/ UNCHANGED dlq /\ Failures' \in {Failures, Failures + 1}
         \/ dlq # << >> /\ dlq' = Tail(dlq) /\ Failures' = Failures
         \/ /\ Failures' = Failures + 1
            /\ \E x \in Entry : /\ dlq' = Append(dlq, x)
                                /\ \/ x.retries = 0 /\ x.tries = 0
                                   \/ dlq # << >> /\ x = Requeued(Head(dlq))
<1>1. /\ NoFault => Failures' = Failures
      /\ Fault => Failures' = Failures + 1
      /\ Loss => Failures' = Failures + 1
  BY DEF TypeOK, NoFault, Fault, Loss, Failures
<1>2. \A t \in Txs : Fresh(t) \in Entry /\ Fresh(t).retries = 0 /\ Fresh(t).tries = 0
  BY EntryTypes DEF Fresh
<1>3. ASSUME NEW q \in Requests, PublishFails(q)
      PROVE  /\ Failures' = Failures + 1
             /\ \E t \in Txs : dlq' = Append(dlq, Fresh(t))
  BY <1>1, <1>3, RequestTx DEF PublishFails
<1>4. ASSUME NEW g \in Groups, ConsumeFails(g)
      PROVE  /\ Failures' = Failures + 1
             /\ \E t \in Txs : dlq' = Append(dlq, Fresh(t))
  BY <1>1, <1>4, NextMessage DEF ConsumeFails, Ack
<1>5. ASSUME NEW g \in Groups, AckFails(g)
      PROVE  /\ Failures' = Failures + 1
             /\ UNCHANGED dlq \/ \E t \in Txs : dlq' = Append(dlq, Fresh(t))
  BY <1>1, <1>5, NextMessage DEF AckFails
<1>6. CASE RepublishFails
  <2>1. dlq # << >> /\ Requeued(Head(dlq)) \in Entry
    BY <1>6, HeadEntry, EntryTypes DEF RepublishFails
  <2>2. dlq' = Append(dlq, Requeued(Head(dlq))) /\ Failures' = Failures + 1
    BY <1>1, <1>6 DEF RepublishFails
  <2> QED
    BY <2>1, <2>2
<1>7. CASE Delete
  BY <1>1, <1>7 DEF Delete, TypeOK
<1>8. ASSUME NEW q \in Requests,
             (\E t \in Txs : Lookup(q, t)) \/ Insert(q) \/ Publish(q) \/ PublishLost(q)
      PROVE  UNCHANGED dlq /\ Failures' \in {Failures, Failures + 1}
  BY <1>1, <1>8 DEF Lookup, Insert, Publish, PublishLost, redis
<1>9. ASSUME NEW g \in Groups, ReadBatch(g) \/ Consume(g) \/ ConsumeLost(g)
      PROVE  UNCHANGED dlq /\ Failures' \in {Failures, Failures + 1}
  BY <1>1, <1>9 DEF ReadBatch, Consume, ConsumeLost
<1>10. CASE Poison \/ Republish \/ ReplayAborts \/ Restart
  BY <1>1, <1>10 DEF Poison, Republish, ReplayAborts, Restart, redis
<1>11. CASE UNCHANGED vars
  BY <1>11 DEF vars, Failures
<1> QED
  BY <1>2, <1>3, <1>4, <1>5, <1>6, <1>7, <1>8, <1>9, <1>10, <1>11
     DEF Next, Serve, Work, Replay

\* An entry of the dead-letter stream after a step was there before, or is the
\* one that the step appends.
LEMMA EntryFrom ==
  ASSUME TypeOK, NEW n \in 1 .. Len(dlq'),
         \/ UNCHANGED dlq
         \/ dlq # << >> /\ dlq' = Tail(dlq)
  PROVE  \E m \in 1 .. Len(dlq) : dlq'[n] = dlq[m]
<1>1. dlq \in Seq(Entry) /\ Len(dlq) \in Nat
  BY DEF TypeOK
<1>2. CASE UNCHANGED dlq
  BY <1>2
<1>3. CASE dlq # << >> /\ dlq' = Tail(dlq)
  <2>1. Len(dlq') = Len(dlq) - 1 /\ dlq'[n] = dlq[n + 1]
    BY <1>1, <1>3
  <2>2. n + 1 \in 1 .. Len(dlq)
    BY <1>1, <2>1
  <2> QED
    BY <2>1, <2>2
<1> QED
  BY <1>2, <1>3

\* The counters of an entry are numbers.
LEMMA CounterTypes ==
  ASSUME TypeOK, NEW n \in 1 .. Len(dlq)
  PROVE  dlq[n].retries \in Nat /\ dlq[n].tries \in Nat
<1>1. dlq[n] \in Entry
  BY DEF TypeOK
<1> QED
  BY <1>1 DEF Entry

\* The counters stay behind the failures.
LEMMA CountersStep ==
  ASSUME TypeOK, Cursors, Counters, [Next]_vars
  PROVE  Counters' /\ Failures' \in {Failures, Failures + 1}
<1>1. Failures \in Nat
  BY DEF TypeOK, Failures
<1>2. CASE /\ UNCHANGED dlq \/ (dlq # << >> /\ dlq' = Tail(dlq))
           /\ Failures' \in {Failures, Failures + 1}
  <2> SUFFICES ASSUME NEW n \in 1 .. Len(dlq')
               PROVE  /\ dlq'[n].retries <= dlq'[n].tries
                      /\ dlq'[n].tries + 1 <= Failures'
    BY <1>2 DEF Counters
  <2>1. PICK m \in 1 .. Len(dlq) : dlq'[n] = dlq[m]
    BY <1>2, EntryFrom
  <2>2. dlq[m].tries \in Nat /\ dlq[m].retries <= dlq[m].tries
        /\ dlq[m].tries + 1 <= Failures
    BY CounterTypes DEF Counters
  <2> QED
    BY <1>1, <1>2, <2>1, <2>2
<1>3. ASSUME NEW x \in Entry, dlq' = Append(dlq, x), Failures' = Failures + 1,
             \/ x.retries = 0 /\ x.tries = 0
             \/ dlq # << >> /\ x = Requeued(Head(dlq))
      PROVE  Counters' /\ Failures' \in {Failures, Failures + 1}
  <2>1. x.retries <= x.tries /\ x.tries + 1 <= Failures + 1
    <3>1. CASE x.retries = 0 /\ x.tries = 0
      BY <1>1, <3>1
    <3>2. CASE dlq # << >> /\ x = Requeued(Head(dlq))
      <4>1. Head(dlq) = dlq[1] /\ 1 \in 1 .. Len(dlq)
        BY <3>2, HeadEntry
      <4>2. /\ dlq[1].retries \in Nat /\ dlq[1].tries \in Nat
            /\ dlq[1].retries <= dlq[1].tries /\ dlq[1].tries + 1 <= Failures
        BY <4>1, CounterTypes DEF Counters
      <4>3. /\ x.retries = IF dlq[1].retries = 0 THEN 1 ELSE dlq[1].retries
            /\ x.tries = dlq[1].tries + 1
        BY <3>2, <4>1 DEF Requeued
      <4> QED
        BY <1>1, <4>2, <4>3
    <3> QED
      BY <1>3, <3>1, <3>2
  <2>2. /\ Len(dlq') = Len(dlq) + 1 /\ Len(dlq) \in Nat /\ dlq'[Len(dlq) + 1] = x
        /\ \A i \in 1 .. Len(dlq) : dlq'[i] = dlq[i]
    BY <1>3, AppendFacts DEF TypeOK
  <2>3. ASSUME NEW n \in 1 .. Len(dlq')
        PROVE  /\ dlq'[n].retries <= dlq'[n].tries
               /\ dlq'[n].tries + 1 <= Failures'
    <3>1. CASE n = Len(dlq) + 1
      BY <1>3, <2>1, <2>2, <3>1
    <3>2. CASE n \in 1 .. Len(dlq)
      <4>1. dlq[n].tries \in Nat /\ dlq[n].retries <= dlq[n].tries
            /\ dlq[n].tries + 1 <= Failures
        BY <3>2, CounterTypes DEF Counters
      <4> QED
        BY <1>1, <1>3, <2>2, <3>2, <4>1
    <3> QED
      BY <2>2, <3>1, <3>2
  <2> QED
    BY <1>1, <1>3, <2>3 DEF Counters
<1> QED
  BY <1>1, <1>2, <1>3, DlqMoves

\* Only one action sets an event aside.
LEMMA PoisonChanges ==
  ASSUME [Next]_vars
  PROVE  Poison \/ UNCHANGED poison
BY DEF Next, vars, redis, consumers, Serve, Work, Replay, Lookup, Insert, Publish,
   PublishFails, PublishLost, ReadBatch, Consume, ConsumeFails, ConsumeLost, AckFails,
   Republish, RepublishFails, Delete, ReplayAborts, Restart

\* A trade is set aside only after more failures than the limit on retries,
\* whichever they were and however they interleaved with webhooks and restarts.
THEOREM GivenUpLate == Spec => []PoisonIsLate
<1>1. Init => LateInv
  BY InitInv DEF Inv, Init, LateInv, Counters, Late
<1>2. LateInv /\ [Next]_vars => LateInv'
  <2> SUFFICES ASSUME LateInv, [Next]_vars PROVE LateInv'
    OBVIOUS
  <2>1. TypeOK' /\ Cursors' /\ Counters' /\ Failures' \in {Failures, Failures + 1}
    BY TypeStep, CountersStep DEF LateInv
  <2>2. Failures \in Nat /\ MaxRetries \in Nat
    BY PipelineConstants DEF LateInv, TypeOK, Failures
  <2>3. CASE UNCHANGED poison
    BY <2>1, <2>2, <2>3 DEF LateInv, Late
  <2>4. CASE Poison
    <3>1. Head(dlq) = dlq[1] /\ 1 \in 1 .. Len(dlq) /\ dlq[1].retries >= MaxRetries
      BY <2>4, HeadEntry DEF Poison, LateInv
    <3>2. /\ dlq[1].retries \in Nat /\ dlq[1].tries \in Nat
          /\ dlq[1].retries <= dlq[1].tries /\ dlq[1].tries + 1 <= Failures
      BY <3>1, CounterTypes DEF LateInv, Counters
    <3> QED
      BY <2>1, <2>2, <3>1, <3>2 DEF LateInv, Late
  <2> QED
    BY <2>3, <2>4, PoisonChanges
<1>3. LateInv => PoisonIsLate
  BY DEF LateInv, Late, Failures, PoisonIsLate
<1> QED
  BY <1>1, <1>2, <1>3, PTL DEF Spec

\* With the shipped limit of three, and with any above one, nothing is ever set
\* aside: the retry counter of an entry never passes one, so an event whose
\* replay keeps failing goes round for ever.
THEOREM NeverGivenUp == Spec => [](MaxRetries > 1 => poison = {})
<1> DEFINE OneInv == TypeOK /\ Cursors /\ AtMostOne /\ (MaxRetries > 1 => poison = {})
<1>1. Init => OneInv
  BY InitInv DEF Inv, Init, AtMostOne
<1>2. OneInv /\ [Next]_vars => OneInv'
  <2> SUFFICES ASSUME OneInv, [Next]_vars PROVE OneInv'
    OBVIOUS
  <2>1. TypeOK' /\ Cursors'
    BY TypeStep
  <2>2. AtMostOne'
    <3>1. CASE UNCHANGED dlq \/ (dlq # << >> /\ dlq' = Tail(dlq))
      BY <3>1, EntryFrom DEF AtMostOne
    <3>2. ASSUME NEW x \in Entry, dlq' = Append(dlq, x),
                 \/ x.retries = 0 /\ x.tries = 0
                 \/ dlq # << >> /\ x = Requeued(Head(dlq))
          PROVE  AtMostOne'
      <4>1. x.retries <= 1
        <5>1. CASE dlq # << >> /\ x = Requeued(Head(dlq))
          <6>1. Head(dlq) = dlq[1] /\ dlq[1].retries <= 1
            BY <5>1, HeadEntry DEF AtMostOne
          <6>2. x.retries = IF dlq[1].retries = 0 THEN 1 ELSE dlq[1].retries
            BY <5>1, <6>1 DEF Requeued
          <6> QED
            BY <6>1, <6>2
        <5> QED
          BY <3>2, <5>1
      <4>2. /\ Len(dlq') = Len(dlq) + 1 /\ Len(dlq) \in Nat /\ dlq'[Len(dlq) + 1] = x
            /\ \A i \in 1 .. Len(dlq) : dlq'[i] = dlq[i]
        BY <3>2, AppendFacts DEF TypeOK
      <4> QED
        BY <4>1, <4>2 DEF AtMostOne
    <3> QED
      BY <3>1, <3>2, DlqMoves
  <2>3. MaxRetries > 1 => poison' = {}
    <3>1. ASSUME Poison, MaxRetries > 1 PROVE FALSE
      <4>1. Head(dlq) = dlq[1] /\ 1 \in 1 .. Len(dlq) /\ dlq[1].retries >= MaxRetries
        BY <3>1, HeadEntry DEF Poison
      <4>2. dlq[1].retries \in Nat /\ dlq[1].retries <= 1 /\ MaxRetries \in Nat
        BY <4>1, CounterTypes, PipelineConstants DEF AtMostOne
      <4> QED
        BY <3>1, <4>1, <4>2
    <3> QED
      BY <3>1, PoisonChanges
  <2> QED
    BY <2>1, <2>2, <2>3
<1> QED
  BY <1>1, <1>2, PTL DEF Spec
=============================================================================
