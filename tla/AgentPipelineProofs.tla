------------------------- MODULE AgentPipelineProofs -------------------------
(***************************************************************************)
(* OneOrderPerEvent for any number of events, strategies, failures and     *)
(* restarts, whatever the registry admits.  That a stream has no entry     *)
(* twice does not follow from the same fact a step before: it needs to be  *)
(* known that what an agent has published comes from entries it is done    *)
(* with, or from the part of its current entry that is no longer to do.    *)
(* The order of the streams (EventsInOrder) rests on the same invariant,   *)
(* and so does what an unlisted group does to the chain (Unreached).       *)
(***************************************************************************)
EXTENDS AgentPipeline, TLAPS

\* Entries the agent will not handle any more, and the current one.
Past(a, i) == i <= group[a] /\ ~ (work[a].next < i /\ i <= work[a].last)

\* All that the agent has published comes from entries it has taken up.
Origin(a) ==
  \A k \in 1..Len(stream[a + 1]) : \E i \in 1..Len(stream[a]) :
    Past(a, i) /\ stream[a + 1][k] \in Outputs(a, stream[a][i])

\* What is left of the current entry has not been published.
Left(a) ==
  /\ work[a].todo # {} => work[a].next <= work[a].last
  /\ work[a].todo # {} => work[a].todo \subseteq Outputs(a, stream[a][work[a].next])
  /\ \A k \in 1..Len(stream[a + 1]) : stream[a + 1][k] \notin work[a].todo

\* Market events are told apart by their place in market:data.
Numbered == \A i \in 1..Len(stream[Whale]) : stream[Whale][i].event = i

\* The batches an agent can hold.
Works(a) == [next : Nat \ {0}, last : Nat, todo : SUBSET Messages(a + 1)]

Inv ==
  /\ TypeOK /\ Numbered /\ OneOrderPerEvent
  /\ \A a \in Agents : Origin(a) /\ Left(a)

-----------------------------------------------------------------------------
\* What Append does to a sequence.
LEMMA AppendFacts ==
  ASSUME NEW S, NEW s \in Seq(S), NEW x \in S
  PROVE  /\ Append(s, x) \in Seq(S)
         /\ Len(Append(s, x)) = Len(s) + 1 /\ Len(s) \in Nat
         /\ Append(s, x)[Len(s) + 1] = x
         /\ \A i \in 1 .. Len(s) : Append(s, x)[i] = s[i]
  OBVIOUS

\* Handling a message of a stream publishes messages of the next one.
LEMMA OutputsType ==
  ASSUME NEW a \in Agents, NEW m \in Messages(a)
  PROVE  Outputs(a, m) \subseteq Messages(a + 1)
<1>1. CASE a = Signal
  BY <1>1 DEF Agents, Messages, Outputs, Signal
<1>2. CASE a # Signal
  <2>1. (a <= Signal) = (a + 1 <= Signal)
    BY <1>2 DEF Agents, Signal
  <2> QED
    BY <1>2, <2>1 DEF Messages, Outputs
<1> QED
  BY <1>1, <1>2

\* Two messages have no output in common.
LEMMA OutputsApart ==
  ASSUME NEW a \in Agents, NEW m \in Messages(a), NEW n \in Messages(a),
         NEW x, x \in Outputs(a, m), x \in Outputs(a, n)
  PROVE  m = n
<1>1. CASE a = Signal
  <2>1. m \in [event : 1..MaxEvents, strategy : {NoStrategy}]
    BY <1>1 DEF Messages, Signal
  <2>2. n \in [event : 1..MaxEvents, strategy : {NoStrategy}]
    BY <1>1 DEF Messages, Signal
  <2>3. m.strategy = n.strategy
    BY <2>1, <2>2
  <2>4. PICK s \in Strategies : x = [m EXCEPT !.strategy = s]
    BY <1>1 DEF Outputs
  <2>5. PICK t \in Strategies : x = [n EXCEPT !.strategy = t]
    BY <1>1 DEF Outputs
  <2>6. x.event = m.event
    BY <2>1, <2>4
  <2>7. x.event = n.event
    BY <2>2, <2>5
  <2>8. m = [event |-> m.event, strategy |-> m.strategy]
    BY <2>1
  <2>9. n = [event |-> n.event, strategy |-> n.strategy]
    BY <2>2
  <2> QED
    BY <2>3, <2>6, <2>7, <2>8, <2>9
<1>2. CASE a # Signal
  BY <1>2 DEF Outputs
<1> QED
  BY <1>1, <1>2

\* The streams an agent reads and writes.
LEMMA StreamTypes ==
  ASSUME TypeOK, NEW a \in Agents
  PROVE  /\ a \in 1..5 /\ a + 1 \in 1..5
         /\ stream[a] \in Seq(Messages(a)) /\ stream[a + 1] \in Seq(Messages(a + 1))
         /\ Len(stream[a]) \in Nat /\ Len(stream[a + 1]) \in Nat
<1>1. a \in 1..5 /\ a + 1 \in 1..5
  BY DEF Agents
<1>2. \A s \in 1..5 : stream[s] \in Seq(Messages(s))
  BY DEF TypeOK
<1>3. stream[a] \in Seq(Messages(a)) /\ stream[a + 1] \in Seq(Messages(a + 1))
  BY <1>1, <1>2
<1> QED
  BY <1>1, <1>3

\* A batch within the stream has its type.
LEMMA BatchType ==
  ASSUME TypeOK, NEW a \in Agents, NEW i \in Nat \ {0}, NEW j \in Nat,
         j <= Len(stream[a])
  PROVE  Batch(a, i, j) \in Works(a) /\ Batch(a, i, j).last = j
<1>1. stream[a] \in Seq(Messages(a))
  BY StreamTypes
<1>2. CASE i <= j
  <2>1. stream[a][i] \in Messages(a)
    BY <1>1, <1>2
  <2>2. Outputs(a, stream[a][i]) \subseteq Messages(a + 1)
    BY <2>1, OutputsType
  <2> QED
    BY <1>2, <2>2 DEF Batch, Works
<1>3. CASE ~ (i <= j)
  BY <1>3 DEF Batch, Works
<1> QED
  BY <1>2, <1>3

\* Nothing of the stream is an output of an entry that is not past.
LEMMA Unpublished ==
  ASSUME Inv, NEW a \in Agents, NEW i \in 1..Len(stream[a]), ~ Past(a, i),
         NEW k \in 1..Len(stream[a + 1])
  PROVE  stream[a + 1][k] \notin Outputs(a, stream[a][i])
<1> SUFFICES ASSUME stream[a + 1][k] \in Outputs(a, stream[a][i]) PROVE FALSE
  OBVIOUS
<1>1. PICK j \in 1..Len(stream[a]) :
        Past(a, j) /\ stream[a + 1][k] \in Outputs(a, stream[a][j])
  BY DEF Inv, Origin
<1>2. stream[a] \in Seq(Messages(a))
  BY StreamTypes DEF Inv
<1>3. stream[a][i] \in Messages(a) /\ stream[a][j] \in Messages(a)
  BY <1>2
<1>4. stream[a][i] = stream[a][j]
  BY <1>1, <1>3, OutputsApart
<1>5. i = j
  <2>1. a \in 1..5
    BY DEF Agents
  <2>2. OneOrderPerEvent
    BY DEF Inv
  <2> QED
    BY <1>4, <2>1, <2>2 DEF OneOrderPerEvent
<1> QED
  BY <1>1, <1>5

-----------------------------------------------------------------------------
(* Type correctness *)

\* A step that gives an agent a new batch, and leaves the streams alone.
LEMMA WorkTypeStep ==
  ASSUME TypeOK, NEW a \in Agents, NEW w \in Works(a), NEW g \in Nat,
         w.last <= g, g <= Len(stream[a]),
         work' = [work EXCEPT ![a] = w], group' = [group EXCEPT ![a] = g],
         stream' = stream, running' \subseteq Agents
  PROVE  TypeOK'
<1>1. group' \in [Agents -> Nat] /\ DOMAIN work' = Agents
  BY DEF TypeOK
<1>2. ASSUME NEW b \in Agents
      PROVE  work'[b] \in Works(b) /\ work'[b].last <= group'[b] /\ group'[b] <= Len(stream'[b])
  <2>1. CASE b = a
    BY <2>1 DEF TypeOK
  <2>2. CASE b # a
    BY <2>2 DEF TypeOK, Works
  <2> QED
    BY <2>1, <2>2
<1> QED
  BY <1>1, <1>2 DEF TypeOK, Works

\* What a publication does to the streams.
LEMMA Published ==
  ASSUME TypeOK, NEW s \in 1..5, NEW m \in Messages(s),
         stream' = [stream EXCEPT ![s] = Append(stream[s], m)]
  PROVE  /\ DOMAIN stream' = 1..5
         /\ \A r \in 1..5 : stream'[r] \in Seq(Messages(r)) /\ Len(stream[r]) \in Nat
         /\ Len(stream'[s]) = Len(stream[s]) + 1 /\ stream'[s][Len(stream[s]) + 1] = m
         /\ \A r \in 1..5 : r # s => stream'[r] = stream[r]
         /\ \A r \in 1..5 : /\ Len(stream[r]) <= Len(stream'[r])
                            /\ \A i \in 1..Len(stream[r]) : stream'[r][i] = stream[r][i]
<1>1. DOMAIN stream = 1..5 /\ \A r \in 1..5 : stream[r] \in Seq(Messages(r))
  BY DEF TypeOK
<1>2. stream'[s] = Append(stream[s], m) /\ DOMAIN stream' = 1..5
  BY <1>1
<1>3. \A r \in 1..5 : r # s => stream'[r] = stream[r]
  BY <1>1
<1>4. /\ Append(stream[s], m) \in Seq(Messages(s))
      /\ Len(Append(stream[s], m)) = Len(stream[s]) + 1 /\ Len(stream[s]) \in Nat
      /\ Append(stream[s], m)[Len(stream[s]) + 1] = m
      /\ \A i \in 1 .. Len(stream[s]) : Append(stream[s], m)[i] = stream[s][i]
  <2>1. stream[s] \in Seq(Messages(s))
    BY <1>1
  <2> HIDE <1>1
  <2> QED
    BY <2>1, AppendFacts
<1>5. ASSUME NEW r \in 1..5
      PROVE  /\ stream'[r] \in Seq(Messages(r)) /\ Len(stream[r]) \in Nat
             /\ Len(stream[r]) <= Len(stream'[r])
             /\ \A i \in 1..Len(stream[r]) : stream'[r][i] = stream[r][i]
  <2>1. CASE r = s
    <3> DEFINE longer == Append(stream[s], m)
    <3>1. stream'[r] = longer
      BY <2>1, <1>2
    <3>2. /\ longer \in Seq(Messages(r)) /\ Len(stream[r]) \in Nat
          /\ Len(longer) = Len(stream[r]) + 1
          /\ \A i \in 1..Len(stream[r]) : longer[i] = stream[r][i]
      BY <2>1, <1>4
    <3>3. Len(stream[r]) <= Len(longer)
      BY <3>2
    <3> HIDE DEF longer
    <3>4. Len(stream[r]) <= Len(stream'[r])
      BY <3>1, <3>3
    <3>5. \A i \in 1..Len(stream[r]) : stream'[r][i] = stream[r][i]
      BY <3>1, <3>2
    <3> QED
      BY <3>1, <3>2, <3>4, <3>5
  <2>2. CASE r # s
    <3>1. stream'[r] = stream[r] /\ stream[r] \in Seq(Messages(r))
      BY <2>2, <1>1, <1>3
    <3> QED
      BY <3>1
  <2> QED
    BY <2>1, <2>2
<1> QED
  BY <1>2, <1>3, <1>4, <1>5

\* A publication leaves the cursor of every group within its stream.
LEMMA PublishedBound ==
  ASSUME TypeOK, NEW s \in 1..5, NEW m \in Messages(s),
         stream' = [stream EXCEPT ![s] = Append(stream[s], m)]
  PROVE  \A a \in Agents : group[a] <= Len(stream'[a])
<1> TAKE a \in Agents
<1>1. a \in 1..5 /\ group[a] \in Nat /\ group[a] <= Len(stream[a])
  BY StreamTypes DEF TypeOK
<1>2. stream'[a] \in Seq(Messages(a)) /\ Len(stream[a]) \in Nat
  BY <1>1, Published
<1>3. Len(stream[a]) <= Len(stream'[a])
  BY <1>1, Published
<1>4. Len(stream'[a]) \in Nat
  BY <1>2
<1> DEFINE before == Len(stream[a])
           after == Len(stream'[a])
<1>5. group[a] <= before /\ before <= after /\ before \in Nat /\ after \in Nat
  BY <1>1, <1>2, <1>3, <1>4
<1> HIDE DEF before, after
<1>6. group[a] <= after
  BY <1>1, <1>5
<1> QED
  BY <1>6 DEF after

\* The event that an ingester publishes.
LEMMA IngestFacts ==
  ASSUME TypeOK, Ingest
  PROVE  LET m == [event |-> Len(stream[Whale]) + 1, strategy |-> NoStrategy]
         IN  m \in Messages(Whale) /\ stream' = [stream EXCEPT ![Whale] = Append(stream[Whale], m)]
<1>1. Len(stream[Whale]) \in Nat
  BY StreamTypes DEF Agents, Whale
<1>2. Len(stream[Whale]) + 1 \in 1..MaxEvents
  BY <1>1, PipelineConstants DEF Ingest
<1> QED
  BY <1>2 DEF Ingest, Messages, Whale, Signal

\* Every step keeps streams, cursors and batches in their types.
LEMMA TypeStep ==
  ASSUME TypeOK, [Next]_vars
  PROVE  TypeOK'
<1>1. CASE Ingest
  <2> DEFINE m == [event |-> Len(stream[Whale]) + 1, strategy |-> NoStrategy]
  <2>1. m \in Messages(Whale) /\ stream' = [stream EXCEPT ![Whale] = Append(stream[Whale], m)]
    BY <1>1, IngestFacts
  <2>2. Whale \in 1..5
    BY DEF Whale
  <2> HIDE DEF m
  <2>3. DOMAIN stream' = 1..5 /\ \A r \in 1..5 : stream'[r] \in Seq(Messages(r))
    BY <2>1, <2>2, Published
  <2>4. UNCHANGED <<group, work, running>>
    BY <1>1 DEF Ingest
  <2>5. \A a \in Agents : group[a] <= Len(stream'[a])
    BY <2>1, <2>2, PublishedBound
  <2> QED
    BY <2>3, <2>4, <2>5 DEF TypeOK
<1>2. CASE Restart
  <2>1. ASSUME NEW a \in Agents
        PROVE  /\ Nothing \in Works(a) /\ Nothing.last <= group[a]
               /\ group[a] <= Len(stream[a])
    BY DEF Nothing, Works, TypeOK
  <2> QED
    BY <1>2, <2>1 DEF Restart, TypeOK, Works
<1>3. ASSUME NEW a \in Agents, ReadStream(a)
      PROVE  TypeOK'
  <2>1. PICK n \in 1..Count :
          /\ group[a] + n <= Len(stream[a])
          /\ group' = [group EXCEPT ![a] = group[a] + n]
          /\ work' = [work EXCEPT ![a] = Batch(a, group[a] + 1, group[a] + n)]
    BY <1>3 DEF ReadStream
  <2>2. group[a] \in Nat /\ n \in Nat
    BY PipelineConstants DEF TypeOK
  <2> DEFINE w == Batch(a, group[a] + 1, group[a] + n)
  <2>3. group[a] + 1 \in Nat \ {0} /\ group[a] + n \in Nat
    BY <2>2
  <2>4. w \in Works(a) /\ w.last = group[a] + n
    BY <2>1, <2>3, BatchType
  <2>5. stream' = stream /\ running' = running /\ running \subseteq Agents
    BY <1>3 DEF ReadStream, TypeOK
  <2>6. work' = [work EXCEPT ![a] = w]
    BY <2>1
  <2> HIDE DEF w
  <2>7. w.last <= group[a] + n
    BY <2>3, <2>4
  <2> QED
    BY <2>1, <2>3, <2>4, <2>5, <2>6, <2>7, WorkTypeStep
<1>4. ASSUME NEW a \in Agents, NEW m \in work[a].todo, Publish(a, m)
      PROVE  TypeOK'
  <2>1. work[a] \in Works(a) /\ m \in Messages(a + 1)
    BY DEF TypeOK, Works
  <2>2. a \in 1..5 /\ a + 1 \in 1..5
    BY DEF Agents
  <2>3. DOMAIN stream' = 1..5 /\ \A r \in 1..5 : stream'[r] \in Seq(Messages(r))
    BY <1>4, <2>1, <2>2, Published DEF Publish
  <2>4. /\ work' = [work EXCEPT ![a].todo = @ \ {m}]
        /\ group' = group /\ running' = running
    BY <1>4 DEF Publish
  <2>5. \A b \in Agents : group[b] <= Len(stream'[b])
    BY <1>4, <2>1, <2>2, PublishedBound DEF Publish
  <2>6. \A b \in Agents : work'[b] \in Works(b) /\ work'[b].last = work[b].last
    BY <2>1, <2>4 DEF TypeOK, Works
  <2>7. DOMAIN work' = Agents
    BY <2>4 DEF TypeOK
  <2> QED
    BY <2>3, <2>4, <2>5, <2>6, <2>7 DEF TypeOK, Works
<1>5. ASSUME NEW a \in Agents, NEW w \in Works(a), w.last <= work[a].last,
             work' = [work EXCEPT ![a] = w], UNCHANGED <<stream, group>>, running' \subseteq running
      PROVE  TypeOK'
  <2>1. /\ w.last \in Nat /\ work[a].last \in Nat /\ group[a] \in Nat
        /\ work[a].last <= group[a] /\ group[a] <= Len(stream[a])
    BY DEF Works, TypeOK
  <2>2. group' = [group EXCEPT ![a] = group[a]] /\ w.last <= group[a]
    BY <1>5, <2>1 DEF TypeOK
  <2> QED
    BY <1>5, <2>1, <2>2, WorkTypeStep DEF TypeOK
<1>6. ASSUME NEW a \in Agents, NEW m \in work[a].todo, Skip(a, m)
      PROVE  TypeOK'
  <2> DEFINE w == [work[a] EXCEPT !.todo = work[a].todo \ {m}]
  <2>1. w \in Works(a)
    BY DEF TypeOK, Works
  <2>2. w.last = work[a].last /\ work[a].last \in Nat
    BY DEF TypeOK
  <2>3. work' = [work EXCEPT ![a] = w] /\ UNCHANGED <<stream, group>> /\ running' \subseteq running
    BY <1>6 DEF Skip
  <2> HIDE DEF w
  <2>4. w.last <= work[a].last
    BY <2>2
  <2> QED
    BY <1>5, <2>1, <2>3, <2>4
<1>7. ASSUME NEW a \in Agents, Ack(a)
      PROVE  TypeOK'
  <2>1. /\ work[a].next \in Nat \ {0} /\ work[a].last \in Nat /\ group[a] \in Nat
        /\ Len(stream[a]) \in Nat /\ work[a].last <= group[a] /\ group[a] <= Len(stream[a])
    BY StreamTypes DEF TypeOK
  <2> DEFINE w == Batch(a, work[a].next + 1, work[a].last)
  <2>2. work[a].next + 1 \in Nat \ {0} /\ work[a].last <= Len(stream[a])
    BY <2>1
  <2>3. w \in Works(a) /\ w.last = work[a].last
    BY <2>1, <2>2, BatchType
  <2>4. work' = [work EXCEPT ![a] = w] /\ UNCHANGED <<stream, group>> /\ running' \subseteq running
    BY <1>7 DEF Ack
  <2> HIDE DEF w
  <2>5. w.last <= work[a].last
    BY <2>1, <2>3
  <2> QED
    BY <1>5, <2>3, <2>4, <2>5
<1>8. ASSUME NEW a \in Agents
      PROVE  Nothing \in Works(a) /\ Nothing.last <= work[a].last
  BY DEF Nothing, Works, TypeOK
<1>9. ASSUME NEW a \in Agents, Fail(a) \/ HealthCheckFails(a)
      PROVE  TypeOK'
  BY <1>5, <1>8, <1>9 DEF Fail, HealthCheckFails
<1>10. CASE UNCHANGED vars
  BY <1>10 DEF vars, TypeOK
<1> QED
  BY <1>1, <1>2, <1>3, <1>4, <1>6, <1>7, <1>9, <1>10 DEF Next, Handle

\* What each agent holds lies within its stream, which holds messages of its
\* kind.
THEOREM TypeCorrect == Spec => []TypeOK
<1>1. Init => TypeOK
  BY DEF Init, TypeOK, Agents, Nothing
<1>2. TypeOK /\ [Next]_vars => TypeOK'
  BY TypeStep
<1> QED
  BY <1>1, <1>2, PTL DEF Spec

-----------------------------------------------------------------------------
(* OneOrderPerEvent *)

\* An agent whose batch and output are left alone keeps its part of the
\* invariant, also when its stream grows.
LEMMA Frame ==
  ASSUME Inv, NEW a \in Agents,
         work'[a] = work[a], group'[a] = group[a], stream'[a + 1] = stream[a + 1],
         Len(stream'[a]) \in Nat, Len(stream[a]) <= Len(stream'[a]),
         \A i \in 1..Len(stream[a]) : stream'[a][i] = stream[a][i]
  PROVE  Origin(a)' /\ Left(a)'
<1>1. Len(stream[a]) \in Nat
  BY StreamTypes DEF Inv
<1>2. Origin(a)'
  <2> SUFFICES ASSUME NEW k \in 1..Len(stream[a + 1])
               PROVE  \E i \in 1..Len(stream'[a]) :
                        Past(a, i)' /\ stream[a + 1][k] \in Outputs(a, stream'[a][i])
    BY DEF Origin, Outputs
  <2>1. PICK i \in 1..Len(stream[a]) :
          Past(a, i) /\ stream[a + 1][k] \in Outputs(a, stream[a][i])
    BY DEF Inv, Origin
  <2>2. i \in 1..Len(stream'[a]) /\ stream'[a][i] = stream[a][i] /\ Past(a, i)'
    BY <2>1, <1>1 DEF Past
  <2> QED
    BY <2>1, <2>2
<1>3. Left(a)'
  <2>1. work[a].todo # {} => work[a].next \in 1..Len(stream[a])
    <3>1. /\ work[a].next \in Nat \ {0} /\ work[a].last \in Nat /\ group[a] \in Nat
          /\ work[a].last <= group[a] /\ group[a] <= Len(stream[a])
      BY DEF Inv, TypeOK
    <3> QED
      BY <1>1, <3>1 DEF Inv, Left
  <2>2. Left(a)
    BY DEF Inv
  <2> QED
    BY <2>1, <2>2 DEF Left, Outputs
<1> QED
  BY <1>2, <1>3

\* A step of one agent that leaves the streams alone.
LEMMA AgentStep ==
  ASSUME Inv, TypeOK', stream' = stream, NEW a \in Agents,
         \A b \in Agents : b # a => work'[b] = work[b] /\ group'[b] = group[b],
         Origin(a)', Left(a)'
  PROVE  Inv'
<1>1. Numbered' /\ OneOrderPerEvent'
  BY DEF Inv, Numbered, OneOrderPerEvent
<1>2. ASSUME NEW b \in Agents, b # a
      PROVE  Origin(b)' /\ Left(b)'
  <2>1. Len(stream[b]) \in Nat
    BY StreamTypes DEF Inv
  <2> QED
    BY <1>2, <2>1, Frame
<1> QED
  BY <1>1, <1>2 DEF Inv

\* Entries never become unpast without a change of the streams.
LEMMA OriginKept ==
  ASSUME Inv, stream' = stream, NEW a \in Agents,
         \A i \in 1..Len(stream[a]) : Past(a, i) => Past(a, i)'
  PROVE  Origin(a)'
<1> SUFFICES ASSUME NEW k \in 1..Len(stream[a + 1])
             PROVE  \E i \in 1..Len(stream[a]) :
                      Past(a, i)' /\ stream[a + 1][k] \in Outputs(a, stream[a][i])
  BY DEF Origin
<1>1. PICK i \in 1..Len(stream[a]) :
        Past(a, i) /\ stream[a + 1][k] \in Outputs(a, stream[a][i])
  BY DEF Inv, Origin
<1> QED
  BY <1>1

\* A batch that begins with an entry that was not past.
LEMMA LeftBegun ==
  ASSUME Inv, stream' = stream, NEW a \in Agents, NEW i \in Nat, NEW j \in Nat,
         work'[a] = Batch(a, i, j), i <= j => i \in 1..Len(stream[a]) /\ ~ Past(a, i)
  PROVE  Left(a)'
<1>1. CASE i <= j
  <2>1. /\ work'[a].todo = Outputs(a, stream[a][i])
        /\ work'[a].next = i /\ work'[a].last = j
    BY <1>1 DEF Batch
  <2>2. \A k \in 1..Len(stream[a + 1]) : stream[a + 1][k] \notin Outputs(a, stream[a][i])
    BY <1>1, Unpublished
  <2>3. work'[a].next <= work'[a].last
    BY <1>1, <2>1
  <2>4. work'[a].todo = Outputs(a, stream'[a][work'[a].next])
    BY <2>1
  <2>5. \A k \in 1..Len(stream'[a + 1]) : stream'[a + 1][k] \notin work'[a].todo
    BY <2>1, <2>2
  <2> QED
    BY <2>3, <2>4, <2>5 DEF Left
<1>2. CASE ~ (i <= j)
  BY <1>2 DEF Left, Batch
<1> QED
  BY <1>1, <1>2

\* What is read lies past the cursor and has no output yet.
LEMMA ReadStreamStep ==
  ASSUME Inv, TypeOK', NEW a \in Agents, ReadStream(a)
  PROVE  Inv'
<1>1. PICK n \in 1..Count :
        /\ group[a] + n <= Len(stream[a])
        /\ group' = [group EXCEPT ![a] = group[a] + n]
        /\ work' = [work EXCEPT ![a] = Batch(a, group[a] + 1, group[a] + n)]
  BY DEF ReadStream
<1>2. group[a] \in Nat /\ n \in Nat \ {0} /\ stream' = stream /\ Len(stream[a]) \in Nat
  <2>1. n \in Nat \ {0}
    BY PipelineConstants
  <2>2. group[a] \in Nat /\ TypeOK
    BY DEF Inv, TypeOK
  <2>3. Len(stream[a]) \in Nat
    BY <2>2, StreamTypes
  <2> QED
    BY <2>1, <2>2, <2>3 DEF ReadStream
<1>3. /\ work'[a] = Batch(a, group[a] + 1, group[a] + n) /\ group'[a] = group[a] + n
      /\ \A b \in Agents : b # a => work'[b] = work[b] /\ group'[b] = group[b]
  BY <1>1 DEF Inv, TypeOK
<1>4. work'[a].next = group[a] + 1 /\ work'[a].last = group[a] + n
  BY <1>3 DEF Batch
<1>5. \A i \in 1..Len(stream[a]) : Past(a, i) => Past(a, i)'
  BY <1>2, <1>3, <1>4 DEF Past
<1>6. Origin(a)'
  BY <1>2, <1>5, OriginKept
<1>7. Left(a)'
  <2>1. group[a] + 1 \in Nat /\ group[a] + n \in Nat /\ group[a] + 1 \in 1..Len(stream[a])
    BY <1>1, <1>2
  <2>2. ~ Past(a, group[a] + 1)
    BY <1>2 DEF Past
  <2> QED
    BY <1>2, <1>3, <2>1, <2>2, LeftBegun
<1> QED
  BY <1>2, <1>3, <1>6, <1>7, AgentStep

\* The next entry of the batch has no output yet.
LEMMA AckStep ==
  ASSUME Inv, TypeOK', NEW a \in Agents, Ack(a)
  PROVE  Inv'
<1>1. /\ work[a].next \in Nat \ {0} /\ work[a].last \in Nat /\ group[a] \in Nat
      /\ work[a].last <= group[a] /\ group[a] <= Len(stream[a]) /\ Len(stream[a]) \in Nat
  BY StreamTypes DEF Inv, TypeOK
<1>2. /\ work'[a] = Batch(a, work[a].next + 1, work[a].last)
      /\ \A b \in Agents : b # a => work'[b] = work[b]
      /\ stream' = stream /\ group' = group
  BY DEF Inv, TypeOK, Ack
<1>3. work'[a].next = work[a].next + 1 /\ work'[a].last = work[a].last
  BY <1>2 DEF Batch
<1>4. \A i \in 1..Len(stream[a]) : Past(a, i) => Past(a, i)'
  BY <1>1, <1>2, <1>3 DEF Past
<1>5. Origin(a)'
  BY <1>2, <1>4, OriginKept
<1>6. Left(a)'
  <2>1. work[a].next + 1 <= work[a].last =>
          work[a].next + 1 \in 1..Len(stream[a]) /\ ~ Past(a, work[a].next + 1)
    BY <1>1 DEF Past
  <2>2. work[a].next + 1 \in Nat
    BY <1>1
  <2> QED
    BY <1>1, <1>2, <2>1, <2>2, LeftBegun
<1> QED
  BY <1>2, <1>5, <1>6, AgentStep

\* The batch is lost.
LEMMA LostStep ==
  ASSUME Inv, TypeOK', NEW a \in Agents, work'[a] = Nothing, group' = group, stream' = stream
  PROVE  Origin(a)' /\ Left(a)'
<1>1. work'[a].next = 1 /\ work'[a].last = 0 /\ work'[a].todo = {}
  BY DEF Nothing
<1>2. \A i \in 1..Len(stream[a]) : Past(a, i) => Past(a, i)'
  BY <1>1 DEF Past
<1>3. Origin(a)'
  BY <1>2, OriginKept
<1> QED
  BY <1>1, <1>3 DEF Left

\* An output that is dropped is not published later.
LEMMA SkipStep ==
  ASSUME Inv, TypeOK', NEW a \in Agents, NEW m \in work[a].todo, Skip(a, m)
  PROVE  Inv'
<1>1. /\ work'[a].next = work[a].next /\ work'[a].last = work[a].last
      /\ work'[a].todo = work[a].todo \ {m}
      /\ \A b \in Agents : b # a => work'[b] = work[b]
      /\ stream' = stream /\ group' = group
  BY DEF Inv, TypeOK, Skip
<1>2. \A i \in 1..Len(stream[a]) : Past(a, i) => Past(a, i)'
  BY <1>1 DEF Past
<1>3. Origin(a)'
  BY <1>1, <1>2, OriginKept
<1>4. Left(a)'
  BY <1>1 DEF Inv, Left, Outputs
<1> QED
  BY <1>1, <1>3, <1>4, AgentStep

\* A message that is not in a stream yet leaves the streams without repetition.
LEMMA StillOnce ==
  ASSUME TypeOK, OneOrderPerEvent, NEW s \in 1..5, NEW m \in Messages(s),
         stream' = [stream EXCEPT ![s] = Append(stream[s], m)],
         \A k \in 1..Len(stream[s]) : stream[s][k] # m
  PROVE  OneOrderPerEvent'
<1>1. /\ Len(stream[s]) \in Nat
      /\ Len(stream'[s]) = Len(stream[s]) + 1 /\ stream'[s][Len(stream[s]) + 1] = m
      /\ \A r \in 1..5 : r # s => stream'[r] = stream[r]
      /\ \A k \in 1..Len(stream[s]) : stream'[s][k] = stream[s][k]
  BY Published
<1> SUFFICES ASSUME NEW r \in 1..5, NEW i \in 1..Len(stream'[r]), NEW j \in 1..Len(stream'[r]),
                    stream'[r][i] = stream'[r][j]
             PROVE  i = j
  BY DEF OneOrderPerEvent
<1>2. CASE r # s
  BY <1>1, <1>2 DEF OneOrderPerEvent
<1>3. CASE r = s /\ i \in 1..Len(stream[s]) /\ j \in 1..Len(stream[s])
  <2>1. stream[s][i] = stream'[s][i] /\ stream[s][j] = stream'[s][j]
    BY <1>1, <1>3
  <2>2. stream[s][i] = stream[s][j]
    BY <1>3, <2>1
  <2> QED
    BY <1>3, <2>2 DEF OneOrderPerEvent
<1>4. CASE r = s /\ (i = Len(stream[s]) + 1 \/ j = Len(stream[s]) + 1)
  <2>1. ASSUME NEW k \in 1..Len(stream[s])
        PROVE  stream'[s][k] # stream'[s][Len(stream[s]) + 1]
    BY <1>1
  <2>2. i \in 1..(Len(stream[s]) + 1) /\ j \in 1..(Len(stream[s]) + 1)
    BY <1>1, <1>4
  <2>3. i # Len(stream[s]) + 1 => i \in 1..Len(stream[s])
    BY <1>1, <2>2
  <2>4. j # Len(stream[s]) + 1 => j \in 1..Len(stream[s])
    BY <1>1, <2>2
  <2> QED
    BY <1>4, <2>1, <2>3, <2>4
<1> QED
  BY <1>1, <1>2, <1>3, <1>4

\* A market event has a number of its own.
LEMMA IngestStep ==
  ASSUME Inv, TypeOK', Ingest
  PROVE  Inv'
<1> DEFINE m == [event |-> Len(stream[Whale]) + 1, strategy |-> NoStrategy]
<1>1. m \in Messages(Whale) /\ stream' = [stream EXCEPT ![Whale] = Append(stream[Whale], m)]
  BY IngestFacts DEF Inv
<1>2. Whale \in 1..5 /\ TypeOK /\ UNCHANGED <<group, work>> /\ Len(stream[Whale]) \in Nat
  BY StreamTypes DEF Whale, Agents, Inv, Ingest
<1>3. \A k \in 1..Len(stream[Whale]) : stream[Whale][k] # m
  <2> TAKE k \in 1..Len(stream[Whale])
  <2>1. stream[Whale][k].event = k /\ m.event = Len(stream[Whale]) + 1
    BY DEF Inv, Numbered
  <2> QED
    BY <1>2, <2>1
<1>4. m.event = Len(stream[Whale]) + 1
  OBVIOUS
<1> HIDE DEF m
<1>5. /\ Len(stream'[Whale]) = Len(stream[Whale]) + 1
      /\ stream'[Whale][Len(stream[Whale]) + 1] = m
      /\ \A r \in 1..5 : r # Whale => stream'[r] = stream[r]
      /\ \A r \in 1..5 : /\ Len(stream[r]) <= Len(stream'[r])
                         /\ \A i \in 1..Len(stream[r]) : stream'[r][i] = stream[r][i]
  BY <1>1, <1>2, Published
<1>6. OneOrderPerEvent'
  BY <1>1, <1>2, <1>3, StillOnce DEF Inv
<1>7. Numbered'
  <2> SUFFICES ASSUME NEW i \in 1..Len(stream'[Whale]) PROVE stream'[Whale][i].event = i
    BY DEF Numbered, Whale
  <2>1. CASE i \in 1..Len(stream[Whale])
    BY <2>1, <1>2, <1>5 DEF Inv, Numbered
  <2>2. CASE i = Len(stream[Whale]) + 1
    BY <2>2, <1>4, <1>5
  <2> QED
    BY <2>1, <2>2, <1>2, <1>5
<1>8. ASSUME NEW a \in Agents
      PROVE  Origin(a)' /\ Left(a)'
  <2>1. a \in 1..5 /\ a + 1 \in 1..5 /\ a + 1 # Whale
    BY DEF Agents, Whale
  <2>2. Len(stream'[a]) \in Nat
    <3>1. \A s \in 1..5 : stream'[s] \in Seq(Messages(s))
      BY <1>1, <1>2, Published
    <3> QED
      BY <2>1, <3>1
  <2>3. stream'[a + 1] = stream[a + 1] /\ Len(stream[a]) <= Len(stream'[a])
        /\ \A i \in 1..Len(stream[a]) : stream'[a][i] = stream[a][i]
    BY <1>5, <2>1
  <2> QED
    BY <1>2, <2>2, <2>3, Frame
<1> QED
  BY <1>6, <1>7, <1>8 DEF Inv

\* What is published is an output left of the current entry, so it is new.
LEMMA PublishStep ==
  ASSUME Inv, TypeOK', NEW a \in Agents, NEW m \in work[a].todo, Publish(a, m)
  PROVE  Inv'
<1>1. stream' = [stream EXCEPT ![a + 1] = Append(stream[a + 1], m)] /\ group' = group
  BY DEF Publish
<1>2. /\ TypeOK /\ a \in 1..5 /\ a + 1 \in 1..5 /\ m \in Messages(a + 1)
      /\ Len(stream[a]) \in Nat /\ Len(stream[a + 1]) \in Nat
  BY StreamTypes DEF Inv, TypeOK
<1>3. /\ work'[a].next = work[a].next /\ work'[a].last = work[a].last
      /\ work'[a].todo = work[a].todo \ {m}
      /\ \A b \in Agents : b # a => work'[b] = work[b]
  BY DEF Inv, TypeOK, Publish
<1>4. /\ Len(stream'[a + 1]) = Len(stream[a + 1]) + 1
      /\ stream'[a + 1][Len(stream[a + 1]) + 1] = m
      /\ \A r \in 1..5 : r # a + 1 => stream'[r] = stream[r]
      /\ \A r \in 1..5 : /\ stream'[r] \in Seq(Messages(r))
                         /\ Len(stream[r]) <= Len(stream'[r])
                         /\ \A i \in 1..Len(stream[r]) : stream'[r][i] = stream[r][i]
  BY <1>1, <1>2, Published
<1>5. OneOrderPerEvent'
  <2>1. \A k \in 1..Len(stream[a + 1]) : stream[a + 1][k] # m
    BY DEF Inv, Left
  <2> QED
    BY <1>1, <1>2, <2>1, StillOnce DEF Inv
<1>6. stream'[a] = stream[a] /\ stream'[Whale] = stream[Whale]
  <2>1. a # a + 1 /\ Whale # a + 1 /\ Whale \in 1..5
    BY DEF Agents, Whale
  <2> QED
    BY <1>2, <1>4, <2>1
<1>7. Numbered'
  BY <1>6 DEF Inv, Numbered, Whale
<1>8. /\ work[a].next \in 1..Len(stream[a]) /\ Past(a, work[a].next)'
      /\ m \in Outputs(a, stream[a][work[a].next])
  <2>1. /\ work[a].next \in Nat \ {0} /\ work[a].last \in Nat /\ group[a] \in Nat
        /\ work[a].last <= group[a] /\ group[a] <= Len(stream[a])
    BY DEF Inv, TypeOK
  <2>2. /\ work[a].next <= work[a].last
        /\ work[a].todo \subseteq Outputs(a, stream[a][work[a].next])
    BY DEF Inv, Left
  <2> QED
    BY <1>1, <1>2, <1>3, <2>1, <2>2 DEF Past
<1>9. Origin(a)'
  <2> SUFFICES ASSUME NEW k \in 1..Len(stream'[a + 1])
               PROVE  \E i \in 1..Len(stream[a]) :
                        Past(a, i)' /\ stream'[a + 1][k] \in Outputs(a, stream[a][i])
    BY <1>6 DEF Origin
  <2>1. CASE k = Len(stream[a + 1]) + 1
    <3>1. stream'[a + 1][k] = m
      BY <2>1, <1>4
    <3>2. PICK i \in 1..Len(stream[a]) : i = work[a].next
      BY <1>8
    <3>3. Past(a, i)' /\ m \in Outputs(a, stream[a][i])
      BY <1>3, <1>8, <3>2 DEF Past
    <3> QED
      BY <3>1, <3>3
  <2>2. CASE k \in 1..Len(stream[a + 1])
    <3>1. PICK i \in 1..Len(stream[a]) :
            Past(a, i) /\ stream[a + 1][k] \in Outputs(a, stream[a][i])
      BY <2>2 DEF Inv, Origin
    <3>2. Past(a, i)' /\ stream'[a + 1][k] = stream[a + 1][k]
      BY <2>2, <3>1, <1>1, <1>2, <1>3, <1>4 DEF Past
    <3> QED
      BY <3>1, <3>2
  <2> QED
    BY <2>1, <2>2, <1>2, <1>4
<1>10. Left(a)'
  <2>1. \A k \in 1..Len(stream'[a + 1]) : stream'[a + 1][k] \notin work'[a].todo
    <3> DEFINE n == Len(stream[a + 1])
    <3>0. n \in Nat /\ Len(stream'[a + 1]) = n + 1
      BY <1>2, <1>4
    <3> TAKE k \in 1..Len(stream'[a + 1])
    <3>1. k = n + 1 \/ k \in 1..n
      <4> HIDE DEF n
      <4> QED
        BY <3>0
    <3>2. CASE k = n + 1
      BY <3>2, <1>3, <1>4
    <3>3. CASE k \in 1..n
      <4>1. stream'[a + 1][k] = stream[a + 1][k]
        BY <3>3, <1>2, <1>4
      <4> QED
        BY <3>3, <4>1, <1>3 DEF Inv, Left
    <3> QED
      BY <3>1, <3>2, <3>3
  <2>2. /\ work[a].next <= work[a].last
        /\ work[a].todo \subseteq Outputs(a, stream[a][work[a].next])
    BY DEF Inv, Left
  <2> QED
    BY <2>1, <2>2, <1>3, <1>6 DEF Left
<1>11. ASSUME NEW b \in Agents, b # a
       PROVE  Origin(b)' /\ Left(b)'
  <2>1. b \in 1..5 /\ b + 1 \in 1..5 /\ b + 1 # a + 1
    BY <1>11 DEF Agents
  <2>2. Len(stream'[b]) \in Nat /\ stream'[b + 1] = stream[b + 1]
    <3>1. stream'[b] \in Seq(Messages(b))
      BY <2>1, <1>4
    <3>2. stream'[b + 1] = stream[b + 1]
      BY <2>1, <1>4
    <3> QED
      BY <3>1, <3>2
  <2> QED
    <3>1. work'[b] = work[b] /\ group'[b] = group[b]
      BY <1>1, <1>3, <1>11
    <3>2. Len(stream[b]) <= Len(stream'[b])
          /\ \A i \in 1..Len(stream[b]) : stream'[b][i] = stream[b][i]
      BY <1>4, <2>1
    <3> QED
      BY <2>2, <3>1, <3>2, Frame
<1> QED
  BY <1>5, <1>7, <1>9, <1>10, <1>11 DEF Inv

\* Every step keeps the invariant.
LEMMA InvStep ==
  ASSUME Inv, [Next]_vars
  PROVE  Inv'
<1>1. TypeOK'
  BY TypeStep DEF Inv
<1>2. CASE Ingest
  BY <1>1, <1>2, IngestStep
<1>3. CASE Restart
  <2>1. /\ \A a \in Agents : work'[a] = Nothing
        /\ group' = group /\ stream' = stream
    BY <1>3 DEF Restart
  <2>2. \A a \in Agents : Origin(a)' /\ Left(a)'
    BY <1>1, <2>1, LostStep
  <2>3. Numbered' /\ OneOrderPerEvent'
    BY <2>1 DEF Inv, Numbered, OneOrderPerEvent
  <2> QED
    BY <1>1, <2>2, <2>3 DEF Inv
<1>4. ASSUME NEW a \in Agents, Fail(a) \/ HealthCheckFails(a)
      PROVE  Inv'
  <2>1. /\ work'[a] = Nothing /\ \A b \in Agents : b # a => work'[b] = work[b]
        /\ group' = group /\ stream' = stream
    BY <1>4 DEF Fail, HealthCheckFails, Inv, TypeOK
  <2>2. Origin(a)' /\ Left(a)'
    BY <1>1, <2>1, LostStep
  <2> QED
    BY <1>1, <2>1, <2>2, AgentStep
<1>5. CASE UNCHANGED vars
  <2>1. stream' = stream /\ group' = group /\ work' = work
    BY <1>5 DEF vars
  <2>2. Numbered' /\ OneOrderPerEvent'
    BY <2>1 DEF Inv, Numbered, OneOrderPerEvent
  <2>3. ASSUME NEW a \in Agents
        PROVE  Origin(a)' /\ Left(a)'
    <3>1. Len(stream[a]) \in Nat
      BY StreamTypes DEF Inv
    <3> QED
      BY <2>1, <3>1, Frame
  <2> QED
    BY <1>1, <2>2, <2>3 DEF Inv
<1> QED
  BY <1>1, <1>2, <1>3, <1>4, <1>5, ReadStreamStep, AckStep, SkipStep, PublishStep
     DEF Next, Handle

\* The initial states satisfy the invariant.
LEMMA InitInv == Init => Inv
<1> SUFFICES ASSUME Init PROVE Inv
  OBVIOUS
<1>1. TypeOK
  BY DEF Init, TypeOK, Agents, Nothing
<1>2. \A s \in 1..5 : Len(stream[s]) = 0
  BY DEF Init
<1>3. Numbered /\ OneOrderPerEvent
  BY <1>2 DEF Numbered, OneOrderPerEvent, Whale
<1>4. ASSUME NEW a \in Agents
      PROVE  Origin(a) /\ Left(a)
  <2>1. a + 1 \in 1..5 /\ work[a].todo = {}
    BY DEF Agents, Init, Nothing
  <2> QED
    BY <1>2, <2>1 DEF Origin, Left
<1> QED
  BY <1>1, <1>3, <1>4 DEF Inv

\* A market event leads to at most one trade per strategy: the agents' batches
\* are lost by failures and restarts, never handled again.
THEOREM OneOrder == Spec => []OneOrderPerEvent
<1>1. Inv /\ [Next]_vars => Inv'
  BY InvStep
<1>2. Inv => OneOrderPerEvent
  BY DEF Inv
<1> QED
  BY <1>1, <1>2, InitInv, PTL DEF Spec

-----------------------------------------------------------------------------
(***************************************************************************)
(* EventsInOrder.  That what an agent publishes is not earlier than what   *)
(* it has published needs two more facts: all that comes from an entry     *)
(* keeps its event (OutputsEvent), and a batch ends where the group stands *)
(* (ToTheCursor), so that no entry behind the batch is past.               *)
(***************************************************************************)

\* A batch that is not finished goes up to the cursor of the group.
ToTheCursor == \A a \in Agents : Reading(a) \/ work[a].last = group[a]

OrderInv == Inv /\ ToTheCursor /\ EventsInOrder

\* What is published goes back to the same market event as what it is for.
LEMMA OutputsEvent ==
  ASSUME NEW a \in Agents, NEW m \in Messages(a), NEW x \in Outputs(a, m)
  PROVE  x.event = m.event /\ m.event \in Int
<1>1. m \in [event : 1..MaxEvents, strategy : IF a <= Signal THEN {NoStrategy} ELSE Strategies]
  BY DEF Messages
<1>2. m.event \in Int
  <2>1. m.event \in 1..MaxEvents
    BY <1>1
  <2> QED
    BY <2>1, PipelineConstants
<1>3. CASE a = Signal
  <2>1. PICK s \in Strategies : x = [m EXCEPT !.strategy = s]
    BY <1>3 DEF Outputs
  <2>2. x.event = m.event
    BY <1>1, <2>1
  <2> QED
    BY <1>2, <2>2
<1>4. CASE a # Signal
  BY <1>2, <1>4 DEF Outputs
<1> QED
  BY <1>3, <1>4

\* The batches still go up to the cursor.
LEMMA CursorStep ==
  ASSUME Inv, ToTheCursor, [Next]_vars
  PROVE  ToTheCursor'
<1> SUFFICES ASSUME NEW b \in Agents
             PROVE  work'[b].next > work'[b].last \/ work'[b].last = group'[b]
  BY DEF ToTheCursor, Reading
<1>1. DOMAIN work = Agents /\ group \in [Agents -> Nat]
  BY DEF Inv, TypeOK
<1>2. work[b].next > work[b].last \/ work[b].last = group[b]
  BY DEF ToTheCursor, Reading
<1>3. CASE work'[b] = work[b] /\ group'[b] = group[b]
  BY <1>2, <1>3
<1>4. CASE work'[b] = Nothing
  BY <1>4 DEF Nothing
<1>5. CASE ReadStream(b)
  <2>1. PICK n \in 1..Count :
          /\ group' = [group EXCEPT ![b] = group[b] + n]
          /\ work' = [work EXCEPT ![b] = Batch(b, group[b] + 1, group[b] + n)]
    BY <1>5 DEF ReadStream
  <2>2. work'[b].last = group[b] + n /\ group'[b] = group[b] + n
    BY <1>1, <2>1 DEF Batch
  <2> QED
    BY <2>2
<1>6. CASE Ack(b)
  <2>1. work'[b].last = work[b].last /\ group'[b] = group[b] /\ ~ Reading(b)
    BY <1>1, <1>6 DEF Ack, Batch
  <2> QED
    BY <1>2, <2>1 DEF Reading
<1>7. ASSUME NEW m \in work[b].todo, Publish(b, m) \/ Skip(b, m)
      PROVE  /\ work'[b].next = work[b].next /\ work'[b].last = work[b].last
             /\ group'[b] = group[b]
  <2>1. work[b] \in Works(b)
    BY DEF Inv, TypeOK, Works
  <2>2. work'[b] = [work[b] EXCEPT !.todo = work[b].todo \ {m}] /\ group' = group
    BY <1>1, <1>7 DEF Publish, Skip
  <2> QED
    BY <2>1, <2>2 DEF Works
<1>8. ASSUME NEW a \in Agents, a # b, ReadStream(a) \/ Handle(a) \/ HealthCheckFails(a)
      PROVE  work'[b] = work[b] /\ group'[b] = group[b]
  BY <1>1, <1>8 DEF ReadStream, Handle, Publish, Skip, Ack, Fail, HealthCheckFails
<1>9. CASE Fail(b) \/ HealthCheckFails(b)
  BY <1>1, <1>4, <1>9 DEF Fail, HealthCheckFails
<1>10. CASE Ingest \/ UNCHANGED vars
  BY <1>3, <1>10 DEF Ingest, vars
<1>11. CASE Restart
  BY <1>4, <1>11 DEF Restart
<1> QED
  BY <1>2, <1>3, <1>5, <1>6, <1>7, <1>8, <1>9, <1>10, <1>11 DEF Next, Handle

\* A message that is not earlier than those before it leaves the streams in
\* order.
LEMMA StillInOrder ==
  ASSUME TypeOK, EventsInOrder, NEW s \in 1..5, NEW m \in Messages(s),
         stream' = [stream EXCEPT ![s] = Append(stream[s], m)],
         \A k \in 1..Len(stream[s]) : stream[s][k].event <= m.event
  PROVE  EventsInOrder'
<1>1. /\ Len(stream[s]) \in Nat
      /\ Len(stream'[s]) = Len(stream[s]) + 1 /\ stream'[s][Len(stream[s]) + 1] = m
      /\ \A r \in 1..5 : r # s => stream'[r] = stream[r]
      /\ \A k \in 1..Len(stream[s]) : stream'[s][k] = stream[s][k]
  BY Published
<1> SUFFICES ASSUME NEW r \in 1..5, NEW i \in 1..Len(stream'[r]), NEW j \in 1..Len(stream'[r]),
                    i < j
             PROVE  stream'[r][i].event <= stream'[r][j].event
  BY DEF EventsInOrder
<1>2. CASE r # s
  BY <1>1, <1>2 DEF EventsInOrder
<1>3. CASE r = s /\ j \in 1..Len(stream[s])
  <2>1. i \in 1..Len(stream[s])
    BY <1>1, <1>3
  <2>2. stream'[r][i] = stream[s][i] /\ stream'[r][j] = stream[s][j]
    BY <1>1, <1>3, <2>1
  <2>3. stream[s][i].event <= stream[s][j].event
    BY <1>3, <2>1 DEF EventsInOrder
  <2> QED
    BY <2>2, <2>3
<1>4. CASE r = s /\ j = Len(stream[s]) + 1
  <2>1. i \in 1..Len(stream[s])
    BY <1>1, <1>4
  <2>2. stream'[r][i] = stream[s][i] /\ stream'[r][j] = m
    BY <1>1, <1>4, <2>1
  <2> QED
    BY <2>1, <2>2
<1> QED
  BY <1>1, <1>2, <1>3, <1>4

\* What an agent publishes is not earlier than what it has published: its entry
\* comes after all that are past.
LEMMA PublishInOrder ==
  ASSUME OrderInv, NEW a \in Agents, NEW m \in work[a].todo, Publish(a, m)
  PROVE  EventsInOrder'
<1>1. stream' = [stream EXCEPT ![a + 1] = Append(stream[a + 1], m)]
  BY DEF Publish
<1>2. /\ TypeOK /\ a \in 1..5 /\ a + 1 \in 1..5 /\ m \in Messages(a + 1)
      /\ stream[a] \in Seq(Messages(a)) /\ Len(stream[a]) \in Nat
  BY StreamTypes DEF OrderInv, Inv, TypeOK
<1> DEFINE n == work[a].next
<1>3. /\ n \in 1..Len(stream[a]) /\ m \in Outputs(a, stream[a][n])
      /\ \A i \in 1..Len(stream[a]) : Past(a, i) => i <= n
  <2>1. /\ n \in Nat \ {0} /\ work[a].last \in Nat /\ group[a] \in Nat
        /\ group[a] <= Len(stream[a])
    BY DEF OrderInv, Inv, TypeOK
  <2>2. n <= work[a].last /\ work[a].todo \subseteq Outputs(a, stream[a][n])
    BY DEF OrderInv, Inv, Left
  <2>3. work[a].last = group[a]
    BY <2>1, <2>2 DEF OrderInv, ToTheCursor, Reading
  <2> QED
    BY <1>2, <2>1, <2>2, <2>3 DEF Past
<1> HIDE DEF n
<1>4. stream[a][n] \in Messages(a)
  BY <1>2, <1>3
<1>5. m.event = stream[a][n].event /\ m.event \in Int
  BY <1>3, <1>4, OutputsEvent
<1>6. ASSUME NEW k \in 1..Len(stream[a + 1])
      PROVE  stream[a + 1][k].event <= m.event
  <2>1. PICK i \in 1..Len(stream[a]) :
          Past(a, i) /\ stream[a + 1][k] \in Outputs(a, stream[a][i])
    BY DEF OrderInv, Inv, Origin
  <2>2. stream[a][i] \in Messages(a)
    BY <1>2
  <2>3. stream[a + 1][k].event = stream[a][i].event
    BY <2>1, <2>2, OutputsEvent
  <2>4. i <= n
    BY <1>3, <2>1
  <2>5. stream[a][i].event <= stream[a][n].event
    <3>1. CASE i = n
      BY <1>5, <3>1
    <3>2. CASE i < n
      BY <1>2, <1>3, <3>2 DEF OrderInv, EventsInOrder
    <3> QED
      BY <1>3, <2>4, <3>1, <3>2
  <2> QED
    BY <1>5, <2>3, <2>5
<1> QED
  BY <1>1, <1>2, <1>6, StillInOrder DEF OrderInv

\* Every step keeps the streams in order.
LEMMA OrderStep ==
  ASSUME OrderInv, [Next]_vars
  PROVE  OrderInv'
<1>1. Inv' /\ ToTheCursor'
  BY InvStep, CursorStep DEF OrderInv
<1>2. CASE Ingest
  <2> DEFINE m == [event |-> Len(stream[Whale]) + 1, strategy |-> NoStrategy]
  <2>1. m \in Messages(Whale) /\ stream' = [stream EXCEPT ![Whale] = Append(stream[Whale], m)]
    BY <1>2, IngestFacts DEF OrderInv, Inv
  <2>2. Whale \in 1..5 /\ TypeOK /\ Len(stream[Whale]) \in Nat
    BY StreamTypes DEF Whale, Agents, OrderInv, Inv
  <2>3. \A k \in 1..Len(stream[Whale]) : stream[Whale][k].event <= m.event
    BY <2>2 DEF OrderInv, Inv, Numbered
  <2> HIDE DEF m
  <2>4. EventsInOrder'
    BY <2>1, <2>2, <2>3, StillInOrder DEF OrderInv
  <2> QED
    BY <1>1, <2>4 DEF OrderInv
<1>3. ASSUME NEW a \in Agents, NEW m \in work[a].todo, Publish(a, m)
      PROVE  OrderInv'
  BY <1>1, <1>3, PublishInOrder DEF OrderInv
<1>4. CASE stream' = stream
  BY <1>1, <1>4 DEF OrderInv, EventsInOrder
<1> QED
  BY <1>2, <1>3, <1>4 DEF Next, Handle, Restart, ReadStream, Skip, Ack, Fail,
     HealthCheckFails, vars

\* Orders are placed in the order of the market: on no stream does a message
\* of an earlier event come after one of a later event, whatever is dropped.
THEOREM InOrder == Spec => []EventsInOrder
<1>1. Init => OrderInv
  BY InitInv DEF Init, OrderInv, ToTheCursor, EventsInOrder, Reading, Nothing
<1>2. OrderInv /\ [Next]_vars => OrderInv'
  BY OrderStep
<1>3. OrderInv => EventsInOrder
  BY DEF OrderInv
<1> QED
  BY <1>1, <1>2, <1>3, PTL DEF Spec

-----------------------------------------------------------------------------
(***************************************************************************)
(* An agent whose group the registry does not list reads nothing, and so   *)
(* no agent behind it ever has anything to do.                             *)
(***************************************************************************)
Unread == \A a \in Agents \ Admitted : group[a] = 0

Unreached == \A a \in Agents \ Admitted, b \in Agents : b >= a => stream[b + 1] = << >>

\* The cursor of an unlisted group stays where it is.
LEMMA UnreadStep ==
  ASSUME TypeOK, Unread, [Next]_vars
  PROVE  Unread'
<1> SUFFICES ASSUME NEW b \in Agents \ Admitted
             PROVE  group'[b] = group[b]
  BY DEF Unread
<1>1. ASSUME NEW a \in Agents, ReadStream(a)
      PROVE  group'[b] = group[b]
  <2>1. a # b
    BY <1>1 DEF ReadStream, Subscribed
  <2> QED
    BY <1>1, <2>1 DEF ReadStream, TypeOK
<1>2. CASE group' = group
  BY <1>2
<1> QED
  BY <1>1, <1>2 DEF Next, Handle, Ingest, Restart, Publish, Skip, Ack, Fail,
     HealthCheckFails, vars

\* An agent that has read nothing has published nothing.
LEMMA NothingPublished ==
  ASSUME Inv, NEW a \in Agents, group[a] = 0
  PROVE  stream[a + 1] = << >>
<1>1. \A k \in 1..Len(stream[a + 1]) : FALSE
  <2> TAKE k \in 1..Len(stream[a + 1])
  <2>1. PICK i \in 1..Len(stream[a]) : Past(a, i)
    BY DEF Inv, Origin
  <2> QED
    BY <2>1, StreamTypes DEF Inv, Past
<1>2. stream[a + 1] \in Seq(Messages(a + 1)) /\ Len(stream[a + 1]) \in Nat
  BY StreamTypes DEF Inv
<1>3. Len(stream[a + 1]) = 0
  BY <1>1, <1>2
<1> QED
  BY <1>2, <1>3

\* One group that core/stream_registry.py leaves out, and no agent from there
\* to the end publishes anything: no order is ever created.
THEOREM OneUnlistedStopsAll == Spec => []Unreached
<1>1. Init => Unread
  BY DEF Init, Unread
<1>2. Inv /\ Unread /\ [Next]_vars => Inv' /\ Unread'
  BY InvStep, UnreadStep DEF Inv
<1>3. Inv /\ Unread => Unreached
  <2> SUFFICES ASSUME Inv, Unread, NEW a \in Agents \ Admitted
               PROVE  \A b \in Agents : b >= a => stream[b + 1] = << >>
    BY DEF Unreached
  <2>1. \A b \in Agents : group[b] = 0 => stream[b + 1] = << >>
    BY NothingPublished
  <2>2. \A b \in Agents : stream[b] = << >> => group[b] = 0
    BY DEF Inv, TypeOK
  <2>3. group[a] = 0
    BY DEF Unread
  <2>4. a \in 1..4 /\ stream[a + 1] = << >>
    BY <2>1, <2>3 DEF Agents
  <2>5. \A b \in Agents : b + 1 \in Agents /\ stream[b + 1] = << >> => stream[b + 2] = << >>
    <3> SUFFICES ASSUME NEW b \in Agents, b + 1 \in Agents, stream[b + 1] = << >>
                 PROVE  stream[b + 2] = << >>
      OBVIOUS
    <3>1. group[b + 1] = 0
      BY <2>2
    <3>2. b + 2 = (b + 1) + 1
      BY DEF Agents
    <3> QED
      BY <2>1, <3>1, <3>2
  <2> QED
    BY <2>4, <2>5 DEF Agents
<1> QED
  BY <1>1, <1>2, <1>3, InitInv, PTL DEF Spec

=============================================================================
