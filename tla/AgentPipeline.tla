---------------------------- MODULE AgentPipeline ----------------------------
(***************************************************************************)
(* The chain of agents of agents/: the whale agent reads market:data, the  *)
(* signal agent wallet:trade, the risk agent signal:generated, the         *)
(* execution agent trade:request.  Each reads new entries of its stream    *)
(* through a consumer group that Redis keeps (core/events.py), handles     *)
(* them one by one, publishes on the next stream and acknowledges.         *)
(*                                                                         *)
(* No agent ever reads its pending entries again, and the task named for   *)
(* their recovery (main.py: _periodic_pel_recovery) does not touch them:   *)
(* a batch that an exception or a restart interrupts is lost.              *)
(*                                                                         *)
(* SHADOW_MODE and FORCE_TRADING_DISABLED have their default, False.       *)
(***************************************************************************)
EXTENDS Integers, Sequences

CONSTANTS
  Strategies,   \* what the signal agent runs: all, or the ensemble alone
  NoStrategy,   \* of a message that no strategy has seen yet
  Admitted,     \* agents whose group core/stream_registry.py lists
  Count,        \* entries asked for in one read (10)
  MaxEvents     \* bound: market events published

Agents == 1..4
Whale == 1
Signal == 2
Execution == 4

ASSUME PipelineConstants ==
  /\ Count \in Nat \ {0}
  /\ MaxEvents \in Nat
  /\ NoStrategy \notin Strategies
  /\ Admitted \subseteq Agents

VARIABLES
  stream,   \* by agent: what it reads; stream[5] is the calls of create_trade
  group,    \* by agent: last-delivered-id of its consumer group
  work,     \* by agent: the batch in memory
  running   \* agents whose loop runs

vars == <<stream, group, work, running>>

\* The market event a message goes back to, and the strategy.
Messages(s) ==
  [event : 1..MaxEvents, strategy : IF s <= Signal THEN {NoStrategy} ELSE Strategies]

\* What handling a message may publish: a signal per strategy, or a message
\* for the message.
Outputs(a, m) ==
  IF a = Signal THEN {[m EXCEPT !.strategy = s] : s \in Strategies} ELSE {m}

\* Entries next..last are still to be handled, todo is what is left of next.
Batch(a, i, j) ==
  [next |-> i, last |-> j, todo |-> IF i <= j THEN Outputs(a, stream[a][i]) ELSE {}]
Nothing == [next |-> 1, last |-> 0, todo |-> {}]
Reading(a) == work[a].next > work[a].last

Init ==
  /\ stream = [s \in 1..5 |-> <<>>]
  /\ group = [a \in Agents |-> 0]
  /\ work = [a \in Agents |-> Nothing]
  /\ running \in SUBSET Agents

\* An ingester publishes a market event.
Ingest ==
  /\ Len(stream[Whale]) < MaxEvents
  /\ stream' = [stream EXCEPT ![Whale] =
       Append(@, [event |-> Len(@) + 1, strategy |-> NoStrategy])]
  /\ UNCHANGED <<group, work, running>>

-----------------------------------------------------------------------------
(* The loop of an agent *)

\* Mutant: the registry lacks the execution agent's group.
Subscribed_NotExecution(a) == a \in Admitted \ {Execution}

\* EventBus.subscribe_to_stream raises when the registry has a stream and does
\* not list the group; the loop logs it, sleeps and tries again.
Subscribed(a) == a \in Admitted

\* Mutant: pending entries are read again, those of the lost batch too.
ReadStream_Pending(a) ==
  /\ a \in running /\ Subscribed(a) /\ Reading(a)
  /\ \E n \in 1..Count, k \in {0, 1} :
       /\ group[a] - k >= 0
       /\ group[a] - k + n <= Len(stream[a])
       /\ group' = [group EXCEPT ![a] = @ - k + n]
       /\ work' = [work EXCEPT ![a] = Batch(a, group[a] - k + 1, group[a] - k + n)]
  /\ UNCHANGED <<stream, running>>

\* EventBus.read_stream: XREADGROUP with ">" moves the group past what it
\* delivers.
ReadStream(a) ==
  /\ a \in running /\ Subscribed(a) /\ Reading(a)
  /\ \E n \in 1..Count :
       /\ group[a] + n <= Len(stream[a])
       /\ group' = [group EXCEPT ![a] = @ + n]
       /\ work' = [work EXCEPT ![a] = Batch(a, group[a] + 1, group[a] + n)]
  /\ UNCHANGED <<stream, running>>

\* Mutant: the message is put before those that wait.
Publish_First(a, m) ==
  /\ m \in work[a].todo
  /\ stream' = [stream EXCEPT ![a + 1] = <<m>> \o @]
  /\ work' = [work EXCEPT ![a].todo = @ \ {m}]
  /\ UNCHANGED <<group, running>>

\* The handler publishes: a wallet's trade, a strategy's signal, the risk
\* check's approval; or the execution agent calls create_trade.
Publish(a, m) ==
  /\ m \in work[a].todo
  /\ stream' = [stream EXCEPT ![a + 1] = Append(@, m)]
  /\ work' = [work EXCEPT ![a].todo = @ \ {m}]
  /\ UNCHANGED <<group, running>>

\* It does not: not a trade, no signal, rejected, invalid, or an error that
\* the whale agent and _process_strategy keep to themselves.
Skip(a, m) ==
  /\ m \in work[a].todo
  /\ work' = [work EXCEPT ![a].todo = @ \ {m}]
  /\ UNCHANGED <<stream, group, running>>

\* EventBus.ack_message, and on to the next entry.
Ack(a) ==
  /\ ~ Reading(a) /\ work[a].todo = {}
  /\ work' = [work EXCEPT ![a] = Batch(a, @.next + 1, @.last)]
  /\ UNCHANGED <<stream, group, running>>

\* An exception ends the pass.  The whale agent's handler catches its own, but
\* not that of the acknowledgement.
Fail(a) ==
  /\ ~ Reading(a)
  /\ a = Whale => work[a].todo = {}
  /\ work' = [work EXCEPT ![a] = Nothing]
  /\ UNCHANGED <<stream, group, running>>

\* BaseAgent._health_check does not catch a failed publication: gather raises
\* and stop() cancels the loop.
HealthCheckFails(a) ==
  /\ a \in running
  /\ running' = running \ {a}
  /\ work' = [work EXCEPT ![a] = Nothing]
  /\ UNCHANGED <<stream, group>>

\* Orchestrator.start_all in a new process: it starts nobody when the mode
\* does not allow it, and an agent whose first event cannot be published stays
\* down.
Restart ==
  /\ running' \in SUBSET Agents
  /\ work' = [a \in Agents |-> Nothing]
  /\ UNCHANGED <<stream, group>>

-----------------------------------------------------------------------------
Handle(a) ==
  \/ \E m \in work[a].todo : Publish(a, m) \/ Skip(a, m)
  \/ Ack(a) \/ Fail(a)

Next ==
  \/ Ingest \/ Restart
  \/ \E a \in Agents : ReadStream(a) \/ Handle(a) \/ HealthCheckFails(a)

Spec == Init /\ [][Next]_vars

\* A running loop goes on: every await of a pass ends, with an error if it
\* must (socket timeouts), and a pass is followed by the next one.
FairSpec ==
  /\ Spec
  /\ \A a \in Agents : WF_vars(ReadStream(a)) /\ WF_vars(Handle(a))

-----------------------------------------------------------------------------
\* Messages carry a strategy from the signal agent on, and a batch lies within
\* what the group has delivered.
TypeOK ==
  /\ DOMAIN stream = 1..5 /\ \A s \in 1..5 : stream[s] \in Seq(Messages(s))
  /\ group \in [Agents -> Nat]
  /\ DOMAIN work = Agents
  /\ \A a \in Agents :
       /\ work[a] \in [next : Nat \ {0}, last : Nat, todo : SUBSET Messages(a + 1)]
       /\ work[a].last <= group[a]
       /\ group[a] <= Len(stream[a])
  /\ running \subseteq Agents

\* A market event leads to at most one trade per strategy, and to at most one
\* message per strategy on each stream on the way: neither a failure in the
\* middle of a batch nor a restart makes an agent handle an entry again.
OneOrderPerEvent ==
  \A s \in 1..5 : \A i, j \in 1..Len(stream[s]) :
    stream[s][i] = stream[s][j] => i = j

\* Orders are placed in the order of the market: on no stream does a message of
\* an earlier event come after one of a later event, although batches are cut
\* short by failures and restarts, entries are dropped, and each agent is ahead
\* of the next by any number of entries.
EventsInOrder ==
  \A s \in 1..5 : \A i, j \in 1..Len(stream[s]) :
    i < j => stream[s][i].event <= stream[s][j].event

\* docs/solana_architecture_v1.md draws the chain from market:data through the
\* four agents to the exchange.  Every message is delivered to the agent it is
\* meant for, as long as that agent runs: a poisoned batch does not hold up the
\* ones behind it.
EveryMessageDelivered ==
  \A a \in Agents, i \in 1..MaxEvents :
    (Len(stream[a]) >= i) ~> (group[a] >= i \/ a \notin running)

=============================================================================
