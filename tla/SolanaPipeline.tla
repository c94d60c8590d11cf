--------------------------- MODULE SolanaPipeline ---------------------------
(***************************************************************************)
(* From a Helius webhook to the two consumers of solana:trade:detected:    *)
(* services/helius_service.py writes the trade and publishes an event,     *)
(* main.py's smart-wallet and signal-seed loops consume it through a       *)
(* consumer group each, and what cannot be published or handled goes to    *)
(* the stream solana:dlq:events, which a fourth task replays.              *)
(*                                                                         *)
(* The database and Redis survive a restart of the process, the requests   *)
(* in flight, the batches being worked on and the signal cooldowns do not. *)
(* The model covers one cooldown period (COOLDOWN_SECONDS), with swaps of  *)
(* one wallet whose score is above SOLANA_HIGH_SCORE_THRESHOLD.            *)
(***************************************************************************)
EXTENDS Integers, Sequences, FiniteSets

CONSTANTS
  Txs,         \* signatures of the swaps Helius reports, each any number of times
  Requests,    \* webhook requests served at a time
  BatchSize,   \* count of read_stream (10)
  MaxRetries,  \* _DLQ_MAX_RETRIES (3)
  MaxFaults,   \* bound: calls that raise
  MaxLosses    \* bound: restarts, and failures the code has no answer to

ASSUME PipelineConstants ==
  /\ BatchSize \in Nat \ {0}
  /\ MaxRetries \in Nat
  /\ MaxFaults \in Nat
  /\ MaxLosses \in Nat

Wallets == "smart_wallet_agent"       \* the consumer groups of the stream
Signals == "research_trade_worker"
Groups == {Wallets, Signals}

VARIABLES
  stored,     \* tx_signature column of solana_wallet_trades (unique)
  request,    \* what each webhook request is about to do
  stream,     \* solana:trade:detected, oldest first
  delivered,  \* by group: last-delivered-id
  handled,    \* by group: the batch in memory is handled + 1 .. delivered
  pending,    \* by group: ids read and not acknowledged
  applied,    \* by group and trade: how often the handler's effect was committed
  cooling,    \* the batch's SignalSeedService has seeded a signal
  seeds,      \* research trades seeded for the wallet
  dlq,        \* solana:dlq:events
  replayer,   \* whether the replay loop is about to delete the head of dlq
  poison,     \* solana:dlq:poison
  faults, losses

vars == <<stored, request, stream, delivered, handled, pending, applied,
          cooling, seeds, dlq, replayer, poison, faults, losses>>
redis == <<stream, delivered, pending, dlq, poison>>
consumers == <<handled, applied, cooling, seeds>>

Idle == [pc |-> "idle"]

Init ==
  /\ stored = {}
  /\ request = [q \in Requests |-> Idle]
  /\ stream = << >>
  /\ delivered = [g \in Groups |-> 0] /\ handled = [g \in Groups |-> 0]
  /\ pending = [g \in Groups |-> {}]
  /\ applied = [g \in Groups |-> [t \in Txs |-> 0]]
  /\ cooling = FALSE /\ seeds = 0
  /\ dlq = << >> /\ replayer = "idle" /\ poison = {}
  /\ faults = 0 /\ losses = 0

\* A call raises; a failure after which the code carries on.
Fault == faults < MaxFaults /\ faults' = faults + 1 /\ UNCHANGED losses
NoFault == UNCHANGED <<faults, losses>>

\* An entry of the dead-letter stream: `retries` is its field _retry_count
\* (0: absent), `tries` counts the replays that have really failed.
Fresh(t) == [tx |-> t, retries |-> 0, tries |-> 0]

-----------------------------------------------------------------------------
(* HeliusService.process_transaction *)

Lookup(q, t) ==
  /\ request[q] = Idle
  /\ t \notin stored
  /\ request' = [request EXCEPT ![q] = [pc |-> "insert", tx |-> t]]
  /\ UNCHANGED <<stored, redis, consumers, replayer>> /\ NoFault

\* Mutant: an existing row is taken for the one just created.
Insert_Upsert(q) ==
  /\ request[q].pc = "insert"
  /\ stored' = stored \cup {request[q].tx}
  /\ request' = [request EXCEPT ![q].pc = "publish"]
  /\ UNCHANGED <<redis, consumers, replayer>> /\ NoFault

\* create_trade: the loser of a race gets an IntegrityError, a 500 response.
Insert(q) ==
  /\ request[q].pc = "insert"
  /\ LET t == request[q].tx IN
       IF t \in stored
       THEN request' = [request EXCEPT ![q] = Idle] /\ UNCHANGED stored
       ELSE /\ stored' = stored \cup {t}
            /\ request' = [request EXCEPT ![q].pc = "publish"]
  /\ UNCHANGED <<redis, consumers, replayer>> /\ NoFault

Publish(q) ==
  /\ request[q].pc = "publish"
  /\ stream' = Append(stream, request[q].tx)
  /\ request' = [request EXCEPT ![q] = Idle]
  /\ UNCHANGED <<stored, delivered, pending, dlq, poison, consumers, replayer>> /\ NoFault

\* Mutant: the failure is logged and nothing else.
PublishFails_LogsOnly(q) ==
  /\ request[q].pc = "publish"
  /\ request' = [request EXCEPT ![q] = Idle]
  /\ Fault
  /\ UNCHANGED <<stored, redis, consumers, replayer>>

\* EventBus.publish raises, before or after Redis has added the entry.
PublishFails(q) ==
  /\ request[q].pc = "publish"
  /\ stream' \in {stream, Append(stream, request[q].tx)}
  /\ dlq' = Append(dlq, Fresh(request[q].tx))
  /\ request' = [request EXCEPT ![q] = Idle]
  /\ Fault
  /\ UNCHANGED <<stored, delivered, pending, poison, consumers, replayer>>

-----------------------------------------------------------------------------
(* _smart_wallet_agent_loop, _signal_seed_worker_loop *)

\* Mutant: the messages are acknowledged as they are read.
ReadBatch_Acks(g) ==
  /\ handled[g] = delivered[g]
  /\ delivered[g] < Len(stream)
  /\ delivered' = [delivered EXCEPT ![g] =
       IF @ + BatchSize < Len(stream) THEN @ + BatchSize ELSE Len(stream)]
  /\ cooling' = IF g = Signals THEN FALSE ELSE cooling
  /\ UNCHANGED <<stored, request, stream, pending, handled, applied, seeds, dlq, replayer,
                 poison>>
  /\ NoFault

\* xreadgroup with ">": only entries no consumer of the group has been given.
\* A new SignalSeedService, with no cooldowns, is made for every batch.
ReadBatch(g) ==
  /\ handled[g] = delivered[g]
  /\ delivered[g] < Len(stream)
  /\ LET last == IF delivered[g] + BatchSize < Len(stream)
                 THEN delivered[g] + BatchSize ELSE Len(stream) IN
       /\ delivered' = [delivered EXCEPT ![g] = last]
       /\ pending' = [pending EXCEPT ![g] = @ \cup (delivered[g] + 1 .. last)]
  /\ cooling' = IF g = Signals THEN FALSE ELSE cooling
  /\ UNCHANGED <<stored, request, stream, handled, applied, seeds, dlq, replayer, poison>>
  /\ NoFault

\* handle_trade_event adds one to the wallet's total_trades;
\* evaluate_trade_event seeds a signal unless the wallet is cooling down.
Effect(g, t) ==
  /\ applied' = [applied EXCEPT ![g][t] = @ + 1]
  /\ IF g = Signals
     THEN /\ seeds' = IF cooling THEN seeds ELSE seeds + 1
          /\ cooling' = TRUE
     ELSE UNCHANGED <<seeds, cooling>>

\* The next message of the batch, and its acknowledgement.
Ack(g) ==
  /\ handled[g] < delivered[g]
  /\ handled' = [handled EXCEPT ![g] = @ + 1]
  /\ pending' = [pending EXCEPT ![g] = @ \ {handled[g] + 1}]

Consume(g) ==
  /\ Ack(g)
  /\ Effect(g, stream[handled[g] + 1])
  /\ UNCHANGED <<stored, request, stream, delivered, dlq, replayer, poison>> /\ NoFault

\* The handler raises, before or after its commit: the message is copied to
\* the dead-letter stream and acknowledged all the same.  A cooldown starts
\* before the signal it is for is written, so it may outlive the failure.
ConsumeFails(g) ==
  /\ Ack(g)
  /\ \/ Effect(g, stream[handled[g] + 1])
     \/ /\ UNCHANGED <<applied, seeds>>
        /\ cooling' \in {cooling, cooling \/ g = Signals}
  /\ dlq' = Append(dlq, Fresh(stream[handled[g] + 1]))
  /\ Fault
  /\ UNCHANGED <<stored, request, stream, delivered, replayer, poison>>

-----------------------------------------------------------------------------
(* _solana_dlq_replay_loop: xread from id 0, so always the oldest entry *)

\* Mutant: the entry is set aside one retry early.
Poison_OneEarly ==
  /\ dlq # << >> /\ replayer = "idle"
  /\ Head(dlq).retries + 1 >= MaxRetries
  /\ poison' = poison \cup {Head(dlq).tx}
  /\ replayer' = "delete"
  /\ UNCHANGED <<stored, request, stream, delivered, pending, dlq, consumers>> /\ NoFault

\* An entry that has used up its retries is set aside.
Poison ==
  /\ dlq # << >> /\ replayer = "idle"
  /\ Head(dlq).retries >= MaxRetries
  /\ poison' = poison \cup {Head(dlq).tx}
  /\ replayer' = "delete"
  /\ UNCHANGED <<stored, request, stream, delivered, pending, dlq, consumers>> /\ NoFault

\* The event goes back to the stream: every group will see it, not only the
\* one that failed.
Republish ==
  /\ dlq # << >> /\ replayer = "idle"
  /\ Head(dlq).retries < MaxRetries
  /\ stream' = Append(stream, Head(dlq).tx)
  /\ replayer' = "delete"
  /\ UNCHANGED <<stored, request, delivered, pending, dlq, poison, consumers>> /\ NoFault

\* {"_retry_count": str(retry_count + 1), **data}: a _retry_count that data
\* already has is spread last and wins.
Requeued(e) ==
  [tx |-> e.tx, retries |-> IF e.retries = 0 THEN 1 ELSE e.retries, tries |-> e.tries + 1]

RepublishFails ==
  /\ dlq # << >> /\ replayer = "idle"
  /\ Head(dlq).retries < MaxRetries
  /\ stream' \in {stream, Append(stream, Head(dlq).tx)}
  /\ dlq' = Append(dlq, Requeued(Head(dlq)))
  /\ replayer' = "delete"
  /\ Fault
  /\ UNCHANGED <<stored, request, delivered, pending, poison, consumers>>

\* Mutant: the loop goes on deleting.
Delete_NoReset ==
  /\ replayer = "delete"
  /\ dlq' = Tail(dlq)
  /\ UNCHANGED <<stored, request, stream, delivered, pending, poison, consumers, replayer>>
  /\ NoFault

\* Mutant: the deletion takes every entry of the same event.
Delete_ByEvent ==
  /\ replayer = "delete"
  /\ dlq' = SelectSeq(dlq, LAMBDA e : e.tx # Head(dlq).tx)
  /\ replayer' = "idle"
  /\ UNCHANGED <<stored, request, stream, delivered, pending, poison, consumers>> /\ NoFault

\* xdel, once the entry's event is elsewhere.
Delete ==
  /\ replayer = "delete"
  /\ dlq' = Tail(dlq)
  /\ replayer' = "idle"
  /\ UNCHANGED <<stored, request, stream, delivered, pending, poison, consumers>> /\ NoFault

\* xdel raises, or the xadd before it: the loop starts again at the head.
ReplayAborts ==
  /\ replayer = "delete"
  /\ replayer' = "idle"
  /\ Fault
  /\ UNCHANGED <<stored, request, redis, consumers>>

-----------------------------------------------------------------------------
(* What the code has no answer to *)

Loss == losses < MaxLosses /\ losses' = losses + 1 /\ UNCHANGED faults

\* Publishing fails and so does the push to the dead-letter stream.
PublishLost(q) ==
  /\ request[q].pc = "publish"
  /\ request' = [request EXCEPT ![q] = Idle]
  /\ Loss
  /\ UNCHANGED <<stored, redis, consumers, replayer>>

\* The handler fails and the push to the dead-letter stream with it.
ConsumeLost(g) ==
  /\ Ack(g)
  /\ Loss
  /\ UNCHANGED <<stored, request, stream, delivered, applied, cooling, seeds, dlq,
                 replayer, poison>>

\* xack raises, before or after Redis has done it and whether the message was
\* handled or copied: the loop reconnects and drops the rest of its batch.
AckFails(g) ==
  /\ handled[g] < delivered[g]
  /\ \/ Effect(g, stream[handled[g] + 1]) /\ UNCHANGED dlq
     \/ /\ UNCHANGED <<applied, cooling, seeds>>
        /\ dlq' = Append(dlq, Fresh(stream[handled[g] + 1]))
  /\ pending' \in {pending, [pending EXCEPT ![g] = @ \ {handled[g] + 1}]}
  /\ handled' = [handled EXCEPT ![g] = delivered[g]]
  /\ Loss
  /\ UNCHANGED <<stored, request, stream, delivered, poison, replayer>>

\* Mutant: the groups are created again, at the end of the stream.
Restart_FromEnd ==
  /\ request' = [q \in Requests |-> Idle]
  /\ handled' = [g \in Groups |-> Len(stream)]
  /\ delivered' = [g \in Groups |-> Len(stream)]
  /\ cooling' = FALSE
  /\ replayer' = "idle"
  /\ Loss
  /\ UNCHANGED <<stored, stream, pending, dlq, poison, applied, seeds>>

\* A restart: nothing reads the pending entries of the groups again.
Restart ==
  /\ request' = [q \in Requests |-> Idle]
  /\ handled' = delivered
  /\ cooling' = FALSE
  /\ replayer' = "idle"
  /\ Loss
  /\ UNCHANGED <<stored, redis, applied, seeds>>

-----------------------------------------------------------------------------
Serve(q) == Insert(q) \/ Publish(q)
Work(g) == ReadBatch(g) \/ Consume(g)
Replay == Poison \/ Republish \/ Delete

Next ==
  \/ \E q \in Requests :
       \/ \E t \in Txs : Lookup(q, t)
       \/ Serve(q)
       \/ PublishFails(q)
       \/ PublishLost(q)
  \/ \E g \in Groups : Work(g) \/ ConsumeFails(g) \/ ConsumeLost(g) \/ AckFails(g)
  \/ Replay
  \/ RepublishFails
  \/ ReplayAborts
  \/ Restart

Spec == Init /\ [][Next]_vars

\* Requests finish and the three loops run for ever.
FairSpec ==
  /\ Spec
  /\ \A q \in Requests : WF_vars(Serve(q))
  /\ \A g \in Groups : WF_vars(Work(g))
  /\ WF_vars(Replay)

-----------------------------------------------------------------------------
Entry == [tx : Txs, retries : Nat, tries : Nat]

\* The rows, streams and cursors have the types of the tables and of Redis,
\* and the replay loop deletes only while there is an entry to delete.
TypeOK ==
  /\ stored \subseteq Txs
  /\ request \in [Requests -> {Idle} \cup [pc : {"insert", "publish"}, tx : Txs]]
  /\ stream \in Seq(Txs)
  /\ delivered \in [Groups -> Nat] /\ handled \in [Groups -> Nat]
  /\ pending \in [Groups -> SUBSET Nat]
  /\ applied \in [Groups -> [Txs -> Nat]]
  /\ cooling \in BOOLEAN /\ seeds \in Nat
  /\ dlq \in Seq(Entry)
  /\ replayer \in {"idle", "delete"}
  /\ replayer = "delete" => dlq # << >>
  /\ poison \subseteq Txs
  /\ faults \in Nat /\ losses \in Nat

\* Where an event still is: with its publisher, in the dead-letter stream,
\* set aside as poison, or ahead of the group in the stream.
Publishing(t) == \E q \in Requests : request[q].pc = "publish" /\ request[q].tx = t
DeadLettered(t) == \E i \in 1 .. Len(dlq) : dlq[i].tx = t
Ahead(g, t) == \E i \in 1 .. Len(stream) : i > handled[g] /\ stream[i] = t

\* As long as there is no restart and the dead-letter stream takes what it is
\* given, a trade in the table reaches the handler of either group or is on
\* its way to it, through any failure of a publication, a handler or a replay.
NothingLost ==
  losses = 0 => \A t \in stored, g \in Groups :
    applied[g][t] > 0 \/ Publishing(t) \/ DeadLettered(t) \/ t \in poison \/ Ahead(g, t)

\* In the dead-letter stream, and not the entry that is about to be deleted.
Held(t) == \E i \in 1 .. Len(dlq) : dlq[i].tx = t /\ (i = 1 => replayer = "idle")

OnItsWay(g, t) ==
  applied[g][t] > 0 \/ Publishing(t) \/ Held(t) \/ t \in poison \/ Ahead(g, t)

\* In the batch the group has in memory.
InHand(g, t) == \E i \in 1 .. Len(stream) : handled[g] < i /\ i <= delivered[g] /\ stream[i] = t

\* What a restart, a failed acknowledgement or a dead-letter stream that takes
\* nothing can lose is what was in memory: a publication under way, or the
\* group's own batch.  A trade that waits in the stream, in the dead-letter
\* stream or with the poison stays there, whatever fails and how often.
LossesAreInFlight ==
  [][\A g \in Groups : \A t \in stored :
       OnItsWay(g, t) => OnItsWay(g, t)' \/ Publishing(t) \/ InHand(g, t)]_vars

\* total_trades and the signals count a trade once, and once more at most for
\* every failure on its way: neither a repeated webhook nor two of them at a
\* time count it again.
CountedOnce == \A g \in Groups, t \in Txs : applied[g][t] <= 1 + faults + losses

\* No trade is given up lightly: it is set aside only after more failures than
\* the limit on retries, the one that dead-lettered it and those of its replays.
PoisonIsLate == poison # {} => faults + losses > MaxRetries

\* A message is acknowledged only once it has been handled or copied to the
\* dead-letter stream: what a restart interrupts stays in the group's pending
\* list, where redis_monitor counts it.
AckedAfterHandling ==
  \A g \in Groups : handled[g] + 1 .. delivered[g] \subseteq pending[g]

\* Every trade is handled by both groups in the end, or set aside as poison,
\* where restarts and failures of the dead-letter stream itself are left out
\* (MaxLosses = 0).
EventuallyHandled ==
  \A t \in Txs, g \in Groups :
    (t \in stored) ~> (applied[g][t] > 0 \/ t \in poison)

\* main.py:1271 "Poison pill protection": an event whose replay has failed
\* _DLQ_MAX_RETRIES times is not tried again.
PoisonProtection == \A i \in 1 .. Len(dlq) : dlq[i].tries <= MaxRetries

\* tests/test_signal_seed_service.py, test_cooldown_prevents_duplicate_high_score:
\* one high-score signal of a wallet in a cooldown period.
CooldownHolds == seeds <= 1
=============================================================================
