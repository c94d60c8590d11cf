--------------------------- MODULE ShadowExecution ---------------------------
(***************************************************************************)
(* The mirror of trading signals in simulated executions                   *)
(* (services/shadow/shadow_execution_service.py).  The executions are a    *)
(* hash in Redis and a dictionary of the process, which is filled from the *)
(* hash when it is first needed.  A second Redis key is the set of signals *)
(* that have been mirrored.                                                *)
(*                                                                         *)
(* Three kinds of tasks of the one process share these: the scheduled job  *)
(* and POST /shadow/sync go through the active signals of the database;    *)
(* the research orchestrator mirrors a signal of its own, which is in no   *)
(* table; the reading endpoints only load.  Nothing keeps two of them      *)
(* apart.                                                                  *)
(*                                                                         *)
(* update_current_price and close_execution, which change an execution     *)
(* later, are left out: the application registers no price resolver, so    *)
(* refresh_prices skips every execution, and it never closes one.          *)
(***************************************************************************)
EXTENDS Naturals, FiniteSets

CONSTANTS
  Signals,     \* signals of the table
  Research,    \* signals of the research orchestrator
  Job,         \* the scheduled task
  Requests,    \* tasks that serve the endpoints and the orchestrator
  Keep,        \* marks written at the end of a sync (5000)
  MaxCopies,   \* bound: a sync passes over a signal mirrored so often
  MaxFaults    \* bound: failing calls and restarts

ASSUME ShadowAssumption ==
  /\ IsFiniteSet(Signals)
  /\ Signals \cap Research = {}
  /\ Job \notin Requests
  /\ Keep \in Nat /\ MaxCopies \in Nat /\ MaxFaults \in Nat

Tasks == {Job} \cup Requests
Ids == Signals \cup Research

VARIABLES
  active,        \* signals generated in the last seven days and active
  retired,       \* signals that are no longer
  hash,          \* shadow:executions
  processed,     \* shadow:processed_signals
  memory,        \* _executions
  initialized,   \* _initialized
  task,          \* by task: where it is and what it holds
  made,          \* by signal: executions created for it; numbers them
  unsaved,       \* history: signals with an execution that Redis did not take
  excused,       \* history: signals whose mark came late, or not at all
  blind,         \* history: this process has failed to load the hash
  faults

vars == <<active, retired, hash, processed, memory, initialized, task, made, unsaved,
          excused, blind, faults>>
database == <<active, retired>>
history == <<unsaved, excused, blind>>

\* An execution: its signal and its number among those of the signal.
Executions == Ids \X (Nat \ {0})

Idle == [pc |-> "idle", kind |-> "sync", known |-> {}, todo |-> {}, at |-> <<>>, load |-> {}]

Init ==
  /\ active \in SUBSET Signals /\ retired = {}
  /\ hash = {} /\ processed = {}
  /\ memory = {} /\ initialized = FALSE
  /\ task = [t \in Tasks |-> Idle]
  /\ made = [s \in Ids |-> 0]
  /\ unsaved = {} /\ excused = {} /\ blind = FALSE
  /\ faults = 0

At(t, pc) == task[t].pc = pc
Fault == faults < MaxFaults /\ faults' = faults + 1

\* Signals a task has mirrored and nobody has marked; those it may still mirror.
InHand(t) ==
  (task[t].known \ processed) \cup (IF At(t, "save") THEN {task[t].at[1]} ELSE {})
Ahead(t) ==
  task[t].todo \cup (IF At(t, "query") THEN Signals \ task[t].known ELSE {})

-----------------------------------------------------------------------------
(* A task begins *)

\* The job goes straight to its signals, every other caller loads first.
BeginJob ==
  /\ At(Job, "idle")
  /\ task' = [task EXCEPT ![Job] = [Idle EXCEPT !.pc = "read"]]
  /\ UNCHANGED <<database, hash, processed, memory, initialized, made, history, faults>>

\* POST /shadow/sync, and the endpoints that read.
Begin(t, kind) ==
  /\ t \in Requests /\ At(t, "idle")
  /\ task' = [task EXCEPT ![t] = [Idle EXCEPT !.pc = "ensure", !.kind = kind]]
  /\ UNCHANGED <<database, hash, processed, memory, initialized, made, history, faults>>

\* ResearchOrchestrator._push_to_shadow; each run has signals of its own.
PushToShadow(t, s) ==
  /\ t \in Requests /\ At(t, "idle")
  /\ made[s] = 0 /\ \A u \in Tasks : s \notin task[u].todo
  /\ task' = [task EXCEPT ![t] =
       [Idle EXCEPT !.pc = "ensure", !.kind = "push", !.todo = {s}]]
  /\ UNCHANGED <<database, hash, processed, memory, initialized, made, history, faults>>

-----------------------------------------------------------------------------
(* _ensure_redis, _load_from_redis *)

AfterLoad(t) ==
  IF task[t].todo # {} THEN "create" ELSE IF task[t].kind = "read" THEN "idle" ELSE "read"

\* The flag is set before the load: whoever comes next does not wait for it.
EnsureRedis(t) ==
  /\ At(t, "ensure")
  /\ initialized' = TRUE
  /\ task' = [task EXCEPT ![t].pc = IF initialized THEN AfterLoad(t) ELSE "keys"]
  /\ UNCHANGED <<database, hash, processed, memory, made, history, faults>>

LoadKeys(t) ==
  /\ At(t, "keys")
  /\ task' = [task EXCEPT ![t].load = hash, ![t].pc = IF hash = {} THEN AfterLoad(t) ELSE "get"]
  /\ UNCHANGED <<database, hash, processed, memory, initialized, made, history, faults>>

LoadOne(t, e) ==
  /\ At(t, "get") /\ e \in task[t].load
  /\ memory' = memory \cup {e}
  /\ task' = [task EXCEPT ![t].load = @ \ {e},
                          ![t].pc = IF task[t].load = {e} THEN AfterLoad(t) ELSE "get"]
  /\ UNCHANGED <<database, hash, processed, initialized, made, history, faults>>

\* The error is logged; the flag stays set, so nobody loads again.
LoadFails(t) ==
  /\ task[t].pc \in {"keys", "get"} /\ Fault
  /\ task' = [task EXCEPT ![t].load = {}, ![t].pc = AfterLoad(t)]
  /\ blind' = TRUE
  /\ UNCHANGED <<database, hash, processed, memory, initialized, made, unsaved, excused>>

-----------------------------------------------------------------------------
(* sync_from_signals *)

\* smembers; an error leaves the set empty, and every signal looks new.
ReadProcessed(t) ==
  /\ At(t, "read")
  /\ \/ /\ task' = [task EXCEPT ![t].known = processed, ![t].pc = "query"]
        /\ UNCHANGED <<excused, faults>>
     \/ /\ task' = [task EXCEPT ![t].known = {}, ![t].pc = "query"]
        /\ excused' = excused \cup processed /\ Fault
  /\ UNCHANGED <<database, hash, processed, memory, initialized, made, unsaved, blind>>

\* Mutant: the last of the new signals is left out.
Query_AllButOne(t) ==
  LET todo == {s \in active \ task[t].known : made[s] < MaxCopies} IN
  /\ At(t, "query")
  /\ \/ /\ task' = [task EXCEPT ![t] =
             IF Cardinality(todo) < 2 THEN Idle ELSE [@ EXCEPT !.todo = todo, !.pc = "ensure"]]
        /\ UNCHANGED faults
     \/ task' = [task EXCEPT ![t] = Idle] /\ Fault
  /\ UNCHANGED <<database, hash, processed, memory, initialized, made, history>>

\* The active signals that are not known; with none there is nothing to mark.
\* An error of the database ends the sync.
Query(t) ==
  LET todo == {s \in active \ task[t].known : made[s] < MaxCopies} IN
  /\ At(t, "query")
  /\ \/ /\ task' = [task EXCEPT ![t] =
             IF todo = {} THEN Idle ELSE [@ EXCEPT !.todo = todo, !.pc = "ensure"]]
        /\ UNCHANGED faults
     \/ task' = [task EXCEPT ![t] = Idle] /\ Fault
  /\ UNCHANGED <<database, hash, processed, memory, initialized, made, history>>

\* Mutant: the dictionary is left to the next load.
CreateExecution_NotCached(t, s) ==
  /\ At(t, "create") /\ s \in task[t].todo
  /\ made' = [made EXCEPT ![s] = @ + 1]
  /\ task' = [task EXCEPT ![t].at = <<s, made[s] + 1>>, ![t].pc = "save"]
  /\ excused' = IF \E u \in Tasks \ {t} : s \in InHand(u) THEN excused \cup {s} ELSE excused
  /\ UNCHANGED <<database, hash, processed, memory, initialized, unsaved, blind, faults>>

\* process_signal, create_execution: the execution has a new id.  Another task
\* that has mirrored the signal and not marked it cannot be seen.
CreateExecution(t, s) ==
  /\ At(t, "create") /\ s \in task[t].todo
  /\ made' = [made EXCEPT ![s] = @ + 1]
  /\ memory' = memory \cup {<<s, made[s] + 1>>}
  /\ task' = [task EXCEPT ![t].at = <<s, made[s] + 1>>, ![t].pc = "save"]
  /\ excused' = IF \E u \in Tasks \ {t} : s \in InHand(u) THEN excused \cup {s} ELSE excused
  /\ UNCHANGED <<database, hash, processed, initialized, unsaved, blind, faults>>

\* Mutant: the signal is not entered among the known ones.
Saved_NotKnown(t) ==
  LET left == task[t].todo \ {task[t].at[1]} IN
  task' = [task EXCEPT ![t] =
    IF left # {} THEN [@ EXCEPT !.todo = left, !.at = <<>>, !.pc = "create"]
    ELSE IF @.kind = "push" THEN Idle
    ELSE [@ EXCEPT !.todo = {}, !.at = <<>>, !.pc = "mark"]]

\* process_signal returns: the signal counts as processed, and on to the next.
Saved(t) ==
  LET s == task[t].at[1]
      known == task[t].known \cup {s}
      left == task[t].todo \ {s} IN
  task' = [task EXCEPT ![t] =
    IF left # {} THEN [@ EXCEPT !.known = known, !.todo = left, !.at = <<>>, !.pc = "create"]
    ELSE IF @.kind = "push" THEN Idle
    ELSE [@ EXCEPT !.known = known, !.todo = {}, !.at = <<>>, !.pc = "mark"]]

\* _save_to_redis.
SaveToRedis(t) ==
  /\ At(t, "save")
  /\ hash' = hash \cup {task[t].at}
  /\ Saved(t)
  /\ UNCHANGED <<database, processed, memory, initialized, made, history, faults>>

\* hset raises, before or after the server has written; the error is logged.
SaveFails(t) ==
  /\ At(t, "save") /\ Fault
  /\ \/ hash' = hash \cup {task[t].at} /\ UNCHANGED unsaved
     \/ unsaved' = unsaved \cup {task[t].at[1]} /\ UNCHANGED hash
  /\ Saved(t)
  /\ UNCHANGED <<database, processed, memory, initialized, made, excused, blind>>

\* Mutant: the active signals are marked, not the mirrored ones.
Mark_Active(t) ==
  /\ At(t, "mark")
  /\ processed' = processed \cup active
  /\ task' = [task EXCEPT ![t] = Idle]
  /\ UNCHANGED <<database, hash, memory, initialized, made, history, faults>>

\* All known signals are marked, or Keep of them, whichever the order of a
\* Python set puts last; in one transaction, which may fail or seem to.
Mark(t) ==
  LET known == task[t].known IN
  /\ At(t, "mark")
  /\ \E marks \in SUBSET known :
       /\ \/ /\ Cardinality(marks) = IF Cardinality(known) < Keep THEN Cardinality(known) ELSE Keep
             /\ UNCHANGED faults
          \/ marks = {} /\ Fault
       /\ processed' = processed \cup marks
       /\ excused' = excused \cup (known \ processed')
                       \cup (marks \cap UNION {Ahead(u) : u \in Tasks \ {t}})
  /\ task' = [task EXCEPT ![t] = Idle]
  /\ UNCHANGED <<database, hash, memory, initialized, made, unsaved, blind>>

-----------------------------------------------------------------------------
\* The process ends, at whichever await its tasks are, and starts again.
Restart ==
  /\ Fault
  /\ task' = [t \in Tasks |-> Idle]
  /\ memory' = {} /\ initialized' = FALSE /\ blind' = FALSE
  /\ excused' = excused \cup UNION {InHand(t) : t \in Tasks}
  /\ UNCHANGED <<database, hash, processed, made, unsaved>>

\* The agents write a signal; it grows old or is taken back.
Generate(s) ==
  /\ s \notin active \cup retired
  /\ active' = active \cup {s}
  /\ UNCHANGED <<retired, hash, processed, memory, initialized, task, made, history, faults>>

Retire(s) ==
  /\ s \in active
  /\ active' = active \ {s} /\ retired' = retired \cup {s}
  /\ UNCHANGED <<hash, processed, memory, initialized, task, made, history, faults>>

Step(t) ==
  \/ EnsureRedis(t) \/ LoadKeys(t) \/ LoadFails(t) \/ \E e \in hash : LoadOne(t, e)
  \/ ReadProcessed(t) \/ Query(t) \/ SaveToRedis(t) \/ SaveFails(t) \/ Mark(t)
  \/ \E s \in Ids : CreateExecution(t, s)

Next ==
  \/ BeginJob \/ Restart
  \/ \E t \in Tasks : Step(t)
  \/ \E t \in Requests : (\E kind \in {"sync", "read"} : Begin(t, kind))
                         \/ (\E s \in Research : PushToShadow(t, s))
  \/ \E s \in Signals : Generate(s) \/ Retire(s)

Spec == Init /\ [][Next]_vars

\* The scheduler runs the job every two minutes, and what a task awaits
\* returns or raises.
FairSpec == Spec /\ WF_vars(BeginJob) /\ \A t \in Tasks : WF_vars(Step(t))

-----------------------------------------------------------------------------
Steps == {"idle", "ensure", "keys", "get", "read", "query", "create", "save", "mark"}
TaskRecords ==
  [pc : Steps, kind : {"sync", "read", "push"}, known : SUBSET Signals, todo : SUBSET Ids,
   at : Executions \cup {<<>>}, load : SUBSET Executions]

\* The variables have their types; a task creates only while signals are left,
\* and what it is saving is the execution of one of them.
TypeOK ==
  /\ active \subseteq Signals /\ retired \subseteq Signals
  /\ hash \subseteq Executions /\ memory \subseteq Executions
  /\ processed \subseteq Signals
  /\ initialized \in BOOLEAN
  /\ task \in [Tasks -> TaskRecords]
  /\ \A t \in Tasks :
       /\ task[t].todo \subseteq IF task[t].kind = "push" THEN Research ELSE Signals
       /\ task[t].pc \in {"create", "save"} => task[t].todo # {}
       /\ task[t].pc = "save" => task[t].at \in Executions /\ task[t].at[1] \in task[t].todo
  /\ made \in [Ids -> Nat]
  /\ unsaved \subseteq Ids /\ excused \subseteq Ids
  /\ blind \in BOOLEAN
  /\ faults \in Nat

\* A signal is marked only after its execution has been written to Redis, so
\* that no crash between the two loses it: either the hash has it, or the
\* write failed, which the code takes no notice of.
ProcessedIsMirrored ==
  \A s \in processed : s \in unsaved \/ \E e \in hash : e[1] = s

\* A signal is mirrored twice only if its mark was not in time for the second:
\* two syncs overlapped, a crash or a failed write came before it, the set was
\* not readable, or held more than Keep signals.
RepeatedOnlyUnmarked == \A s \in Signals : made[s] > 1 => s \in excused

\* When the load is over and did not fail, the dictionary, which every reader
\* and the analytics take for the whole, has all that the hash has, whatever
\* was created while it was being read.
MemoryComplete ==
  initialized /\ ~ blind /\ (\A t \in Tasks : task[t].pc \notin {"keys", "get"}) =>
    hash \subseteq memory

\* Every active signal is mirrored in the end.
ActiveIsMirrored == \A s \in Signals : (s \in active) ~> (made[s] > 0 \/ s \notin active)

=============================================================================
