------------------------ MODULE ShadowExecutionProofs ------------------------
(***************************************************************************)
(* Theorems about ShadowExecution.  The inductive invariant says what a    *)
(* task holds at each step (Holds), that what it counts as processed has   *)
(* been written (KnownIsMirrored), what is still to be loaded (Loading),   *)
(* and where an unexcused signal can be (Once): mirrored at most once, then*)
(* marked or in the hands of the task that mirrored it, and out of reach   *)
(* of every sync once it is marked.                                        *)
(***************************************************************************)
EXTENDS ShadowExecution, TLAPS

Holds ==
  \A t \in Tasks :
    /\ task[t].pc \notin {"create", "save", "mark"} => task[t].known \subseteq processed
    /\ task[t].kind = "push" =>
         task[t].known = {} /\ task[t].todo # {} /\ \A a, b \in task[t].todo : a = b
    /\ task[t].todo \cap task[t].known = {}
    /\ task[t].pc \in {"read", "query", "mark"} => task[t].todo = {}
    /\ task[t].pc = "save" => task[t].at \in memory

KnownIsMirrored ==
  \A t \in Tasks : \A s \in task[t].known : s \in unsaved \/ \E e \in hash : e[1] = s

Loading ==
  initialized /\ ~ blind =>
    \/ \E t \in Tasks : task[t].pc = "keys"
    \/ \A e \in hash : e \in memory \/ \E t \in Tasks : task[t].pc = "get" /\ e \in task[t].load

Once ==
  \A s \in Signals \ excused :
    /\ made[s] <= 1
    /\ made[s] = 1 => s \in processed \/ \E t \in Tasks : s \in InHand(t)
    /\ s \in processed => \A t \in Tasks : s \notin Ahead(t)

Inv == TypeOK /\ Holds /\ KnownIsMirrored /\ ProcessedIsMirrored /\ Loading /\ Once

-----------------------------------------------------------------------------
\* Initially nothing is mirrored.
LEMMA InitInv == Init => Inv
<1> SUFFICES ASSUME Init PROVE Inv
  OBVIOUS
<1>1. Idle \in TaskRecords
  BY DEF Idle, Steps, TaskRecords
<1>2. \A t \in Tasks : task[t] = Idle
  BY DEF Init
<1>3. TypeOK
  BY <1>1, <1>2 DEF Init, TypeOK, Idle
<1>4. Holds /\ KnownIsMirrored /\ ProcessedIsMirrored /\ Loading
  BY <1>2 DEF Init, Holds, KnownIsMirrored, ProcessedIsMirrored, Loading, Idle
<1>5. Once
  BY <1>2 DEF Init, Once, Ids
<1> QED  BY <1>3, <1>4, <1>5 DEF Inv

-----------------------------------------------------------------------------
\* A task begins, loads, reads the marks or the signals: it is not in the middle
\* of creating, and what it knows afterwards is marked.
LEMMA QuietStep ==
  ASSUME Inv, NEW t \in Tasks, NEW r \in TaskRecords,
         task' = [task EXCEPT ![t] = r],
         UNCHANGED <<database, hash, processed, made, unsaved>>,
         memory \subseteq memory', memory' \subseteq Executions,
         excused \subseteq excused', excused' \subseteq Ids,
         initialized' \in BOOLEAN, blind' \in BOOLEAN, faults' \in Nat,
         task[t].pc \notin {"create", "save", "mark"},
         r.pc \notin {"save", "mark"}, r.known \subseteq processed,
         r.kind = "push" => r.known = {} /\ r.todo # {} /\ \A a, b \in r.todo : a = b,
         r.pc \in {"read", "query"} => r.todo = {},
         r.todo \subseteq IF r.kind = "push" THEN Research ELSE Signals,
         r.todo \cap r.known = {}, r.pc = "create" => r.todo # {},
         \A s \in processed \ excused' :
           s \notin r.todo /\ (r.pc = "query" => s \in r.known)
  PROVE  TypeOK' /\ Holds' /\ KnownIsMirrored' /\ ProcessedIsMirrored' /\ Once'
<1>1. task'[t] = r /\ \A u \in Tasks \ {t} : task'[u] = task[u]
  BY DEF Inv, TypeOK
<1>2. TypeOK'
  <2>1. task' \in [Tasks -> TaskRecords]
    BY DEF Inv, TypeOK
  <2>2. ASSUME NEW u \in Tasks
        PROVE  /\ task'[u].todo \subseteq IF task'[u].kind = "push" THEN Research ELSE Signals
               /\ task'[u].pc \in {"create", "save"} => task'[u].todo # {}
               /\ task'[u].pc = "save" =>
                    task'[u].at \in Executions /\ task'[u].at[1] \in task'[u].todo
    <3>1. CASE u = t
      BY <1>1, <3>1
    <3>2. CASE u # t
      BY <1>1, <3>2 DEF Inv, TypeOK
    <3> QED  BY <3>1, <3>2
  <2> QED  BY <2>1, <2>2 DEF Inv, TypeOK, database
<1>3. Holds'
  <2> SUFFICES ASSUME NEW u \in Tasks
               PROVE  /\ task'[u].pc \notin {"create", "save", "mark"} => task'[u].known \subseteq processed
                      /\ task'[u].kind = "push" =>
                           /\ task'[u].known = {} /\ task'[u].todo # {}
                           /\ \A a, b \in task'[u].todo : a = b
                      /\ task'[u].todo \cap task'[u].known = {}
                      /\ task'[u].pc \in {"read", "query", "mark"} => task'[u].todo = {}
                      /\ task'[u].pc = "save" => task'[u].at \in memory'
    BY DEF Holds
  <2>1. CASE u = t
    BY <1>1, <2>1
  <2>2. CASE u # t
    BY <1>1, <2>2 DEF Inv, Holds
  <2> QED  BY <2>1, <2>2
<1>4. KnownIsMirrored' /\ ProcessedIsMirrored'
  BY <1>1 DEF Inv, KnownIsMirrored, ProcessedIsMirrored
<1>5. Once'
  <2> SUFFICES ASSUME NEW s \in Signals \ excused'
               PROVE  /\ made[s] <= 1
                      /\ made[s] = 1 => s \in processed \/ \E u \in Tasks : s \in InHand(u)'
                      /\ s \in processed => \A u \in Tasks : s \notin Ahead(u)'
    BY DEF Once
  <2>1. /\ made[s] <= 1
        /\ made[s] = 1 => s \in processed \/ \E u \in Tasks : s \in InHand(u)
        /\ s \in processed => \A u \in Tasks : s \notin Ahead(u)
    BY DEF Inv, Once
  <2>2. InHand(t) = {}
    BY DEF Inv, Holds, InHand, At
  <2>3. \A u \in Tasks \ {t} : InHand(u)' = InHand(u) /\ Ahead(u)' = Ahead(u)
    BY <1>1 DEF InHand, Ahead, At
  <2>4. s \in processed => s \notin Ahead(t)'
    BY <1>1 DEF Ahead, At
  <2> QED  BY <2>1, <2>2, <2>3, <2>4
<1> QED  BY <1>2, <1>3, <1>4, <1>5


\* What a quiet step needs of the other variables: a task starts with nothing,
\* or with the one signal it is to mirror.
LEMMA StartStep ==
  ASSUME Inv, NEW t \in Tasks, NEW r \in TaskRecords,
         task' = [task EXCEPT ![t] = r], task[t].pc = "idle",
         UNCHANGED <<database, hash, processed, memory, initialized, made, history, faults>>,
         r.pc \in {"read", "ensure"}, r.known = {}, r.pc = "read" => r.todo = {},
         r.todo \subseteq Research, r.todo # {} <=> r.kind = "push",
         \A a, b \in r.todo : a = b
  PROVE  Inv'
<1>1. TypeOK' /\ Holds' /\ KnownIsMirrored' /\ ProcessedIsMirrored' /\ Once'
  <2>1. \A s \in processed : s \notin r.todo
    BY ShadowAssumption DEF Inv, TypeOK
  <2>2. r.todo \subseteq IF r.kind = "push" THEN Research ELSE Signals
    OBVIOUS
  <2>3. /\ memory \subseteq memory' /\ memory' \subseteq Executions
        /\ excused \subseteq excused' /\ excused' \subseteq Ids
        /\ initialized' \in BOOLEAN /\ blind' \in BOOLEAN /\ faults' \in Nat
        /\ UNCHANGED <<database, hash, processed, made, unsaved>>
    BY DEF Inv, TypeOK, history
  <2> QED  BY <2>1, <2>2, <2>3, QuietStep
<1>2. Loading'
  <2>1. \A u \in Tasks : task[u].pc \in {"keys", "get"} => task'[u] = task[u]
    BY DEF Inv, TypeOK
  <2> QED  BY <2>1 DEF Inv, Loading, history
<1> QED  BY <1>1, <1>2 DEF Inv

\* The job begins.
LEMMA BeginJobStep == Inv /\ BeginJob => Inv'
<1> SUFFICES ASSUME Inv, BeginJob PROVE Inv'
  OBVIOUS
<1> DEFINE r == [Idle EXCEPT !.pc = "read"]
<1>1. r \in TaskRecords /\ r.pc = "read" /\ r.known = {} /\ r.todo = {} /\ r.kind # "push"
  BY DEF Idle, TaskRecords, Steps
<1>2. task' = [task EXCEPT ![Job] = r] /\ Job \in Tasks /\ task[Job].pc = "idle"
  BY DEF BeginJob, Tasks, At
<1>3. UNCHANGED <<database, hash, processed, memory, initialized, made, history, faults>>
  BY DEF BeginJob
<1> HIDE DEF r
<1> QED  BY <1>1, <1>2, <1>3, StartStep

\* A request begins.
LEMMA RequestStep ==
  ASSUME Inv, NEW t \in Requests, NEW kind \in {"sync", "read"}, Begin(t, kind)
  PROVE  Inv'
<1> DEFINE r == [Idle EXCEPT !.pc = "ensure", !.kind = kind]
<1>1. r \in TaskRecords /\ r.pc = "ensure" /\ r.known = {} /\ r.todo = {} /\ r.kind # "push"
  BY DEF Idle, TaskRecords, Steps
<1>2. task' = [task EXCEPT ![t] = r] /\ t \in Tasks /\ task[t].pc = "idle"
  BY DEF Begin, Tasks, At
<1>3. UNCHANGED <<database, hash, processed, memory, initialized, made, history, faults>>
  BY DEF Begin
<1> HIDE DEF r
<1> QED  BY <1>1, <1>2, <1>3, StartStep

\* The orchestrator hands over a signal.
LEMMA PushStep ==
  ASSUME Inv, NEW t \in Requests, NEW s \in Research, PushToShadow(t, s)
  PROVE  Inv'
<1> DEFINE r == [Idle EXCEPT !.pc = "ensure", !.kind = "push", !.todo = {s}]
<1>1. r \in TaskRecords /\ r.pc = "ensure" /\ r.known = {} /\ r.todo = {s} /\ r.kind = "push"
  BY DEF Idle, TaskRecords, Steps, Ids
<1>2. task' = [task EXCEPT ![t] = r] /\ t \in Tasks /\ task[t].pc = "idle"
  BY DEF PushToShadow, Tasks, At
<1>3. UNCHANGED <<database, hash, processed, memory, initialized, made, history, faults>>
  BY DEF PushToShadow
<1> HIDE DEF r
<1> QED  BY <1>1, <1>2, <1>3, StartStep

-----------------------------------------------------------------------------
\* After the load a task goes on to create only if it has a signal.
LEMMA AfterLoadFact ==
  ASSUME NEW t \in Tasks
  PROVE  /\ AfterLoad(t) \in {"create", "idle", "read"}
         /\ AfterLoad(t) = "create" => task[t].todo # {}
         /\ AfterLoad(t) = "read" => task[t].todo = {}
BY DEF AfterLoad

\* A step of the load leaves all but the position and the keys of its task.
LEMMA LoadingStep ==
  ASSUME Inv, NEW t \in Tasks, NEW p, NEW l \in SUBSET Executions,
         task' = [task EXCEPT ![t] = [task[t] EXCEPT !.pc = p, !.load = l]],
         p \in {"keys", "get", "idle", "read", "create"}, p = "create" => task[t].todo # {},
         p = "read" => task[t].todo = {},
         task[t].pc \in {"ensure", "keys", "get"},
         UNCHANGED <<database, hash, processed, made, unsaved, excused>>,
         memory \subseteq memory', memory' \subseteq Executions,
         initialized' \in BOOLEAN, blind' \in BOOLEAN, faults' \in Nat
  PROVE  /\ TypeOK' /\ Holds' /\ KnownIsMirrored' /\ ProcessedIsMirrored' /\ Once'
         /\ task'[t].pc = p /\ task'[t].load = l
         /\ \A u \in Tasks \ {t} : task'[u] = task[u]
<1> DEFINE r == [task[t] EXCEPT !.pc = p, !.load = l]
<1>1. /\ r \in TaskRecords /\ r.pc = p /\ r.load = l
      /\ r.known = task[t].known /\ r.kind = task[t].kind /\ r.todo = task[t].todo
  BY DEF Inv, TypeOK, TaskRecords, Steps
<1>2. task' = [task EXCEPT ![t] = r]
  OBVIOUS
<1> HIDE DEF r
<1>3. task'[t] = r /\ \A u \in Tasks \ {t} : task'[u] = task[u]
  BY <1>2 DEF Inv, TypeOK
<1>4. /\ r.known \subseteq processed /\ r.todo \cap r.known = {}
      /\ r.kind = "push" => r.known = {} /\ r.todo # {} /\ \A a, b \in r.todo : a = b
      /\ r.todo \subseteq IF r.kind = "push" THEN Research ELSE Signals
  BY <1>1 DEF Inv, Holds, TypeOK
<1>5. \A s \in processed \ excused' : s \notin r.todo
  BY <1>1 DEF Inv, Once, Ahead, TypeOK
<1>6. excused \subseteq excused' /\ excused' \subseteq Ids
  BY DEF Inv, TypeOK
<1>7. /\ r.pc \notin {"save", "mark", "query"} /\ (r.pc = "create" => r.todo # {})
      /\ r.pc = "read" => r.todo = {}
  BY <1>1
<1>8. TypeOK' /\ Holds' /\ KnownIsMirrored' /\ ProcessedIsMirrored' /\ Once'
  BY <1>1, <1>2, <1>4, <1>5, <1>6, <1>7, QuietStep
<1> QED  BY <1>1, <1>3, <1>8

\* _ensure_redis.
LEMMA EnsureStep == ASSUME Inv, NEW t \in Tasks, EnsureRedis(t) PROVE Inv'
<1> DEFINE p == IF initialized THEN AfterLoad(t) ELSE "keys"
<1>1. /\ p \in {"keys", "get", "idle", "read", "create"} /\ (p = "create" => task[t].todo # {})
      /\ (p = "read" => task[t].todo = {})
      /\ ~ initialized => p = "keys"
  BY AfterLoadFact
<1>2. /\ task' = [task EXCEPT ![t] = [task[t] EXCEPT !.pc = p, !.load = task[t].load]]
      /\ task[t].load \in SUBSET Executions
  BY DEF EnsureRedis, Inv, TypeOK, TaskRecords
<1> HIDE DEF p
<1>3. /\ UNCHANGED <<database, hash, processed, memory, made, unsaved, excused, blind, faults>>
      /\ initialized' = TRUE /\ task[t].pc = "ensure"
  BY DEF EnsureRedis, At, history
<1>4. /\ memory \subseteq memory' /\ memory' \subseteq Executions
      /\ initialized' \in BOOLEAN /\ blind' \in BOOLEAN /\ faults' \in Nat
  BY <1>3 DEF Inv, TypeOK
<1>5. /\ TypeOK' /\ Holds' /\ KnownIsMirrored' /\ ProcessedIsMirrored' /\ Once'
      /\ task'[t].pc = p /\ \A u \in Tasks \ {t} : task'[u] = task[u]
  BY <1>1, <1>2, <1>3, <1>4, LoadingStep
<1>6. Loading'
  <2>1. CASE initialized
    BY <1>3, <1>5, <2>1 DEF Inv, Loading
  <2>2. CASE ~ initialized
    BY <1>1, <1>5, <2>2 DEF Loading
  <2> QED  BY <2>1, <2>2
<1> QED  BY <1>5, <1>6 DEF Inv

\* hkeys.
LEMMA LoadKeysStep == ASSUME Inv, NEW t \in Tasks, LoadKeys(t) PROVE Inv'
<1> DEFINE p == IF hash = {} THEN AfterLoad(t) ELSE "get"
<1>1. /\ p \in {"keys", "get", "idle", "read", "create"} /\ (p = "create" => task[t].todo # {})
      /\ (p = "read" => task[t].todo = {})
      /\ hash # {} => p = "get"
  BY AfterLoadFact
<1>2. /\ task' = [task EXCEPT ![t] = [task[t] EXCEPT !.pc = p, !.load = hash]]
      /\ hash \in SUBSET Executions
  BY DEF LoadKeys, Inv, TypeOK, TaskRecords
<1> HIDE DEF p
<1>3. /\ UNCHANGED <<database, hash, processed, memory, made, unsaved, excused, blind, faults>>
      /\ UNCHANGED initialized /\ task[t].pc = "keys"
  BY DEF LoadKeys, At, history
<1>4. /\ memory \subseteq memory' /\ memory' \subseteq Executions
      /\ initialized' \in BOOLEAN /\ blind' \in BOOLEAN /\ faults' \in Nat
  BY <1>3 DEF Inv, TypeOK
<1>5. /\ TypeOK' /\ Holds' /\ KnownIsMirrored' /\ ProcessedIsMirrored' /\ Once'
      /\ task'[t].pc = p /\ task'[t].load = hash
  BY <1>1, <1>2, <1>3, <1>4, LoadingStep
<1>6. Loading'
  BY <1>1, <1>3, <1>5 DEF Loading
<1> QED  BY <1>5, <1>6 DEF Inv

\* hget.
LEMMA LoadOneStep == ASSUME Inv, NEW t \in Tasks, NEW e \in hash, LoadOne(t, e) PROVE Inv'
<1> DEFINE p == IF task[t].load = {e} THEN AfterLoad(t) ELSE "get"
           l == task[t].load \ {e}
<1>1. /\ p \in {"keys", "get", "idle", "read", "create"} /\ (p = "create" => task[t].todo # {})
      /\ (p = "read" => task[t].todo = {})
      /\ task[t].load # {e} => p = "get"
  BY AfterLoadFact
<1>2. /\ task' = [task EXCEPT ![t] = [task[t] EXCEPT !.pc = p, !.load = l]]
      /\ l \in SUBSET Executions
  BY DEF LoadOne, Inv, TypeOK, TaskRecords
<1>3. /\ UNCHANGED <<database, hash, processed, made, unsaved, excused, blind, faults>>
      /\ UNCHANGED initialized /\ task[t].pc = "get" /\ memory' = memory \cup {e}
  BY DEF LoadOne, At, history
<1> HIDE DEF p
<1>4. /\ memory \subseteq memory' /\ memory' \subseteq Executions
      /\ initialized' \in BOOLEAN /\ blind' \in BOOLEAN /\ faults' \in Nat
  BY <1>3 DEF Inv, TypeOK
<1>5. /\ TypeOK' /\ Holds' /\ KnownIsMirrored' /\ ProcessedIsMirrored' /\ Once'
      /\ task'[t].pc = p /\ task'[t].load = l /\ \A u \in Tasks \ {t} : task'[u] = task[u]
  <2> HIDE DEF l
  <2> QED  BY <1>1, <1>2, <1>3, <1>4, LoadingStep
<1>6. Loading'
  <2> SUFFICES ASSUME initialized, ~ blind, \A u \in Tasks : task[u].pc # "keys", NEW f \in hash
               PROVE  f \in memory' \/ \E u \in Tasks : task'[u].pc = "get" /\ f \in task'[u].load
    BY <1>3, <1>5 DEF Loading
  <2>1. f \in memory \/ \E u \in Tasks : task[u].pc = "get" /\ f \in task[u].load
    BY DEF Inv, Loading
  <2> QED  BY <1>1, <1>3, <1>5, <2>1
<1> QED  BY <1>5, <1>6 DEF Inv

\* The load fails.
LEMMA LoadFailsStep == ASSUME Inv, NEW t \in Tasks, LoadFails(t) PROVE Inv'
<1> DEFINE p == AfterLoad(t)
           l == {}
<1>1. /\ p \in {"keys", "get", "idle", "read", "create"} /\ (p = "create" => task[t].todo # {})
      /\ (p = "read" => task[t].todo = {})
  BY AfterLoadFact
<1>2. task' = [task EXCEPT ![t] = [task[t] EXCEPT !.pc = p, !.load = l]] /\ l \in SUBSET Executions
  BY DEF LoadFails, Inv, TypeOK, TaskRecords
<1> HIDE DEF p, l
<1>3. /\ UNCHANGED <<database, hash, processed, memory, initialized, made, unsaved, excused>>
      /\ task[t].pc \in {"keys", "get"} /\ blind' = TRUE
  BY DEF LoadFails
<1>4. /\ memory \subseteq memory' /\ memory' \subseteq Executions
      /\ initialized' \in BOOLEAN /\ blind' \in BOOLEAN /\ faults' \in Nat
  BY <1>3 DEF Inv, TypeOK, LoadFails, Fault
<1>5. TypeOK' /\ Holds' /\ KnownIsMirrored' /\ ProcessedIsMirrored' /\ Once'
  BY <1>1, <1>2, <1>3, <1>4, LoadingStep
<1> QED  BY <1>3, <1>5 DEF Inv, Loading

-----------------------------------------------------------------------------
\* A task that is not loading leaves the load to the others.
LEMMA LoadGoesOn ==
  ASSUME Inv, NEW t \in Tasks, task[t].pc \notin {"keys", "get"},
         \A u \in Tasks \ {t} : task'[u] = task[u],
         memory \subseteq memory', \A e \in hash' : e \in hash \/ e \in memory',
         initialized' = initialized, blind' = blind
  PROVE  Loading'
<1> SUFFICES ASSUME initialized, ~ blind, NEW e \in hash', \A u \in Tasks : task'[u].pc # "keys"
             PROVE  e \in memory' \/ \E u \in Tasks : task'[u].pc = "get" /\ e \in task'[u].load
  BY DEF Loading
<1>1. \A u \in Tasks : task[u].pc # "keys"
  OBVIOUS
<1>2. CASE e \in hash
  <2>1. e \in memory \/ \E u \in Tasks : task[u].pc = "get" /\ e \in task[u].load
    BY <1>1, <1>2 DEF Inv, Loading
  <2> QED  BY <2>1
<1>3. CASE e \in memory'
  BY <1>3
<1> QED  BY <1>2, <1>3

\* A sync has no signal in hand before it has queried, and is no push.
LEMMA NotYet ==
  ASSUME Inv, NEW t \in Tasks, task[t].pc \in {"read", "query"}
  PROVE  task[t].todo = {} /\ task[t].kind \in {"sync", "read"} /\ task[t] \in TaskRecords
BY DEF Inv, Holds, TypeOK, TaskRecords

\* smembers.
LEMMA ReadStep == ASSUME Inv, NEW t \in Tasks, ReadProcessed(t) PROVE Inv'
<1>0. /\ task[t].pc = "read"
      /\ UNCHANGED <<database, hash, processed, memory, initialized, made, unsaved, blind>>
  BY DEF ReadProcessed, At
<1>1. PICK k \in {processed, {}} :
        /\ task' = [task EXCEPT ![t] = [task[t] EXCEPT !.known = k, !.pc = "query"]]
        /\ excused \subseteq excused' /\ processed \subseteq k \cup excused'
        /\ excused' \subseteq excused \cup processed
        /\ faults' \in Nat
  <2>1. CASE /\ task' = [task EXCEPT ![t].known = processed, ![t].pc = "query"]
             /\ UNCHANGED <<excused, faults>>
    BY <2>1 DEF Inv, TypeOK, TaskRecords
  <2>2. CASE /\ task' = [task EXCEPT ![t].known = {}, ![t].pc = "query"]
             /\ excused' = excused \cup processed /\ Fault
    <3>1. task' = [task EXCEPT ![t] = [task[t] EXCEPT !.known = {}, !.pc = "query"]]
      BY <2>2 DEF Inv, TypeOK, TaskRecords
    <3>2. faults' \in Nat
      BY <2>2 DEF Inv, TypeOK, Fault
    <3>3. /\ excused \subseteq excused' /\ processed \subseteq {} \cup excused'
          /\ excused' \subseteq excused \cup processed
      BY <2>2
    <3> QED  BY <3>1, <3>2, <3>3
  <2> QED  BY <2>1, <2>2 DEF ReadProcessed
<1> DEFINE r == [task[t] EXCEPT !.known = k, !.pc = "query"]
<1>2. /\ r \in TaskRecords /\ r.pc = "query" /\ r.known = k
      /\ r.todo = {} /\ r.kind \in {"sync", "read"}
  <2>1. k \in SUBSET Signals
    BY DEF Inv, TypeOK
  <2> QED  BY <1>0, <2>1, NotYet DEF TaskRecords, Steps
<1>3. task' = [task EXCEPT ![t] = r]
  BY <1>1
<1> HIDE DEF r
<1>4. /\ memory \subseteq memory' /\ memory' \subseteq Executions
      /\ excused' \subseteq Ids
      /\ initialized' \in BOOLEAN /\ blind' \in BOOLEAN
      /\ UNCHANGED <<database, hash, processed, made, unsaved>>
  BY <1>0, <1>1 DEF Inv, TypeOK, Ids
<1>5. r.known \subseteq processed
  BY <1>2
<1>6. \A s \in processed \ excused' : s \notin r.todo /\ (r.pc = "query" => s \in r.known)
  BY <1>1, <1>2
<1>7. TypeOK' /\ Holds' /\ KnownIsMirrored' /\ ProcessedIsMirrored' /\ Once'
  BY <1>0, <1>1, <1>2, <1>3, <1>4, <1>5, <1>6, QuietStep
<1>8. \A u \in Tasks \ {t} : task'[u] = task[u]
  BY <1>3 DEF Inv, TypeOK
<1>9. Loading'
  BY <1>0, <1>8, LoadGoesOn
<1> QED  BY <1>7, <1>9 DEF Inv

\* The query of the signals.
LEMMA QueryStep == ASSUME Inv, NEW t \in Tasks, Query(t) PROVE Inv'
<1>0. /\ task[t].pc = "query"
      /\ UNCHANGED <<database, hash, processed, memory, initialized, made, history>>
  BY DEF Query, At
<1> DEFINE new == {s \in active \ task[t].known : made[s] < MaxCopies}
           q == [task[t] EXCEPT !.todo = new, !.pc = "ensure"]
<1>1. new \subseteq Signals /\ new \cap task[t].known = {}
  BY DEF Inv, TypeOK
<1>2. /\ q \in TaskRecords /\ q.pc = "ensure" /\ q.known = task[t].known
      /\ q.todo = new /\ q.kind \in {"sync", "read"}
  <2> HIDE DEF new
  <2> QED  BY <1>0, <1>1, NotYet DEF TaskRecords, Steps, Ids
<1>3. /\ Idle \in TaskRecords /\ Idle.pc = "idle" /\ Idle.known = {} /\ Idle.todo = {}
      /\ Idle.kind = "sync"
  BY DEF Idle, TaskRecords, Steps
<1>4. PICK r \in {q, Idle} : task' = [task EXCEPT ![t] = r] /\ faults' \in Nat
  <2>1. CASE task' = [task EXCEPT ![t] = IF new = {} THEN Idle ELSE q] /\ UNCHANGED faults
    BY <2>1 DEF Inv, TypeOK
  <2>2. CASE task' = [task EXCEPT ![t] = Idle] /\ Fault
    BY <2>2 DEF Inv, TypeOK, Fault
  <2> QED  BY <2>1, <2>2 DEF Query
<1>5. task[t].known \subseteq processed /\ \A s \in processed \ excused : s \in task[t].known
  BY <1>0 DEF Inv, Holds, Once, Ahead, At, TypeOK
<1> HIDE DEF new, q
<1>6. /\ r \in TaskRecords /\ r.pc \in {"ensure", "idle"} /\ r.known \subseteq processed
      /\ r.kind \in {"sync", "read"} /\ r.todo \subseteq Signals /\ r.todo \cap r.known = {}
      /\ \A s \in processed \ excused : s \notin r.todo
  <2>1. CASE r = q
    BY <1>1, <1>2, <1>5, <2>1
  <2>2. CASE r = Idle
    BY <1>3, <2>2
  <2> QED  BY <2>1, <2>2
<1>7. /\ memory \subseteq memory' /\ memory' \subseteq Executions
      /\ excused' = excused /\ excused' \subseteq Ids
      /\ initialized' \in BOOLEAN /\ blind' \in BOOLEAN
      /\ UNCHANGED <<database, hash, processed, made, unsaved>>
  BY <1>0 DEF Inv, TypeOK, history
<1>8. TypeOK' /\ Holds' /\ KnownIsMirrored' /\ ProcessedIsMirrored' /\ Once'
  BY <1>0, <1>4, <1>6, <1>7, QuietStep
<1>9. \A u \in Tasks \ {t} : task'[u] = task[u]
  BY <1>4 DEF Inv, TypeOK
<1>10. Loading'
  BY <1>0, <1>7, <1>9, LoadGoesOn DEF history
<1> QED  BY <1>8, <1>10 DEF Inv

-----------------------------------------------------------------------------
\* create_execution: an unexcused signal has not been mirrored before, since it
\* is neither marked nor in the hands of another task.
LEMMA CreateStep ==
  ASSUME Inv, NEW t \in Tasks, NEW s \in Ids, CreateExecution(t, s)
  PROVE  Inv'
<1> DEFINE e == <<s, made[s] + 1>>
           r == [task[t] EXCEPT !.at = e, !.pc = "save"]
<1>1. e \in Executions /\ e[1] = s
  BY DEF Inv, TypeOK, Executions
<1>2. /\ task[t].pc = "create" /\ s \in task[t].todo
      /\ made' = [made EXCEPT ![s] = made[s] + 1]
      /\ memory' = memory \cup {e}
      /\ excused' = IF \E u \in Tasks \ {t} : s \in InHand(u) THEN excused \cup {s} ELSE excused
      /\ UNCHANGED <<database, hash, processed, initialized, unsaved, blind, faults>>
  BY DEF CreateExecution, At
<1>3. task' = [task EXCEPT ![t] = r]
  BY DEF CreateExecution, Inv, TypeOK, TaskRecords
<1> HIDE DEF e
<1>4. /\ r \in TaskRecords /\ r.pc = "save" /\ r.at = e /\ r.known = task[t].known
      /\ r.todo = task[t].todo /\ r.kind = task[t].kind
  BY <1>1 DEF Inv, TypeOK, TaskRecords, Steps
<1> HIDE DEF r
<1>5. task'[t] = r /\ \A u \in Tasks \ {t} : task'[u] = task[u]
  BY <1>3 DEF Inv, TypeOK
<1>6. TypeOK'
  <2>1. task' \in [Tasks -> TaskRecords] /\ made' \in [Ids -> Nat]
    BY <1>2, <1>3, <1>4 DEF Inv, TypeOK
  <2>2. ASSUME NEW u \in Tasks
        PROVE  /\ task'[u].todo \subseteq IF task'[u].kind = "push" THEN Research ELSE Signals
               /\ task'[u].pc \in {"create", "save"} => task'[u].todo # {}
               /\ task'[u].pc = "save" =>
                    task'[u].at \in Executions /\ task'[u].at[1] \in task'[u].todo
    <3>1. CASE u = t
      BY <1>1, <1>2, <1>4, <1>5, <3>1 DEF Inv, TypeOK
    <3>2. CASE u # t
      BY <1>5, <3>2 DEF Inv, TypeOK
    <3> QED  BY <3>1, <3>2
  <2>3. memory' \subseteq Executions /\ excused' \subseteq Ids
    BY <1>1, <1>2 DEF Inv, TypeOK
  <2> QED  BY <1>2, <2>1, <2>2, <2>3 DEF Inv, TypeOK, database
<1>7. Holds'
  BY <1>2, <1>4, <1>5 DEF Inv, Holds
<1>8. KnownIsMirrored' /\ ProcessedIsMirrored'
  BY <1>2, <1>4, <1>5 DEF Inv, KnownIsMirrored, ProcessedIsMirrored
<1>9. Loading'
  BY <1>2, <1>5, LoadGoesOn
<1>10. Once'
  <2> SUFFICES ASSUME NEW x \in Signals \ excused'
               PROVE  /\ made'[x] <= 1
                      /\ made'[x] = 1 => x \in processed \/ \E u \in Tasks : x \in InHand(u)'
                      /\ x \in processed => \A u \in Tasks : x \notin Ahead(u)'
    BY <1>2 DEF Once
  <2>1. /\ made[x] <= 1
        /\ made[x] = 1 => x \in processed \/ \E u \in Tasks : x \in InHand(u)
        /\ x \in processed => \A u \in Tasks : x \notin Ahead(u)
    BY <1>2 DEF Inv, Once
  <2>2. /\ \A u \in Tasks \ {t} : InHand(u)' = InHand(u) /\ Ahead(u)' = Ahead(u)
        /\ InHand(t)' = InHand(t) \cup {s} /\ Ahead(t)' = Ahead(t)
    BY <1>1, <1>2, <1>4, <1>5 DEF InHand, Ahead, At
  <2>3. CASE x # s
    <3>1. made'[x] = made[x]
      BY <1>2, <2>3 DEF Inv, TypeOK, Ids
    <3> QED  BY <2>1, <2>2, <3>1
  <2>4. CASE x = s
    <3>1. s \notin processed
      BY <1>2, <2>1, <2>4 DEF Ahead
    <3>2. \A u \in Tasks : s \notin InHand(u)
      BY <1>2, <2>4 DEF InHand, At, Inv, Holds
    <3>3. made[s] = 0
      BY <2>1, <2>4, <3>1, <3>2 DEF Inv, TypeOK
    <3>4. made'[s] = 1
      BY <1>2, <3>3 DEF Inv, TypeOK
    <3> QED  BY <2>2, <2>4, <3>1, <3>4
  <2> QED  BY <2>3, <2>4
<1> QED  BY <1>6, <1>7, <1>8, <1>9, <1>10 DEF Inv

\* process_signal returns, whether or not Redis took the execution: the signal
\* passes from the one being saved to those that count as processed.
LEMMA SavedStep ==
  ASSUME Inv, NEW t \in Tasks, task[t].pc = "save", Saved(t),
         hash \subseteq hash', hash' \subseteq hash \cup {task[t].at},
         unsaved \subseteq unsaved', unsaved' \subseteq unsaved \cup {task[t].at[1]},
         task[t].at \in hash' \/ task[t].at[1] \in unsaved',
         faults' \in Nat,
         UNCHANGED <<database, processed, memory, initialized, made, excused, blind>>
  PROVE  Inv'
<1> DEFINE s == task[t].at[1]
           left == task[t].todo \ {s}
           more == [task[t] EXCEPT !.known = @ \cup {s}, !.todo = left, !.at = <<>>, !.pc = "create"]
           last == [task[t] EXCEPT !.known = @ \cup {s}, !.todo = {}, !.at = <<>>, !.pc = "mark"]
           r == IF left # {} THEN more ELSE IF task[t].kind = "push" THEN Idle ELSE last
<1>0. task' = [task EXCEPT ![t] = r]
  BY DEF Saved
<1>1. /\ task[t] \in TaskRecords /\ task[t].at \in Executions /\ s \in task[t].todo
      /\ task[t].todo \subseteq Ids /\ task[t].at \in memory
      /\ task[t].todo \subseteq IF task[t].kind = "push" THEN Research ELSE Signals
      /\ task[t].todo \cap task[t].known = {}
      /\ task[t].kind = "push" =>
           task[t].known = {} /\ (\A a, b \in task[t].todo : a = b)
  BY DEF Inv, TypeOK, Holds, TaskRecords
<1>2. task[t].kind = "push" => left = {} /\ s \in Research
  BY <1>1
<1>3. task[t].kind # "push" => s \in Signals
  BY <1>1
<1> HIDE DEF s
<1>4. CASE task[t].kind = "push"
  <2>1. r = Idle
    BY <1>2, <1>4
  <2>2. /\ r \in TaskRecords /\ r.pc = "idle" /\ r.known = {} /\ r.todo = {} /\ r.kind = "sync"
    BY <2>1 DEF Idle, TaskRecords, Steps
  <2> HIDE DEF r
  <2>3. task'[t] = r /\ (\A u \in Tasks \ {t} : task'[u] = task[u])
    BY <1>0 DEF Inv, TypeOK
  <2>4. TypeOK'
    <3>1. task' \in [Tasks -> TaskRecords]
      BY <1>0, <2>2 DEF Inv, TypeOK
    <3>2. ASSUME NEW u \in Tasks
          PROVE  /\ task'[u].todo \subseteq IF task'[u].kind = "push" THEN Research ELSE Signals
                 /\ task'[u].pc \in {"create", "save"} => task'[u].todo # {}
                 /\ task'[u].pc = "save" =>
                      task'[u].at \in Executions /\ task'[u].at[1] \in task'[u].todo
      BY <2>2, <2>3 DEF Inv, TypeOK
    <3>3. hash' \subseteq Executions /\ unsaved' \subseteq Ids
      BY <1>1 DEF Inv, TypeOK, s
    <3> QED  BY <3>1, <3>2, <3>3 DEF Inv, TypeOK, database
  <2>5. Holds'
    BY <2>2, <2>3 DEF Inv, Holds
  <2>6. KnownIsMirrored' /\ ProcessedIsMirrored'
    BY <2>2, <2>3 DEF Inv, KnownIsMirrored, ProcessedIsMirrored
  <2>7. Loading'
    BY <1>1, <2>3, LoadGoesOn
  <2>8. Once'
    <3>1. /\ \A u \in Tasks \ {t} : InHand(u)' = InHand(u) /\ Ahead(u)' = Ahead(u)
          /\ InHand(t) = {s} /\ Ahead(t)' = {}
      BY <1>1, <1>4, <2>2, <2>3 DEF InHand, Ahead, At, s
    <3>2. s \notin Signals
      BY <1>2, <1>4, ShadowAssumption
    <3> QED  BY <3>1, <3>2 DEF Inv, Once
  <2> QED  BY <2>4, <2>5, <2>6, <2>7, <2>8 DEF Inv
<1>5. CASE task[t].kind # "push"
  <2>1. /\ r \in TaskRecords /\ r.known = task[t].known \cup {s} /\ r.todo = left
        /\ r.kind = task[t].kind
        /\ left # {} => r.pc = "create"
        /\ left = {} => r.pc = "mark"
    <3>1. CASE left # {}
      BY <1>1, <1>3, <1>5, <3>1 DEF TaskRecords, Steps
    <3>2. CASE left = {}
      BY <1>1, <1>3, <1>5, <3>2 DEF TaskRecords, Steps
    <3> QED  BY <3>1, <3>2
  <2> HIDE DEF r
  <2>2. r.pc \in {"create", "mark"} /\ r.todo \subseteq task[t].todo /\ s \notin r.todo
    BY <2>1
  <2>3. task'[t] = r /\ (\A u \in Tasks \ {t} : task'[u] = task[u])
    BY <1>0 DEF Inv, TypeOK
  <2>4. TypeOK'
    <3>1. task' \in [Tasks -> TaskRecords]
      BY <1>0, <2>1 DEF Inv, TypeOK
    <3>2. ASSUME NEW u \in Tasks
          PROVE  /\ task'[u].todo \subseteq IF task'[u].kind = "push" THEN Research ELSE Signals
                 /\ task'[u].pc \in {"create", "save"} => task'[u].todo # {}
                 /\ task'[u].pc = "save" =>
                      task'[u].at \in Executions /\ task'[u].at[1] \in task'[u].todo
      <4>1. CASE u = t
        BY <1>1, <2>1, <2>2, <2>3, <4>1
      <4>2. CASE u # t
        BY <2>3, <4>2 DEF Inv, TypeOK
      <4> QED  BY <4>1, <4>2
    <3>3. hash' \subseteq Executions /\ unsaved' \subseteq Ids
      BY <1>1 DEF Inv, TypeOK, s
    <3> QED  BY <3>1, <3>2, <3>3 DEF Inv, TypeOK, database
  <2>5. Holds'
    <3> SUFFICES ASSUME NEW u \in Tasks
                 PROVE  /\ task'[u].pc \notin {"create", "save", "mark"} => task'[u].known \subseteq processed
                        /\ task'[u].kind = "push" =>
                             /\ task'[u].known = {} /\ task'[u].todo # {}
                             /\ \A a, b \in task'[u].todo : a = b
                        /\ task'[u].todo \cap task'[u].known = {}
                        /\ task'[u].pc \in {"read", "query", "mark"} => task'[u].todo = {}
                        /\ task'[u].pc = "save" => task'[u].at \in memory'
      BY DEF Holds
    <3>1. CASE u = t
      BY <1>1, <1>5, <2>1, <2>2, <2>3, <3>1
    <3>2. CASE u # t
      BY <2>3, <3>2 DEF Inv, Holds
    <3> QED  BY <3>1, <3>2
  <2>6. KnownIsMirrored' /\ ProcessedIsMirrored'
    <3>1. s \in unsaved' \/ \E e \in hash' : e[1] = s
      BY DEF s
    <3> QED  BY <2>1, <2>3, <3>1 DEF Inv, KnownIsMirrored, ProcessedIsMirrored
  <2>7. Loading'
    BY <1>1, <2>3, LoadGoesOn
  <2>8. Once'
    <3>1. /\ \A u \in Tasks \ {t} : InHand(u)' = InHand(u) /\ Ahead(u)' = Ahead(u)
          /\ InHand(t)' = (task[t].known \cup {s}) \ processed
          /\ InHand(t) = (task[t].known \ processed) \cup {s}
          /\ Ahead(t)' \subseteq Ahead(t)
      BY <2>1, <2>2, <2>3 DEF InHand, Ahead, At, s
    <3> QED  BY <3>1 DEF Inv, Once
  <2> QED  BY <2>4, <2>5, <2>6, <2>7, <2>8 DEF Inv
<1> QED  BY <1>4, <1>5

\* _save_to_redis, in both outcomes.
LEMMA SaveStep ==
  ASSUME Inv, NEW t \in Tasks, SaveToRedis(t) \/ SaveFails(t)
  PROVE  Inv'
<1>1. CASE SaveToRedis(t)
  <2>1. /\ task[t].pc = "save" /\ Saved(t) /\ hash' = hash \cup {task[t].at}
        /\ UNCHANGED <<database, processed, memory, initialized, made, unsaved, excused, blind, faults>>
    BY <1>1 DEF SaveToRedis, At, history
  <2>2. faults' \in Nat
    BY <2>1 DEF Inv, TypeOK
  <2> QED  BY <2>1, <2>2, SavedStep
<1>2. CASE SaveFails(t)
  <2>1. /\ task[t].pc = "save" /\ Saved(t)
        /\ UNCHANGED <<database, processed, memory, initialized, made, excused, blind>>
        /\ \/ hash' = hash \cup {task[t].at} /\ unsaved' = unsaved
           \/ unsaved' = unsaved \cup {task[t].at[1]} /\ hash' = hash
    BY <1>2 DEF SaveFails, At
  <2>2. faults' \in Nat
    BY <1>2 DEF SaveFails, Fault, Inv, TypeOK
  <2> QED  BY <2>1, <2>2, SavedStep
<1> QED  BY <1>1, <1>2

\* The marks are written: a signal that another task may still mirror, or that
\* is left without its mark, is excused from now on.
LEMMA MarkStep == ASSUME Inv, NEW t \in Tasks, Mark(t) PROVE Inv'
<1>1. PICK marks \in SUBSET task[t].known :
        /\ processed' = processed \cup marks
        /\ excused' = excused \cup (task[t].known \ processed')
                        \cup (marks \cap UNION {Ahead(u) : u \in Tasks \ {t}})
        /\ faults' = faults \/ faults' = faults + 1
  BY DEF Mark, Fault
<1>2. /\ task[t].pc = "mark" /\ task' = [task EXCEPT ![t] = Idle]
      /\ UNCHANGED <<database, hash, memory, initialized, made, unsaved, blind>>
  BY DEF Mark, At
<1>3. /\ Idle \in TaskRecords /\ Idle.pc = "idle" /\ Idle.known = {} /\ Idle.todo = {}
      /\ Idle.kind = "sync"
  BY DEF Idle, TaskRecords, Steps
<1>4. task'[t] = Idle /\ \A u \in Tasks \ {t} : task'[u] = task[u]
  BY <1>2 DEF Inv, TypeOK
<1>5. task[t].known \subseteq Signals
  BY DEF Inv, TypeOK, TaskRecords
<1>6. TypeOK'
  <2>1. task' \in [Tasks -> TaskRecords]
    BY <1>2, <1>3 DEF Inv, TypeOK
  <2>2. ASSUME NEW u \in Tasks
        PROVE  /\ task'[u].todo \subseteq IF task'[u].kind = "push" THEN Research ELSE Signals
               /\ task'[u].pc \in {"create", "save"} => task'[u].todo # {}
               /\ task'[u].pc = "save" =>
                    task'[u].at \in Executions /\ task'[u].at[1] \in task'[u].todo
    BY <1>3, <1>4 DEF Inv, TypeOK
  <2>3. processed' \subseteq Signals /\ excused' \subseteq Ids
    BY <1>1, <1>5 DEF Inv, TypeOK, Ids
  <2>4. faults' \in Nat
    BY <1>1 DEF Inv, TypeOK
  <2> QED  BY <1>2, <2>1, <2>2, <2>3, <2>4 DEF Inv, TypeOK, database
<1>7. Holds'
  BY <1>1, <1>2, <1>3, <1>4 DEF Inv, Holds
<1>8. KnownIsMirrored' /\ ProcessedIsMirrored'
  BY <1>1, <1>2, <1>3, <1>4 DEF Inv, KnownIsMirrored, ProcessedIsMirrored
<1>9. Loading'
  BY <1>2, <1>4, LoadGoesOn
<1>10. Once'
  <2> SUFFICES ASSUME NEW x \in Signals \ excused'
               PROVE  /\ made[x] <= 1
                      /\ made[x] = 1 => x \in processed' \/ \E u \in Tasks : x \in InHand(u)'
                      /\ x \in processed' => \A u \in Tasks : x \notin Ahead(u)'
    BY <1>2 DEF Once
  <2>1. /\ made[x] <= 1
        /\ made[x] = 1 => x \in processed \/ \E u \in Tasks : x \in InHand(u)
        /\ x \in processed => \A u \in Tasks : x \notin Ahead(u)
    BY <1>1 DEF Inv, Once
  <2>2. \A u \in Tasks \ {t} : Ahead(u)' = Ahead(u) /\ InHand(u) \subseteq InHand(u)' \cup processed'
    BY <1>1, <1>4 DEF InHand, Ahead, At
  <2>3. Ahead(t)' = {} /\ InHand(t) \subseteq task[t].known
    BY <1>2, <1>3, <1>4 DEF InHand, Ahead, At
  <2>4. x \in task[t].known => x \in processed'
    BY <1>1
  <2>5. x \in marks => \A u \in Tasks \ {t} : x \notin Ahead(u)
    BY <1>1
  <2>6. made[x] = 1 => x \in processed' \/ \E u \in Tasks : x \in InHand(u)'
    BY <1>1, <2>1, <2>2, <2>3, <2>4
  <2>7. x \in processed' => \A u \in Tasks : x \notin Ahead(u)'
    BY <1>1, <2>1, <2>2, <2>3, <2>5
  <2> QED  BY <2>1, <2>6, <2>7
<1> QED  BY <1>6, <1>7, <1>8, <1>9, <1>10 DEF Inv

\* The process starts again: what its tasks had in hand is excused.
LEMMA RestartStep == Inv /\ Restart => Inv'
<1> SUFFICES ASSUME Inv, Restart PROVE Inv'
  OBVIOUS
<1>1. /\ Idle \in TaskRecords /\ Idle.pc = "idle" /\ Idle.known = {} /\ Idle.todo = {}
      /\ Idle.kind = "sync"
  BY DEF Idle, TaskRecords, Steps
<1>2. /\ task' = [t \in Tasks |-> Idle] /\ \A t \in Tasks : task'[t] = Idle
      /\ memory' = {} /\ initialized' = FALSE /\ blind' = FALSE
      /\ excused' = excused \cup UNION {InHand(t) : t \in Tasks}
      /\ UNCHANGED <<database, hash, processed, made, unsaved>>
  BY DEF Restart
<1>3. faults' \in Nat
  BY DEF Restart, Fault, Inv, TypeOK
<1>4. excused' \subseteq Ids
  <2>1. \A t \in Tasks : InHand(t) \subseteq Ids
    BY DEF Inv, TypeOK, TaskRecords, Executions, InHand, At, Ids
  <2> QED  BY <1>2, <2>1 DEF Inv, TypeOK
<1>5. TypeOK'
  BY <1>1, <1>2, <1>3, <1>4 DEF Inv, TypeOK, database
<1>6. Holds' /\ KnownIsMirrored' /\ ProcessedIsMirrored' /\ Loading'
  BY <1>1, <1>2 DEF Inv, Holds, KnownIsMirrored, ProcessedIsMirrored, Loading
<1>7. Once'
  <2>1. \A t \in Tasks : Ahead(t)' = {}
    BY <1>1, <1>2 DEF Ahead, At
  <2> QED  BY <1>2, <2>1 DEF Inv, Once
<1> QED  BY <1>5, <1>6, <1>7 DEF Inv

\* The table of signals changes, or nothing does.
LEMMA TableStep ==
  ASSUME Inv, active' \subseteq Signals, retired' \subseteq Signals,
         UNCHANGED <<hash, processed, memory, initialized, task, made, history, faults>>
  PROVE  Inv'
<1>1. TypeOK'
  BY DEF Inv, TypeOK, history
<1>2. Holds' /\ KnownIsMirrored' /\ ProcessedIsMirrored' /\ Loading'
  BY DEF Inv, Holds, KnownIsMirrored, ProcessedIsMirrored, Loading, history
<1>3. Once'
  BY DEF Inv, Once, InHand, Ahead, At, history
<1> QED  BY <1>1, <1>2, <1>3 DEF Inv

-----------------------------------------------------------------------------
\* Every step of the service keeps the invariant.
LEMMA NextInv == Inv /\ [Next]_vars => Inv'
<1> SUFFICES ASSUME Inv, [Next]_vars PROVE Inv'
  OBVIOUS
<1>1. CASE BeginJob
  BY <1>1, BeginJobStep
<1>2. CASE Restart
  BY <1>2, RestartStep
<1>3. ASSUME NEW t \in Tasks, Step(t) PROVE Inv'
  BY <1>3, EnsureStep, LoadKeysStep, LoadFailsStep, LoadOneStep, ReadStep, QueryStep,
     SaveStep, MarkStep, CreateStep DEF Step
<1>4. ASSUME NEW t \in Requests, NEW kind \in {"sync", "read"}, Begin(t, kind) PROVE Inv'
  BY <1>4, RequestStep
<1>5. ASSUME NEW t \in Requests, NEW s \in Research, PushToShadow(t, s) PROVE Inv'
  BY <1>5, PushStep
<1>6. ASSUME NEW s \in Signals, Generate(s) \/ Retire(s) PROVE Inv'
  <2>1. active' \subseteq Signals /\ retired' \subseteq Signals
    BY <1>6 DEF Generate, Retire, Inv, TypeOK
  <2>2. UNCHANGED <<hash, processed, memory, initialized, task, made, history, faults>>
    BY <1>6 DEF Generate, Retire
  <2> QED  BY <2>1, <2>2, TableStep
<1>7. CASE UNCHANGED vars
  <2>1. /\ active' \subseteq Signals /\ retired' \subseteq Signals
        /\ UNCHANGED <<hash, processed, memory, initialized, task, made, history, faults>>
    BY <1>7 DEF vars, history, Inv, TypeOK
  <2> QED  BY <2>1, TableStep
<1> QED  BY <1>1, <1>2, <1>3, <1>4, <1>5, <1>6, <1>7 DEF Next

\* The invariant holds throughout.
LEMMA Invariant == Spec => []Inv
<1> QED  BY InitInv, NextInv, PTL DEF Spec

\* The variables keep their types, and a task that creates or saves has the
\* signal it does so for.
THEOREM TypeCorrect == Spec => []TypeOK
<1>1. Inv => TypeOK
  BY DEF Inv
<1> QED  BY <1>1, Invariant, PTL

\* sync_from_signals marks no signal whose execution has not been written to
\* the hash or refused by it, however syncs, pushes and restarts interleave.
THEOREM MarkedIsMirrored == Spec => []ProcessedIsMirrored
<1>1. Inv => ProcessedIsMirrored
  BY DEF Inv
<1> QED  BY <1>1, Invariant, PTL

\* A second execution of a signal of the table always has one of the causes
\* that excused records; there is no other way to it.
THEOREM MirroredOnce == Spec => []RepeatedOnlyUnmarked
<1>1. Inv => RepeatedOnlyUnmarked
  BY DEF Inv, Once, RepeatedOnlyUnmarked, TypeOK, Ids
<1> QED  BY <1>1, Invariant, PTL

\* With the load done and not failed, the dictionary has the whole hash.
THEOREM LoadIsComplete == Spec => []MemoryComplete
<1>1. Inv => MemoryComplete
  BY DEF Inv, Loading, MemoryComplete
<1> QED  BY <1>1, Invariant, PTL

=============================================================================
