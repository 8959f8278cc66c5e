--------------------------- MODULE ProviderProofs ---------------------------
(***************************************************************************)
(* Proofs about the Providers around the runtime: the SDK resources of a   *)
(* cloud provider, the profiles, bindings and credentials that choose one, *)
(* and the reading of one stream.                                          *)
(*                                                                         *)
(* Resources, for any number of requests and of calls of aclose(), any     *)
(* keys and any number of changes of the credential: nothing open is       *)
(* forgotten, one credential is in use, and a closed provider opens        *)
(* nothing.  The argument is about the awaits.  A task that waits for      *)
(* close() or create() holds the lifecycle lock, so no other task changes  *)
(* the client in use or empties the closing registry; but the lock is not  *)
(* held while a stream ends, and its request moves it between the          *)
(* registries under the eyes of the holder.  The invariant says what the   *)
(* holder may still rely on when it resumes: before it creates a client    *)
(* nothing is in use, and whatever is open is on its list.                 *)
(*                                                                         *)
(* Settings, for any profiles, credentials and number of commands: the     *)
(* stored records are always supported, at most one of them is too many,   *)
(* and the document describes what runs.  The invariant adds what the      *)
(* earlier steps of a start have ensured, on which the later ones rely,    *)
(* and that only a running slot names a profile, on which the commands'    *)
(* refusals rely.                                                          *)
(*                                                                         *)
(* A stream, for any output indices, ids, fragments, limits and number of  *)
(* events, in any order: the invariant says that as long as no failure is  *)
(* recorded, the adapter's few variables are a summary of all the service  *)
(* sent.  One terminal kind stands for one terminal event, a known call    *)
(* for an announced one, and the assembled parts for the fragments of that *)
(* call, each at its rank among them.                                      *)
(***************************************************************************)
EXTENDS ProviderResources, ProviderSettings, ProviderStream, SequenceTheorems, FiniteSetTheorems, TLAPS

\* The clients created so far.
Clients == (ClientId(0) + 1)..ClientId(Len(keyOf))

TaskRecord ==
    [pc : {"new", "want", "cleaning", "closing", "creating", "streaming", "done"},
     then : {"none", "secret", "client", "close", "end", "retire", "retired"},
     todo : SUBSET Nat, failed : BOOLEAN, cur : Nat, read : Keys \cup {"none"}]

Typed ==
    /\ TypeOK /\ closed \in BOOLEAN
    /\ client \in Clients \cup {0}
    /\ open \subseteq Requests \cup Clients
    /\ pending \subseteq Requests \cup Clients /\ closing \subseteq Requests \cup Clients
    /\ keyOf \in Seq(Keys \cup {"none"}) /\ user \in [Requests -> Nat]
    /\ task \in [Tasks -> TaskRecord]

\* The registries: the client in use is open and in no registry, active streams
\* have one, and a closed provider has none.
Registered ==
    /\ NothingOpenIsLost /\ OneCredentialInUse
    /\ client # 0 => client \in open /\ client \notin pending \cup closing
    /\ active # {} => client # 0
    /\ closed => client = 0

\* A task between two awaits that the lifecycle lock covers.
Holds(t) == task[t].pc \in {"cleaning", "closing", "creating"}

\* A request that has not opened its stream.
Unopened(t) ==
    t \in Requests /\ task[t].pc \notin {"streaming", "done"} /\ task[t].then \notin {"retire", "retired"}

\* A task that cleans up to create a client: nothing is in use, and what is
\* open is still on its list unless a close failed.
Replacing(t) == task[t].pc \in {"cleaning", "closing"} /\ task[t].then = "client"

\* What a task relies on while others run between its awaits.
TaskOK(t) ==
    /\ Holds(t) <=> lock = t
    /\ t \in Closers => /\ task[t].pc \notin {"creating", "streaming"}
                        /\ task[t].then \in {"none", "close", "end"}
                        /\ task[t].pc = "want" => task[t].then = "close"
    /\ task[t].pc = "new" => task[t].then = "none"
    /\ t \in Requests /\ task[t].pc = "want" => task[t].then \in {"secret", "retire"}
    /\ Unopened(t) => t \notin active \cup pending \cup closing \cup open
    /\ Replacing(t) => client = 0 /\ active = {} /\ ~closed /\ (~task[t].failed => open \subseteq task[t].todo)
    /\ task[t].pc = "closing" =>
         /\ task[t].cur \in closing
         /\ kind = "deepseek" /\ task[t].cur \notin Requests =>
              \A s \in open : s \in Requests => user[s] # task[t].cur
    /\ task[t].pc = "creating" => client # 0 /\ ~closed /\ Unopened(t)

\* The inductive invariant.
ResourcesInv == Typed /\ Registered /\ \A t \in Tasks : TaskOK(t)

\* Names, streams, clients and tasks do not get mixed up.
LEMMA NumberFacts ==
    ASSUME ResourcesAssumption
    PROVE  /\ Tasks = 1..(NumRequests + NumCloses)
           /\ Requests \subseteq Tasks /\ Closers \subseteq Tasks
           /\ \A t \in Tasks : t \in Requests \/ t \in Closers
           /\ \A t \in Requests : t \notin Closers /\ t \notin Clients /\ t # 0
           /\ 0 \notin Clients /\ Nobody \notin Tasks
           /\ Clients \subseteq Nat /\ Requests \subseteq Nat
BY DEF ResourcesAssumption, Tasks, Requests, Closers, Clients, ClientId, Nobody

\* Nothing open has the number that stands for no client.
LEMMA OpenFacts ==
    ASSUME ResourcesAssumption, Typed, Registered
    PROVE  /\ 0 \notin open /\ 0 \notin pending \cup closing
           /\ active \subseteq Requests /\ client \notin Requests
           /\ \A r \in open : r \in active \cup pending \cup closing \/ r = client
           /\ \A r \in active : r \notin pending \cup closing
           /\ Isolated \subseteq Requests \cup Clients
           /\ open \subseteq Isolated \cup closing
BY NumberFacts DEF Typed, Registered, NothingOpenIsLost, TypeOK, Isolated

\* The record of a task that continues with another one.
LEMMA Becoming ==
    ASSUME Typed, NEW t \in Tasks, NEW new \in TaskRecord, Become(t, new)
    PROVE  /\ task' \in [Tasks -> TaskRecord] /\ task'[t] = new
           /\ \A u \in Tasks : u # t => task'[u] = task[u]
           /\ \A u \in Tasks : u # t => (Holds(u)' <=> Holds(u)) /\ (Unopened(u)' <=> Unopened(u))
                                        /\ (Replacing(u)' <=> Replacing(u))
BY DEF Typed, Become, Holds, Unopened, Replacing

\* A task that does not change keeps what it relies on when the step takes nothing
\* it needs away; only the holder of the lock needs more than its own stream.
LEMMA OtherTasks ==
    ASSUME NEW u \in Tasks, TaskOK(u), task'[u] = task[u], kind' = kind,
           Holds(u) <=> lock' = u,
           Unopened(u) => u \notin active' \cup pending' \cup closing' \cup open',
           Holds(u) => /\ client' = client /\ closed' = closed /\ open' = open /\ user' = user
                       /\ active' \subseteq active /\ closing \subseteq closing'
    PROVE  TaskOK(u)'
BY DEF TaskOK, Holds, Unopened, Replacing

\* The stored credential is no part of what the tasks rely on.
LEMMA CredentialChangesKeeps ==
    ASSUME ResourcesAssumption, ResourcesInv, CredentialChanges PROVE ResourcesInv'
<1>1. UNCHANGED <<kind, closed, client, task, lock, active, pending, closing, open, keyOf, user>> /\ key' \in Keys \cup {"none"}
  BY DEF CredentialChanges, Registries, SDK
<1>2. Typed' /\ Registered'
  BY <1>1 DEF ResourcesInv, Typed, Registered, TypeOK, NothingOpenIsLost, OneCredentialInUse, Clients, Tasks
<1>3. \A u \in Tasks : TaskOK(u)'
  BY <1>1 DEF ResourcesInv, TaskOK, Holds, Unopened, Replacing, Closers
<1> QED
  BY <1>2, <1>3 DEF ResourcesInv

\* What stays as it is when a step touches neither a resource nor a registry.
LEMMA RegistriesStay ==
    ASSUME Typed, Registered, UNCHANGED <<kind, key, closed, client, active, pending, closing, open, keyOf, user>>,
           lock' \in Tasks \cup {Nobody}, task' \in [Tasks -> TaskRecord]
    PROVE  Typed' /\ Registered'
<1>1. \A u \in Tasks : task'[u].pc \in {"new", "want", "cleaning", "closing", "creating", "streaming", "done"}
  BY DEF TaskRecord
<1> QED
  BY <1>1 DEF Typed, Registered, TypeOK, NothingOpenIsLost, OneCredentialInUse, Clients, Tasks, TaskRecord

\* A request or an aclose() begins: it holds nothing and relies on nothing.
LEMMA BeginKeeps ==
    ASSUME ResourcesAssumption, ResourcesInv, NEW t \in Tasks, Begin(t) PROVE ResourcesInv'
<1> DEFINE new == [NewTask EXCEPT !.pc = "want", !.then = IF t \in Requests THEN "secret" ELSE "close"]
<1>1. new \in TaskRecord /\ new.pc = "want" /\ new.then = IF t \in Requests THEN "secret" ELSE "close"
  BY DEF NewTask, TaskRecord
<1>2. task[t].pc = "new" /\ Become(t, new) /\ lock' = lock
      /\ UNCHANGED <<kind, key, closed, client, active, pending, closing, open, keyOf, user>>
  BY DEF Begin, Registries, SDK, Unchanged
<1> HIDE DEF new
<1>3. /\ task' \in [Tasks -> TaskRecord] /\ task'[t] = new
      /\ \A u \in Tasks : u # t => task'[u] = task[u]
  BY <1>1, <1>2, Becoming DEF ResourcesInv
<1>4. Typed' /\ Registered'
  BY <1>2, <1>3, RegistriesStay DEF ResourcesInv, Typed, TypeOK
<1>5. TaskOK(t)'
  BY <1>1, <1>2, <1>3, NumberFacts DEF ResourcesInv, TaskOK, Holds, Unopened, Replacing
<1>6. ASSUME NEW u \in Tasks, u # t PROVE TaskOK(u)'
  BY <1>2, <1>3, <1>6, OtherTasks DEF ResourcesInv, TaskOK
<1> QED
  BY <1>4, <1>5, <1>6 DEF ResourcesInv

\* The end of a task, whichever await it is at.
LEMMA EndKeeps ==
    ASSUME ResourcesAssumption, ResourcesInv, NEW t \in Tasks, End(t),
           UNCHANGED <<kind, key, closed, client, active, pending, closing, open, keyOf, user>>
    PROVE  ResourcesInv'
<1> DEFINE new == [task[t] EXCEPT !.pc = "done", !.todo = {}]
<1>1. new \in TaskRecord /\ new.pc = "done" /\ new.then = task[t].then
  BY DEF TaskRecord, ResourcesInv, Typed
<1>2. Become(t, new) /\ lock' = IF lock = t THEN Nobody ELSE lock
  BY DEF End
<1> HIDE DEF new
<1>3. /\ task' \in [Tasks -> TaskRecord] /\ task'[t] = new
      /\ \A u \in Tasks : u # t => task'[u] = task[u]
  BY <1>1, <1>2, Becoming DEF ResourcesInv
<1>4. Typed' /\ Registered'
  BY <1>2, <1>3, RegistriesStay DEF ResourcesInv, Typed, TypeOK
<1>5. TaskOK(t)'
  BY <1>1, <1>2, <1>3, NumberFacts DEF ResourcesInv, TaskOK, Holds, Unopened, Replacing
<1>6. ASSUME NEW u \in Tasks, u # t PROVE TaskOK(u)'
  <2>1. Holds(u) <=> lock' = u
    BY <1>2, <1>6, NumberFacts DEF ResourcesInv, TaskOK
  <2> QED
    BY <1>3, <1>6, <2>1, OtherTasks DEF ResourcesInv, TaskOK
<1> QED
  BY <1>4, <1>5, <1>6 DEF ResourcesInv

\* A list of resources to be closed, or the stream of a request, is on the books.
LEMMA AcquireKeeps ==
    ASSUME ResourcesAssumption, ResourcesInv, NEW t \in Tasks, Acquire(t) PROVE ResourcesInv'
<1>1. /\ task[t].pc = "want" /\ lock = Nobody /\ lock' = t
      /\ UNCHANGED <<kind, key, open, keyOf, user>>
  BY DEF Acquire, SDK, Unchanged
<1>2. task[t] \in TaskRecord /\ \A u \in Tasks : ~Holds(u)
  BY <1>1, NumberFacts DEF ResourcesInv, Typed, TaskOK
<1>3. pending \subseteq Nat /\ closing \subseteq Nat /\ Isolated \subseteq Nat /\ t \in Nat
  BY NumberFacts, OpenFacts DEF ResourcesInv, Typed
<1>4. CASE task[t].then = "close"
  <2> DEFINE new == [task[t] EXCEPT !.pc = "cleaning", !.todo = Isolated \cup closing, !.then = "end", !.failed = FALSE]
  <2>1. new \in TaskRecord /\ new.pc = "cleaning" /\ new.then = "end"
    BY <1>2, <1>3 DEF TaskRecord
  <2>2. Become(t, new) /\ closed' = TRUE /\ pending' = Isolated /\ active' = {} /\ client' = 0 /\ closing' = closing
    BY <1>4 DEF Acquire, Cleaning, Isolate
  <2> HIDE DEF new
  <2>3. /\ task' \in [Tasks -> TaskRecord] /\ task'[t] = new
        /\ \A u \in Tasks : u # t => task'[u] = task[u]
    BY <2>1, <2>2, Becoming DEF ResourcesInv
  <2>4. Typed'
    <3>1. TypeOK'
      BY <1>1, <2>2, <2>3 DEF ResourcesInv, Typed, TypeOK, TaskRecord
    <3> QED
      BY <1>1, <2>2, <2>3, <3>1, OpenFacts DEF ResourcesInv, Typed, Clients
  <2>5. Registered'
    BY <1>1, <2>2, OpenFacts DEF ResourcesInv, Registered, NothingOpenIsLost, OneCredentialInUse
  <2>6. TaskOK(t)'
    BY <1>1, <1>4, <2>1, <2>2, <2>3, NumberFacts DEF ResourcesInv, TaskOK, Holds, Unopened, Replacing
  <2>7. ASSUME NEW u \in Tasks, u # t PROVE TaskOK(u)'
    <3>1. Unopened(u) => u \notin pending' \cup active' \cup closing' \cup open'
      <4>1. Unopened(u) => u # client
        BY OpenFacts DEF ResourcesInv, Unopened
      <4> QED
        BY <1>1, <2>2, <4>1 DEF ResourcesInv, TaskOK, Isolated
    <3> QED
      BY <1>1, <1>2, <2>3, <2>7, <3>1, OtherTasks DEF ResourcesInv
  <2> QED
    BY <2>4, <2>5, <2>6, <2>7 DEF ResourcesInv
<1>5. CASE task[t].then # "close"
  <2> DEFINE list == IF task[t].then = "retire" THEN {t} ELSE pending \cup closing
             new == [task[t] EXCEPT !.pc = "cleaning", !.todo = list,
                                    !.then = IF task[t].then = "retire" THEN "retired" ELSE "secret", !.failed = FALSE]
  <2>1. new \in TaskRecord /\ new.pc = "cleaning" /\ new.then = IF task[t].then = "retire" THEN "retired" ELSE "secret"
    BY <1>2, <1>3 DEF TaskRecord
  <2>2. Become(t, new) /\ UNCHANGED <<closed, client, active, pending, closing>>
    BY <1>5 DEF Acquire, Cleaning, Registries
  <2> HIDE DEF new
  <2>3. /\ task' \in [Tasks -> TaskRecord] /\ task'[t] = new
        /\ \A u \in Tasks : u # t => task'[u] = task[u]
    BY <2>1, <2>2, Becoming DEF ResourcesInv
  <2>4. Typed' /\ Registered'
    BY <1>1, <2>2, <2>3, RegistriesStay DEF ResourcesInv, Typed, TypeOK
  <2>5. TaskOK(t)'
    BY <1>1, <1>5, <2>1, <2>2, <2>3, NumberFacts DEF ResourcesInv, TaskOK, Holds, Unopened, Replacing
  <2>6. ASSUME NEW u \in Tasks, u # t PROVE TaskOK(u)'
    BY <1>1, <1>2, <2>2, <2>3, <2>6, OtherTasks DEF ResourcesInv, TaskOK
  <2> QED
    BY <2>4, <2>5, <2>6 DEF ResourcesInv
<1> QED
  BY <1>4, <1>5

\* The steps that end a task and change nothing else.
LEMMA EndingKeeps ==
    ASSUME ResourcesAssumption, ResourcesInv, NEW t \in Tasks,
           CancelWaiting(t) \/ CloseCancelled(t) \/ CleanupEnds(t) \/ CreateFails(t)
    PROVE  ResourcesInv'
<1>1. End(t) /\ UNCHANGED <<kind, key, closed, client, active, pending, closing, open, keyOf, user>>
  BY DEF CancelWaiting, CloseCancelled, CleanupEnds, CreateFails, Registries, SDK, Unchanged
<1> QED
  BY <1>1, EndKeeps

\* Only one task at a time is between two awaits that the lock covers.
LEMMA Alone ==
    ASSUME ResourcesAssumption, ResourcesInv, NEW t \in Tasks, Holds(t)
    PROVE  lock = t /\ \A u \in Tasks : u # t => ~Holds(u)
BY DEF ResourcesInv, TaskOK

\* The next resource of the list: already closed, put off because of its streams, or at the await.
LEMMA BeginCloseResourceKeeps ==
    ASSUME ResourcesAssumption, ResourcesInv, NEW t \in Tasks, BeginCloseResource(t) PROVE ResourcesInv'
<1>1. /\ task[t].pc = "cleaning" /\ UNCHANGED <<kind, key, closed, client, lock, open, keyOf, user, active>>
  BY DEF BeginCloseResource, SDK, Unchanged, Registries
<1>2. task[t] \in TaskRecord
  BY DEF ResourcesInv, Typed
<1>3. lock = t /\ \A u \in Tasks : u # t => ~Holds(u)
  BY <1>1, Alone DEF Holds
<1>4. PICK r \in Candidates(t) :
         IF r \notin pending \cup closing
         THEN Become(t, [task[t] EXCEPT !.todo = @ \ {r}]) /\ UNCHANGED Registries
         ELSE IF ClientsWait(t, r)
         THEN Become(t, [task[t] EXCEPT !.todo = {}, !.failed = TRUE]) /\ UNCHANGED Registries
         ELSE /\ Become(t, [task[t] EXCEPT !.pc = "closing", !.cur = r])
              /\ pending' = pending \ {r} /\ closing' = closing \cup {r} /\ UNCHANGED active
  BY DEF BeginCloseResource
<1>5. CASE r \notin pending \cup closing
  <2> DEFINE new == [task[t] EXCEPT !.todo = @ \ {r}]
  <2>1. new \in TaskRecord /\ new.pc = "cleaning" /\ new.then = task[t].then /\ new.failed = task[t].failed
        /\ new.todo = task[t].todo \ {r}
    BY <1>1, <1>2 DEF TaskRecord
  <2>2. Become(t, new) /\ UNCHANGED <<pending, closing>>
    BY <1>4, <1>5 DEF Registries
  <2> HIDE DEF new
  <2>3. /\ task' \in [Tasks -> TaskRecord] /\ task'[t] = new
        /\ \A u \in Tasks : u # t => task'[u] = task[u]
    BY <2>1, <2>2, Becoming DEF ResourcesInv
  <2>4. Typed' /\ Registered'
    BY <1>1, <2>2, <2>3, RegistriesStay DEF ResourcesInv, Typed, TypeOK
  <2>5. client = 0 /\ active = {} => r \notin open
    BY <1>5, OpenFacts DEF ResourcesInv
  <2>6. TaskOK(t)'
    BY <1>1, <1>3, <2>1, <2>2, <2>3, <2>5 DEF ResourcesInv, TaskOK, Holds, Unopened, Replacing
  <2>7. ASSUME NEW u \in Tasks, u # t PROVE TaskOK(u)'
    BY <1>1, <1>3, <2>2, <2>3, <2>7, OtherTasks DEF ResourcesInv, TaskOK
  <2> QED
    BY <2>4, <2>6, <2>7 DEF ResourcesInv
<1>6. CASE r \in pending \cup closing /\ ClientsWait(t, r)
  <2> DEFINE new == [task[t] EXCEPT !.todo = {}, !.failed = TRUE]
  <2>1. new \in TaskRecord /\ new.pc = "cleaning" /\ new.then = task[t].then /\ new.failed = TRUE
    BY <1>1, <1>2 DEF TaskRecord
  <2>2. Become(t, new) /\ UNCHANGED <<pending, closing>>
    BY <1>4, <1>6 DEF Registries
  <2> HIDE DEF new
  <2>3. /\ task' \in [Tasks -> TaskRecord] /\ task'[t] = new
        /\ \A u \in Tasks : u # t => task'[u] = task[u]
    BY <2>1, <2>2, Becoming DEF ResourcesInv
  <2>4. Typed' /\ Registered'
    BY <1>1, <2>2, <2>3, RegistriesStay DEF ResourcesInv, Typed, TypeOK
  <2>5. TaskOK(t)'
    BY <1>1, <1>3, <2>1, <2>2, <2>3 DEF ResourcesInv, TaskOK, Holds, Unopened, Replacing
  <2>6. ASSUME NEW u \in Tasks, u # t PROVE TaskOK(u)'
    BY <1>1, <1>3, <2>2, <2>3, <2>6, OtherTasks DEF ResourcesInv, TaskOK
  <2> QED
    BY <2>4, <2>5, <2>6 DEF ResourcesInv
<1>7. CASE r \in pending \cup closing /\ ~ClientsWait(t, r)
  <2> DEFINE new == [task[t] EXCEPT !.pc = "closing", !.cur = r]
  <2>1. r \in Requests \cup Clients /\ r \in Nat /\ r # client
    BY <1>7, NumberFacts, OpenFacts DEF ResourcesInv, Typed, Registered
  <2>2. new \in TaskRecord /\ new.pc = "closing" /\ new.then = task[t].then /\ new.failed = task[t].failed
        /\ new.todo = task[t].todo /\ new.cur = r
    BY <1>1, <1>2, <2>1 DEF TaskRecord
  <2>3. Become(t, new) /\ pending' = pending \ {r} /\ closing' = closing \cup {r}
    BY <1>4, <1>7
  <2> HIDE DEF new
  <2>4. /\ task' \in [Tasks -> TaskRecord] /\ task'[t] = new
        /\ \A u \in Tasks : u # t => task'[u] = task[u]
    BY <2>2, <2>3, Becoming DEF ResourcesInv
  <2>5. Typed'
    <3>1. TypeOK'
      BY <1>1, <1>7, <2>3, <2>4 DEF ResourcesInv, Typed, TypeOK, TaskRecord
    <3> QED
      BY <1>1, <2>1, <2>3, <2>4, <3>1 DEF ResourcesInv, Typed, Clients
  <2>6. Registered'
    BY <1>1, <2>1, <2>3 DEF ResourcesInv, Registered, NothingOpenIsLost, OneCredentialInUse
  <2>7. kind = "deepseek" /\ r \notin Requests => \A s \in open : s \in Requests => user[s] # r
    <3> SUFFICES ASSUME kind = "deepseek", r \notin Requests, NEW s \in open, s \in Requests
                 PROVE  user[s] # r
      OBVIOUS
    <3>1. Streams(pending \cup closing) = {}
      BY <1>7 DEF ClientsWait, IsStream
    <3>2. s \in active
      BY <3>1, OpenFacts DEF ResourcesInv, Streams, IsStream
    <3>3. client \in open
      BY <3>2 DEF ResourcesInv, Registered
    <3> QED
      BY <2>1, <3>3 DEF ResourcesInv, Registered, OneCredentialInUse, IsStream
  <2>8. TaskOK(t)'
    BY <1>1, <1>3, <1>7, <2>2, <2>3, <2>4, <2>7 DEF ResourcesInv, TaskOK, Holds, Unopened, Replacing
  <2>9. ASSUME NEW u \in Tasks, u # t PROVE TaskOK(u)'
    BY <1>1, <1>3, <1>7, <2>3, <2>4, <2>9, OtherTasks DEF ResourcesInv, TaskOK
  <2> QED
    BY <2>5, <2>6, <2>8, <2>9 DEF ResourcesInv
<1> QED
  BY <1>5, <1>6, <1>7

\* What a task closed, or could not close, is not the client in use.
LEMMA CloseReturnsKeeps ==
    ASSUME ResourcesAssumption, ResourcesInv, NEW t \in Tasks, CloseSucceeds(t) \/ CloseFails(t)
    PROVE  ResourcesInv'
<1> DEFINE r == task[t].cur
<1>1. task[t].pc = "closing" /\ UNCHANGED <<kind, key, closed, client, lock, active, keyOf, user>>
  BY DEF CloseSucceeds, CloseFails, Unchanged, SDK
<1>2. \/ pending' = pending \ {r} /\ closing' = closing \ {r} /\ open' = open \ {r} /\ Resume(t, FALSE)
      \/ pending' = pending \cup {r} /\ closing' = closing \ {r} /\ open' = open /\ Resume(t, TRUE)
  BY DEF CloseSucceeds, CloseFails, SDK
<1>3. task[t] \in TaskRecord
  BY DEF ResourcesInv, Typed
<1>4. lock = t /\ \A u \in Tasks : u # t => ~Holds(u)
  BY <1>1, Alone DEF Holds
<1>5. r \in closing /\ r # client /\ r \notin active /\ r \in Requests \cup Clients
  <2>1. r \in closing
    BY <1>1 DEF ResourcesInv, TaskOK
  <2> QED
    BY <2>1, OpenFacts DEF ResourcesInv, Registered, Typed
<1>6. PICK failed \in BOOLEAN : Resume(t, failed) /\ (~failed => open' = open \ {r})
  BY <1>2
<1> DEFINE new == [task[t] EXCEPT !.pc = "cleaning", !.todo = @ \ {r}, !.failed = @ \/ failed]
<1>7. /\ new \in TaskRecord /\ new.pc = "cleaning" /\ new.then = task[t].then
      /\ new.todo = task[t].todo \ {r} /\ (~new.failed => ~task[t].failed /\ ~failed)
  BY <1>3 DEF TaskRecord
<1>8. Become(t, new)
  BY <1>6 DEF Resume
<1> HIDE DEF new
<1>9. /\ task' \in [Tasks -> TaskRecord] /\ task'[t] = new
      /\ \A u \in Tasks : u # t => task'[u] = task[u]
  BY <1>7, <1>8, Becoming DEF ResourcesInv
<1> HIDE DEF r
<1>10. pending' \subseteq pending \cup {r} /\ closing' \subseteq closing /\ open' \subseteq open
  BY <1>2
<1>11. ASSUME NEW u \in Tasks, Unopened(u) PROVE u \notin active' \cup pending' \cup closing' \cup open'
  <2>1. u \notin active \cup pending \cup closing \cup open
    BY <1>11 DEF ResourcesInv, TaskOK
  <2> QED
    BY <1>1, <1>5, <1>10, <2>1
<1>12. Typed'
  <2>1. TypeOK'
    BY <1>1, <1>2, <1>5, <1>9 DEF ResourcesInv, Typed, TypeOK, TaskRecord
  <2> QED
    BY <1>1, <1>2, <1>5, <1>9, <2>1 DEF ResourcesInv, Typed, Clients
<1>13. Registered'
  BY <1>1, <1>2, <1>5 DEF ResourcesInv, Registered, NothingOpenIsLost, OneCredentialInUse
<1>14. TaskOK(t)'
  <2>1. Unopened(t)' <=> Unopened(t)
    BY <1>1, <1>7, <1>9 DEF Unopened
  <2>2. TaskOK(t)
    BY DEF ResourcesInv
  <2>3. Replacing(t)' => client' = 0 /\ active' = {} /\ ~closed' /\ (~new.failed => open' \subseteq new.todo)
    BY <1>1, <1>6, <1>7, <1>9, <2>2 DEF TaskOK, Replacing
  <2> QED
    BY <1>1, <1>4, <1>7, <1>9, <1>11, <2>1, <2>2, <2>3 DEF TaskOK, Holds
<1>15. ASSUME NEW u \in Tasks, u # t PROVE TaskOK(u)'
  BY <1>1, <1>4, <1>9, <1>15, <1>11, OtherTasks DEF ResourcesInv, TaskOK
<1> QED
  BY <1>12, <1>13, <1>14, <1>15 DEF ResourcesInv

\* The client in use is kept for the same credential, and isolated for another.
LEMMA ReadSecretKeeps ==
    ASSUME ResourcesAssumption, ResourcesInv, NEW t \in Tasks, ReadSecret(t) PROVE ResourcesInv'
<1>1. /\ task[t].pc = "cleaning" /\ task[t].then = "secret" /\ ~task[t].failed
      /\ UNCHANGED <<kind, key, closed, lock, open, keyOf, user>>
  BY DEF ReadSecret, Cleaned, SDK, Unchanged
<1>2. task[t] \in TaskRecord /\ t \in Requests
  BY <1>1, NumberFacts DEF ResourcesInv, Typed, TaskOK
<1>3. lock = t /\ \A u \in Tasks : u # t => ~Holds(u)
  BY <1>1, Alone DEF Holds
<1>4. PICK readable \in BOOLEAN :
         LET secret == IF closed \/ ~readable THEN "none" ELSE key IN
         IF secret # "none" /\ CurrentKey = secret
         THEN /\ Become(t, [task[t] EXCEPT !.pc = "creating"])
              /\ UNCHANGED client /\ UNCHANGED Registries
         ELSE /\ Isolate
              /\ Become(t, [task[t] EXCEPT !.pc = "cleaning", !.todo = Isolated \cup closing, !.read = secret,
                                           !.then = IF secret = "none" THEN "end" ELSE "client"])
  BY DEF ReadSecret
<1> DEFINE secret == IF closed \/ ~readable THEN "none" ELSE key
<1>5. CASE secret # "none" /\ CurrentKey = secret
  <2> DEFINE new == [task[t] EXCEPT !.pc = "creating"]
  <2>1. new \in TaskRecord /\ new.pc = "creating" /\ new.then = "secret"
    BY <1>1, <1>2 DEF TaskRecord
  <2>2. Become(t, new) /\ UNCHANGED <<client, active, pending, closing>>
    BY <1>4, <1>5 DEF Registries
  <2>3. client # 0 /\ ~closed
    BY <1>5 DEF CurrentKey
  <2> HIDE DEF new, secret
  <2>4. /\ task' \in [Tasks -> TaskRecord] /\ task'[t] = new
        /\ \A u \in Tasks : u # t => task'[u] = task[u]
    BY <2>1, <2>2, Becoming DEF ResourcesInv
  <2>5. Typed' /\ Registered'
    BY <1>1, <2>2, <2>4, RegistriesStay DEF ResourcesInv, Typed, TypeOK
  <2>6. TaskOK(t)'
    BY <1>1, <1>2, <1>3, <2>1, <2>2, <2>3, <2>4, NumberFacts DEF ResourcesInv, TaskOK, Holds, Unopened, Replacing
  <2>7. ASSUME NEW u \in Tasks, u # t PROVE TaskOK(u)'
    BY <1>1, <1>3, <2>2, <2>4, <2>7, OtherTasks DEF ResourcesInv, TaskOK
  <2> QED
    BY <2>5, <2>6, <2>7 DEF ResourcesInv
<1>6. CASE ~(secret # "none" /\ CurrentKey = secret)
  <2> DEFINE new == [task[t] EXCEPT !.pc = "cleaning", !.todo = Isolated \cup closing, !.read = secret,
                                    !.then = IF secret = "none" THEN "end" ELSE "client"]
  <2>1. secret \in Keys \cup {"none"} /\ Isolated \cup closing \subseteq Nat
    BY NumberFacts, OpenFacts DEF ResourcesInv, Typed, TypeOK
  <2>2. /\ new \in TaskRecord /\ new.pc = "cleaning" /\ new.todo = Isolated \cup closing
        /\ new.then \in {"end", "client"} /\ (new.then = "client" => ~closed)
    BY <1>1, <1>2, <2>1 DEF TaskRecord
  <2>3. Become(t, new) /\ pending' = Isolated /\ active' = {} /\ client' = 0 /\ closing' = closing
    BY <1>4, <1>6 DEF Isolate
  <2> HIDE DEF new, secret
  <2>4. /\ task' \in [Tasks -> TaskRecord] /\ task'[t] = new
        /\ \A u \in Tasks : u # t => task'[u] = task[u]
    BY <2>2, <2>3, Becoming DEF ResourcesInv
  <2>5. Typed'
    <3>1. TypeOK'
      BY <1>1, <2>3, <2>4 DEF ResourcesInv, Typed, TypeOK, TaskRecord
    <3> QED
      BY <1>1, <2>3, <2>4, <3>1, OpenFacts DEF ResourcesInv, Typed, Clients
  <2>6. Registered'
    BY <1>1, <2>3, OpenFacts DEF ResourcesInv, Registered, NothingOpenIsLost, OneCredentialInUse
  <2>7. ASSUME NEW u \in Tasks, Unopened(u) PROVE u \notin pending' \cup active' \cup closing' \cup open'
    <3>1. u # client
      BY <2>7, OpenFacts DEF ResourcesInv, Unopened
    <3> QED
      BY <1>1, <2>3, <2>7, <3>1 DEF ResourcesInv, TaskOK, Isolated
  <2>8. TaskOK(t)'
    <3>1. Unopened(t)
      BY <1>1, <1>2 DEF Unopened
    <3>2. open \subseteq new.todo
      BY <2>2, OpenFacts DEF ResourcesInv
    <3> QED
      BY <1>1, <1>2, <1>3, <2>2, <2>3, <2>4, <2>7, <3>1, <3>2, NumberFacts DEF TaskOK, Holds, Unopened, Replacing
  <2>9. ASSUME NEW u \in Tasks, u # t PROVE TaskOK(u)'
    BY <1>1, <1>3, <2>4, <2>7, <2>9, OtherTasks DEF ResourcesInv, TaskOK
  <2> QED
    BY <2>5, <2>6, <2>8, <2>9 DEF ResourcesInv
<1> QED
  BY <1>5, <1>6

\* A client is created when everything older was closed.
LEMMA CreateClientKeeps ==
    ASSUME ResourcesAssumption, ResourcesInv, NEW t \in Tasks, CreateClient(t) PROVE ResourcesInv'
<1>1. /\ task[t].pc = "cleaning" /\ task[t].then = "client" /\ task[t].todo = {} /\ ~task[t].failed
      /\ UNCHANGED <<kind, key, closed, user, active, pending, closing>>
  BY DEF CreateClient, MayCreate, Cleaned, Registries, Unchanged
<1>2. task[t] \in TaskRecord /\ t \in Requests
  BY <1>1, NumberFacts DEF ResourcesInv, Typed, TaskOK
<1>3. lock = t /\ \A u \in Tasks : u # t => ~Holds(u)
  BY <1>1, Alone DEF Holds
<1>4. open = {} /\ client = 0 /\ active = {} /\ ~closed
  BY <1>1 DEF ResourcesInv, TaskOK, Replacing
<1>5. CASE End(t) /\ UNCHANGED <<keyOf, client, open>>
  BY <1>1, <1>5, EndKeeps
<1>6. CASE /\ keyOf' = Append(keyOf, task[t].read)
           /\ client' = ClientId(Len(keyOf) + 1) /\ open' = open \cup {client'}
           /\ Become(t, [task[t] EXCEPT !.pc = "creating", !.todo = {}])
           /\ lock' = lock
  <2> DEFINE new == [task[t] EXCEPT !.pc = "creating", !.todo = {}]
  <2>1. new \in TaskRecord /\ new.pc = "creating" /\ new.then = "client"
    BY <1>1, <1>2 DEF TaskRecord
  <2>2. Become(t, new)
    BY <1>6
  <2> HIDE DEF new
  <2>3. /\ task' \in [Tasks -> TaskRecord] /\ task'[t] = new
        /\ \A u \in Tasks : u # t => task'[u] = task[u]
    BY <2>1, <2>2, Becoming DEF ResourcesInv
  <2>4. keyOf' \in Seq(Keys \cup {"none"}) /\ Len(keyOf') = Len(keyOf) + 1 /\ Len(keyOf) \in Nat
    BY <1>2, <1>6 DEF ResourcesInv, Typed, TaskRecord
  <2>5. /\ client' \in Clients' /\ Clients \subseteq Clients' /\ client' \notin Clients
        /\ client' \notin Requests /\ client' # 0
    BY <1>6, <2>4 DEF Clients, ClientId, Requests, ResourcesAssumption
  <2>6. client' \notin pending \cup closing
    BY <2>5 DEF ResourcesInv, Typed
  <2>7. open' = {client'}
    BY <1>4, <1>6
  <2>8. Typed'
    <3>1. TypeOK'
      BY <1>1, <1>6, <2>3 DEF ResourcesInv, Typed, TypeOK, TaskRecord
    <3> QED
      BY <1>1, <1>6, <2>3, <2>4, <2>5, <2>7, <3>1 DEF ResourcesInv, Typed
  <2>9. Registered'
    BY <1>1, <1>4, <2>5, <2>6, <2>7 DEF ResourcesInv, Registered, NothingOpenIsLost, OneCredentialInUse, IsStream
  <2>10. ASSUME NEW u \in Tasks, Unopened(u) PROVE u \notin pending' \cup active' \cup closing' \cup open'
    BY <1>1, <2>5, <2>7, <2>10 DEF ResourcesInv, TaskOK, Unopened
  <2>11. TaskOK(t)'
    <3>1. Unopened(t)
      BY <1>1, <1>2 DEF Unopened
    <3> QED
      BY <1>1, <1>2, <1>3, <1>4, <1>6, <2>1, <2>3, <2>5, <2>10, <3>1, NumberFacts DEF TaskOK, Holds, Unopened, Replacing
  <2>12. ASSUME NEW u \in Tasks, u # t PROVE TaskOK(u)'
    BY <1>1, <1>3, <1>6, <2>3, <2>10, <2>12, OtherTasks DEF ResourcesInv, TaskOK
  <2> QED
    BY <2>8, <2>9, <2>11, <2>12 DEF ResourcesInv
<1> QED
  BY <1>5, <1>6 DEF CreateClient

\* The stream of a request, under the client it was created with.
LEMMA CreateStreamKeeps ==
    ASSUME ResourcesAssumption, ResourcesInv, NEW t \in Tasks, CreateStream(t) PROVE ResourcesInv'
<1>1. /\ task[t].pc = "creating" /\ open' = open \cup {t} /\ user' = [user EXCEPT ![t] = client]
      /\ active' = active \cup {t} /\ lock' = Nobody
      /\ UNCHANGED <<kind, key, closed, client, pending, closing, keyOf>>
  BY DEF CreateStream, Unchanged
<1>2. task[t] \in TaskRecord /\ t \in Requests /\ client # 0 /\ client \in Nat
  BY <1>1, NumberFacts DEF ResourcesInv, Typed, TaskOK, Unopened
<1>3. lock = t /\ \A u \in Tasks : u # t => ~Holds(u)
  BY <1>1, Alone DEF Holds
<1> DEFINE new == [task[t] EXCEPT !.pc = "streaming"]
<1>4. new \in TaskRecord /\ new.pc = "streaming" /\ new.then = task[t].then
  BY <1>1, <1>2 DEF TaskRecord
<1>5. Become(t, new)
  BY DEF CreateStream
<1> HIDE DEF new
<1>6. /\ task' \in [Tasks -> TaskRecord] /\ task'[t] = new
      /\ \A u \in Tasks : u # t => task'[u] = task[u]
  BY <1>4, <1>5, Becoming DEF ResourcesInv
<1>7. Unopened(t) => t \notin pending \cup closing
  BY DEF ResourcesInv, TaskOK
<1>8. Unopened(t)
  BY <1>1 DEF ResourcesInv, TaskOK
<1>9. Typed'
  <2>1. TypeOK'
    BY <1>1, <1>2, <1>6, <1>7, <1>8 DEF ResourcesInv, Typed, TypeOK, TaskRecord
  <2>2. user' \in [Requests -> Nat]
    BY <1>1, <1>2 DEF ResourcesInv, Typed
  <2> QED
    BY <1>1, <1>2, <1>6, <2>1, <2>2 DEF ResourcesInv, Typed, Clients
<1>10. Registered'
  <2>1. user'[t] = client /\ \A s \in Requests : s # t => user'[s] = user[s]
    BY <1>1, <1>2 DEF ResourcesInv, Typed
  <2> QED
    BY <1>1, <1>2, <2>1, OpenFacts DEF ResourcesInv, Registered, NothingOpenIsLost, OneCredentialInUse, IsStream
<1>11. TaskOK(t)'
  BY <1>1, <1>2, <1>4, <1>6, NumberFacts DEF TaskOK, Holds, Unopened, Replacing
<1>12. ASSUME NEW u \in Tasks, u # t PROVE TaskOK(u)'
  <2>1. Unopened(u) => u \notin active' \cup pending' \cup closing' \cup open'
    BY <1>1, <1>12 DEF ResourcesInv, TaskOK
  <2>2. Holds(u) <=> lock' = u
    BY <1>1, <1>3, <1>12, NumberFacts
  <2> QED
    BY <1>1, <1>3, <1>6, <1>12, <2>1, <2>2, OtherTasks DEF ResourcesInv
<1> QED
  BY <1>9, <1>10, <1>11, <1>12 DEF ResourcesInv

\* A stream moves between the registries without the lock.
LEMMA StreamEndsKeeps ==
    ASSUME ResourcesAssumption, ResourcesInv, NEW t \in Tasks, StreamEnds(t) PROVE ResourcesInv'
<1>1. /\ task[t].pc = "streaming" /\ active' = active \ {t} /\ pending' = pending \cup {t}
      /\ UNCHANGED <<kind, key, closed, client, lock, closing, open, keyOf, user>>
  BY DEF StreamEnds, Unchanged, SDK
<1>2. task[t] \in TaskRecord /\ t \in Requests
  BY <1>1, NumberFacts DEF ResourcesInv, Typed, TaskOK
<1> DEFINE new == [task[t] EXCEPT !.pc = "want", !.then = "retire"]
<1>3. new \in TaskRecord /\ new.pc = "want" /\ new.then = "retire"
  BY <1>1, <1>2 DEF TaskRecord
<1>4. Become(t, new)
  BY DEF StreamEnds
<1> HIDE DEF new
<1>5. /\ task' \in [Tasks -> TaskRecord] /\ task'[t] = new
      /\ \A u \in Tasks : u # t => task'[u] = task[u]
  BY <1>3, <1>4, Becoming DEF ResourcesInv
<1>6. t # client
  BY <1>2, OpenFacts DEF ResourcesInv
<1>7. Typed'
  <2>1. TypeOK'
    BY <1>1, <1>2, <1>5 DEF ResourcesInv, Typed, TypeOK, TaskRecord
  <2> QED
    BY <1>1, <1>2, <1>5, <2>1 DEF ResourcesInv, Typed, Clients
<1>8. Registered'
  BY <1>1, <1>6 DEF ResourcesInv, Registered, NothingOpenIsLost, OneCredentialInUse
<1>9. TaskOK(t)'
  BY <1>1, <1>2, <1>3, <1>5, NumberFacts DEF ResourcesInv, TaskOK, Holds, Unopened, Replacing
<1>10. ASSUME NEW u \in Tasks, u # t PROVE TaskOK(u)'
  <2>1. Unopened(u) => u \notin active' \cup pending' \cup closing' \cup open'
    BY <1>1, <1>10 DEF ResourcesInv, TaskOK
  <2>2. Holds(u) <=> lock' = u
    BY <1>1 DEF ResourcesInv, TaskOK
  <2> QED
    BY <1>1, <1>5, <1>10, <2>1, <2>2, OtherTasks DEF ResourcesInv
<1> QED
  BY <1>7, <1>8, <1>9, <1>10 DEF ResourcesInv

\* The invariant holds in a new provider.
LEMMA ResourcesInitially ==
    ASSUME ResourcesAssumption, Init PROVE ResourcesInv
<1>1. \A t \in Tasks : task[t] = NewTask
  BY DEF Init
<1>2. NewTask \in TaskRecord /\ NewTask.pc = "new" /\ NewTask.then = "none"
  BY DEF NewTask, TaskRecord
<1>3. Typed
  <2>1. task \in [Tasks -> TaskRecord]
    BY <1>2 DEF Init
  <2>2. user \in [Requests -> Nat]
    BY DEF Init
  <2>3. TypeOK
    BY <1>1, <1>2 DEF Init, TypeOK
  <2>4. keyOf \in Seq(Keys \cup {"none"})
    BY DEF Init
  <2>5. closed \in BOOLEAN /\ client = 0 /\ open = {} /\ pending = {} /\ closing = {}
    BY DEF Init
  <2> QED
    BY <2>1, <2>2, <2>3, <2>4, <2>5 DEF Typed
<1>4. Registered
  BY DEF Init, Registered, NothingOpenIsLost, OneCredentialInUse
<1>5. \A t \in Tasks : TaskOK(t)
  BY <1>1, <1>2, NumberFacts DEF Init, TaskOK, Holds, Unopened, Replacing
<1> QED
  BY <1>3, <1>4, <1>5 DEF ResourcesInv

\* Every step keeps the invariant.
LEMMA ResourcesStep ==
    ASSUME ResourcesAssumption, ResourcesInv, [Next]_vars PROVE ResourcesInv'
<1>1. CASE CredentialChanges
  BY <1>1, CredentialChangesKeeps
<1>2. ASSUME NEW t \in Tasks, Begin(t) PROVE ResourcesInv'
  BY <1>2, BeginKeeps
<1>3. ASSUME NEW t \in Tasks, CancelWaiting(t) \/ CloseCancelled(t) \/ CleanupEnds(t) \/ CreateFails(t) PROVE ResourcesInv'
  BY <1>3, EndingKeeps
<1>4. ASSUME NEW t \in Tasks, Acquire(t) PROVE ResourcesInv'
  BY <1>4, AcquireKeeps
<1>5. ASSUME NEW t \in Tasks, BeginCloseResource(t) PROVE ResourcesInv'
  BY <1>5, BeginCloseResourceKeeps
<1>6. ASSUME NEW t \in Tasks, CloseSucceeds(t) \/ CloseFails(t) PROVE ResourcesInv'
  BY <1>6, CloseReturnsKeeps
<1>7. ASSUME NEW t \in Tasks, ReadSecret(t) PROVE ResourcesInv'
  BY <1>7, ReadSecretKeeps
<1>8. ASSUME NEW t \in Tasks, CreateClient(t) PROVE ResourcesInv'
  BY <1>8, CreateClientKeeps
<1>9. ASSUME NEW t \in Tasks, CreateStream(t) PROVE ResourcesInv'
  BY <1>9, CreateStreamKeeps
<1>10. ASSUME NEW t \in Tasks, StreamEnds(t) PROVE ResourcesInv'
  BY <1>10, StreamEndsKeeps
<1>11. CASE UNCHANGED vars
  <2>1. UNCHANGED <<kind, key, closed, client, active, pending, closing, open, keyOf, user, task, lock>>
    BY <1>11 DEF vars
  <2>2. Typed' /\ Registered'
    BY <2>1, RegistriesStay DEF ResourcesInv, Typed, TypeOK
  <2>3. ASSUME NEW u \in Tasks PROVE TaskOK(u)'
    BY <2>1, <2>3, OtherTasks DEF ResourcesInv, TaskOK
  <2> QED
    BY <2>2, <2>3 DEF ResourcesInv
<1> QED
  BY <1>1, <1>2, <1>3, <1>4, <1>5, <1>6, <1>7, <1>8, <1>9, <1>10, <1>11 DEF Next, Step

\* Whatever call fails and whatever task is cancelled, an open client or stream is registered for
\* closing, and the connections that are in use are of one credential.
THEOREM ResourcesOwned == ASSUME ResourcesAssumption PROVE Spec => []ResourcesAreOwned
<1>1. Init => ResourcesInv
  BY ResourcesInitially
<1>2. ResourcesInv /\ [Next]_vars => ResourcesInv'
  BY ResourcesStep
<1>3. ResourcesInv => ResourcesAreOwned
  BY DEF ResourcesInv, Typed, Registered, ResourcesAreOwned
<1> QED
  BY <1>1, <1>2, <1>3, PTL DEF Spec

-----------------------------------------------------------------------------
(* What no step does.                                                      *)

\* No step of a closed provider creates anything: nobody is between create() and its awaits.
LEMMA ClosedStep ==
    ASSUME ResourcesAssumption, ResourcesInv, [Next]_vars PROVE ClosedOpensNothing
<1> SUFFICES ASSUME closed PROVE client' = 0 /\ active' = {} /\ open' \subseteq open
  BY DEF ClosedOpensNothing
<1>1. client = 0 /\ active = {} /\ \A t \in Tasks : task[t].pc # "creating" /\ ~Replacing(t)
  BY DEF ResourcesInv, Registered, TaskOK
<1>2. ASSUME NEW t \in Tasks PROVE ~CreateStream(t) /\ ~CreateClient(t)
  BY <1>1 DEF CreateStream, CreateClient, MayCreate, Cleaned, Replacing
<1>3. CASE CredentialChanges \/ UNCHANGED vars
  BY <1>1, <1>3 DEF CredentialChanges, vars, Registries, SDK
<1>4. ASSUME NEW t \in Tasks,
             Begin(t) \/ CancelWaiting(t) \/ CloseCancelled(t) \/ CleanupEnds(t) \/ CreateFails(t)
      PROVE  client' = 0 /\ active' = {} /\ open' \subseteq open
  BY <1>1, <1>4 DEF Begin, CancelWaiting, CloseCancelled, CleanupEnds, CreateFails, Registries, SDK
<1>5. ASSUME NEW t \in Tasks, Acquire(t) PROVE client' = 0 /\ active' = {} /\ open' \subseteq open
  BY <1>1, <1>5 DEF Acquire, Isolate, Registries, SDK
<1>6. ASSUME NEW t \in Tasks, BeginCloseResource(t) PROVE client' = 0 /\ active' = {} /\ open' \subseteq open
  BY <1>1, <1>6 DEF BeginCloseResource, Registries, SDK
<1>7. ASSUME NEW t \in Tasks, CloseSucceeds(t) \/ CloseFails(t) \/ StreamEnds(t)
      PROVE  client' = 0 /\ active' = {} /\ open' \subseteq open
  BY <1>1, <1>7 DEF CloseSucceeds, CloseFails, StreamEnds, Registries, SDK
<1>8. ASSUME NEW t \in Tasks, ReadSecret(t) PROVE client' = 0 /\ active' = {} /\ open' \subseteq open
  BY <1>1, <1>8 DEF ReadSecret, Isolate, Registries, SDK
<1> QED
  BY <1>2, <1>3, <1>4, <1>5, <1>6, <1>7, <1>8 DEF Next, Step

\* Only the return of close() closes anything, and what it closes has no stream.
LEMMA OutlivesStep ==
    ASSUME ResourcesAssumption, ResourcesInv, [Next]_vars PROVE ClientOutlivesStreams
<1> SUFFICES ASSUME kind = "deepseek", NEW r \in open \ open', ~IsStream(r), NEW s \in open', IsStream(s)
             PROVE  user[s] # r
  BY DEF ClientOutlivesStreams
<1>1. PICK t \in Tasks : CloseSucceeds(t)
  <2>1. CASE CredentialChanges \/ UNCHANGED vars
    BY <2>1 DEF CredentialChanges, vars, SDK
  <2>2. ASSUME NEW t \in Tasks,
               Begin(t) \/ CancelWaiting(t) \/ CloseCancelled(t) \/ CleanupEnds(t) \/ CreateFails(t)
               \/ Acquire(t) \/ BeginCloseResource(t) \/ CloseFails(t) \/ ReadSecret(t) \/ StreamEnds(t)
        PROVE  FALSE
    BY <2>2 DEF Begin, CancelWaiting, CloseCancelled, CleanupEnds, CreateFails, Acquire, BeginCloseResource,
                CloseFails, ReadSecret, StreamEnds, SDK
  <2>3. ASSUME NEW t \in Tasks, CreateClient(t) \/ CreateStream(t) PROVE FALSE
    BY <2>3 DEF CreateClient, CreateStream
  <2> QED
    BY <2>1, <2>2, <2>3 DEF Next, Step
<1>2. task[t].pc = "closing" /\ open' = open \ {task[t].cur}
  BY <1>1 DEF CloseSucceeds
<1>3. r = task[t].cur /\ r \notin Requests /\ s \in open /\ s \in Requests
  BY <1>2 DEF IsStream
<1> QED
  BY <1>2, <1>3 DEF ResourcesInv, TaskOK

\* A closed provider opens nothing and has nothing in use, and a DeepSeek client is not closed
\* under its streams.
THEOREM ResourceStepsSafe ==
    ASSUME ResourcesAssumption
    PROVE  Spec => [][ClosedOpensNothing /\ ClientOutlivesStreams]_vars
<1>1. Init => ResourcesInv
  BY ResourcesInitially
<1>2. ResourcesInv /\ [Next]_vars => ResourcesInv'
  BY ResourcesStep
<1>3. ResourcesInv /\ [Next]_vars => [ClosedOpensNothing /\ ClientOutlivesStreams]_vars
  BY ClosedStep, OutlivesStep
<1> QED
  BY <1>1, <1>2, <1>3, PTL DEF Spec

-----------------------------------------------------------------------------
(* The settings: the inductive invariant.                                  *)

\* The document and what runs, as records.
SettingsShape ==
    /\ doc = [active |-> doc.active, profiles |-> doc.profiles, bindings |-> doc.bindings]
    /\ DOMAIN doc.profiles \subseteq ProfileIds
    /\ IsFiniteSet(DOMAIN doc.profiles) /\ IsFiniteSet(DOMAIN doc.bindings)
    /\ secrets \in [AllCredentials -> Values \cup {"none"}]
    /\ run = [life |-> run.life, profile |-> run.profile, snap |-> run.snap, secret |-> run.secret]

\* What step n of a start sees to: the built-in is there, of its own provider.
Ensured(n) ==
    /\ BindingStep(n) => /\ BindingSteps[n] \in DOMAIN doc.bindings
                         /\ doc.bindings[BindingSteps[n]] = BuiltinBinding[BindingSteps[n]]
    /\ ProfileStep(n) => /\ ProfileOf(n) \in DOMAIN doc.profiles
                         /\ doc.profiles[ProfileOf(n)].provider = BuiltinProfile[ProfileOf(n)].provider

\* How far a start has come: the steps before the next one saw to theirs.
StartedSoFar ==
    /\ starting > 0 => run.life # "ACTIVE"
    /\ \A n \in 1..6 : n < starting => Ensured(n)

\* Only a slot that runs names a profile.
RunningIsNamed ==
    /\ run.life = "ACTIVE" => run.profile # "none" /\ run.snap \in Profile
    /\ run.life # "ACTIVE" => run.profile = "none"

SettingsInv ==
    /\ SettingsTypeOK /\ SettingsShape /\ StoredRecordsAreSupported /\ LimitPassedByOne /\ StartedSoFar
    /\ RunningIsNamed /\ RunningMatchesStored

-----------------------------------------------------------------------------
(* The settings: lemmas.                                                   *)

\* A document that is typed and whose records a later start accepts.
GoodDocument(d) ==
    /\ d = [active |-> d.active, profiles |-> d.profiles, bindings |-> d.bindings]
    /\ DOMAIN d.profiles \subseteq ProfileIds
    /\ IsFiniteSet(DOMAIN d.profiles) /\ IsFiniteSet(DOMAIN d.bindings)
    /\ \A id \in DOMAIN d.profiles : d.profiles[id] \in Profile
    /\ DOMAIN d.bindings \subseteq AllCredentials
    /\ WellFormed(d)

\* A document with one record too many at most.
OneTooMany(d) ==
    /\ Cardinality(DOMAIN d.profiles) <= MaxRecords + 1 /\ Cardinality(DOMAIN d.bindings) <= MaxRecords + 1
    /\ Cardinality(DOMAIN d.profiles) <= MaxRecords \/ Cardinality(DOMAIN d.bindings) <= MaxRecords

\* A set with one element more than another at most.
LEMMA OneElementMore ==
  ASSUME NEW S, IsFiniteSet(S), NEW x, NEW T, T \subseteq S \cup {x}
  PROVE  IsFiniteSet(T) /\ Cardinality(T) \in Nat /\ Cardinality(T) <= Cardinality(S) + 1
<1>1. /\ IsFiniteSet(S \cup {x})
      /\ Cardinality(S \cup {x}) = Cardinality(S) \/ Cardinality(S \cup {x}) = Cardinality(S) + 1
  BY FS_AddElement
<1>2. IsFiniteSet(T) /\ Cardinality(T) <= Cardinality(S \cup {x})
  BY <1>1, FS_Subset
<1>3. Cardinality(S) \in Nat /\ Cardinality(T) \in Nat /\ Cardinality(S \cup {x}) \in Nat
  BY <1>1, <1>2, FS_CardinalityType
<1> QED BY <1>1, <1>2, <1>3

\* A save adds one record of one kind: to a document within the limit, one too many at most.
LEMMA OneRecordMore ==
  ASSUME ProviderAssumption, GoodDocument(doc), WithinLimit(doc), NEW d, NEW x,
         \/ DOMAIN d.profiles \subseteq DOMAIN doc.profiles \cup {x} /\ DOMAIN d.bindings = DOMAIN doc.bindings
         \/ DOMAIN d.profiles = DOMAIN doc.profiles /\ DOMAIN d.bindings \subseteq DOMAIN doc.bindings \cup {x}
  PROVE  IsFiniteSet(DOMAIN d.profiles) /\ IsFiniteSet(DOMAIN d.bindings) /\ OneTooMany(d)
<1> DEFINE P == DOMAIN doc.profiles
           B == DOMAIN doc.bindings
<1>1. /\ IsFiniteSet(P) /\ IsFiniteSet(B) /\ MaxRecords \in Nat
      /\ Cardinality(P) <= MaxRecords /\ Cardinality(B) <= MaxRecords
      /\ Cardinality(P) \in Nat /\ Cardinality(B) \in Nat
  BY FS_CardinalityType DEF GoodDocument, WithinLimit, ProviderAssumption
<1>2. CASE DOMAIN d.profiles \subseteq P \cup {x} /\ DOMAIN d.bindings = B
  <2>1. /\ IsFiniteSet(DOMAIN d.profiles) /\ Cardinality(DOMAIN d.profiles) \in Nat
        /\ Cardinality(DOMAIN d.profiles) <= Cardinality(P) + 1
    BY <1>1, <1>2, OneElementMore
  <2> QED BY <1>1, <1>2, <2>1 DEF OneTooMany
<1>3. CASE DOMAIN d.profiles = P /\ DOMAIN d.bindings \subseteq B \cup {x}
  <2>1. /\ IsFiniteSet(DOMAIN d.bindings) /\ Cardinality(DOMAIN d.bindings) \in Nat
        /\ Cardinality(DOMAIN d.bindings) <= Cardinality(B) + 1
    BY <1>1, <1>3, OneElementMore
  <2> QED BY <1>1, <1>3, <2>1 DEF OneTooMany
<1> QED BY <1>2, <1>3

\* Saving a profile that is supported and bound.
LEMMA SavedProfileGood ==
  ASSUME ProviderAssumption, GoodDocument(doc), WithinLimit(doc), NEW id \in ProfileIds, NEW p \in Profile,
         SupportedProfile(p), Bound(doc, p)
  PROVE  /\ GoodDocument(SavedProfile(id, p)) /\ OneTooMany(SavedProfile(id, p))
         /\ SavedProfile(id, p).active = doc.active /\ SavedProfile(id, p).bindings = doc.bindings
         /\ SavedProfile(id, p).profiles = With(doc.profiles, id, p)
<1> DEFINE d == SavedProfile(id, p)
<1>1. d = [active |-> doc.active, profiles |-> With(doc.profiles, id, p), bindings |-> doc.bindings]
  BY DEF SavedProfile, GoodDocument
<1>2. /\ DOMAIN d.profiles = DOMAIN doc.profiles \cup {id}
      /\ d.profiles[id] = p
      /\ \A y \in DOMAIN doc.profiles : y # id => d.profiles[y] = doc.profiles[y]
  BY <1>1 DEF With
<1>3. d.active = doc.active /\ d.bindings = doc.bindings /\ d.profiles = With(doc.profiles, id, p)
      /\ d = [active |-> d.active, profiles |-> d.profiles, bindings |-> d.bindings]
  BY <1>1
<1> HIDE DEF d
<1>4. WellFormed(d)
  BY <1>2, <1>3 DEF GoodDocument, WellFormed, Bound
<1>5. /\ DOMAIN d.profiles \subseteq ProfileIds
      /\ \A y \in DOMAIN d.profiles : d.profiles[y] \in Profile
      /\ DOMAIN d.bindings \subseteq AllCredentials
  BY <1>2, <1>3 DEF GoodDocument
<1>6. IsFiniteSet(DOMAIN d.profiles) /\ IsFiniteSet(DOMAIN d.bindings) /\ OneTooMany(d)
  BY <1>2, <1>3, OneRecordMore
<1>7. GoodDocument(d)
  BY <1>3, <1>4, <1>5, <1>6 DEF GoodDocument
<1> QED BY <1>3, <1>6, <1>7 DEF d

\* Deleting a profile that is not the active one.
LEMMA DeletedProfileGood ==
  ASSUME ProviderAssumption, GoodDocument(doc), WithinLimit(doc), NEW id, id # doc.active
  PROVE  /\ GoodDocument(DeletedProfile(id)) /\ OneTooMany(DeletedProfile(id))
         /\ DeletedProfile(id).active = doc.active /\ DeletedProfile(id).bindings = doc.bindings
         /\ DeletedProfile(id).profiles = Without(doc.profiles, id)
<1> DEFINE d == DeletedProfile(id)
<1>1. d = [active |-> doc.active, profiles |-> Without(doc.profiles, id), bindings |-> doc.bindings]
  BY DEF DeletedProfile, GoodDocument
<1>2. /\ DOMAIN d.profiles = DOMAIN doc.profiles \ {id}
      /\ \A y \in DOMAIN doc.profiles \ {id} : d.profiles[y] = doc.profiles[y]
  BY <1>1 DEF Without, Restrict
<1>3. d.active = doc.active /\ d.bindings = doc.bindings /\ d.profiles = Without(doc.profiles, id)
      /\ d = [active |-> d.active, profiles |-> d.profiles, bindings |-> d.bindings]
  BY <1>1
<1> HIDE DEF d
<1>4. WellFormed(d)
  BY <1>2, <1>3 DEF GoodDocument, WellFormed, Bound
<1>5. /\ DOMAIN d.profiles \subseteq ProfileIds
      /\ \A y \in DOMAIN d.profiles : d.profiles[y] \in Profile
      /\ DOMAIN d.bindings \subseteq AllCredentials
  BY <1>2, <1>3 DEF GoodDocument
<1>6. IsFiniteSet(DOMAIN d.profiles) /\ IsFiniteSet(DOMAIN d.bindings) /\ OneTooMany(d)
  BY <1>2, <1>3, OneRecordMore
<1>7. GoodDocument(d)
  BY <1>3, <1>4, <1>5, <1>6 DEF GoodDocument
<1> QED BY <1>3, <1>6, <1>7 DEF d

\* A binding that is new.
LEMMA SavedBindingGood ==
  ASSUME ProviderAssumption, GoodDocument(doc), WithinLimit(doc), NEW c \in AllCredentials, NEW provider,
         c \notin DOMAIN doc.bindings, SupportedBinding(c, provider)
  PROVE  /\ GoodDocument(SavedBinding(c, provider)) /\ OneTooMany(SavedBinding(c, provider))
         /\ SavedBinding(c, provider).active = doc.active
         /\ SavedBinding(c, provider).profiles = doc.profiles
         /\ SavedBinding(c, provider).bindings = With(doc.bindings, c, provider)
<1> DEFINE d == SavedBinding(c, provider)
<1>1. d = [active |-> doc.active, profiles |-> doc.profiles, bindings |-> With(doc.bindings, c, provider)]
  BY DEF SavedBinding, GoodDocument
<1>2. /\ DOMAIN d.bindings = DOMAIN doc.bindings \cup {c}
      /\ d.bindings[c] = provider
      /\ \A y \in DOMAIN doc.bindings : y # c => d.bindings[y] = doc.bindings[y]
  BY <1>1 DEF With
<1>3. d.active = doc.active /\ d.profiles = doc.profiles /\ d.bindings = With(doc.bindings, c, provider)
      /\ d = [active |-> d.active, profiles |-> d.profiles, bindings |-> d.bindings]
  BY <1>1
<1> HIDE DEF d
<1>4. WellFormed(d)
  BY <1>2, <1>3 DEF GoodDocument, WellFormed, Bound
<1>5. IsFiniteSet(DOMAIN d.profiles) /\ IsFiniteSet(DOMAIN d.bindings) /\ OneTooMany(d)
  BY <1>2, <1>3, OneRecordMore
<1>6. GoodDocument(d)
  BY <1>2, <1>3, <1>4, <1>5 DEF GoodDocument
<1> QED BY <1>3, <1>5, <1>6 DEF d

\* A binding is removed while no profile names it.
LEMMA DeletedBindingGood ==
  ASSUME ProviderAssumption, GoodDocument(doc), WithinLimit(doc), NEW c \in AllCredentials, CanDeleteBinding(c)
  PROVE  /\ GoodDocument(DeletedBinding(c)) /\ OneTooMany(DeletedBinding(c))
         /\ DeletedBinding(c).active = doc.active /\ DeletedBinding(c).profiles = doc.profiles
<1> DEFINE d == DeletedBinding(c)
<1>1. d = [active |-> doc.active, profiles |-> doc.profiles, bindings |-> Without(doc.bindings, c)]
  BY DEF DeletedBinding, GoodDocument
<1>2. /\ DOMAIN d.bindings = DOMAIN doc.bindings \ {c}
      /\ \A y \in DOMAIN doc.bindings \ {c} : d.bindings[y] = doc.bindings[y]
  BY <1>1 DEF Without, Restrict
<1>3. d.active = doc.active /\ d.profiles = doc.profiles
      /\ d = [active |-> d.active, profiles |-> d.profiles, bindings |-> d.bindings]
  BY <1>1
<1> HIDE DEF d
<1>4. WellFormed(d)
  BY <1>2, <1>3 DEF GoodDocument, WellFormed, Bound, CanDeleteBinding
<1>5. IsFiniteSet(DOMAIN d.profiles) /\ IsFiniteSet(DOMAIN d.bindings) /\ OneTooMany(d)
  BY <1>2, <1>3, OneRecordMore
<1>6. GoodDocument(d)
  BY <1>2, <1>3, <1>4, <1>5 DEF GoodDocument
<1> QED BY <1>3, <1>5, <1>6 DEF d

\* What the invariant says of the document, and that a good one keeps it.
LEMMA DocumentIsGood == SettingsInv => GoodDocument(doc) /\ OneTooMany(doc)
BY DEF SettingsInv, SettingsTypeOK, SettingsShape, StoredRecordsAreSupported, GoodDocument, LimitPassedByOne,
       OneTooMany

\* The steps of a start, spelt out.
LEMMA StartSteps ==
  /\ LastStep = 7
  /\ \A n \in 0..7 : (BindingStep(n) <=> n \in 1..2) /\ (ProfileStep(n) <=> n \in 3..6)
  /\ BindingSteps[1] = "openai_default" /\ BindingSteps[2] = "deepseek_default"
  /\ ProfileOf(3) = "fake_default" /\ ProfileOf(4) = "openai_default"
  /\ ProfileOf(5) = "deepseek_default" /\ ProfileOf(6) = "ollama_default"
<1>1. Len(BindingSteps) = 2 /\ DOMAIN BindingSteps = 1..2
  BY DEF BindingSteps
<1>2. Len(ProfileSteps) = 4 /\ DOMAIN ProfileSteps = 1..4
  BY DEF ProfileSteps
<1>3. \A n \in 0..7 : (BindingStep(n) <=> n \in 1..2) /\ (ProfileStep(n) <=> n \in 3..6)
  BY <1>1, <1>2 DEF BindingStep, ProfileStep
<1>4. BindingSteps[1] = "openai_default" /\ BindingSteps[2] = "deepseek_default"
  BY DEF BindingSteps
<1>5. /\ ProfileOf(3) = "fake_default" /\ ProfileOf(4) = "openai_default"
      /\ ProfileOf(5) = "deepseek_default" /\ ProfileOf(6) = "ollama_default"
  <2>1. ProfileOf(3) = ProfileSteps[1] /\ ProfileOf(4) = ProfileSteps[2]
        /\ ProfileOf(5) = ProfileSteps[3] /\ ProfileOf(6) = ProfileSteps[4]
    BY <1>1 DEF ProfileOf
  <2> QED BY <2>1 DEF ProfileSteps
<1> QED BY <1>1, <1>2, <1>3, <1>4, <1>5 DEF LastStep

\* The built-ins are supported, and each names a built-in binding of its provider or none.
LEMMA BuiltinsSupported ==
  ASSUME ProviderAssumption
  PROVE  /\ DOMAIN BuiltinBinding = {"openai_default", "deepseek_default"}
         /\ \A c \in DOMAIN BuiltinBinding : c \in AllCredentials /\ SupportedBinding(c, BuiltinBinding[c])
         /\ DOMAIN BuiltinProfile
              = {"fake_default", "openai_default", "deepseek_default", "ollama_default"}
         /\ \A id \in DOMAIN BuiltinProfile :
               /\ id \in ProfileIds /\ BuiltinProfile[id] \in Profile /\ SupportedProfile(BuiltinProfile[id])
               /\ \/ BuiltinProfile[id].cred = "none"
                  \/ /\ BuiltinProfile[id].cred \in DOMAIN BuiltinBinding
                     /\ BuiltinBinding[BuiltinProfile[id].cred] = BuiltinProfile[id].provider
<1>1. /\ DOMAIN BuiltinBinding = {"openai_default", "deepseek_default"}
      /\ BuiltinBinding["openai_default"] = "openai" /\ BuiltinBinding["deepseek_default"] = "deepseek"
  BY DEF BuiltinBinding
<1>2. \A c \in DOMAIN BuiltinBinding : c \in AllCredentials /\ c \notin Manual /\ BuiltinBinding[c] \in Cloud
  BY <1>1 DEF AllCredentials, Cloud, ProviderAssumption
<1>3. /\ DOMAIN BuiltinProfile = {"fake_default", "openai_default", "deepseek_default", "ollama_default"}
      /\ BuiltinProfile["fake_default"] = Builtin("fake", "none")
      /\ BuiltinProfile["openai_default"] = Builtin("openai", "openai_default")
      /\ BuiltinProfile["deepseek_default"] = Builtin("deepseek", "deepseek_default")
      /\ BuiltinProfile["ollama_default"] = Builtin("ollama", "none")
  BY DEF BuiltinProfile
<1>4. \A provider \in Providers, cred \in AllCredentials \cup {"none"} :
         /\ Builtin(provider, cred) \in Profile
         /\ Builtin(provider, cred).provider = provider /\ Builtin(provider, cred).cred = cred
  BY DEF Builtin, Profile, ProviderAssumption
<1>5. ASSUME NEW id \in DOMAIN BuiltinProfile
      PROVE  /\ id \in ProfileIds /\ BuiltinProfile[id] \in Profile /\ SupportedProfile(BuiltinProfile[id])
             /\ \/ BuiltinProfile[id].cred = "none"
                \/ /\ BuiltinProfile[id].cred \in DOMAIN BuiltinBinding
                   /\ BuiltinBinding[BuiltinProfile[id].cred] = BuiltinProfile[id].provider
  <2>1. id \in ProfileIds
    BY DEF ProfileIds
  <2>2. "openai_default" \notin Manual \cup {"none"} /\ "deepseek_default" \notin Manual \cup {"none"}
        /\ "openai_default" \in AllCredentials /\ "deepseek_default" \in AllCredentials
    BY <1>1, <1>2
  <2>3. CASE id = "fake_default"
    BY <1>3, <1>4, <2>1, <2>3 DEF SupportedProfile, Cloud, Providers
  <2>4. CASE id = "openai_default"
    BY <1>1, <1>3, <1>4, <2>1, <2>2, <2>4 DEF SupportedProfile, Cloud, Providers
  <2>5. CASE id = "deepseek_default"
    BY <1>1, <1>3, <1>4, <2>1, <2>2, <2>5 DEF SupportedProfile, Cloud, Providers
  <2>6. CASE id = "ollama_default"
    BY <1>3, <1>4, <2>1, <2>6 DEF SupportedProfile, Cloud, Providers
  <2> QED BY <1>3, <2>3, <2>4, <2>5, <2>6
<1>6. \A c \in DOMAIN BuiltinBinding : c \in AllCredentials /\ SupportedBinding(c, BuiltinBinding[c])
  BY <1>2 DEF SupportedBinding
<1> QED BY <1>1, <1>3, <1>5, <1>6

\* A step that leaves the document alone, or writes a good one.
LEMMA WriteKeeps ==
  ASSUME SettingsInv, GoodDocument(doc'), OneTooMany(doc'), file' \in {"absent", "corrupt", "valid"},
         starting' \in 0..7, edits' \in 0..MaxEdits,
         secrets' \in [AllCredentials -> Values \cup {"none"}],
         run'.life \in {"INACTIVE", "ACTIVE", "CLEANUP_PENDING"},
         run' = [life |-> run'.life, profile |-> run'.profile, snap |-> run'.snap, secret |-> run'.secret],
         StartedSoFar', RunningIsNamed', RunningMatchesStored'
  PROVE  SettingsInv'
<1>1. SettingsTypeOK'
  BY StartSteps DEF SettingsTypeOK, GoodDocument
<1>2. SettingsShape' /\ StoredRecordsAreSupported'
  BY DEF SettingsShape, StoredRecordsAreSupported, GoodDocument
<1>3. LimitPassedByOne'
  BY DEF LimitPassedByOne, OneTooMany
<1> QED BY <1>1, <1>2, <1>3 DEF SettingsInv

\* The first state satisfies the invariant.
LEMMA SettingsInvInit == ASSUME ProviderAssumption PROVE SettingsInit => SettingsInv
<1> SUFFICES ASSUME SettingsInit PROVE SettingsInv
  OBVIOUS
<1>1. doc = [active |-> "none", profiles |-> <<>>, bindings |-> <<>>]
  BY DEF SettingsInit, NoDocument
<1>2. DOMAIN doc.profiles = {} /\ DOMAIN doc.bindings = {} /\ doc.active = "none"
  BY <1>1
<1>3. WellFormed(doc)
  BY <1>2 DEF WellFormed
<1>4. run = [life |-> "INACTIVE", profile |-> "none", snap |-> "none", secret |-> "none"]
  BY DEF SettingsInit, Inactive
<1>5. IsFiniteSet({}) /\ Cardinality({}) = 0
  BY FS_EmptySet
<1>6. SettingsTypeOK
  BY <1>2, <1>4, StartSteps DEF SettingsInit, SettingsTypeOK, ProviderAssumption
<1>7. SettingsShape
  BY <1>1, <1>2, <1>4, <1>5 DEF SettingsInit, SettingsShape
<1>8. LimitPassedByOne
  BY <1>2, <1>5 DEF LimitPassedByOne, ProviderAssumption
<1>9. StartedSoFar /\ RunningIsNamed /\ RunningMatchesStored
  BY <1>4 DEF SettingsInit, StartedSoFar, RunningIsNamed, RunningMatchesStored
<1> QED BY <1>3, <1>6, <1>7, <1>8, <1>9 DEF SettingsInv, StoredRecordsAreSupported

\* The parts of the invariant that every step starts from.
LEMMA CommandStart ==
  ASSUME ProviderAssumption, SettingsInv
  PROVE  /\ GoodDocument(doc) /\ OneTooMany(doc) /\ RunningIsNamed /\ RunningMatchesStored
         /\ secrets \in [AllCredentials -> Values \cup {"none"}]
         /\ run.life \in {"INACTIVE", "ACTIVE", "CLEANUP_PENDING"}
         /\ run = [life |-> run.life, profile |-> run.profile, snap |-> run.snap, secret |-> run.secret]
         /\ file \in {"absent", "corrupt", "valid"} /\ edits \in 0..MaxEdits /\ starting \in 0..7
         /\ "none" \notin DOMAIN doc.profiles
<1>1. "none" \notin ProfileIds
  BY BuiltinsSupported DEF ProfileIds, ProviderAssumption
<1> QED BY <1>1, DocumentIsGood, StartSteps DEF SettingsInv, SettingsTypeOK, SettingsShape, GoodDocument

\* Nothing of what an earlier step saw to is lost by a save.
LEMMA EnsuredStays ==
  ASSUME NEW n, Ensured(n),
         \A c \in DOMAIN doc.bindings : c \in DOMAIN doc'.bindings /\ doc'.bindings[c] = doc.bindings[c],
         \A id \in DOMAIN doc.profiles : id \in DOMAIN doc'.profiles /\ doc'.profiles[id] = doc.profiles[id]
  PROVE  Ensured(n)'
BY DEF Ensured, BindingStep, ProfileStep, ProfileOf

\* A step of the start that changes no more than the document and the step.
LEMMA StartStepKeeps ==
  ASSUME ProviderAssumption, SettingsInv, starting > 0, UNCHANGED <<secrets, run, edits>>,
         GoodDocument(doc'), OneTooMany(doc'), file' \in {"valid", file}, starting' \in 0..7,
         \A n \in 1..6 : n < starting' => Ensured(n)'
  PROVE  SettingsInv'
<1>1. run.life # "ACTIVE"
  BY DEF SettingsInv, StartedSoFar
<1>2. StartedSoFar' /\ RunningIsNamed' /\ RunningMatchesStored'
  BY <1>1, CommandStart DEF StartedSoFar, RunningIsNamed, RunningMatchesStored
<1>3. /\ run'.life \in {"INACTIVE", "ACTIVE", "CLEANUP_PENDING"}
      /\ run' = [life |-> run'.life, profile |-> run'.profile, snap |-> run'.snap, secret |-> run'.secret]
      /\ secrets' \in [AllCredentials -> Values \cup {"none"}]
      /\ file' \in {"absent", "corrupt", "valid"} /\ edits' \in 0..MaxEdits
  BY CommandStart
<1> QED BY <1>2, <1>3, WriteKeeps

\* A step of the start writes what is missing, on top of what the earlier steps saw to.
LEMMA EnsureWrites ==
  ASSUME ProviderAssumption, SettingsInv, Ensure
  PROVE  /\ GoodDocument(doc') /\ OneTooMany(doc') /\ file' \in {"valid", file}
         /\ \A n \in 1..6 : n <= starting => Ensured(n)'
<1>1. /\ starting \in 1..7 /\ GoodDocument(doc) /\ OneTooMany(doc) /\ WithinLimit(doc)
      /\ ~Conflicts(starting) /\ Write(Added(starting), Missing(starting))
      /\ \A n \in 1..6 : n < starting => Ensured(n)
  BY CommandStart DEF Ensure, Readable, SettingsInv, StartedSoFar
<1>2. CASE ~Missing(starting)
  <2>1. UNCHANGED <<doc, file>>
    BY <1>1, <1>2 DEF Write
  <2>2. starting \in 1..6 => Ensured(starting)
    BY <1>1, <1>2 DEF Missing, Conflicts, Ensured
  <2>3. \A n \in 1..6 : n <= starting => Ensured(n)
    BY <1>1, <2>2
  <2>4. \A n \in 1..6 : n <= starting => Ensured(n)'
    BY <2>1, <2>3 DEF Ensured, BindingStep, ProfileStep, ProfileOf
  <2> QED BY <1>1, <2>1, <2>4
<1>3. CASE Missing(starting) /\ starting \in 1..2
  <2> DEFINE c == BindingSteps[starting]
  <2>1. BindingStep(starting) /\ ~ProfileStep(starting) /\ starting # LastStep
    BY <1>3, StartSteps
  <2>2. /\ c \notin DOMAIN doc.bindings /\ doc' = SavedBinding(c, BuiltinBinding[c]) /\ file' = "valid"
    BY <1>1, <1>3, <2>1 DEF Missing, Write, Added
  <2>3. c \in DOMAIN BuiltinBinding
    BY <1>3, StartSteps, BuiltinsSupported
  <2>4. /\ GoodDocument(doc') /\ OneTooMany(doc') /\ doc'.profiles = doc.profiles
        /\ doc'.bindings = With(doc.bindings, c, BuiltinBinding[c])
    BY <1>1, <2>2, <2>3, BuiltinsSupported, SavedBindingGood
  <2>5. /\ \A x \in DOMAIN doc.bindings : x \in DOMAIN doc'.bindings /\ doc'.bindings[x] = doc.bindings[x]
        /\ c \in DOMAIN doc'.bindings /\ doc'.bindings[c] = BuiltinBinding[c]
    BY <2>2, <2>4 DEF With
  <2>6. \A n \in 1..6 : n < starting => Ensured(n)'
    BY <1>1, <2>4, <2>5, EnsuredStays
  <2>7. \A n \in 1..6 : n = starting => Ensured(n)'
    BY <2>1, <2>5 DEF Ensured, BindingStep, ProfileStep
  <2> QED BY <1>1, <2>2, <2>4, <2>6, <2>7
<1>4. CASE Missing(starting) /\ starting \in 3..6
  <2> DEFINE id == ProfileOf(starting)
             p == BuiltinProfile[id]
  <2>1. ProfileStep(starting) /\ ~BindingStep(starting) /\ starting # LastStep
    BY <1>4, StartSteps
  <2>2. id \notin DOMAIN doc.profiles /\ doc' = SavedProfile(id, p) /\ file' = "valid"
    BY <1>1, <1>4, <2>1 DEF Missing, Write, Added
  <2>3. id \in DOMAIN BuiltinProfile
    BY <1>4, StartSteps, BuiltinsSupported
  <2>4. \A c \in DOMAIN BuiltinBinding : c \in DOMAIN doc.bindings /\ doc.bindings[c] = BuiltinBinding[c]
    BY <1>1, <1>4, StartSteps, BuiltinsSupported DEF Ensured
  <2>5. id \in ProfileIds /\ p \in Profile /\ SupportedProfile(p) /\ Bound(doc, p)
    BY <2>3, <2>4, BuiltinsSupported DEF Bound
  <2>6. /\ GoodDocument(doc') /\ OneTooMany(doc') /\ doc'.bindings = doc.bindings
        /\ doc'.profiles = With(doc.profiles, id, p)
    BY <1>1, <2>2, <2>5, SavedProfileGood
  <2>7. /\ \A x \in DOMAIN doc.profiles : x \in DOMAIN doc'.profiles /\ doc'.profiles[x] = doc.profiles[x]
        /\ id \in DOMAIN doc'.profiles /\ doc'.profiles[id] = p
    BY <2>2, <2>6 DEF With
  <2>8. \A n \in 1..6 : n < starting => Ensured(n)'
    BY <1>1, <2>6, <2>7, EnsuredStays
  <2>9. \A n \in 1..6 : n = starting => Ensured(n)'
    BY <2>1, <2>7 DEF Ensured, BindingStep, ProfileStep, ProfileOf
  <2> QED BY <1>1, <2>2, <2>6, <2>8, <2>9
<1>5. CASE Missing(starting) /\ starting = 7
  <2>1. doc' = [doc EXCEPT !.active = "fake_default"] /\ file' = "valid"
    BY <1>1, <1>5, StartSteps DEF Write, Added
  <2>2. doc' = [active |-> "fake_default", profiles |-> doc.profiles, bindings |-> doc.bindings]
    BY <1>1, <2>1 DEF GoodDocument
  <2>3. "fake_default" \in DOMAIN doc.profiles
    BY <1>1, <1>5, StartSteps DEF Ensured
  <2>4. GoodDocument(doc') /\ OneTooMany(doc')
    BY <1>1, <2>2, <2>3 DEF GoodDocument, WellFormed, Bound, OneTooMany
  <2>5. \A n \in 1..6 : Ensured(n)'
    BY <1>1, <1>5, <2>2, EnsuredStays
  <2> QED BY <2>1, <2>4, <2>5
<1> QED BY <1>1, <1>2, <1>3, <1>4, <1>5

\* A step of the start, and the return to the first one.
LEMMA EnsureKeeps ==
  ASSUME ProviderAssumption, SettingsInv, Ensure \/ StartFails
  PROVE  SettingsInv'
<1>1. CASE Ensure
  <2>1. starting \in 1..7 /\ starting' = (starting + 1) % 8 /\ UNCHANGED <<secrets, run, edits>>
    BY <1>1, StartSteps, CommandStart DEF Ensure
  <2>2. starting' \in 0..7 /\ (starting' = 0 \/ starting' = starting + 1)
    BY <2>1
  <2>3. \A n \in 1..6 : n < starting' => Ensured(n)'
    BY <1>1, <2>1, <2>2, EnsureWrites
  <2> QED BY <1>1, <2>1, <2>2, <2>3, EnsureWrites, StartStepKeeps
<1>2. CASE StartFails
  <2>1. starting > 0 /\ starting' = 1 /\ UNCHANGED <<file, doc, secrets, run, edits>>
    BY <1>2 DEF StartFails
  <2>2. GoodDocument(doc') /\ OneTooMany(doc')
    BY <2>1, CommandStart
  <2> QED BY <2>1, <2>2, StartStepKeeps
<1> QED BY <1>1, <1>2

\* What a command leaves alone: once it is known what it does to the document,
\* the secrets and the slot, the rest of the invariant follows.
LEMMA CommandKeeps ==
  ASSUME ProviderAssumption, SettingsInv, starting = 0, Command,
         GoodDocument(doc'), OneTooMany(doc'), file' \in {"valid", file},
         secrets' \in [AllCredentials -> Values \cup {"none"}],
         run'.life \in {"INACTIVE", "ACTIVE", "CLEANUP_PENDING"},
         run' = [life |-> run'.life, profile |-> run'.profile, snap |-> run'.snap, secret |-> run'.secret],
         RunningIsNamed', RunningMatchesStored'
  PROVE  SettingsInv'
<1>1. starting' = 0 /\ edits' \in 0..MaxEdits /\ file' \in {"absent", "corrupt", "valid"}
  BY CommandStart DEF Command, ProviderAssumption
<1>2. StartedSoFar'
  BY <1>1 DEF StartedSoFar
<1> QED BY <1>1, <1>2, WriteKeeps

\* A write that failed.
LEMMA FailedWriteKeeps ==
  ASSUME ProviderAssumption, SettingsInv, starting = 0, Command,
         UNCHANGED <<file, doc, secrets, run>>
  PROVE  SettingsInv'
<1>1. RunningIsNamed' /\ RunningMatchesStored' /\ GoodDocument(doc') /\ OneTooMany(doc')
  BY CommandStart DEF RunningIsNamed, RunningMatchesStored
<1> QED BY <1>1, CommandStart, CommandKeeps

\* The process dies, or the pending clean-up ends: nothing runs any more.
LEMMA CrashKeeps == ASSUME ProviderAssumption, SettingsInv, Crash \/ PendingCleanupEnds PROVE SettingsInv'
<1>1. run' = [life |-> "INACTIVE", profile |-> "none", snap |-> "none", secret |-> "none"]
  BY DEF Crash, PendingCleanupEnds, Inactive, Closed
<1>2. starting' \in {0, 1} /\ edits' \in 0..MaxEdits /\ UNCHANGED <<file, doc, secrets>>
  BY CommandStart DEF Crash, PendingCleanupEnds, ProviderAssumption
<1>3. StartedSoFar' /\ RunningIsNamed' /\ RunningMatchesStored'
  BY <1>1, <1>2 DEF StartedSoFar, RunningIsNamed, RunningMatchesStored
<1>4. GoodDocument(doc') /\ OneTooMany(doc') /\ file' \in {"absent", "corrupt", "valid"}
  BY <1>2, CommandStart
<1>5. secrets' \in [AllCredentials -> Values \cup {"none"}]
  BY <1>2, CommandStart
<1> QED BY <1>1, <1>2, <1>3, <1>4, <1>5, WriteKeeps

\* A new profile has an identifier nothing runs under.
LEMMA NewProfileKeeps ==
  ASSUME ProviderAssumption, SettingsInv, starting = 0, WithinLimit(doc), NEW ok \in BOOLEAN,
         NEW id \in ProfileIds, NEW p \in Profile, NewProfile(id, p, ok)
  PROVE  SettingsInv'
<1>1. CASE ~ok
  BY <1>1, FailedWriteKeeps DEF NewProfile, Write
<1>2. CASE ok
  <2>1. /\ doc' = SavedProfile(id, p) /\ file' = "valid" /\ UNCHANGED <<secrets, run>>
        /\ Command /\ id \notin DOMAIN doc.profiles
        /\ SupportedProfile(p) /\ Bound(doc, p)
    BY <1>2 DEF NewProfile, Write, CanSaveProfile
  <2>2. /\ GoodDocument(doc') /\ OneTooMany(doc') /\ doc'.active = doc.active
        /\ doc'.profiles = With(doc.profiles, id, p)
    BY <2>1, CommandStart, SavedProfileGood
  <2>3. RunningIsNamed'
    BY <2>1, CommandStart DEF RunningIsNamed
  <2>4. RunningMatchesStored'
    <3> SUFFICES ASSUME run'.life = "ACTIVE"
                 PROVE  /\ doc'.active = run'.profile
                        /\ run'.profile \in DOMAIN doc'.profiles
                        /\ doc'.profiles[run'.profile] = run'.snap
                        /\ run'.snap.cred # "none" => secrets'[run'.snap.cred] = run'.secret
      BY DEF RunningMatchesStored
    <3>1. /\ doc.active = run.profile /\ run.profile \in DOMAIN doc.profiles
          /\ doc.profiles[run.profile] = run.snap
          /\ run.snap.cred # "none" => secrets[run.snap.cred] = run.secret
      BY <2>1, CommandStart DEF RunningMatchesStored
    <3> QED BY <2>1, <2>2, <3>1 DEF With
  <2> QED BY <2>1, <2>2, <2>3, <2>4, CommandStart, CommandKeeps
<1> QED BY <1>1, <1>2

\* An update of the running profile changes its name, and the snapshot with it.
LEMMA UpdateProfileKeeps ==
  ASSUME ProviderAssumption, SettingsInv, starting = 0, WithinLimit(doc), NEW ok \in BOOLEAN,
         NEW id \in DOMAIN doc.profiles, NEW name \in Names, NEW model \in Models,
         NEW cred \in AllCredentials \cup {"none"}, UpdateProfile(id, name, model, cred, ok)
  PROVE  SettingsInv'
<1> DEFINE old == doc.profiles[id]
           p == [old EXCEPT !.name = name, !.model = model, !.cred = IF cred = "none" THEN @ ELSE cred]
<1>1. CASE ~ok
  BY <1>1, FailedWriteKeeps DEF UpdateProfile, Write
<1>2. CASE ok
  <2>0. old \in Profile /\ id \in ProfileIds /\ id # "none"
    BY CommandStart DEF GoodDocument
  <2>1. /\ doc' = SavedProfile(id, p) /\ file' = "valid" /\ UNCHANGED secrets
        /\ run' = (IF run.profile = id THEN [run EXCEPT !.snap = p] ELSE run)
        /\ Command /\ SupportedProfile(p) /\ Bound(doc, p)
        /\ CanUpdate(id, [p EXCEPT !.cred = cred])
    BY <1>2 DEF UpdateProfile, Write, CanSaveProfile
  <2>2. p \in Profile /\ p.cred = IF cred = "none" THEN old.cred ELSE cred
    BY <2>0 DEF Profile
  <2>3. run.profile = id => p.cred = old.cred
    <3>1. [p EXCEPT !.cred = cred].cred = cred
      BY <2>2 DEF Profile
    <3> QED BY <2>1, <2>2, <3>1 DEF CanUpdate
  <2> HIDE DEF p
  <2>4. /\ GoodDocument(doc') /\ OneTooMany(doc') /\ doc'.active = doc.active
        /\ doc'.profiles = With(doc.profiles, id, p)
    BY <2>0, <2>1, <2>2, CommandStart, SavedProfileGood
  <2>5. CASE run.profile = id
    <3>1. run.life = "ACTIVE" /\ run.snap = old
      BY <2>0, <2>5, CommandStart DEF RunningIsNamed, RunningMatchesStored
    <3>2. run' = [life |-> run.life, profile |-> id, snap |-> p, secret |-> run.secret]
      BY <2>1, <2>5, CommandStart
    <3>3. RunningIsNamed'
      BY <2>0, <2>2, <3>1, <3>2 DEF RunningIsNamed
    <3>4. doc'.active = id /\ id \in DOMAIN doc'.profiles /\ doc'.profiles[id] = p
      BY <2>4, <2>5, <3>1, CommandStart DEF With, RunningMatchesStored
    <3>5. p.cred # "none" => secrets'[p.cred] = run.secret
      BY <2>1, <2>3, <2>5, <3>1, CommandStart DEF RunningMatchesStored
    <3>6. RunningMatchesStored'
      BY <3>2, <3>4, <3>5 DEF RunningMatchesStored
    <3> QED BY <2>1, <2>4, <3>1, <3>2, <3>3, <3>6, CommandStart, CommandKeeps
  <2>6. CASE run.profile # id
    <3>1. RunningIsNamed' /\ UNCHANGED run
      BY <2>1, <2>6, CommandStart DEF RunningIsNamed
    <3>2. RunningMatchesStored'
      <4> SUFFICES ASSUME run'.life = "ACTIVE"
                   PROVE  /\ doc'.active = run'.profile
                          /\ run'.profile \in DOMAIN doc'.profiles
                          /\ doc'.profiles[run'.profile] = run'.snap
                          /\ run'.snap.cred # "none" => secrets'[run'.snap.cred] = run'.secret
        BY DEF RunningMatchesStored
      <4>1. /\ doc.active = run.profile /\ run.profile \in DOMAIN doc.profiles
            /\ doc.profiles[run.profile] = run.snap
            /\ run.snap.cred # "none" => secrets[run.snap.cred] = run.secret
        BY <3>1, CommandStart DEF RunningMatchesStored
      <4> QED BY <2>1, <2>4, <2>6, <3>1, <4>1 DEF With
    <3> QED BY <2>1, <2>4, <3>1, <3>2, CommandStart, CommandKeeps
  <2> QED BY <2>5, <2>6
<1> QED BY <1>1, <1>2

\* The running profile is not deleted.
LEMMA DeleteProfileKeeps ==
  ASSUME ProviderAssumption, SettingsInv, starting = 0, WithinLimit(doc), NEW ok \in BOOLEAN,
         NEW id \in DOMAIN doc.profiles, DeleteProfile(id, ok)
  PROVE  SettingsInv'
<1>1. CASE ~ok
  BY <1>1, FailedWriteKeeps DEF DeleteProfile, Write
<1>2. CASE ok
  <2>1. /\ doc' = DeletedProfile(id) /\ file' = "valid" /\ UNCHANGED <<secrets, run>>
        /\ Command /\ id # doc.active /\ run.profile # id
    BY <1>2 DEF DeleteProfile, Write, CanDeleteProfile
  <2>2. /\ GoodDocument(doc') /\ OneTooMany(doc') /\ doc'.active = doc.active
        /\ doc'.profiles = Without(doc.profiles, id)
    BY <2>1, CommandStart, DeletedProfileGood
  <2>3. RunningIsNamed'
    BY <2>1, CommandStart DEF RunningIsNamed
  <2>4. RunningMatchesStored'
    <3> SUFFICES ASSUME run'.life = "ACTIVE"
                 PROVE  /\ doc'.active = run'.profile
                        /\ run'.profile \in DOMAIN doc'.profiles
                        /\ doc'.profiles[run'.profile] = run'.snap
                        /\ run'.snap.cred # "none" => secrets'[run'.snap.cred] = run'.secret
      BY DEF RunningMatchesStored
    <3>1. /\ doc.active = run.profile /\ run.profile \in DOMAIN doc.profiles
          /\ doc.profiles[run.profile] = run.snap
          /\ run.snap.cred # "none" => secrets[run.snap.cred] = run.secret
      BY <2>1, CommandStart DEF RunningMatchesStored
    <3> QED BY <2>1, <2>2, <3>1 DEF Without, Restrict
  <2> QED BY <2>1, <2>2, <2>3, <2>4, CommandStart, CommandKeeps
<1> QED BY <1>1, <1>2

\* Bindings are no part of what runs.
LEMMA BindingCommandsKeep ==
  ASSUME ProviderAssumption, SettingsInv, starting = 0, WithinLimit(doc), NEW ok \in BOOLEAN,
         NEW c \in AllCredentials
  PROVE  /\ \A provider \in Providers : CreateBinding(c, provider, ok) => SettingsInv'
         /\ DeleteBinding(c, ok) => SettingsInv'
<1>1. ASSUME Command, GoodDocument(doc'), OneTooMany(doc'), doc'.active = doc.active,
             doc'.profiles = doc.profiles, file' = "valid", UNCHANGED <<secrets, run>>
      PROVE  SettingsInv'
  <2>1. RunningIsNamed' /\ RunningMatchesStored'
    BY <1>1, CommandStart DEF RunningIsNamed, RunningMatchesStored
  <2> QED BY <1>1, <2>1, CommandStart, CommandKeeps
<1>2. ASSUME NEW provider \in Providers, CreateBinding(c, provider, ok) PROVE SettingsInv'
  <2>1. CASE ~ok
    BY <1>2, <2>1, FailedWriteKeeps DEF CreateBinding, Write
  <2>2. CASE ok
    <3>1. /\ doc' = SavedBinding(c, provider) /\ file' = "valid" /\ UNCHANGED <<secrets, run>>
          /\ Command /\ c \notin DOMAIN doc.bindings /\ SupportedBinding(c, provider)
      BY <1>2, <2>2 DEF CreateBinding, Write
    <3>2. GoodDocument(doc') /\ OneTooMany(doc') /\ doc'.active = doc.active /\ doc'.profiles = doc.profiles
      BY <3>1, CommandStart, SavedBindingGood
    <3> QED BY <1>1, <3>1, <3>2
  <2> QED BY <2>1, <2>2
<1>3. ASSUME DeleteBinding(c, ok) PROVE SettingsInv'
  <2>1. CASE ~ok
    BY <1>3, <2>1, FailedWriteKeeps DEF DeleteBinding, Write
  <2>2. CASE ok
    <3>1. /\ doc' = DeletedBinding(c) /\ file' = "valid"
          /\ UNCHANGED <<secrets, run>> /\ Command /\ CanDeleteBinding(c)
      BY <1>3, <2>2 DEF DeleteBinding, Write
    <3>2. GoodDocument(doc') /\ OneTooMany(doc') /\ doc'.active = doc.active /\ doc'.profiles = doc.profiles
      BY <3>1, CommandStart, DeletedBindingGood
    <3> QED BY <1>1, <3>1, <3>2
  <2> QED BY <2>1, <2>2
<1> QED BY <1>2, <1>3

\* The credential of the running profile does not change.
LEMMA SetSecretKeeps ==
  ASSUME ProviderAssumption, SettingsInv, starting = 0, NEW c \in AllCredentials,
         NEW v \in Values \cup {"none"}, SetSecret(c, v)
  PROVE  SettingsInv'
<1>1. /\ secrets' = [secrets EXCEPT ![c] = v] /\ UNCHANGED <<file, doc, run>> /\ Command
      /\ run.profile # "none" => run.snap.cred # c
  BY DEF SetSecret, CredentialMutable
<1>2. /\ secrets' \in [AllCredentials -> Values \cup {"none"}]
      /\ \A x \in AllCredentials : x # c => secrets'[x] = secrets[x]
  BY <1>1, CommandStart
<1>3. RunningIsNamed' /\ GoodDocument(doc') /\ OneTooMany(doc')
  BY <1>1, CommandStart DEF RunningIsNamed
<1>4. RunningMatchesStored'
  <2>1. run.life = "ACTIVE" /\ run.snap.cred # "none" => run.snap.cred \in AllCredentials
    BY CommandStart DEF RunningIsNamed, Profile
  <2>2. run.life = "ACTIVE" => run.snap.cred # c
    BY <1>1, CommandStart DEF RunningIsNamed
  <2> QED BY <1>1, <1>2, <2>1, <2>2, CommandStart DEF RunningMatchesStored
<1> QED BY <1>1, <1>2, <1>3, <1>4, CommandStart, CommandKeeps

\* An activation that succeeds stores the choice and builds what is stored; one
\* that fails keeps the old choice, with the old Provider or without one.
LEMMA ActivateKeeps ==
  ASSUME ProviderAssumption, SettingsInv, starting = 0, WithinLimit(doc), NEW ok \in BOOLEAN,
         NEW id \in DOMAIN doc.profiles, Activate(id, ok)
  PROVE  SettingsInv'
<1> DEFINE p == doc.profiles[id]
<1>0. p \in Profile /\ id # "none"
  BY CommandStart DEF GoodDocument
<1>1. CASE ~ok
  <2>1. /\ UNCHANGED <<file, doc, secrets>> /\ Command
        /\ \/ run' = Closed("INACTIVE") \/ run' = Closed("CLEANUP_PENDING") \/ run' = run
    BY <1>1 DEF Activate, Write
  <2>2. CASE run' = run
    BY <2>1, <2>2, FailedWriteKeeps
  <2>3. CASE run' = Closed("INACTIVE") \/ run' = Closed("CLEANUP_PENDING")
    <3>1. PICK life \in {"INACTIVE", "CLEANUP_PENDING"} :
             run' = [life |-> life, profile |-> "none", snap |-> "none", secret |-> "none"]
      BY <2>3 DEF Closed, Inactive
    <3>2. RunningIsNamed' /\ RunningMatchesStored' /\ GoodDocument(doc') /\ OneTooMany(doc')
      BY <2>1, <3>1, CommandStart DEF RunningIsNamed, RunningMatchesStored
    <3>3. /\ run'.life \in {"INACTIVE", "ACTIVE", "CLEANUP_PENDING"}
          /\ run' = [life |-> run'.life, profile |-> run'.profile, snap |-> run'.snap, secret |-> run'.secret]
      BY <3>1
    <3> QED BY <2>1, <3>2, <3>3, CommandStart, CommandKeeps
  <2> QED BY <2>1, <2>2, <2>3
<1>2. CASE ok
  <2>1. /\ doc' = [doc EXCEPT !.active = id] /\ file' = "valid" /\ UNCHANGED secrets
        /\ Command
        /\ run' = [life |-> "ACTIVE", profile |-> id, snap |-> p,
                   secret |-> IF p.cred = "none" THEN "none" ELSE secrets[p.cred]]
    BY <1>2 DEF Activate, Write
  <2>2. doc' = [active |-> id, profiles |-> doc.profiles, bindings |-> doc.bindings]
    BY <2>1, CommandStart DEF GoodDocument
  <2>3. GoodDocument(doc') /\ OneTooMany(doc')
    BY <2>2, CommandStart DEF GoodDocument, WellFormed, Bound, OneTooMany
  <2>4. RunningIsNamed' /\ RunningMatchesStored'
    BY <1>0, <2>1, <2>2 DEF RunningIsNamed, RunningMatchesStored
  <2>5. /\ run'.life \in {"INACTIVE", "ACTIVE", "CLEANUP_PENDING"}
        /\ run' = [life |-> run'.life, profile |-> run'.profile, snap |-> run'.snap, secret |-> run'.secret]
    BY <2>1
  <2> QED BY <2>1, <2>3, <2>4, <2>5, CommandStart, CommandKeeps
<1> QED BY <1>1, <1>2

\* Every step keeps the invariant.
LEMMA SettingsInvStep ==
  ASSUME ProviderAssumption, SettingsInv, [SettingsNext]_settingsVars
  PROVE  SettingsInv'
<1>1. CASE UNCHANGED settingsVars
  <2>1. UNCHANGED <<file, doc, secrets, run, starting, edits>>
    BY <1>1 DEF settingsVars
  <2>2. GoodDocument(doc') /\ OneTooMany(doc')
    BY <2>1, CommandStart
  <2>3. StartedSoFar' /\ RunningIsNamed' /\ RunningMatchesStored'
    BY <2>1 DEF SettingsInv, StartedSoFar, Ensured, BindingStep, ProfileStep, ProfileOf, RunningIsNamed,
       RunningMatchesStored
  <2> QED BY <2>1, <2>2, <2>3, CommandStart, WriteKeeps
<1>2. CASE Ensure \/ StartFails
  BY <1>2, EnsureKeeps
<1>3. CASE Crash \/ PendingCleanupEnds
  BY <1>3, CrashKeeps
<1>4. CASE CommandNext
  <2>1. starting = 0 /\ WithinLimit(doc)
    BY <1>4 DEF CommandNext, Readable
  <2>2. ASSUME NEW ok \in BOOLEAN, NEW id \in ProfileIds, NEW p \in Profile,
               CreateProfile(id, p, ok) \/ CreateAsBuiltin(id, p, ok)
        PROVE  SettingsInv'
    BY <2>1, <2>2, NewProfileKeeps DEF CreateProfile, CreateAsBuiltin
  <2>3. ASSUME NEW ok \in BOOLEAN, NEW id \in DOMAIN doc.profiles, NEW name \in Names, NEW model \in Models,
               NEW cred \in AllCredentials \cup {"none"}, UpdateProfile(id, name, model, cred, ok)
        PROVE  SettingsInv'
    BY <2>1, <2>3, UpdateProfileKeeps
  <2>4. ASSUME NEW ok \in BOOLEAN, NEW id \in DOMAIN doc.profiles, DeleteProfile(id, ok) \/ Activate(id, ok)
        PROVE  SettingsInv'
    BY <2>1, <2>4, DeleteProfileKeeps, ActivateKeeps
  <2>5. ASSUME NEW ok \in BOOLEAN, NEW c \in AllCredentials,
               DeleteBinding(c, ok) \/ \E provider \in Providers : CreateBinding(c, provider, ok)
        PROVE  SettingsInv'
    BY <2>1, <2>5, BindingCommandsKeep
  <2>6. ASSUME NEW c \in AllCredentials, NEW v \in Values \cup {"none"}, SetSecret(c, v)
        PROVE  SettingsInv'
    BY <2>1, <2>6, SetSecretKeeps
  <2> QED BY <1>4, <2>2, <2>3, <2>4, <2>5, <2>6 DEF CommandNext
<1> QED BY <1>1, <1>2, <1>3, <1>4 DEF SettingsNext

-----------------------------------------------------------------------------
(* The settings: theorems.                                                 *)

\* The inductive invariant holds: above all, a start that died halfway, or one
\* that follows deletions, finds what its earlier steps ensured.
THEOREM SettingsInvariant == ASSUME ProviderAssumption PROVE SettingsSpec => []SettingsInv
<1>1. SettingsInit => SettingsInv
  BY SettingsInvInit
<1>2. SettingsInv /\ [SettingsNext]_settingsVars => SettingsInv'
  BY SettingsInvStep
<1> QED BY <1>1, <1>2, PTL DEF SettingsSpec

\* Through any sequence of commands of provider_settings_service.py, failures and
\* crashes the stored records stay ones the next start accepts, at most one of them
\* is more than it accepts, and the Provider that runs is the stored choice, built
\* from the stored profile and the stored credential.
THEOREM SettingsConsistent ==
  ASSUME ProviderAssumption
  PROVE  SettingsSpec => []SettingsAreConsistent
<1>1. SettingsInv => SettingsAreConsistent
  BY DEF SettingsInv, SettingsAreConsistent
<1> QED BY <1>1, SettingsInvariant, PTL

\* No step replaces a document that cannot be read, damaged or too long, and a
\* process that comes up has every built-in, of its own provider, and an active
\* profile.
THEOREM SettingsStepsSafe ==
  ASSUME ProviderAssumption
  PROVE  SettingsSpec => [][UnreadableIsKept /\ StartRestoresBuiltins]_settingsVars
<1>1. ASSUME SettingsInv, SettingsNext PROVE UnreadableIsKept
  BY <1>1 DEF UnreadableIsKept, SettingsNext, Ensure, StartFails, Crash, PendingCleanupEnds, CommandNext
<1>2. ASSUME SettingsInv, SettingsNext, starting # 0, starting' = 0
      PROVE  /\ \A c \in DOMAIN BuiltinBinding :
                   c \in DOMAIN doc'.bindings /\ doc'.bindings[c] = BuiltinBinding[c]
             /\ \A id \in DOMAIN BuiltinProfile :
                   /\ id \in DOMAIN doc'.profiles
                   /\ doc'.profiles[id].provider = BuiltinProfile[id].provider
             /\ doc'.active \in DOMAIN doc'.profiles
  <2>1. Ensure
    BY <1>2 DEF SettingsNext, StartFails, Crash, PendingCleanupEnds, CommandNext
  <2>2. /\ starting \in 1..7 /\ starting' = (starting + 1) % 8
        /\ Write(Added(starting), Missing(starting))
    BY <1>2, <2>1, StartSteps, CommandStart DEF Ensure
  <2>3. starting = 7
    <3>1. starting \in 1..6 => (starting + 1) % 8 # 0
      OBVIOUS
    <3> QED BY <1>2, <2>2, <3>1
  <2>4. GoodDocument(doc') /\ \A n \in 1..6 : Ensured(n)'
    BY <1>2, <2>1, <2>3, EnsureWrites
  <2>5. doc'.active # "none"
    <3>1. ~BindingStep(7) /\ ~ProfileStep(7)
      BY StartSteps
    <3>2. GoodDocument(doc)
      BY <1>2, CommandStart
    <3>3. CASE doc.active = "none"
      <4>1. doc' = [doc EXCEPT !.active = "fake_default"]
        BY <2>2, <2>3, <3>1, <3>3, StartSteps DEF Write, Added, Missing
      <4> QED BY <3>2, <4>1 DEF GoodDocument
    <3>4. CASE doc.active # "none"
      BY <2>2, <2>3, <3>1, <3>4 DEF Write, Missing
    <3> QED BY <3>3, <3>4
  <2>6. doc'.active \in DOMAIN doc'.profiles
    BY <2>4, <2>5 DEF GoodDocument, WellFormed
  <2>7. \A c \in DOMAIN BuiltinBinding : c \in DOMAIN doc'.bindings /\ doc'.bindings[c] = BuiltinBinding[c]
    BY <2>4, StartSteps, BuiltinsSupported DEF Ensured
  <2>8. \A id \in DOMAIN BuiltinProfile :
           id \in DOMAIN doc'.profiles /\ doc'.profiles[id].provider = BuiltinProfile[id].provider
    BY <2>4, StartSteps, BuiltinsSupported DEF Ensured
  <2> QED BY <2>6, <2>7, <2>8
<1>3. SettingsInv /\ [SettingsNext]_settingsVars => [UnreadableIsKept /\ StartRestoresBuiltins]_settingsVars
  BY <1>1, <1>2 DEF StartRestoresBuiltins
<1> QED BY <1>3, SettingsInvariant, PTL DEF SettingsSpec

-----------------------------------------------------------------------------
(* A stream: the inductive invariant.                                      *)

\* What an adapter yields.
Yields ==
    [kind : {"text", "completed"} \cup Codes] \cup [kind : {"call"}, index : Index, text : Seq(Fragments)]

Assembly == [id : Ids \cup {NoId}, parts : Seq(Fragments), completed : BOOLEAN]

StreamTyped ==
    /\ StreamTypeOK
    /\ Len(log) <= MaxEvents
    /\ adapter = "openai" => log \in Seq(OpenAIEvents) /\ queued = <<>>
    /\ adapter = "deepseek" => log \in Seq(Chunks) /\ tools = [i \in Index |-> NoTool] /\ ~items
    /\ tools \in [Index -> Assembly]
    /\ yielded \in Seq(Yields)

\* Only the last step yields a terminal event; no event yields two.
YieldedSoFar ==
    /\ \A n \in DOMAIN yielded :
         yielded[n].kind \in {"text", "call"} <=> ~(phase = "over" /\ n = Len(yielded))
    /\ phase = "over" => yielded # <<>>
    /\ Len(yielded) <= Len(log) + (IF phase = "over" THEN 1 ELSE 0)
    /\ phase = "reading" /\ queued # <<>> /\ queued[1].kind = "text" => Len(yielded) < Len(log)

\* A loop that goes on without a terminal event has not failed, and one that
\* ended without a failure has read everything.
FailureFirst ==
    /\ phase = "reading" /\ terminal = "none" => failure = "none"
    /\ phase = "retiring" /\ failure = "none" => queued = <<>>

\* What output_seen stands for.
OutputIsSeen ==
    outputSeen =>
        \/ \E n \in DOMAIN yielded : yielded[n].kind = "text"
        \/ adapter = "openai" /\ \E n \in DOMAIN yielded : yielded[n].kind = "call"
        \/ adapter = "openai" /\ Positions("announced") # {}

\* Without a failure, what the OpenAI adapter read is what the service sent.
OpenAISoFar ==
    LET ends == Positions("completed") \cup Positions("completed_items")
    IN  adapter = "openai" /\ failure = "none" =>
          /\ terminal = "none" => ends = {}
          /\ terminal = "completed" => \E n \in ends : ends = {n}
          /\ terminal # "failed" => Positions("failed") = {} /\ Positions("closing") = {}
          /\ items => Positions("completed_items") # {}
          /\ \A n \in Positions("added") : tools[log[n].index].id # NoId

\* The assemblies: what was yielded, announced and streamed for each.
CallsSoFar ==
    IF adapter = "openai"
    THEN /\ \A i \in Index : tools[i].completed
              <=> \E m \in DOMAIN yielded : yielded[m].kind = "call" /\ yielded[m].index = i
         /\ \A i \in Index : tools[i].id # NoId =>
              \E a \in Positions("added") : log[a].id = tools[i].id /\ log[a].index = i
         /\ phase = "reading" =>
              \A i \in Index : ~tools[i].completed => IsStreamed(tools[i].parts, log, i, Len(log))
         /\ CallsAsStreamed
    ELSE \A m \in DOMAIN yielded : yielded[m].kind # "call"

\* What is queued is what is left of the last chunk.
QueuedIsLast ==
    adapter = "deepseek" /\ queued # <<>> =>
        LET chunk == log[Len(log)]
        IN  /\ log # <<>>
            /\ \/ queued = NormalizeChunk(chunk)
               \/ chunk.content /\ chunk.finish # "none" /\ queued = <<TerminalEvent(chunk.finish)>>

\* The chunks that have been read to their end.
ChunksRead == 1..(IF queued = <<>> THEN Len(log) ELSE Len(log) - 1)

\* Without a failure, the chunks the DeepSeek adapter read have one finish
\* reason, "stop", in the last one that carries anything.
DeepSeekSoFar ==
    adapter = "deepseek" /\ failure = "none" =>
        /\ terminal = "none" => \A m \in ChunksRead : log[m].finish = "none"
        /\ terminal = "completed" =>
             \E n \in ChunksRead :
                /\ log[n].finish = "stop"
                /\ \A m \in ChunksRead \ {n} : log[m].finish = "none"
                /\ \A m \in ChunksRead : m > n => ~log[m].content

StreamInv ==
    /\ StreamTyped /\ YieldedSoFar /\ FailureFirst /\ OutputIsSeen /\ OpenAISoFar /\ CallsSoFar
    /\ QueuedIsLast /\ DeepSeekSoFar /\ CompletedOnlyIfComplete /\ CompletedHasOutput

-----------------------------------------------------------------------------
(* A stream: lemmas.                                                       *)

\* Argument text is a sequence.
LEMMA ArgumentsAreSequences == ASSUME NEW m \in Nat, NEW t \in UNION {[1..n -> Fragments] : n \in 0..m}
  PROVE  t \in Seq(Fragments) /\ Len(t) <= m
<1>1. PICK n \in 0..m : t \in [1..n -> Fragments]
  OBVIOUS
<1>2. n \in Nat /\ n <= m
  BY <1>1
<1>3. t \in Seq(Fragments)
  BY <1>1, <1>2, SeqDef
<1>4. Len(t) = n
  BY <1>1, <1>2, <1>3, LenProperties
<1> QED BY <1>2, <1>3, <1>4

\* The fields of an event of the OpenAI wrapper.
LEMMA EventFields ==
  ASSUME StreamAssumption, NEW e \in OpenAIEvents
  PROVE  /\ e.kind \in {"text", "empty", "announced", "metadata", "closing", "failed", "completed",
                        "completed_items", "added", "delta", "done"}
         /\ e.kind \in {"added", "delta", "done"} => e.index \in Index /\ e.id \in Ids \cup {NoId}
         /\ e.kind \in {"delta", "done"} => e.text \in Seq(Fragments)
         /\ e.kind = "delta" => Len(e.text) <= 1
<1>1. CASE e \in {Plain(k) : k \in {"text", "empty", "announced", "metadata", "closing",
                                   "failed", "completed", "completed_items"}}
  <2>1. PICK k \in {"text", "empty", "announced", "metadata", "closing", "failed", "completed",
                    "completed_items"} : e = [kind |-> k]
    BY <1>1 DEF Plain
  <2>2. e.kind = k
    BY <2>1
  <2> QED BY <2>2
<1>2. CASE e \in [kind : {"added"}, index : Index, id : Ids \cup {NoId}]
  BY <1>2
<1>3. CASE e \in [kind : {"delta"}, index : Index, id : Ids \cup {NoId},
                  text : UNION {[1..n -> Fragments] : n \in 0..1}]
  <2>1. e.text \in UNION {[1..n -> Fragments] : n \in 0..1}
    BY <1>3
  <2>2. e.text \in Seq(Fragments) /\ Len(e.text) <= 1
    BY <2>1, ArgumentsAreSequences
  <2>3. e.kind = "delta" /\ e.index \in Index /\ e.id \in Ids \cup {NoId}
    BY <1>3
  <2> QED BY <2>2, <2>3
<1>4. CASE e \in [kind : {"done"}, index : Index, id : Ids \cup {NoId}, text : Arguments]
  <2>0. MaxArgument + 1 \in Nat
    BY DEF StreamAssumption
  <2>1. e.text \in Arguments
    BY <1>4
  <2>2. e.text \in Seq(Fragments)
    BY <2>0, <2>1, ArgumentsAreSequences DEF Arguments
  <2>3. e.kind = "done" /\ e.index \in Index /\ e.id \in Ids \cup {NoId}
    BY <1>4
  <2> QED BY <2>2, <2>3
<1> QED BY <1>1, <1>2, <1>3, <1>4 DEF OpenAIEvents

\* What was sent stays sent.
LogKept ==
    /\ Len(log) \in Nat /\ Len(log') \in Nat /\ Len(log) <= Len(log')
    /\ DOMAIN log = 1..Len(log) /\ DOMAIN log' = 1..Len(log')
    /\ \A n \in 1..Len(log) : log'[n] = log[n]

\* The fragments up to an event that was received do not change.
LEMMA StreamedKept ==
  ASSUME NEW old, NEW new, NEW m \in Nat, \A n \in 1..m : new[n] = old[n],
         NEW i, NEW text, NEW n \in 0..m, IsStreamed(text, old, i, n)
  PROVE  IsStreamed(text, new, i, n)
<1>1. ASSUME NEW k \in 0..m PROVE Deltas(new, i, k) = Deltas(old, i, k)
  BY DEF Deltas
<1>2. \A k \in Deltas(old, i, n) : k \in 0..m /\ new[k] = old[k]
  BY DEF Deltas
<1>3. \A k \in Deltas(old, i, n) : Deltas(new, i, k) = Deltas(old, i, k)
  BY <1>1, <1>2
<1>4. Deltas(new, i, n) = Deltas(old, i, n)
  BY <1>1
<1> QED BY <1>2, <1>3, <1>4 DEF IsStreamed

\* Positions of events stay.
LEMMA PositionsKept ==
  ASSUME LogKept, NEW k, NEW n \in Positions(k)
  PROVE  n \in Positions(k)' /\ n \in 1..Len(log) /\ log'[n] = log[n]
BY DEF LogKept, Positions

\* A step that yields no call keeps what is known of the calls.
LEMMA CallsKept ==
  ASSUME LogKept, CallsAsStreamed,
         \A m \in DOMAIN yielded' :
            yielded'[m].kind = "call" => m \in DOMAIN yielded /\ yielded'[m] = yielded[m]
  PROVE  CallsAsStreamed'
<1> SUFFICES ASSUME NEW m \in DOMAIN yielded', yielded'[m].kind = "call"
             PROVE  /\ \A k \in DOMAIN yielded' \ {m} :
                         yielded'[k].kind = "call" => yielded'[k].index # yielded'[m].index
                    /\ \E n \in Positions("done")' :
                         /\ log'[n].index = yielded'[m].index /\ log'[n].text = yielded'[m].text
                         /\ \E a \in Positions("added")' : /\ a < n /\ log'[a].id = log'[n].id
                                                           /\ log'[a].index = log'[n].index
                         /\ \E text \in {<<>>, log'[n].text} : IsStreamed(text, log', log'[n].index, n)
  BY DEF CallsAsStreamed
<1>1. m \in DOMAIN yielded /\ yielded'[m] = yielded[m]
  OBVIOUS
<1>2. \A k \in DOMAIN yielded' \ {m} :
         yielded'[k].kind = "call" => yielded'[k].index # yielded'[m].index
  BY <1>1 DEF CallsAsStreamed
<1>3. PICK n \in Positions("done") :
         /\ log[n].index = yielded[m].index /\ log[n].text = yielded[m].text
         /\ \E a \in Positions("added") : /\ a < n /\ log[a].id = log[n].id
                                          /\ log[a].index = log[n].index
         /\ \E text \in {<<>>, log[n].text} : IsStreamed(text, log, log[n].index, n)
  BY <1>1 DEF CallsAsStreamed
<1>4. n \in Positions("done")' /\ n \in 0..Len(log) /\ log'[n] = log[n]
  BY <1>3, PositionsKept DEF LogKept
<1>5. PICK a \in Positions("added") : a < n /\ log[a].id = log[n].id /\ log[a].index = log[n].index
  BY <1>3
<1>6. a \in Positions("added")' /\ log'[a] = log[a]
  BY <1>5, PositionsKept
<1>7. PICK text \in {<<>>, log[n].text} : IsStreamed(text, log, log[n].index, n)
  BY <1>3
<1>8. IsStreamed(text, log', log[n].index, n)
  BY <1>4, <1>7, StreamedKept DEF LogKept
<1>9. IsStreamed(text, log', log'[n].index, n)
  BY <1>4, <1>8
<1> QED BY <1>1, <1>2, <1>3, <1>4, <1>5, <1>6, <1>7, <1>9

\* While a stream is not over there is no completion.
LEMMA NotOver ==
  ASSUME YieldedSoFar', phase' # "over", yielded' \in Seq(Yields)
  PROVE  CompletedOnlyIfComplete' /\ CompletedHasOutput'
<1>1. ~Completed'
  <2>1. yielded' # <<>> => Len(yielded') \in DOMAIN yielded'
    OBVIOUS
  <2> QED BY <2>1 DEF Completed, Last, YieldedSoFar
<1> QED BY <1>1 DEF CompletedOnlyIfComplete, CompletedHasOutput

\* An event that the OpenAI adapter reads.
LEMMA EventReceived ==
  ASSUME StreamAssumption, StreamInv, adapter = "openai", UNCHANGED <<adapter, queued>>,
         NEW e \in OpenAIEvents, Receive(e)
  PROVE  /\ LogKept /\ phase = "reading" /\ log' \in Seq(OpenAIEvents)
         /\ Len(log') = Len(log) + 1 /\ Len(log') <= MaxEvents /\ log'[Len(log) + 1] = e
         /\ \A k : Positions(k)' = Positions(k) \cup (IF e.kind = k THEN {Len(log) + 1} ELSE {})
<1>1. log \in Seq(OpenAIEvents) /\ Len(log) < MaxEvents /\ MaxEvents \in Nat
      /\ log' = Append(log, e) /\ phase = "reading"
  BY DEF StreamInv, StreamTyped, Receive, StreamAssumption
<1>2. /\ LogKept /\ log' \in Seq(OpenAIEvents) /\ Len(log') = Len(log) + 1
      /\ Len(log') <= MaxEvents /\ log'[Len(log) + 1] = e
  BY <1>1 DEF LogKept
<1>3. ASSUME NEW k PROVE Positions(k)' = Positions(k) \cup (IF e.kind = k THEN {Len(log) + 1} ELSE {})
  <2>1. DOMAIN log' = DOMAIN log \cup {Len(log) + 1} /\ \A n \in DOMAIN log : log'[n] = log[n]
    BY <1>2 DEF LogKept
  <2> QED BY <1>2, <2>1 DEF Positions
<1> QED BY <1>1, <1>2, <1>3

\* The fragments once an event was received that is none of the item.
LEMMA StreamedAfter ==
  ASSUME NEW old, NEW new, NEW m \in Nat, \A n \in 1..m : new[n] = old[n],
         NEW i, NEW text, IsStreamed(text, old, i, m),
         ~(new[m + 1].kind = "delta" /\ new[m + 1].index = i /\ new[m + 1].text # <<>>)
  PROVE  IsStreamed(text, new, i, m + 1)
<1>0. m \in 0..m
  OBVIOUS
<1>1. IsStreamed(text, new, i, m)
  BY <1>0, StreamedKept
<1>2. 1..(m + 1) = 1..m \cup {m + 1}
  OBVIOUS
<1>3. Deltas(new, i, m + 1) = Deltas(new, i, m)
  BY <1>2 DEF Deltas
<1> QED BY <1>1, <1>3 DEF IsStreamed

\* What an event yields: nothing, or one event at the end.
YieldsAtMost(y) ==
    \/ UNCHANGED yielded
    \/ yielded' = Append(yielded, y) /\ y \in Yields /\ y.kind \in {"text", "call"}

\* The invariant's parts about what is yielded, while a stream is read.
LEMMA YieldKeeps ==
  ASSUME StreamAssumption, StreamInv, phase = "reading", phase' # "over", queued' = <<>>,
         NEW y, YieldsAtMost(y), Len(log) \in Nat, Len(log') = Len(log) + 1
  PROVE  /\ YieldedSoFar' /\ yielded' \in Seq(Yields)
         /\ DOMAIN yielded \subseteq DOMAIN yielded'
         /\ \A m \in DOMAIN yielded : yielded'[m] = yielded[m]
         /\ \A m \in DOMAIN yielded' \ DOMAIN yielded : m = Len(yielded) + 1 /\ yielded'[m] = y
         /\ yielded' # yielded => Len(yielded) + 1 \in DOMAIN yielded' \ DOMAIN yielded
<1>1. yielded \in Seq(Yields) /\ YieldedSoFar /\ Len(yielded) <= Len(log)
  BY DEF StreamInv, StreamTyped, YieldedSoFar
<1>2. CASE UNCHANGED yielded
  BY <1>1, <1>2 DEF YieldedSoFar
<1>3. CASE yielded' = Append(yielded, y) /\ y \in Yields /\ y.kind \in {"text", "call"}
  <2>1. /\ yielded' \in Seq(Yields) /\ Len(yielded') = Len(yielded) + 1
        /\ DOMAIN yielded' = DOMAIN yielded \cup {Len(yielded) + 1}
        /\ Len(yielded) + 1 \notin DOMAIN yielded
        /\ \A m \in DOMAIN yielded : yielded'[m] = yielded[m]
        /\ yielded'[Len(yielded) + 1] = y
    BY <1>1, <1>3, AppendProperties
  <2>2. \A n \in DOMAIN yielded' : yielded'[n].kind \in {"text", "call"}
    BY <1>1, <1>3, <2>1 DEF YieldedSoFar
  <2>3. YieldedSoFar'
    BY <1>1, <2>1, <2>2 DEF YieldedSoFar
  <2> QED BY <2>1, <2>3
<1> QED BY <1>2, <1>3 DEF YieldsAtMost

\* The assemblies do not change and no fragment is accepted.
LEMMA CallsSoFarKept ==
  ASSUME StreamAssumption, StreamInv, adapter = "openai", UNCHANGED <<adapter, queued, tools>>,
         NEW e \in OpenAIEvents, Receive(e), phase' # "over",
         NEW y, YieldsAtMost(y), y.kind # "call", phase' = "reading" => e.kind # "delta"
  PROVE  CallsSoFar'
<1>1. /\ LogKept /\ Len(log') = Len(log) + 1 /\ log'[Len(log) + 1] = e /\ phase = "reading"
      /\ Len(log) \in Nat /\ \A n \in 1..Len(log) : log'[n] = log[n] /\ queued' = <<>>
  BY EventReceived DEF LogKept, StreamInv, StreamTyped
<1>2. /\ DOMAIN yielded \subseteq DOMAIN yielded'
      /\ \A m \in DOMAIN yielded : yielded'[m] = yielded[m]
      /\ \A m \in DOMAIN yielded' \ DOMAIN yielded : yielded'[m].kind # "call"
  <2>1. queued' = <<>>
    BY DEF StreamInv, StreamTyped
  <2> QED BY <1>1, <2>1, YieldKeeps
<1>3. CallsSoFar
  BY DEF StreamInv
<1>4. CallsAsStreamed'
  BY <1>1, <1>2, <1>3, CallsKept DEF CallsSoFar
<1>5. \A i \in Index : tools'[i].completed
         <=> \E m \in DOMAIN yielded' : yielded'[m].kind = "call" /\ yielded'[m].index = i
  BY <1>2, <1>3 DEF CallsSoFar
<1>6. ASSUME NEW i \in Index, tools'[i].id # NoId
      PROVE  \E a \in Positions("added")' : log'[a].id = tools'[i].id /\ log'[a].index = i
  <2>1. PICK a \in Positions("added") : log[a].id = tools[i].id /\ log[a].index = i
    BY <1>3, <1>6 DEF CallsSoFar
  <2>2. a \in Positions("added")' /\ log'[a] = log[a]
    BY <1>1, <2>1, PositionsKept
  <2> QED BY <2>1, <2>2
<1>7. ASSUME phase' = "reading", NEW i \in Index, ~tools'[i].completed
      PROVE  IsStreamed(tools'[i].parts, log', i, Len(log'))
  <2>1. IsStreamed(tools[i].parts, log, i, Len(log))
    BY <1>1, <1>3, <1>7 DEF CallsSoFar
  <2>2. IsStreamed(tools[i].parts, log', i, Len(log) + 1)
    BY <1>1, <1>7, <2>1, StreamedAfter
  <2> QED BY <1>1, <2>2
<1> QED BY <1>4, <1>5, <1>6, <1>7 DEF CallsSoFar

\* The parts that are left once an OpenAI event was read.
LEMMA OpenAIKeeps ==
  ASSUME adapter = "openai", UNCHANGED <<adapter, queued>>, phase' # "over",
         StreamTyped', YieldedSoFar', FailureFirst', OutputIsSeen', OpenAISoFar', CallsSoFar'
  PROVE  StreamInv'
<1>1. CompletedOnlyIfComplete' /\ CompletedHasOutput'
  BY NotOver DEF StreamTyped
<1>2. QueuedIsLast' /\ DeepSeekSoFar'
  BY DEF QueuedIsLast, DeepSeekSoFar
<1> QED BY <1>1, <1>2 DEF StreamInv

\* The types after an OpenAI event.
LEMMA TypesAfterEvent ==
  ASSUME StreamAssumption, StreamInv, adapter = "openai", UNCHANGED <<adapter, queued>>,
         NEW e \in OpenAIEvents, Receive(e), yielded' \in Seq(Yields), YieldedSoFar',
         phase' \in {"reading", "retiring"}, terminal' \in {"none", "completed", "failed"},
         failure' \in Codes \cup {"none"}, outputSeen' \in BOOLEAN, items' \in BOOLEAN,
         tools' \in [Index -> Assembly], \A i \in Index : Len(tools'[i].parts) <= MaxArgument
  PROVE  StreamTyped'
<1>1. log' \in Seq(OpenAIEvents) /\ Len(log') <= MaxEvents /\ adapter' \in Adapters /\ queued' = <<>>
  BY EventReceived DEF StreamInv, StreamTyped, StreamTypeOK
<1>2. Len(yielded') <= MaxEvents + 2
  BY <1>1 DEF YieldedSoFar, StreamAssumption
<1>3. \A i \in Index : tools'[i].id \in Ids \cup {NoId}
  BY DEF Assembly
<1>4. StreamTypeOK'
  BY <1>1, <1>2, <1>3 DEF StreamTypeOK
<1> QED BY <1>1, <1>4 DEF StreamTyped

\* The types before it.
LEMMA TypesBefore ==
  ASSUME StreamInv
  PROVE  /\ phase \in {"reading", "retiring", "cancelled", "over"}
         /\ terminal \in {"none", "completed", "failed"}
         /\ failure \in Codes \cup {"none"} /\ outputSeen \in BOOLEAN /\ items \in BOOLEAN
         /\ tools \in [Index -> Assembly] /\ \A i \in Index : Len(tools[i].parts) <= MaxArgument
         /\ yielded \in Seq(Yields) /\ adapter \in Adapters
BY DEF StreamInv, StreamTyped, StreamTypeOK

\* An event that breaks the loop.
LEMMA BreakKeeps ==
  ASSUME StreamAssumption, StreamInv, adapter = "openai", UNCHANGED <<adapter, queued>>,
         NEW e \in OpenAIEvents, Receive(e), Break("invalid_response")
  PROVE  StreamInv'
<1>1. /\ LogKept /\ Len(log') = Len(log) + 1 /\ phase = "reading" /\ Len(log) \in Nat /\ queued' = <<>>
      /\ \A k : Positions(k) \subseteq Positions(k)'
  <2>1. queued' = <<>>
    BY DEF StreamInv, StreamTyped
  <2> QED BY <2>1, EventReceived DEF LogKept
<1>2. /\ failure' = "invalid_response" /\ phase' = "retiring"
      /\ UNCHANGED <<terminal, outputSeen, items, tools, yielded>>
  BY DEF Break
<1> DEFINE y == Plain("text")
<1>3. YieldsAtMost(y) /\ y.kind # "call"
  BY <1>2 DEF YieldsAtMost, Plain
<1> HIDE DEF y
<1>4. YieldedSoFar'
  BY <1>1, <1>2, <1>3, YieldKeeps
<1>5. CallsSoFar'
  BY <1>2, <1>3, CallsSoFarKept
<1>6. StreamTyped'
  BY <1>2, <1>4, TypesBefore, TypesAfterEvent DEF Codes
<1>7. FailureFirst' /\ OpenAISoFar'
  BY <1>2 DEF FailureFirst, OpenAISoFar
<1>8. OutputIsSeen'
  BY <1>1, <1>2 DEF OutputIsSeen, StreamInv
<1> QED BY <1>2, <1>4, <1>5, <1>6, <1>7, <1>8, OpenAIKeeps

\* An event that is passed over.
LEMMA SkipKeeps ==
  ASSUME StreamAssumption, StreamInv, adapter = "openai", UNCHANGED <<adapter, queued>>,
         NEW e \in OpenAIEvents, Receive(e), Skip, e.kind \in {"metadata", "announced", "empty"}
  PROVE  StreamInv'
<1>1. /\ LogKept /\ Len(log') = Len(log) + 1 /\ phase = "reading" /\ Len(log) \in Nat /\ queued' = <<>>
      /\ \A k : Positions(k)' = Positions(k) \cup (IF e.kind = k THEN {Len(log) + 1} ELSE {})
  <2>1. queued' = <<>>
    BY DEF StreamInv, StreamTyped
  <2> QED BY <2>1, EventReceived DEF LogKept
<1>2. UNCHANGED <<phase, terminal, failure, outputSeen, items, tools, yielded>>
  BY DEF Skip
<1> DEFINE y == Plain("text")
<1>3. YieldsAtMost(y) /\ y.kind # "call"
  BY <1>2 DEF YieldsAtMost, Plain
<1> HIDE DEF y
<1>4. YieldedSoFar'
  BY <1>1, <1>2, <1>3, YieldKeeps
<1>5. CallsSoFar'
  BY <1>1, <1>2, <1>3, CallsSoFarKept
<1>6. StreamTyped'
  BY <1>1, <1>2, <1>4, TypesBefore, TypesAfterEvent
<1>7. FailureFirst'
  BY <1>1, <1>2 DEF FailureFirst, StreamInv
<1>8. OutputIsSeen'
  BY <1>1, <1>2 DEF OutputIsSeen, StreamInv
<1>9. OpenAISoFar'
  <2>1. \A k \in {"completed", "completed_items", "failed", "closing", "added"} :
           Positions(k)' = Positions(k)
    BY <1>1
  <2>2. \A n \in Positions("added") : log'[n] = log[n]
    BY <1>1, PositionsKept
  <2> QED BY <1>2, <2>1, <2>2 DEF OpenAISoFar, StreamInv
<1> QED BY <1>1, <1>2, <1>4, <1>5, <1>6, <1>7, <1>8, <1>9, OpenAIKeeps

\* Text, an announced item or a terminal event: the assemblies stay.
LEMMA PlainEventKeeps ==
  ASSUME StreamAssumption, StreamInv, adapter = "openai", UNCHANGED <<adapter, queued>>,
         NEW e \in OpenAIEvents, Receive(e), terminal = "none",
         \/ e.kind = "text" /\ ReadText
         \/ e.kind = "announced" /\ ReadAnnounced
         \/ e.kind \in {"closing", "failed"} /\ \E code \in Codes \cup {"none"} : ReadTerminal("failed", code, FALSE)
         \/ e.kind = "completed" /\ ReadTerminal("completed", "none", FALSE)
         \/ e.kind = "completed_items" /\ ReadTerminal("completed", "none", TRUE)
  PROVE  StreamInv'
<1>1. /\ LogKept /\ Len(log') = Len(log) + 1 /\ phase = "reading" /\ Len(log) \in Nat /\ queued' = <<>>
      /\ \A k : Positions(k)' = Positions(k) \cup (IF e.kind = k THEN {Len(log) + 1} ELSE {})
  <2>1. queued' = <<>>
    BY DEF StreamInv, StreamTyped
  <2> QED BY <2>1, EventReceived DEF LogKept
<1>2. UNCHANGED <<phase, tools>> /\ e.kind \notin {"delta", "added"} /\ failure = "none"
  BY <1>1 DEF ReadText, ReadAnnounced, ReadTerminal, StreamInv, FailureFirst
<1> DEFINE y == Plain("text")
<1>3. YieldsAtMost(y) /\ y.kind = "text"
  BY DEF YieldsAtMost, Plain, ReadText, ReadAnnounced, ReadTerminal, Yield, Yields
<1> HIDE DEF y
<1>4. /\ YieldedSoFar' /\ yielded' \in Seq(Yields) /\ DOMAIN yielded \subseteq DOMAIN yielded'
      /\ \A m \in DOMAIN yielded : yielded'[m] = yielded[m]
  BY <1>1, <1>2, <1>3, YieldKeeps
<1>5. CallsSoFar'
  BY <1>1, <1>2, <1>3, CallsSoFarKept
<1>6. StreamTyped'
  <2>1. /\ terminal' \in {"none", "completed", "failed"} /\ failure' \in Codes \cup {"none"}
        /\ outputSeen' \in BOOLEAN /\ items' \in BOOLEAN
    BY TypesBefore DEF ReadText, ReadAnnounced, ReadTerminal
  <2> QED BY <1>1, <1>2, <1>4, <2>1, TypesBefore, TypesAfterEvent
<1>7. FailureFirst'
  BY <1>1, <1>2 DEF FailureFirst, ReadText, ReadAnnounced, ReadTerminal
<1>8. OutputIsSeen'
  <2>1. CASE e.kind = "text" /\ ReadText
    <3>1. Len(yielded) + 1 \in DOMAIN yielded' /\ yielded'[Len(yielded) + 1].kind = "text"
      BY <1>3, <2>1, TypesBefore, AppendProperties DEF ReadText, Yield, y
    <3> QED BY <3>1 DEF OutputIsSeen
  <2>2. CASE e.kind = "announced"
    BY <1>1, <2>2 DEF OutputIsSeen
  <2>3. CASE e.kind \notin {"text", "announced"}
    <3>1. UNCHANGED <<outputSeen, yielded>>
      BY <2>3 DEF ReadTerminal
    <3> QED BY <1>1, <3>1 DEF OutputIsSeen, StreamInv
  <2> QED BY <2>1, <2>2, <2>3
<1>9. OpenAISoFar'
  <2>0. OpenAISoFar
    BY DEF StreamInv
  <2>1. Positions("added")' = Positions("added") /\ \A n \in Positions("added") : log'[n] = log[n]
    BY <1>1, <1>2, PositionsKept
  <2>2. /\ Positions("completed") \cup Positions("completed_items") = {}
        /\ Positions("failed") = {} /\ Positions("closing") = {}
        /\ items => Positions("completed_items") # {}
        /\ \A n \in Positions("added") : tools[log[n].index].id # NoId
    BY <1>2, <2>0 DEF OpenAISoFar
  <2>3. CASE e.kind \in {"text", "announced"}
    <3>1. UNCHANGED <<terminal, failure, items>>
      BY <2>3 DEF ReadText, ReadAnnounced
    <3>2. \A k \in {"completed", "completed_items", "failed", "closing"} : Positions(k)' = Positions(k)
      BY <1>1, <2>3
    <3> QED BY <1>2, <2>0, <2>1, <3>1, <3>2 DEF OpenAISoFar
  <2>4. CASE e.kind \in {"closing", "failed"}
    <3>1. terminal' = "failed" /\ items' = FALSE
      BY <2>4 DEF ReadTerminal
    <3> QED BY <1>2, <2>1, <2>2, <3>1 DEF OpenAISoFar
  <2>5. CASE e.kind \in {"completed", "completed_items"}
    <3>1. terminal' = "completed" /\ items' = (e.kind = "completed_items")
      BY <2>5 DEF ReadTerminal
    <3>2. (Positions("completed") \cup Positions("completed_items"))' = {Len(log) + 1}
      BY <1>1, <2>2, <2>5
    <3>3. /\ Positions("failed")' = {} /\ Positions("closing")' = {}
          /\ items' => Positions("completed_items")' # {}
      BY <1>1, <2>2, <2>5, <3>1
    <3> QED BY <1>2, <2>1, <2>2, <3>1, <3>2, <3>3 DEF OpenAISoFar
  <2> QED BY <2>3, <2>4, <2>5
<1> QED BY <1>1, <1>2, <1>4, <1>5, <1>6, <1>7, <1>8, <1>9, OpenAIKeeps

\* The parts of the invariant an accepted event of a call leaves alone.
LEMMA ToolEventKeeps ==
  ASSUME StreamAssumption, StreamInv, adapter = "openai", UNCHANGED <<adapter, queued>>,
         NEW e \in OpenAIEvents, Receive(e), terminal = "none", e.kind \in {"added", "delta", "done"},
         UNCHANGED <<phase, terminal, failure, items>>,
         tools' \in [Index -> Assembly], \A i \in Index : Len(tools'[i].parts) <= MaxArgument,
         \A i \in Index : tools[i].id # NoId => tools'[i].id # NoId,
         e.kind = "added" => tools'[e.index].id # NoId,
         NEW y, YieldsAtMost(y), outputSeen' \in BOOLEAN, OutputIsSeen', CallsSoFar'
  PROVE  StreamInv'
<1>1. /\ LogKept /\ Len(log') = Len(log) + 1 /\ phase = "reading" /\ Len(log) \in Nat /\ queued' = <<>>
      /\ log \in Seq(OpenAIEvents) /\ log'[Len(log) + 1] = e
      /\ \A k : Positions(k)' = Positions(k) \cup (IF e.kind = k THEN {Len(log) + 1} ELSE {})
  <2>1. queued' = <<>> /\ log \in Seq(OpenAIEvents)
    BY DEF StreamInv, StreamTyped
  <2> QED BY <2>1, EventReceived DEF LogKept
<1>2. YieldedSoFar' /\ yielded' \in Seq(Yields)
  BY <1>1, YieldKeeps
<1>3. StreamTyped'
  BY <1>1, <1>2, TypesBefore, TypesAfterEvent
<1>4. FailureFirst'
  BY <1>1 DEF FailureFirst, StreamInv
<1>5. OpenAISoFar'
  <2>0. OpenAISoFar /\ failure = "none"
    BY <1>1 DEF StreamInv, FailureFirst
  <2>1. \A k \in {"completed", "completed_items", "failed", "closing"} : Positions(k)' = Positions(k)
    BY <1>1
  <2>2. ASSUME NEW n \in Positions("added")' PROVE tools'[log'[n].index].id # NoId
    <3>1. CASE n \in Positions("added")
      <4>1. log'[n] = log[n] /\ log[n] \in OpenAIEvents /\ log[n].kind = "added"
        BY <1>1, <3>1, PositionsKept, ElementOfSeq DEF Positions
      <4>2. log[n].index \in Index
        BY <4>1, EventFields
      <4>3. tools[log[n].index].id # NoId
        BY <2>0, <3>1 DEF OpenAISoFar
      <4> QED BY <4>1, <4>2, <4>3
    <3>2. CASE n \notin Positions("added")
      BY <1>1, <2>2, <3>2
    <3> QED BY <3>1, <3>2
  <2> QED BY <2>0, <2>1, <2>2 DEF OpenAISoFar
<1> QED BY <1>1, <1>2, <1>3, <1>4, <1>5, OpenAIKeeps

\* An accepted function call item: nothing was streamed for it yet.
LEMMA AddedKeeps ==
  ASSUME StreamAssumption, StreamInv, adapter = "openai", UNCHANGED <<adapter, queued>>,
         NEW e \in OpenAIEvents, Receive(e), terminal = "none", e.kind = "added", StartTool(e), ReadAdded(e)
  PROVE  StreamInv'
<1>1. /\ LogKept /\ Len(log') = Len(log) + 1 /\ phase = "reading" /\ Len(log) \in Nat
      /\ log'[Len(log) + 1] = e /\ Len(log) + 1 \in Positions("added")'
      /\ \A n \in 1..Len(log) : log'[n] = log[n]
  BY EventReceived DEF LogKept
<1>2. /\ tools' = [tools EXCEPT ![e.index].id = e.id]
      /\ UNCHANGED <<phase, terminal, failure, outputSeen, items, yielded>>
      /\ tools[e.index].id = NoId /\ e.id # NoId
  BY DEF ReadAdded, StartTool, Known
<1>3. e.index \in Index /\ e.id \in Ids \cup {NoId} /\ tools \in [Index -> Assembly]
  BY EventFields, TypesBefore
<1>4. /\ tools' \in [Index -> Assembly] /\ tools'[e.index].id = e.id
      /\ \A i \in Index : i # e.index => tools'[i] = tools[i]
      /\ \A i \in Index : tools'[i].parts = tools[i].parts /\ tools'[i].completed = tools[i].completed
  BY <1>2, <1>3 DEF Assembly
<1>5. CallsSoFar
  BY DEF StreamInv
<1>6. CallsAsStreamed'
  BY <1>1, <1>2, <1>5, CallsKept DEF CallsSoFar
<1>7. ASSUME NEW i \in Index, tools'[i].id # NoId
      PROVE  \E a \in Positions("added")' : log'[a].id = tools'[i].id /\ log'[a].index = i
  <2>1. CASE i = e.index
    BY <1>1, <1>4, <2>1
  <2>2. CASE i # e.index
    <3>1. PICK a \in Positions("added") : log[a].id = tools[i].id /\ log[a].index = i
      BY <1>4, <1>5, <1>7, <2>2 DEF CallsSoFar
    <3>2. a \in Positions("added")' /\ log'[a] = log[a]
      BY <1>1, <3>1, PositionsKept
    <3> QED BY <1>4, <2>2, <3>1, <3>2
  <2> QED BY <2>1, <2>2
<1>8. ASSUME NEW i \in Index, ~tools'[i].completed
      PROVE  IsStreamed(tools'[i].parts, log', i, Len(log'))
  <2>1. IsStreamed(tools[i].parts, log, i, Len(log))
    BY <1>1, <1>4, <1>5, <1>8 DEF CallsSoFar
  <2>2. IsStreamed(tools[i].parts, log', i, Len(log) + 1)
    BY <1>1, <2>1, StreamedAfter
  <2> QED BY <1>1, <1>4, <2>2
<1>9. CallsSoFar'
  BY <1>2, <1>4, <1>5, <1>6, <1>7, <1>8 DEF CallsSoFar
<1>10. OutputIsSeen'
  <2>1. Positions("announced") \subseteq Positions("announced")'
    BY EventReceived
  <2> QED BY <1>2, <2>1 DEF OutputIsSeen, StreamInv
<1>11. YieldsAtMost(Plain("text"))
  BY <1>2 DEF YieldsAtMost
<1>12. \A i \in Index : Len(tools'[i].parts) <= MaxArgument /\ (tools[i].id # NoId => tools'[i].id # NoId)
  BY <1>2, <1>4, TypesBefore
<1> QED BY <1>2, <1>4, <1>9, <1>10, <1>11, <1>12, TypesBefore, ToolEventKeeps

\* The fragments among the first n events are finitely many.
LEMMA DeltasFinite ==
  ASSUME NEW events, NEW i, NEW n \in Nat
  PROVE  IsFiniteSet(Deltas(events, i, n)) /\ Cardinality(Deltas(events, i, n)) \in Nat
<1>1. IsFiniteSet(1..n)
  BY FS_Interval
<1>2. IsFiniteSet(Deltas(events, i, n))
  BY <1>1, FS_Subset DEF Deltas
<1> QED BY <1>2, FS_CardinalityType

\* The place of a fragment in the text is one of its places.
LEMMA RankInText ==
  ASSUME NEW events, NEW i, NEW n \in Nat, NEW k \in Deltas(events, i, n)
  PROVE  Cardinality(Deltas(events, i, k)) \in 1..Cardinality(Deltas(events, i, n))
<1>1. k \in Nat /\ k <= n /\ k \in Deltas(events, i, k) /\ Deltas(events, i, k) \subseteq Deltas(events, i, n)
  BY DEF Deltas
<1>2. Cardinality(Deltas(events, i, k)) <= Cardinality(Deltas(events, i, n))
  BY <1>1, DeltasFinite, FS_Subset
<1>3. Cardinality(Deltas(events, i, k)) # 0
  BY <1>1, DeltasFinite, FS_EmptySet
<1> QED BY <1>1, <1>2, <1>3, DeltasFinite

\* One more fragment is one more place of the text.
LEMMA StreamedMore ==
  ASSUME NEW old, NEW new, NEW m \in Nat, \A n \in 1..m : new[n] = old[n],
         NEW i, NEW text \in Seq(Fragments), IsStreamed(text, old, i, m),
         new[m + 1].kind = "delta", new[m + 1].index = i,
         new[m + 1].text \in Seq(Fragments), Len(new[m + 1].text) <= 1
  PROVE  IsStreamed(text \o new[m + 1].text, new, i, m + 1)
<1> DEFINE more == new[m + 1].text
<1>0. m \in 0..m /\ 1..(m + 1) = 1..m \cup {m + 1}
  OBVIOUS
<1>1. CASE more = <<>>
  <2>1. IsStreamed(text, new, i, m + 1)
    BY <1>1, StreamedAfter
  <2>2. text \o more = text
    BY <1>1
  <2> QED BY <2>1, <2>2
<1>2. CASE more # <<>>
  <2>1. IsStreamed(text, new, i, m)
    BY <1>0, StreamedKept
  <2>2. Deltas(new, i, m + 1) = Deltas(new, i, m) \cup {m + 1} /\ m + 1 \notin Deltas(new, i, m)
    BY <1>0, <1>2 DEF Deltas
  <2>3. /\ IsFiniteSet(Deltas(new, i, m)) /\ Cardinality(Deltas(new, i, m)) = Len(text)
        /\ Cardinality(Deltas(new, i, m + 1)) = Len(text) + 1
    BY <2>1, <2>2, DeltasFinite, FS_AddElement DEF IsStreamed
  <2>0. more \in Seq(Fragments) /\ Len(more) <= 1
    OBVIOUS
  <2> HIDE DEF more
  <2>4. Len(more) = 1 /\ more[1] = Head(more)
    <3>1. Len(more) \in Nat /\ Len(more) # 0
      BY <1>2, <2>0, EmptySeq
    <3>2. Head(more) = more[1]
      BY <2>0
    <3>3. \A k \in Nat : k # 0 /\ k <= 1 => k = 1
      OBVIOUS
    <3> QED BY <2>0, <3>1, <3>2, <3>3, Zenon
  <2>5. /\ Len(text \o more) = Len(text) + 1 /\ (text \o more)[Len(text) + 1] = Head(more)
        /\ \A j \in 1..Len(text) : (text \o more)[j] = text[j]
    BY <2>0, <2>4, ConcatProperties
  <2>6. ASSUME NEW k \in Deltas(new, i, m + 1)
        PROVE  (text \o more)[Cardinality(Deltas(new, i, k))] = Head(new[k].text)
    <3>1. CASE k = m + 1
      BY <2>3, <2>5, <3>1 DEF more
    <3>2. CASE k # m + 1
      <4>1. k \in Deltas(new, i, m)
        BY <2>2, <3>2
      <4>2. Cardinality(Deltas(new, i, k)) \in 1..Len(text)
        BY <2>3, <4>1, RankInText
      <4>3. text[Cardinality(Deltas(new, i, k))] = Head(new[k].text)
        BY <2>1, <4>1 DEF IsStreamed
      <4> QED BY <2>5, <4>2, <4>3
    <3> QED BY <3>1, <3>2
  <2> QED BY <2>3, <2>5, <2>6 DEF IsStreamed, more
<1> QED BY <1>1, <1>2

\* A fragment that is accepted.
LEMMA DeltaKeeps ==
  ASSUME StreamAssumption, StreamInv, adapter = "openai", UNCHANGED <<adapter, queued>>,
         NEW e \in OpenAIEvents, Receive(e), terminal = "none", e.kind = "delta",
         AppendToolArguments(e), ReadDelta(e)
  PROVE  StreamInv'
<1>1. /\ LogKept /\ Len(log') = Len(log) + 1 /\ phase = "reading" /\ Len(log) \in Nat
      /\ log'[Len(log) + 1] = e /\ \A n \in 1..Len(log) : log'[n] = log[n]
  BY EventReceived DEF LogKept
<1>2. /\ tools' = [tools EXCEPT ![e.index].parts = @ \o e.text]
      /\ UNCHANGED <<phase, terminal, failure, outputSeen, items, yielded>>
      /\ Len(tools[e.index].parts) + Len(e.text) <= MaxArgument /\ ~tools[e.index].completed
  BY DEF ReadDelta, AppendToolArguments, Matches
<1>3. e.index \in Index /\ e.text \in Seq(Fragments) /\ Len(e.text) <= 1 /\ tools \in [Index -> Assembly]
  BY EventFields, TypesBefore
<1>4. tools[e.index].parts \in Seq(Fragments)
  BY <1>3 DEF Assembly
<1>5. tools[e.index].parts \o e.text \in Seq(Fragments)
      /\ Len(tools[e.index].parts \o e.text) = Len(tools[e.index].parts) + Len(e.text)
  BY <1>3, <1>4
<1>6. /\ tools' \in [Index -> Assembly] /\ tools'[e.index].parts = tools[e.index].parts \o e.text
      /\ \A i \in Index : i # e.index => tools'[i] = tools[i]
      /\ \A i \in Index : tools'[i].id = tools[i].id /\ tools'[i].completed = tools[i].completed
  BY <1>2, <1>3, <1>5 DEF Assembly
<1>7. CallsSoFar
  BY DEF StreamInv
<1>8. CallsAsStreamed'
  BY <1>1, <1>2, <1>7, CallsKept DEF CallsSoFar
<1>9. ASSUME NEW i \in Index, tools'[i].id # NoId
      PROVE  \E a \in Positions("added")' : log'[a].id = tools'[i].id /\ log'[a].index = i
  <2>1. PICK a \in Positions("added") : log[a].id = tools[i].id /\ log[a].index = i
    BY <1>6, <1>7, <1>9 DEF CallsSoFar
  <2>2. a \in Positions("added")' /\ log'[a] = log[a]
    BY <1>1, <2>1, PositionsKept
  <2> QED BY <1>6, <2>1, <2>2
<1>10. ASSUME NEW i \in Index, ~tools'[i].completed
       PROVE  IsStreamed(tools'[i].parts, log', i, Len(log'))
  <2>1. IsStreamed(tools[i].parts, log, i, Len(log))
    BY <1>1, <1>6, <1>7, <1>10 DEF CallsSoFar
  <2>2. CASE i = e.index
    <3>1. IsStreamed(tools[i].parts \o log'[Len(log) + 1].text, log', i, Len(log) + 1)
      BY <1>1, <1>3, <1>4, <2>1, <2>2, StreamedMore
    <3> QED BY <1>1, <1>6, <2>2, <3>1
  <2>3. CASE i # e.index
    <3>1. IsStreamed(tools[i].parts, log', i, Len(log) + 1)
      BY <1>1, <2>1, <2>3, StreamedAfter
    <3> QED BY <1>1, <1>6, <2>3, <3>1
  <2> QED BY <2>2, <2>3
<1>11. CallsSoFar'
  <2>1. CASE adapter = "openai"
    <3>1. \A i \in Index : tools'[i].completed
            <=> \E m \in DOMAIN yielded' : yielded'[m].kind = "call" /\ yielded'[m].index = i
      BY <1>2, <1>6, <1>7, <2>1 DEF CallsSoFar
    <3>2. adapter' = "openai"
      BY <1>2, <2>1
    <3> QED BY <1>8, <1>9, <1>10, <3>1, <3>2, Zenon DEF CallsSoFar
  <2>2. CASE adapter # "openai"
    BY <1>2, <1>7, <2>2 DEF CallsSoFar
  <2> QED BY <2>1, <2>2
<1>12. OutputIsSeen'
  <2>1. Positions("announced") \subseteq Positions("announced")'
    BY EventReceived
  <2> QED BY <1>2, <2>1 DEF OutputIsSeen, StreamInv
<1>13. YieldsAtMost(Plain("text"))
  BY <1>2 DEF YieldsAtMost
<1>14. \A i \in Index : Len(tools'[i].parts) <= MaxArgument
  BY <1>2, <1>5, <1>6, TypesBefore
<1> QED BY <1>2, <1>6, <1>11, <1>12, <1>13, <1>14, TypesBefore, ToolEventKeeps

\* A call that is complete: its text is what was streamed, and it is yielded
\* for the first time.
LEMMA DoneKeeps ==
  ASSUME StreamAssumption, StreamInv, adapter = "openai", UNCHANGED <<adapter, queued>>,
         NEW e \in OpenAIEvents, Receive(e), terminal = "none", e.kind = "done", FinishTool(e), ReadDone(e)
  PROVE  StreamInv'
<1> DEFINE y == [kind |-> "call", index |-> e.index, text |-> e.text]
           last2 == Len(yielded) + 1
<1>1. /\ LogKept /\ Len(log') = Len(log) + 1 /\ phase = "reading" /\ Len(log) \in Nat
      /\ log'[Len(log) + 1] = e /\ \A n \in 1..Len(log) : log'[n] = log[n]
      /\ Len(log) + 1 \in Positions("done")'
  BY EventReceived DEF LogKept
<1>2. /\ tools' = [tools EXCEPT ![e.index].completed = TRUE] /\ outputSeen' = TRUE
      /\ yielded' = Append(yielded, y) /\ UNCHANGED <<phase, terminal, failure, items>>
      /\ tools[e.index].id = e.id /\ tools[e.index].id # NoId /\ ~tools[e.index].completed
      /\ tools[e.index].parts \in {<<>>, e.text}
  BY DEF ReadDone, FinishTool, Matches, Known, Yield
<1>3. e.index \in Index /\ e.text \in Seq(Fragments) /\ tools \in [Index -> Assembly] /\ yielded \in Seq(Yields)
  BY EventFields, TypesBefore
<1>4. /\ tools' \in [Index -> Assembly] /\ tools'[e.index].completed
      /\ \A i \in Index : i # e.index => tools'[i] = tools[i]
      /\ \A i \in Index : tools'[i].id = tools[i].id /\ tools'[i].parts = tools[i].parts
  BY <1>2, <1>3 DEF Assembly
<1>5. y \in Yields /\ y.kind = "call" /\ y.index = e.index /\ y.text = e.text
  BY <1>3 DEF Yields
<1> HIDE DEF y
<1>6. /\ DOMAIN yielded' = DOMAIN yielded \cup {last2} /\ last2 \notin DOMAIN yielded
      /\ \A m \in DOMAIN yielded : yielded'[m] = yielded[m]
      /\ yielded'[last2] = y
  BY <1>2, <1>3, <1>5, AppendProperties
<1> HIDE DEF last2
<1>7. CallsSoFar
  BY DEF StreamInv
<1>8. \A m \in DOMAIN yielded : yielded[m].kind = "call" => yielded[m].index # e.index
  BY <1>2, <1>3, <1>7 DEF CallsSoFar
<1>9. ASSUME NEW i \in Index, tools'[i].id # NoId
      PROVE  \E a \in Positions("added")' : log'[a].id = tools'[i].id /\ log'[a].index = i
  <2>1. PICK a \in Positions("added") : log[a].id = tools[i].id /\ log[a].index = i
    BY <1>4, <1>7, <1>9 DEF CallsSoFar
  <2>2. a \in Positions("added")' /\ log'[a] = log[a]
    BY <1>1, <2>1, PositionsKept
  <2> QED BY <1>4, <2>1, <2>2
<1>10. ASSUME NEW i \in Index, ~tools[i].completed
       PROVE  IsStreamed(tools[i].parts, log', i, Len(log) + 1)
  <2>1. IsStreamed(tools[i].parts, log, i, Len(log))
    BY <1>1, <1>7, <1>10 DEF CallsSoFar
  <2> QED BY <1>1, <2>1, StreamedAfter
<1>11. ASSUME NEW i \in Index, ~tools'[i].completed
       PROVE  IsStreamed(tools'[i].parts, log', i, Len(log'))
  BY <1>1, <1>4, <1>10, <1>11
<1>12. \A i \in Index : tools'[i].completed
          <=> \E m \in DOMAIN yielded' : yielded'[m].kind = "call" /\ yielded'[m].index = i
  <2>1. \A i \in Index : tools[i].completed
          <=> \E m \in DOMAIN yielded : yielded[m].kind = "call" /\ yielded[m].index = i
    BY <1>7 DEF CallsSoFar
  <2> QED BY <1>4, <1>5, <1>6, <2>1
<1>13. CallsAsStreamed'
  <2>1. ASSUME NEW m \in DOMAIN yielded
        PROVE  yielded[m].kind = "call" =>
                 \E n \in Positions("done")' :
                    /\ log'[n].index = yielded[m].index /\ log'[n].text = yielded[m].text
                    /\ \E a \in Positions("added")' : /\ a < n /\ log'[a].id = log'[n].id
                                                      /\ log'[a].index = log'[n].index
                    /\ \E text \in {<<>>, log'[n].text} : IsStreamed(text, log', log'[n].index, n)
    <3> SUFFICES ASSUME yielded[m].kind = "call"
                 PROVE  \E n \in Positions("done")' :
                          /\ log'[n].index = yielded[m].index /\ log'[n].text = yielded[m].text
                          /\ \E a \in Positions("added")' : /\ a < n /\ log'[a].id = log'[n].id
                                                            /\ log'[a].index = log'[n].index
                          /\ \E text \in {<<>>, log'[n].text} : IsStreamed(text, log', log'[n].index, n)
      OBVIOUS
    <3>1. PICK n \in Positions("done") :
             /\ log[n].index = yielded[m].index /\ log[n].text = yielded[m].text
             /\ \E a \in Positions("added") : /\ a < n /\ log[a].id = log[n].id
                                              /\ log[a].index = log[n].index
             /\ \E text \in {<<>>, log[n].text} : IsStreamed(text, log, log[n].index, n)
      BY <1>7 DEF CallsSoFar, CallsAsStreamed
    <3>2. n \in Positions("done")' /\ n \in 0..Len(log) /\ log'[n] = log[n]
      BY <1>1, <3>1, PositionsKept
    <3>3. PICK a \in Positions("added") : a < n /\ log[a].id = log[n].id /\ log[a].index = log[n].index
      BY <3>1
    <3>4. a \in Positions("added")' /\ log'[a] = log[a]
      BY <1>1, <3>3, PositionsKept
    <3>5. PICK text \in {<<>>, log[n].text} : IsStreamed(text, log, log[n].index, n)
      BY <3>1
    <3>6. IsStreamed(text, log', log[n].index, n)
      BY <1>1, <3>2, <3>5, StreamedKept
    <3>7. IsStreamed(text, log', log'[n].index, n)
      BY <3>2, <3>6
    <3> QED BY <3>1, <3>2, <3>3, <3>4, <3>5, <3>7
  <2>2. PICK a \in Positions("added")' : log'[a].id = e.id /\ log'[a].index = e.index /\ a < Len(log) + 1
    <3>1. PICK a \in Positions("added") : log[a].id = tools[e.index].id /\ log[a].index = e.index
      BY <1>2, <1>3, <1>7 DEF CallsSoFar
    <3>2. a \in Positions("added")' /\ log'[a] = log[a] /\ a \in 1..Len(log)
      BY <1>1, <3>1, PositionsKept
    <3> QED BY <1>1, <1>2, <3>1, <3>2
  <2>3. IsStreamed(tools[e.index].parts, log', e.index, Len(log) + 1)
    BY <1>2, <1>3, <1>10
  <2>4. \E n \in Positions("done")' :
           /\ log'[n].index = y.index /\ log'[n].text = y.text
           /\ \E b \in Positions("added")' : /\ b < n /\ log'[b].id = log'[n].id
                                             /\ log'[b].index = log'[n].index
           /\ \E text \in {<<>>, log'[n].text} : IsStreamed(text, log', log'[n].index, n)
    <3>1. \E b \in Positions("added")' : /\ b < Len(log) + 1 /\ log'[b].id = log'[Len(log) + 1].id
                                         /\ log'[b].index = log'[Len(log) + 1].index
      BY <1>1, <2>2
    <3>2. \E text \in {<<>>, log'[Len(log) + 1].text} :
             IsStreamed(text, log', log'[Len(log) + 1].index, Len(log) + 1)
      BY <1>1, <1>2, <2>3
    <3>3. log'[Len(log) + 1].index = y.index /\ log'[Len(log) + 1].text = y.text
      BY <1>1, <1>5
    <3> QED BY <1>1, <3>1, <3>2, <3>3
  <2>5. \A m \in DOMAIN yielded' : yielded'[m].kind = "call" =>
          \A k \in DOMAIN yielded' \ {m} :
             yielded'[k].kind = "call" => yielded'[k].index # yielded'[m].index
    <3>1. \A m, k \in DOMAIN yielded : m # k /\ yielded[m].kind = "call" /\ yielded[k].kind = "call" =>
             yielded[k].index # yielded[m].index
      BY <1>7 DEF CallsSoFar, CallsAsStreamed
    <3> QED BY <1>5, <1>6, <1>8, <3>1
  <2>6. \A m \in DOMAIN yielded' : yielded'[m].kind = "call" =>
                 \E n \in Positions("done")' :
                    /\ log'[n].index = yielded'[m].index /\ log'[n].text = yielded'[m].text
                    /\ \E b \in Positions("added")' : /\ b < n /\ log'[b].id = log'[n].id
                                                      /\ log'[b].index = log'[n].index
                    /\ \E text \in {<<>>, log'[n].text} : IsStreamed(text, log', log'[n].index, n)
    BY <1>6, <2>1, <2>4
  <2> QED BY <2>5, <2>6 DEF CallsAsStreamed
<1>14. CallsSoFar'
  BY <1>9, <1>11, <1>12, <1>13 DEF CallsSoFar
<1>15. OutputIsSeen'
  BY <1>5, <1>6 DEF OutputIsSeen
<1>16. YieldsAtMost(y)
  BY <1>2, <1>5 DEF YieldsAtMost
<1>17. \A i \in Index : Len(tools'[i].parts) <= MaxArgument
  BY <1>4, TypesBefore
<1> QED BY <1>2, <1>4, <1>14, <1>15, <1>16, <1>17, TypesBefore, ToolEventKeeps

\* One turn of the loop of OpenAIProvider.generate_stream.
LEMMA OpenAIReadsKeeps ==
  ASSUME StreamAssumption, StreamInv, NEW e \in OpenAIEvents, OpenAIReads(e)
  PROVE  StreamInv'
<1>1. adapter = "openai" /\ Receive(e) /\ UNCHANGED <<adapter, queued>>
  BY DEF OpenAIReads
<1>2. CASE terminal # "none"
  <2>1. AfterTerminal(e)
    BY <1>2 DEF OpenAIReads
  <2> QED BY <1>1, <2>1, BreakKeeps, SkipKeeps DEF AfterTerminal
<1>3. CASE terminal = "none"
  <2>0. CASE e.kind \in {"metadata", "empty"}
    BY <1>1, <1>3, <2>0, SkipKeeps DEF OpenAIReads
  <2>1. CASE e.kind \in {"announced", "text"}
    BY <1>1, <1>3, <2>1, PlainEventKeeps DEF OpenAIReads
  <2>2. CASE e.kind = "closing"
    <3>1. ReadTerminal("failed", "none", FALSE)
      BY <1>3, <2>2 DEF OpenAIReads
    <3> QED BY <1>1, <1>3, <2>2, <3>1, PlainEventKeeps
  <2>3. CASE e.kind = "failed"
    <3>1. \E code \in {"provider_unavailable", "output_budget_exhausted"} : ReadTerminal("failed", code, FALSE)
      BY <1>3, <2>3 DEF OpenAIReads
    <3>2. \E code \in Codes \cup {"none"} : ReadTerminal("failed", code, FALSE)
      BY <3>1 DEF Codes
    <3> QED BY <1>1, <1>3, <2>3, <3>2, PlainEventKeeps
  <2>4. CASE e.kind \in {"completed", "completed_items"}
    BY <1>1, <1>3, <2>4, PlainEventKeeps DEF OpenAIReads
  <2>5. CASE e.kind = "added"
    <3>1. ReadAdded(e)
      BY <1>3, <2>5 DEF OpenAIReads
    <3>2. CASE StartTool(e)
      BY <1>1, <1>3, <2>5, <3>1, <3>2, AddedKeeps
    <3>3. CASE ~StartTool(e)
      BY <1>1, <3>1, <3>3, BreakKeeps DEF ReadAdded
    <3> QED BY <3>2, <3>3
  <2>6. CASE e.kind = "delta"
    <3>1. ReadDelta(e)
      BY <1>3, <2>6 DEF OpenAIReads
    <3>2. CASE AppendToolArguments(e)
      BY <1>1, <1>3, <2>6, <3>1, <3>2, DeltaKeeps
    <3>3. CASE ~AppendToolArguments(e)
      BY <1>1, <3>1, <3>3, BreakKeeps DEF ReadDelta
    <3> QED BY <3>2, <3>3
  <2>7. CASE e.kind = "done"
    <3>1. ReadDone(e)
      BY <1>3, <2>7 DEF OpenAIReads
    <3>2. CASE FinishTool(e)
      BY <1>1, <1>3, <2>7, <3>1, <3>2, DoneKeeps
    <3>3. CASE ~FinishTool(e)
      BY <1>1, <3>1, <3>3, BreakKeeps DEF ReadDone
    <3> QED BY <3>2, <3>3
  <2> QED BY <2>0, <2>1, <2>2, <2>3, <2>4, <2>5, <2>6, <2>7, EventFields
<1> QED BY <1>2, <1>3

\* The terminal event of a chunk: completed exactly for "stop".
LEMMA TerminalEventFields ==
  ASSUME NEW f \in FinishReasons \ {"none"}
  PROVE  /\ TerminalEvent(f).kind \in {"completed", "failed"}
         /\ TerminalEvent(f).kind = "completed" => f = "stop" /\ TerminalEvent(f).code = "none"
         /\ TerminalEvent(f).kind = "failed" => TerminalEvent(f).code \in Codes
BY DEF TerminalEvent, FinishReasons, Codes

\* What a chunk is read as.
LEMMA ChunkEvents ==
  ASSUME NEW chunk \in Chunks
  PROVE  \/ /\ NormalizeChunk(chunk) = <<Plain("metadata")>>
            /\ ~chunk.content /\ chunk.finish = "none"
         \/ NormalizeChunk(chunk) = <<Plain("text")>> /\ chunk.finish = "none"
         \/ NormalizeChunk(chunk) = <<TerminalEvent(chunk.finish)>> /\ chunk.finish # "none"
         \/ /\ NormalizeChunk(chunk) = <<Plain("text"), TerminalEvent(chunk.finish)>>
            /\ chunk.content /\ chunk.finish # "none"
<1> DEFINE f == TerminalEvent(chunk.finish)
           S == {Plain("text"), f}
<1>1. <<Plain("text")>> \in Seq(S) /\ <<f>> \in Seq(S) /\ <<>> \in Seq(S)
  OBVIOUS
<1>2. <<Plain("text")>> \o <<f>> = <<Plain("text"), f>>
  <2> DEFINE one == <<Plain("text")>> \o <<f>>
             two == <<Plain("text"), f>>
  <2>1. two \in Seq(S) /\ Len(two) = 2 /\ two[1] = Plain("text") /\ two[2] = f
    OBVIOUS
  <2>2. /\ Len(<<Plain("text")>>) = 1 /\ <<Plain("text")>>[1] = Plain("text")
        /\ Len(<<f>>) = 1 /\ <<f>>[1] = f
    OBVIOUS
  <2>3. one \in Seq(S) /\ Len(one) = 2 /\ one[1] = Plain("text") /\ one[2] = f
    BY <1>1, <2>2, ConcatProperties
  <2> HIDE DEF one, two
  <2>4. \A i \in 1..Len(one) : one[i] = two[i]
    BY <2>1, <2>3
  <2>5. one = two
    BY <2>1, <2>3, <2>4, SeqEqual
  <2> QED BY <2>5 DEF one, two
<1>3. /\ <<Plain("text")>> \o <<>> = <<Plain("text")>> /\ <<>> \o <<f>> = <<f>>
      /\ <<>> \o <<>> = <<>>
  BY <1>1, ConcatEmptySeq
<1>4. <<Plain("text")>> # <<>> /\ <<f>> # <<>> /\ <<Plain("text"), f>> # <<>>
  OBVIOUS
<1>5. chunk.content \in BOOLEAN
  BY DEF Chunks
<1> HIDE DEF f
<1>6. NormalizeChunk(chunk) =
        LET text == IF chunk.content THEN <<Plain("text")>> ELSE <<>>
            end  == IF chunk.finish = "none" THEN <<>> ELSE <<f>>
        IN  IF text \o end = <<>> THEN <<Plain("metadata")>> ELSE text \o end
  BY DEF NormalizeChunk, f
<1>7. CASE chunk.content /\ chunk.finish = "none"
  BY <1>3, <1>4, <1>6, <1>7
<1>8. CASE chunk.content /\ chunk.finish # "none"
  BY <1>2, <1>4, <1>6, <1>8 DEF f
<1>9. CASE ~chunk.content /\ chunk.finish = "none"
  BY <1>3, <1>6, <1>9
<1>10. CASE ~chunk.content /\ chunk.finish # "none"
  BY <1>3, <1>4, <1>6, <1>10 DEF f
<1> QED BY <1>5, <1>7, <1>8, <1>9, <1>10

\* What is queued, and the chunk it is of.
LEMMA QueueCases ==
  ASSUME StreamInv, adapter = "deepseek", queued # <<>>
  PROVE  LET chunk == log[Len(log)]
         IN  /\ Len(log) \in Nat \ {0} /\ chunk \in Chunks /\ chunk.finish \in FinishReasons
             /\ \/ queued = <<Plain("metadata")>> /\ ~chunk.content /\ chunk.finish = "none"
                \/ queued = <<Plain("text")>> /\ chunk.finish = "none"
                \/ queued = <<TerminalEvent(chunk.finish)>> /\ chunk.finish # "none"
                \/ /\ queued = <<Plain("text"), TerminalEvent(chunk.finish)>>
                   /\ chunk.content /\ chunk.finish # "none"
<1> DEFINE chunk == log[Len(log)]
<1>1. log \in Seq(Chunks) /\ log # <<>> /\ QueuedIsLast
  BY DEF StreamInv, StreamTyped, QueuedIsLast
<1>2. Len(log) \in Nat \ {0}
  BY <1>1, EmptySeq
<1>3. chunk \in Chunks
  BY <1>1, <1>2, ElementOfSeq
<1>4. chunk.finish \in FinishReasons
  BY <1>3 DEF Chunks
<1>5. \/ queued = NormalizeChunk(chunk)
      \/ chunk.content /\ chunk.finish # "none" /\ queued = <<TerminalEvent(chunk.finish)>>
  BY <1>1 DEF QueuedIsLast
<1> QED BY <1>2, <1>3, <1>4, <1>5, ChunkEvents

\* The parts that are left once the DeepSeek adapter made a step.
LEMMA DeepSeekKeeps ==
  ASSUME StreamAssumption, StreamInv, adapter = "deepseek", UNCHANGED <<adapter, tools, items>>, phase' # "over",
         phase' \in {"reading", "retiring"}, terminal' \in {"none", "completed", "failed"},
         failure' \in Codes \cup {"none"}, outputSeen' \in BOOLEAN,
         log' \in Seq(Chunks), Len(log') <= MaxEvents, yielded' \in Seq(Yields),
         YieldedSoFar', FailureFirst', OutputIsSeen', CallsSoFar', QueuedIsLast', DeepSeekSoFar'
  PROVE  StreamInv'
<1>1. CompletedOnlyIfComplete' /\ CompletedHasOutput'
  BY NotOver
<1>2. OpenAISoFar'
  BY DEF OpenAISoFar
<1>3. Len(yielded') <= MaxEvents + 2
  BY DEF YieldedSoFar, StreamAssumption
<1>4. StreamTyped /\ StreamTypeOK
  BY DEF StreamInv, StreamTyped
<1>5. StreamTyped'
  BY <1>3, <1>4 DEF StreamTyped, StreamTypeOK
<1> QED BY <1>1, <1>2, <1>5 DEF StreamInv

\* A chunk is queued: what was read before it is unchanged.
LEMMA NextChunkKeeps ==
  ASSUME StreamAssumption, StreamInv, NEW chunk \in Chunks, NextChunk(chunk)
  PROVE  StreamInv'
<1>1. /\ adapter = "deepseek" /\ queued = <<>> /\ phase = "reading" /\ Len(log) < MaxEvents
      /\ log' = Append(log, chunk) /\ queued' = NormalizeChunk(chunk)
      /\ UNCHANGED <<adapter, phase, terminal, failure, outputSeen, items, tools, yielded>>
  BY DEF NextChunk, Receive
<1>2. log \in Seq(Chunks) /\ MaxEvents \in Nat
  BY <1>1 DEF StreamInv, StreamTyped, StreamAssumption
<1>3. /\ log' \in Seq(Chunks) /\ Len(log') = Len(log) + 1 /\ Len(log) \in Nat /\ Len(log') <= MaxEvents
      /\ log'[Len(log')] = chunk /\ \A n \in 1..Len(log) : log'[n] = log[n]
  BY <1>1, <1>2, AppendProperties
<1>4. queued' # <<>>
  BY <1>1, ChunkEvents
<1>5. YieldedSoFar'
  <2>1. YieldedSoFar /\ Len(yielded) \in Nat
    BY TypesBefore DEF StreamInv
  <2> QED BY <1>1, <1>3, <2>1 DEF YieldedSoFar
<1>6. FailureFirst' /\ OutputIsSeen' /\ CallsSoFar'
  BY <1>1 DEF FailureFirst, OutputIsSeen, CallsSoFar, StreamInv
<1>7. QueuedIsLast'
  <2>1. log' # <<>>
    BY <1>3
  <2> QED BY <1>1, <1>3, <2>1 DEF QueuedIsLast
<1>8. DeepSeekSoFar'
  <2>1. ChunksRead' = ChunksRead /\ ChunksRead = 1..Len(log)
    BY <1>1, <1>3, <1>4 DEF ChunksRead
  <2>2. \A n \in ChunksRead : log'[n] = log[n]
    BY <1>3, <2>1
  <2> QED BY <1>1, <2>1, <2>2 DEF DeepSeekSoFar, StreamInv
<1> QED BY <1>1, <1>3, <1>5, <1>6, <1>7, <1>8, TypesBefore, DeepSeekKeeps

\* The queue after one event of it was read.
LEMMA QueueRead ==
  ASSUME StreamInv, adapter = "deepseek", queued # <<>>, queued' = Tail(queued), UNCHANGED <<adapter, log>>
  PROVE  /\ QueuedIsLast' /\ (queued' # <<>> => queued'[1].kind # "text")
         /\ queued' = <<>> => ChunksRead' = ChunksRead \cup {Len(log)} /\ Len(log) \notin ChunksRead
         /\ queued' # <<>> => ChunksRead' = ChunksRead
         /\ ChunksRead = 1..(Len(log) - 1)
<1> DEFINE chunk == log[Len(log)]
<1>1. Len(log) \in Nat \ {0} /\ chunk.finish \in FinishReasons /\ log # <<>>
  BY QueueCases DEF StreamInv, QueuedIsLast
<1>2. \/ queued' = <<>>
      \/ queued' = <<TerminalEvent(chunk.finish)>> /\ chunk.content /\ chunk.finish # "none"
  <2>1. \A a, b : Tail(<<a>>) = <<>> /\ Tail(<<a, b>>) = <<b>>
    OBVIOUS
  <2> QED BY <2>1, QueueCases
<1>3. QueuedIsLast'
  BY <1>1, <1>2 DEF QueuedIsLast
<1>4. queued' # <<>> => queued'[1].kind # "text"
  <2>1. \A a : <<a>>[1] = a
    OBVIOUS
  <2>2. chunk.finish # "none" => TerminalEvent(chunk.finish).kind # "text"
    BY <1>1, TerminalEventFields
  <2>3. queued' # <<>> => queued'[1] = TerminalEvent(chunk.finish) /\ chunk.finish # "none"
    BY <1>2, <2>1
  <2> QED BY <2>2, <2>3
<1>5. /\ queued' = <<>> => ChunksRead' = ChunksRead \cup {Len(log)} /\ Len(log) \notin ChunksRead
      /\ queued' # <<>> => ChunksRead' = ChunksRead
      /\ ChunksRead = 1..(Len(log) - 1)
  BY <1>1 DEF ChunksRead
<1> QED BY <1>3, <1>4, <1>5

\* One turn of the loop of DeepSeekProvider.generate_stream.
LEMMA DeepSeekReadsKeeps ==
  ASSUME StreamAssumption, StreamInv, DeepSeekReads
  PROVE  StreamInv'
<1> DEFINE chunk == log[Len(log)]
           event == Head(queued)
<1>1. /\ adapter = "deepseek" /\ phase = "reading" /\ queued # <<>> /\ queued' = Tail(queued)
      /\ UNCHANGED <<adapter, log>>
  BY DEF DeepSeekReads
<1>2. log \in Seq(Chunks) /\ Len(log) <= MaxEvents /\ Len(log) \in Nat /\ Len(yielded) \in Nat
      /\ YieldedSoFar /\ DeepSeekSoFar /\ CallsSoFar /\ OutputIsSeen /\ FailureFirst
  BY <1>1, TypesBefore DEF StreamInv, StreamTyped
<1>3. event = queued[1] /\ event.kind \in {"metadata", "text", "completed", "failed"}
      /\ (event.kind \in {"completed", "failed"} => event = TerminalEvent(chunk.finish) /\ chunk.finish # "none")
      /\ chunk.finish \in FinishReasons
  <2>1. \A a, b : Head(<<a>>) = a /\ Head(<<a, b>>) = a /\ <<a>>[1] = a /\ <<a, b>>[1] = a
    OBVIOUS
  <2>2. Plain("metadata").kind = "metadata" /\ Plain("text").kind = "text"
    BY DEF Plain
  <2> QED BY <1>1, <2>1, <2>2, QueueCases, TerminalEventFields
<1> HIDE DEF event, chunk
<1>4. CASE event.kind = "metadata"
  <2>1. UNCHANGED <<phase, terminal, failure, outputSeen, items, tools, yielded>>
    BY <1>4 DEF DeepSeekReads, Skip, event
  <2>2. queued' = <<>> /\ ~chunk.content /\ chunk.finish = "none"
    <3>1. \A a, b : Tail(<<a>>) = <<>> /\ Head(<<a>>) = a /\ Head(<<a, b>>) = a
      OBVIOUS
    <3>2. Plain("text").kind = "text"
      BY DEF Plain
    <3> QED BY <1>1, <1>3, <1>4, <3>1, <3>2, QueueCases, TerminalEventFields DEF event, chunk
  <2>3. YieldedSoFar' /\ FailureFirst' /\ OutputIsSeen' /\ CallsSoFar'
    BY <1>1, <1>2, <2>1, <2>2 DEF YieldedSoFar, FailureFirst, OutputIsSeen, CallsSoFar
  <2>4. DeepSeekSoFar'
    <3>1. ChunksRead' = ChunksRead \cup {Len(log)} /\ ChunksRead = 1..(Len(log) - 1)
      BY <1>1, <2>2, QueueRead
    <3>2. \A n \in ChunksRead : Len(log) > n
      BY <1>2, <3>1
    <3>3. log'[Len(log)].finish = "none" /\ ~log'[Len(log)].content
      BY <1>1, <2>2 DEF chunk
    <3> QED BY <1>1, <1>2, <2>1, <3>1, <3>2, <3>3 DEF DeepSeekSoFar
  <2>5. QueuedIsLast'
    BY <1>1, QueueRead
  <2> QED BY <1>1, <1>2, <2>1, <2>3, <2>4, <2>5, TypesBefore, DeepSeekKeeps
<1>5. CASE event.kind # "metadata" /\ terminal # "none"
  <2>1. /\ failure' = "invalid_response" /\ phase' = "retiring"
        /\ UNCHANGED <<terminal, outputSeen, items, tools, yielded>>
    BY <1>3, <1>5 DEF DeepSeekReads, Break, event
  <2>2. YieldedSoFar' /\ FailureFirst' /\ OutputIsSeen' /\ CallsSoFar' /\ DeepSeekSoFar'
    BY <1>1, <1>2, <2>1 DEF YieldedSoFar, FailureFirst, OutputIsSeen, CallsSoFar, DeepSeekSoFar
  <2>3. QueuedIsLast'
    BY <1>1, QueueRead
  <2>4. failure' \in Codes
    BY <2>1 DEF Codes
  <2> QED BY <1>1, <1>2, <2>1, <2>2, <2>3, <2>4, TypesBefore, DeepSeekKeeps
<1>6. CASE event.kind = "text" /\ terminal = "none"
  <2>1. /\ outputSeen' = TRUE /\ yielded' = Append(yielded, Plain("text"))
        /\ UNCHANGED <<phase, terminal, failure, items, tools>>
    BY <1>6 DEF DeepSeekReads, ReadText, Yield, event
  <2>2. Plain("text") \in Yields /\ Plain("text").kind = "text"
    BY DEF Plain, Yields
  <2>3. /\ yielded' \in Seq(Yields) /\ Len(yielded') = Len(yielded) + 1
        /\ DOMAIN yielded' = DOMAIN yielded \cup {Len(yielded) + 1}
        /\ \A m \in DOMAIN yielded : yielded'[m] = yielded[m]
        /\ yielded'[Len(yielded) + 1].kind = "text"
    BY <2>1, <2>2, TypesBefore, AppendProperties
  <2>4. Len(yielded) < Len(log)
    BY <1>1, <1>2, <1>3, <1>6 DEF YieldedSoFar
  <2>5. QueuedIsLast' /\ (queued' # <<>> => queued'[1].kind # "text")
    BY <1>1, QueueRead
  <2>6. YieldedSoFar'
    <3>1. \A n \in DOMAIN yielded' : yielded'[n].kind \in {"text", "call"}
      BY <1>1, <1>2, <2>3 DEF YieldedSoFar
    <3> QED BY <1>1, <1>2, <2>1, <2>3, <2>4, <2>5, <3>1 DEF YieldedSoFar
  <2>7. FailureFirst' /\ OutputIsSeen' /\ CallsSoFar'
    <3>1. FailureFirst'
      BY <1>1, <1>2, <2>1 DEF FailureFirst
    <3>2. OutputIsSeen'
      BY <2>3 DEF OutputIsSeen
    <3>3. CallsSoFar'
      BY <1>1, <1>2, <2>3 DEF CallsSoFar
    <3> QED BY <3>1, <3>2, <3>3
  <2>8. DeepSeekSoFar'
    <3>1. CASE queued' # <<>>
      <4>1. ChunksRead' = ChunksRead
        BY <1>1, <3>1, QueueRead
      <4> QED BY <1>1, <1>2, <1>6, <2>1, <4>1 DEF DeepSeekSoFar
    <3>2. CASE queued' = <<>>
      <4>1. ChunksRead' = ChunksRead \cup {Len(log)}
        BY <1>1, <3>2, QueueRead
      <4>2. chunk.finish = "none"
        <5>1. \A a, b : Tail(<<a, b>>) = <<b>> /\ <<b>> # <<>> /\ Head(<<a>>) = a
          OBVIOUS
        <5>2. queued # <<Plain("text"), TerminalEvent(chunk.finish)>>
          BY <1>1, <3>2, <5>1
        <5>3. chunk.finish # "none" => queued # <<TerminalEvent(chunk.finish)>>
          <6>1. chunk.finish # "none" => TerminalEvent(chunk.finish).kind # "text"
            BY <1>3, TerminalEventFields
          <6> QED BY <1>6, <5>1, <6>1 DEF event
        <5> QED BY <1>1, <5>2, <5>3, QueueCases DEF chunk
      <4>3. log'[Len(log)].finish = "none"
        BY <1>1, <4>2 DEF chunk
      <4> QED BY <1>1, <1>2, <1>6, <2>1, <4>1, <4>3 DEF DeepSeekSoFar
    <3> QED BY <3>1, <3>2
  <2> QED BY <1>1, <1>2, <2>1, <2>3, <2>5, <2>6, <2>7, <2>8, TypesBefore, DeepSeekKeeps
<1>7. CASE event.kind \in {"completed", "failed"} /\ terminal = "none"
  <2>1. /\ terminal' = event.kind /\ failure' = event.code /\ items' = FALSE
        /\ UNCHANGED <<phase, outputSeen, tools, yielded>>
    BY <1>7 DEF DeepSeekReads, ReadTerminal, event
  <2>2. /\ event.kind = "completed" => chunk.finish = "stop" /\ event.code = "none"
        /\ event.kind = "failed" => event.code \in Codes
    BY <1>3, <1>7, TerminalEventFields
  <2>3. queued' = <<>>
    <3>1. \A a, b : Tail(<<a>>) = <<>> /\ Head(<<a, b>>) = a
      OBVIOUS
    <3>2. Plain("text").kind = "text"
      BY DEF Plain
    <3> QED BY <1>1, <1>7, <3>1, <3>2, QueueCases DEF event, chunk
  <2>4. items' = items
    <3>1. items \in BOOLEAN /\ ~items
      BY <1>1, TypesBefore DEF StreamInv, StreamTyped
    <3> QED BY <2>1, <3>1, Zenon
  <2>5. YieldedSoFar' /\ FailureFirst' /\ OutputIsSeen' /\ CallsSoFar'
    BY <1>1, <1>2, <1>7, <2>1, <2>3 DEF YieldedSoFar, FailureFirst, OutputIsSeen, CallsSoFar
  <2>6. DeepSeekSoFar'
    <3>1. ChunksRead' = ChunksRead \cup {Len(log)} /\ Len(log) \notin ChunksRead /\ ChunksRead = 1..(Len(log) - 1)
      BY <1>1, <2>3, QueueRead
    <3>2. failure = "none" /\ \A m \in ChunksRead : log[m].finish = "none" /\ m < Len(log)
      BY <1>1, <1>2, <1>7, <3>1 DEF DeepSeekSoFar, FailureFirst
    <3>3. CASE event.kind = "failed"
      BY <2>1, <2>2, <3>3 DEF DeepSeekSoFar, Codes
    <3>4. CASE event.kind = "completed"
      <4>1. log'[Len(log)].finish = "stop"
        BY <1>1, <2>2, <3>4 DEF chunk
      <4>2. \A m \in ChunksRead' \ {Len(log)} : log'[m].finish = "none"
        BY <1>1, <3>1, <3>2
      <4>3. \A m \in ChunksRead' : ~(m > Len(log))
        BY <1>2, <3>1, <3>2
      <4> QED BY <2>1, <3>1, <3>4, <4>1, <4>2, <4>3 DEF DeepSeekSoFar
    <3> QED BY <1>7, <3>3, <3>4
  <2>7. QueuedIsLast'
    BY <1>1, QueueRead
  <2>8. terminal' \in {"none", "completed", "failed"} /\ failure' \in Codes \cup {"none"}
    BY <1>7, <2>1, <2>2
  <2> QED BY <1>1, <1>2, <2>1, <2>4, <2>5, <2>6, <2>7, <2>8, TypesBefore, DeepSeekKeeps
<1> QED BY <1>3, <1>4, <1>5, <1>6, <1>7

\* The loop is left, at the end of the stream, by an exception or cancelled.
LEMMA LeavingKeeps ==
  ASSUME StreamAssumption, StreamInv, phase \in {"reading", "retiring"}, phase' \in {"retiring", "cancelled"},
         failure' \in Codes \cup {failure}, phase' = "retiring" /\ failure' = "none" => queued = <<>>,
         UNCHANGED <<adapter, log, queued, terminal, outputSeen, items, tools, yielded>>
  PROVE  StreamInv'
<1>1. StreamTyped /\ YieldedSoFar /\ OutputIsSeen /\ OpenAISoFar /\ CallsSoFar /\ QueuedIsLast /\ DeepSeekSoFar
  BY DEF StreamInv
<1>2. failure' = "none" => failure = "none"
  BY DEF Codes
<1>3. StreamTyped'
  BY <1>1 DEF StreamTyped, StreamTypeOK
<1>4. YieldedSoFar' /\ FailureFirst' /\ OutputIsSeen' /\ QueuedIsLast'
  BY <1>1 DEF YieldedSoFar, FailureFirst, OutputIsSeen, Positions, QueuedIsLast
<1>5. OpenAISoFar' /\ DeepSeekSoFar'
  BY <1>1, <1>2 DEF OpenAISoFar, DeepSeekSoFar, Positions, ChunksRead
<1>6. CallsSoFar'
  BY <1>1 DEF CallsSoFar, CallsAsStreamed, Positions
<1>7. CompletedOnlyIfComplete' /\ CompletedHasOutput'
  BY <1>3, <1>4, NotOver DEF StreamTyped
<1> QED BY <1>3, <1>4, <1>5, <1>6, <1>7 DEF StreamInv

\* A completion is the verdict only when nothing failed and the service
\* completed the answer.
LEMMA VerdictFields ==
  ASSUME StreamInv, NEW closed2 \in BOOLEAN, NEW v \in CreateContinuation(Verdict(closed2))
  PROVE  /\ v \in Codes \cup {"completed"}
         /\ v = "completed" => /\ failure = "none" /\ terminal = "completed" /\ (outputSeen \/ items)
                               /\ \A i \in Index : tools[i].id # NoId => tools[i].completed
<1>1. failure \in Codes \cup {"none"} /\ terminal \in {"none", "completed", "failed"}
  BY TypesBefore
<1>2. /\ Verdict(closed2) \in Codes \cup {"completed"}
      /\ Verdict(closed2) = "completed" =>
            /\ failure = "none" /\ terminal = "completed" /\ (outputSeen \/ items)
            /\ \A i \in Index : tools[i].id # NoId => tools[i].completed
  <2>1. CASE failure # "none"
    BY <1>1, <2>1 DEF Verdict, Codes
  <2>2. CASE failure = "none" /\ (~closed2 \/ terminal # "completed")
    BY <1>1, <2>2 DEF Verdict, Codes
  <2>3. CASE failure = "none" /\ closed2 /\ terminal = "completed"
    <3>1. Verdict(closed2) = IF /\ \A i \in Index : Known(i) => tools[i].completed
                                /\ outputSeen \/ items
                             THEN "completed" ELSE "invalid_response"
      BY <2>3 DEF Verdict
    <3> QED BY <2>3, <3>1 DEF Known, Codes
  <2> QED BY <2>1, <2>2, <2>3
<1>3. v = Verdict(closed2) \/ v = "invalid_response" \/ (v = "completed" /\ Verdict(closed2) = "completed")
  BY DEF CreateContinuation
<1> QED BY <1>2, <1>3 DEF Codes

\* The last event: a completion for what was read completely.
LEMMA FinishKeeps ==
  ASSUME StreamAssumption, StreamInv, Finish
  PROVE  StreamInv'
<1>0. PICK closed2 \in BOOLEAN :
         \E v \in CreateContinuation(Verdict(closed2)) : yielded' = Append(yielded, [kind |-> v])
  BY DEF Finish, Yield
<1>1. PICK v \in CreateContinuation(Verdict(closed2)) : yielded' = Append(yielded, [kind |-> v])
  BY <1>0
<1>2. /\ phase = "retiring" /\ phase' = "over"
      /\ UNCHANGED <<adapter, log, queued, terminal, failure, outputSeen, items, tools>>
  BY DEF Finish
<1> DEFINE y == [kind |-> v]
           n == Len(yielded) + 1
<1>3. /\ v \in Codes \cup {"completed"}
      /\ v = "completed" => /\ failure = "none" /\ terminal = "completed" /\ (outputSeen \/ items)
                            /\ \A i \in Index : tools[i].id # NoId => tools[i].completed
  BY <1>1, VerdictFields
<1>4. y \in Yields /\ y.kind = v /\ v \notin {"text", "call"}
  BY <1>3 DEF Yields, Codes
<1> HIDE DEF y
<1>5. /\ yielded' \in Seq(Yields) /\ Len(yielded') = n /\ n \in Nat /\ Len(yielded) \in Nat
      /\ DOMAIN yielded' = DOMAIN yielded \cup {n} /\ n \notin DOMAIN yielded
      /\ \A m \in DOMAIN yielded : yielded'[m] = yielded[m]
      /\ yielded'[n] = y /\ yielded' # <<>>
  <2>1. yielded' = Append(yielded, y)
    BY <1>1 DEF y
  <2> QED BY <1>4, <2>1, TypesBefore, AppendProperties
<1> HIDE DEF n
<1>6. /\ StreamTyped /\ YieldedSoFar /\ FailureFirst /\ OutputIsSeen /\ OpenAISoFar /\ CallsSoFar
      /\ QueuedIsLast /\ DeepSeekSoFar
  BY DEF StreamInv
<1>7. adapter \in {"openai", "deepseek"} /\ Len(log) \in Nat /\ DOMAIN log = 1..Len(log)
  <2>1. adapter \in {"openai", "deepseek"}
    BY TypesBefore DEF StreamAssumption
  <2> QED BY <1>6, <2>1 DEF StreamTyped
<1>8. YieldedSoFar'
  <2>1. Len(yielded) <= Len(log)
    BY <1>2, <1>6 DEF YieldedSoFar
  <2>2. Len(yielded') <= Len(log') + 1
    BY <1>2, <1>5, <1>7, <2>1 DEF n
  <2>3. \A m \in DOMAIN yielded' : yielded'[m].kind \in {"text", "call"} <=> m # n
    BY <1>2, <1>4, <1>5, <1>6 DEF YieldedSoFar
  <2> QED BY <1>2, <1>5, <2>2, <2>3 DEF YieldedSoFar
<1>9. StreamTyped'
  <2>1. Len(yielded') <= MaxEvents + 2
    BY <1>2, <1>5, <1>6, <1>7, <1>8 DEF YieldedSoFar, StreamTyped, StreamAssumption
  <2> QED BY <1>2, <1>5, <1>6, <2>1 DEF StreamTyped, StreamTypeOK
<1>10. FailureFirst' /\ OutputIsSeen' /\ QueuedIsLast'
  <2>1. FailureFirst' /\ QueuedIsLast'
    BY <1>2, <1>6 DEF FailureFirst, QueuedIsLast
  <2>2. OutputIsSeen'
    BY <1>2, <1>5, <1>6 DEF OutputIsSeen, Positions
  <2> QED BY <2>1, <2>2
<1>11. OpenAISoFar' /\ DeepSeekSoFar'
  BY <1>2, <1>6 DEF OpenAISoFar, DeepSeekSoFar, Positions, ChunksRead
<1>12. CallsSoFar'
  <2>1. CASE adapter = "openai"
    <3>1. LogKept
      BY <1>2, <1>7 DEF LogKept
    <3>2. CallsAsStreamed'
      BY <1>4, <1>5, <1>6, <2>1, <3>1, CallsKept DEF CallsSoFar
    <3>3. \A i \in Index : tools'[i].completed
             <=> \E m \in DOMAIN yielded' : yielded'[m].kind = "call" /\ yielded'[m].index = i
      BY <1>2, <1>4, <1>5, <1>6, <2>1 DEF CallsSoFar
    <3>4. \A i \in Index : tools'[i].id # NoId =>
              \E a \in Positions("added")' : log'[a].id = tools'[i].id /\ log'[a].index = i
      BY <1>2, <1>6, <2>1 DEF CallsSoFar, Positions
    <3> QED BY <1>2, <2>1, <3>2, <3>3, <3>4 DEF CallsSoFar
  <2>2. CASE adapter = "deepseek"
    BY <1>2, <1>4, <1>5, <1>6, <2>2 DEF CallsSoFar
  <2> QED BY <1>7, <2>1, <2>2
<1>13. Completed' => v = "completed"
  BY <1>4, <1>5 DEF Completed, Last
<1>14. CompletedOnlyIfComplete'
  <2> SUFFICES ASSUME adapter = "openai", v = "completed"
               PROVE  LET ends == (Positions("completed") \cup Positions("completed_items"))' IN
                        /\ \E k \in ends : ends = {k}
                        /\ Positions("failed")' = {} /\ Positions("closing")' = {}
                        /\ \A k \in Positions("added")' :
                             \E m \in DOMAIN yielded' : /\ yielded'[m].kind = "call"
                                                        /\ yielded'[m].index = log'[k].index
    BY <1>2, <1>13 DEF CompletedOnlyIfComplete
  <2>1. \A k : Positions(k)' = Positions(k)
    BY <1>2 DEF Positions
  <2>2. LET ends == Positions("completed") \cup Positions("completed_items") IN
          /\ \E k \in ends : ends = {k}
          /\ Positions("failed") = {} /\ Positions("closing") = {}
          /\ \A k \in Positions("added") : tools[log[k].index].id # NoId
    BY <1>3, <1>6 DEF OpenAISoFar
  <2>3. ASSUME NEW k \in Positions("added")
        PROVE  \E m \in DOMAIN yielded' : yielded'[m].kind = "call" /\ yielded'[m].index = log[k].index
    <3>1. log[k] \in OpenAIEvents /\ log[k].kind = "added"
      BY <1>6, ElementOfSeq DEF StreamTyped, Positions
    <3>2. log[k].index \in Index
      BY <3>1, EventFields
    <3>3. tools[log[k].index].completed
      BY <1>3, <2>2, <3>2
    <3>4. \E m \in DOMAIN yielded : yielded[m].kind = "call" /\ yielded[m].index = log[k].index
      BY <1>6, <3>2, <3>3 DEF CallsSoFar
    <3> QED BY <1>5, <3>4
  <2> QED BY <1>2, <2>1, <2>2, <2>3
<1>15. CompletedHasOutput'
  <2> SUFFICES ASSUME v = "completed"
               PROVE  IF adapter = "openai"
                      THEN \/ \E k \in DOMAIN yielded' : yielded'[k].kind \in {"text", "call"}
                           \/ Positions("announced")' # {} \/ Positions("completed_items")' # {}
                      ELSE /\ \E k \in DOMAIN yielded' : yielded'[k].kind = "text"
                           /\ \E k \in DOMAIN log' :
                                /\ log'[k].finish = "stop"
                                /\ \A m \in DOMAIN log' \ {k} : log'[m].finish = "none"
                                /\ \A m \in (k + 1)..Len(log') : ~log'[m].content
    BY <1>2, <1>13 DEF CompletedHasOutput
  <2>1. \A k : Positions(k)' = Positions(k)
    BY <1>2 DEF Positions
  <2>2. CASE adapter = "openai"
    <3>1. CASE outputSeen
      BY <1>5, <1>6, <2>1, <2>2, <3>1 DEF OutputIsSeen
    <3>2. CASE items
      BY <1>3, <1>6, <2>1, <2>2, <3>2 DEF OpenAISoFar
    <3> QED BY <1>3, <3>1, <3>2
  <2>3. CASE adapter = "deepseek"
    <3>1. ~items /\ outputSeen
      BY <1>3, <1>6, <2>3 DEF StreamTyped
    <3>2. \E k \in DOMAIN yielded' : yielded'[k].kind = "text"
      BY <1>5, <1>6, <2>3, <3>1 DEF OutputIsSeen
    <3>3. queued = <<>> /\ ChunksRead = 1..Len(log)
      BY <1>2, <1>3, <1>6 DEF FailureFirst, ChunksRead
    <3>4. PICK k \in ChunksRead : /\ log[k].finish = "stop"
                                  /\ \A m \in ChunksRead \ {k} : log[m].finish = "none"
                                  /\ \A m \in ChunksRead : m > k => ~log[m].content
      BY <1>3, <1>6, <2>3 DEF DeepSeekSoFar
    <3>5. \A m \in (k + 1)..Len(log) : ~log[m].content
      BY <1>7, <3>3, <3>4
    <3> QED BY <1>2, <1>7, <2>3, <3>2, <3>3, <3>4, <3>5
  <2> QED BY <1>7, <2>2, <2>3
<1> QED BY <1>8, <1>9, <1>10, <1>11, <1>12, <1>14, <1>15 DEF StreamInv

\* The first state satisfies the invariant.
LEMMA StreamInvInit == ASSUME StreamAssumption PROVE StreamInit => StreamInv
<1> SUFFICES ASSUME StreamInit PROVE StreamInv
  OBVIOUS
<1>1. /\ adapter \in Adapters /\ phase = "reading" /\ log = <<>> /\ queued = <<>> /\ terminal = "none"
      /\ failure = "none" /\ outputSeen = FALSE /\ items = FALSE /\ yielded = <<>>
      /\ tools = [i \in Index |-> NoTool]
  BY DEF StreamInit
<1>2. NoTool \in Assembly /\ NoTool.parts = <<>> /\ NoTool.id = NoId /\ NoTool.completed = FALSE
  BY DEF NoTool, Assembly
<1>3. /\ tools \in [Index -> Assembly]
      /\ \A i \in Index : tools[i].parts = <<>> /\ tools[i].id = NoId /\ ~tools[i].completed
  BY <1>1, <1>2
<1>4. Len(log) = 0 /\ DOMAIN log = {} /\ Len(yielded) = 0 /\ DOMAIN yielded = {}
  BY <1>1
<1>5. \A k : Positions(k) = {}
  BY <1>4 DEF Positions
<1>6. StreamTyped
  <2>1. /\ adapter \in Adapters /\ failure \in Codes \cup {"none"} /\ terminal \in {"none", "completed", "failed"}
        /\ outputSeen \in BOOLEAN /\ items \in BOOLEAN /\ phase \in {"reading", "retiring", "cancelled", "over"}
    BY <1>1
  <2>2. \A i \in Index : tools[i].id \in Ids \cup {NoId} /\ Len(tools[i].parts) <= MaxArgument
    BY <1>3 DEF StreamAssumption
  <2>3. Len(yielded) <= MaxEvents + 2 /\ Len(log) <= MaxEvents
    BY <1>4 DEF StreamAssumption
  <2>4. StreamTypeOK
    BY <2>1, <2>2, <2>3 DEF StreamTypeOK
  <2>5. yielded \in Seq(Yields) /\ log \in Seq(OpenAIEvents) /\ log \in Seq(Chunks)
    BY <1>1
  <2> QED BY <1>1, <1>3, <2>3, <2>4, <2>5 DEF StreamTyped
<1>7. YieldedSoFar /\ FailureFirst /\ OutputIsSeen /\ QueuedIsLast
  BY <1>1, <1>4 DEF YieldedSoFar, FailureFirst, OutputIsSeen, QueuedIsLast
<1>8. OpenAISoFar
  BY <1>1, <1>5 DEF OpenAISoFar
<1>9. DeepSeekSoFar
  BY <1>1, <1>4 DEF DeepSeekSoFar, ChunksRead
<1>10. CallsSoFar
  <2>1. ASSUME NEW i \in Index PROVE IsStreamed(<<>>, log, i, Len(log))
    <3>1. Deltas(log, i, Len(log)) = {}
      BY <1>4 DEF Deltas
    <3> QED BY <3>1, FS_EmptySet DEF IsStreamed
  <2> QED BY <1>1, <1>3, <1>4, <1>5, <2>1 DEF CallsSoFar, CallsAsStreamed
<1>11. CompletedOnlyIfComplete /\ CompletedHasOutput
  BY <1>1 DEF CompletedOnlyIfComplete, CompletedHasOutput, Completed
<1> QED BY <1>6, <1>7, <1>8, <1>9, <1>10, <1>11 DEF StreamInv

\* Every step keeps the invariant.
LEMMA StreamInvStep ==
  ASSUME StreamAssumption, StreamInv, [StreamNext]_streamVars
  PROVE  StreamInv'
<1>1. CASE UNCHANGED streamVars
  <2>1. UNCHANGED <<adapter, phase, log, queued, terminal, failure, outputSeen, items, tools, yielded>>
    BY <1>1 DEF streamVars
  <2>2. StreamTyped' /\ YieldedSoFar' /\ FailureFirst' /\ QueuedIsLast'
    BY <2>1 DEF StreamInv, StreamTyped, StreamTypeOK, YieldedSoFar, FailureFirst, QueuedIsLast
  <2>3. OutputIsSeen' /\ OpenAISoFar' /\ DeepSeekSoFar'
    BY <2>1 DEF StreamInv, OutputIsSeen, OpenAISoFar, DeepSeekSoFar, ChunksRead, Positions
  <2>4. CallsSoFar'
    BY <2>1 DEF StreamInv, CallsSoFar, CallsAsStreamed, Positions
  <2>5. CompletedOnlyIfComplete' /\ CompletedHasOutput'
    BY <2>1 DEF StreamInv, CompletedOnlyIfComplete, CompletedHasOutput, Completed, Positions
  <2> QED BY <2>2, <2>3, <2>4, <2>5 DEF StreamInv
<1>2. ASSUME NEW e \in OpenAIEvents, OpenAIReads(e) PROVE StreamInv'
  BY <1>2, OpenAIReadsKeeps
<1>3. ASSUME NEW chunk \in Chunks, NextChunk(chunk) PROVE StreamInv'
  BY <1>3, NextChunkKeeps
<1>4. CASE DeepSeekReads
  BY <1>4, DeepSeekReadsKeeps
<1>5. CASE ServiceEnds
  BY <1>5, LeavingKeeps DEF ServiceEnds
<1>6. CASE Raises
  <2>1. failure' \in Codes /\ phase = "reading" /\ phase' = "retiring"
        /\ UNCHANGED <<adapter, log, queued, terminal, outputSeen, items, tools, yielded>>
    BY <1>6 DEF Raises, Break, Codes
  <2>2. failure' # "none"
    BY <2>1 DEF Codes
  <2> QED BY <2>1, <2>2, LeavingKeeps
<1>7. CASE Cancelled
  BY <1>7, LeavingKeeps DEF Cancelled
<1>8. CASE Finish
  BY <1>8, FinishKeeps
<1> QED BY <1>1, <1>2, <1>3, <1>4, <1>5, <1>6, <1>7, <1>8 DEF StreamNext

-----------------------------------------------------------------------------
(* A stream: theorems.                                                     *)

\* The inductive invariant of a stream: while no failure is recorded, what the
\* adapter remembers is what the service sent so far.
THEOREM StreamInvariant == ASSUME StreamAssumption PROVE StreamSpec => []StreamInv
<1>1. StreamInit => StreamInv
  BY StreamInvInit
<1>2. StreamInv /\ [StreamNext]_streamVars => StreamInv'
  BY StreamInvStep
<1> QED BY <1>1, <1>2, PTL DEF StreamSpec

\* generate_stream of both adapters, whatever the service sends, repeats, drops
\* or reorders: exactly one terminal event, last; a completion only for an
\* answer the service completed once, with output and every announced call
\* delivered; each call once, with the arguments streamed for it.
THEOREM StreamSound == ASSUME StreamAssumption PROVE StreamSpec => []StreamIsSound
<1>1. ASSUME StreamInv PROVE StreamIsSound
  <2>1. OneTerminalLast
    <3>1. /\ \A n \in DOMAIN yielded :
               yielded[n].kind \in {"text", "call"} <=> ~(phase = "over" /\ n = Len(yielded))
          /\ phase = "over" => Len(yielded) \in DOMAIN yielded
      <4>1. YieldedSoFar /\ yielded \in Seq(Yields)
        BY <1>1, TypesBefore DEF StreamInv
      <4> QED BY <4>1 DEF YieldedSoFar
    <3>2. CASE phase = "over"
      BY <3>1, <3>2 DEF OneTerminalLast, Terminals
    <3>3. CASE phase # "over"
      BY <3>1, <3>3 DEF OneTerminalLast, Terminals
    <3> QED BY <3>2, <3>3
  <2>2. CallsAsStreamed
    <3>1. CASE adapter = "openai"
      BY <1>1, <3>1 DEF StreamInv, CallsSoFar
    <3>2. CASE adapter # "openai"
      BY <1>1, <3>2 DEF StreamInv, CallsSoFar, CallsAsStreamed
    <3> QED BY <3>1, <3>2
  <2> QED BY <1>1, <2>1, <2>2 DEF StreamInv, StreamTyped, StreamIsSound
<1> QED BY <1>1, StreamInvariant, PTL

\* Once the service sent its terminal event, only the adapter's own terminal
\* event is passed on.
THEOREM StreamStepsSafe == StreamSpec => [][NothingAfterTerminal]_streamVars
<1>1. ASSUME StreamNext PROVE NothingAfterTerminal
  <2> SUFFICES ASSUME terminal # "none" PROVE yielded' = yielded \/ phase' = "over"
    BY DEF NothingAfterTerminal
  <2>1. ASSUME NEW e \in OpenAIEvents, OpenAIReads(e) PROVE yielded' = yielded
    BY <2>1 DEF OpenAIReads, AfterTerminal, Skip, Break
  <2>2. ASSUME DeepSeekReads PROVE yielded' = yielded
    BY <2>2 DEF DeepSeekReads, Skip, Break
  <2>3. ASSUME NEW chunk \in Chunks, NextChunk(chunk) PROVE yielded' = yielded
    BY <2>3 DEF NextChunk
  <2>4. ServiceEnds \/ Raises \/ Cancelled \/ Finish => yielded' = yielded \/ phase' = "over"
    BY DEF ServiceEnds, Raises, Cancelled, Finish, Break
  <2> QED BY <1>1, <2>1, <2>2, <2>3, <2>4 DEF StreamNext
<1> QED BY <1>1, PTL DEF StreamSpec
=============================================================================
