-------------------------- MODULE ProviderResources --------------------------
(***************************************************************************)
(* The SDK resources of a cloud provider: one client for the credential in *)
(* use and one stream per request, with their active, pending and closing  *)
(* registries (openai_provider.py, deepseek_provider.py).  Requests and    *)
(* aclose() are tasks of one event loop: a task runs from one await to the *)
(* next, and may be cancelled at every await.  The short state lock is     *)
(* never held over an await and is no step of its own; the lifecycle lock  *)
(* is.  Closing a resource may fail, and the user may change the           *)
(* credential at any moment.                                               *)
(***************************************************************************)
EXTENDS Naturals, Sequences

CONSTANTS
    NumRequests, \* bound: requests, numbered from 1; request r opens stream r
    NumCloses,   \* bound: calls of aclose
    Keys,        \* API keys
    MaxChanges   \* bound: changes of the stored credential

\* What the constants must satisfy.
ResourcesAssumption == NumRequests \in Nat /\ NumCloses \in Nat

VARIABLES
    kind,    \* openai or deepseek
    key,     \* the stored credential
    closed,  \* _closed; the secret store is given up with it
    client,  \* _client, 0 for none
    active, pending, closing, \* the registries
    open,    \* what is open in the SDK
    keyOf,   \* the key of every client created
    user,    \* the client of every stream
    task,    \* the tasks
    lock,    \* the holder of the lifecycle lock
    changes

vars == <<kind, key, closed, client, active, pending, closing, open, keyOf, user, task, lock, changes>>

Requests == 1..NumRequests

Closers == (NumRequests + 1)..(NumRequests + NumCloses)

Tasks == Requests \cup Closers

Nobody == 0

\* Streams carry the number of their request, clients larger numbers.
IsStream(r) == r \in Requests

NewTask == [pc |-> "new", then |-> "none", todo |-> {}, failed |-> FALSE, cur |-> 0, read |-> "none"]

Init ==
    /\ kind \in {"openai", "deepseek"}
    /\ key \in Keys /\ closed = FALSE /\ client = 0
    /\ active = {} /\ pending = {} /\ closing = {} /\ open = {}
    /\ keyOf = <<>> /\ user = [r \in Requests |-> 0]
    /\ task = [t \in Tasks |-> NewTask] /\ lock = Nobody /\ changes = 0

ClientId(n) == NumRequests + NumCloses + n

Registries == <<active, pending, closing>>

SDK == <<open, keyOf, user>>

Unchanged == UNCHANGED <<kind, key, changes>>

\* The credential is replaced or deleted while requests are under way.
CredentialChanges ==
    /\ changes < MaxChanges
    /\ key' \in (Keys \cup {"none"}) \ {key} /\ changes' = changes + 1
    /\ UNCHANGED <<kind, closed, client, task, lock>> /\ UNCHANGED Registries /\ UNCHANGED SDK

(***************************************************************************)
(* Tasks and the lifecycle lock.                                           *)
(***************************************************************************)
Become(t, new) == task' = [task EXCEPT ![t] = new]

\* A request or an aclose() begins.  OpenAI refuses a closed provider here.
Begin(t) ==
    /\ task[t].pc = "new"
    /\ t \in Requests /\ kind = "openai" => ~closed
    /\ Become(t, [NewTask EXCEPT !.pc = "want", !.then = IF t \in Requests THEN "secret" ELSE "close"])
    /\ UNCHANGED <<closed, client, lock>> /\ UNCHANGED Registries /\ UNCHANGED SDK /\ Unchanged

\* _isolate_current_resources
Isolated == pending \cup active \cup (IF client = 0 THEN {} ELSE {client})

Isolate == pending' = Isolated /\ active' = {} /\ client' = 0 /\ UNCHANGED closing

\* The task goes through todo and continues with `then'.
Cleaning(t, todo, then) ==
    Become(t, [task[t] EXCEPT !.pc = "cleaning", !.todo = todo, !.then = then, !.failed = FALSE])

\* The lifecycle lock is taken: for a request, for a stream's end, for aclose.
Acquire(t) ==
    /\ task[t].pc = "want" /\ lock = Nobody
    /\ lock' = t
    /\ CASE task[t].then = "close" ->
              closed' = TRUE /\ Isolate /\ Cleaning(t, Isolated \cup closing, "end")
         [] task[t].then = "retire" ->
              Cleaning(t, {t}, "retired") /\ UNCHANGED <<closed, client>> /\ UNCHANGED Registries
         [] OTHER ->
              Cleaning(t, pending \cup closing, "secret") /\ UNCHANGED <<closed, client>> /\ UNCHANGED Registries
    /\ UNCHANGED SDK /\ Unchanged

\* Seeded fault: a task that was cancelled in close() keeps the lock.
EndHoldingLock(t) ==
    /\ Become(t, [task[t] EXCEPT !.pc = "done", !.todo = {}])
    /\ lock' = IF lock = t /\ task[t].pc # "closing" THEN Nobody ELSE lock

\* The task ends and leaves the lock, with a result or an exception.
End(t) ==
    /\ Become(t, [task[t] EXCEPT !.pc = "done", !.todo = {}])
    /\ lock' = IF lock = t THEN Nobody ELSE lock

\* Cancelled while it waits for the lock: what it registered stays registered.
CancelWaiting(t) ==
    /\ task[t].pc = "want" /\ End(t)
    /\ UNCHANGED <<closed, client>> /\ UNCHANGED Registries /\ UNCHANGED SDK /\ Unchanged

(***************************************************************************)
(* _retry_pending_cleanup_locked: streams first, then clients.             *)
(***************************************************************************)
Streams(set) == {r \in set : IsStream(r)}

Candidates(t) == IF Streams(task[t].todo) # {} THEN Streams(task[t].todo) ELSE task[t].todo

\* Seeded fault: clients are closed under streams that could not be closed.
ClientsMayNotWait(t, r) == FALSE

\* DeepSeek closes no client while a stream is left.
ClientsWait(t, r) ==
    kind = "deepseek" /\ ~IsStream(r) /\ Streams(pending \cup closing) # {}

\* _close_pending_stream_locked, _close_pending_client_locked up to the await.
BeginCloseResource(t) ==
    /\ task[t].pc = "cleaning" /\ task[t].todo # {}
    /\ \E r \in Candidates(t) :
         IF r \notin pending \cup closing
         THEN Become(t, [task[t] EXCEPT !.todo = @ \ {r}]) /\ UNCHANGED Registries
         ELSE IF ClientsWait(t, r)
         THEN Become(t, [task[t] EXCEPT !.todo = {}, !.failed = TRUE]) /\ UNCHANGED Registries
         ELSE /\ Become(t, [task[t] EXCEPT !.pc = "closing", !.cur = r])
              /\ pending' = pending \ {r} /\ closing' = closing \cup {r} /\ UNCHANGED active
    /\ UNCHANGED <<closed, client, lock>> /\ UNCHANGED SDK /\ Unchanged

Resume(t, failed) ==
    Become(t, [task[t] EXCEPT !.pc = "cleaning", !.todo = @ \ {task[t].cur}, !.failed = @ \/ failed])

\* Closing what is already closed does nothing and succeeds.
CloseSucceeds(t) ==
    /\ task[t].pc = "closing"
    /\ LET r == task[t].cur IN
         pending' = pending \ {r} /\ closing' = closing \ {r} /\ open' = open \ {r}
    /\ Resume(t, FALSE)
    /\ UNCHANGED <<closed, client, lock, active, keyOf, user>> /\ Unchanged

\* Seeded fault: a resource that could not be closed is forgotten.
CloseFailsForgetting(t) ==
    /\ task[t].pc = "closing" /\ task[t].cur \in open
    /\ closing' = closing \ {task[t].cur} /\ UNCHANGED pending
    /\ Resume(t, TRUE)
    /\ UNCHANGED <<closed, client, lock, active>> /\ UNCHANGED SDK /\ Unchanged

CloseFails(t) ==
    /\ task[t].pc = "closing" /\ task[t].cur \in open
    /\ LET r == task[t].cur IN closing' = closing \ {r} /\ pending' = pending \cup {r}
    /\ Resume(t, TRUE)
    /\ UNCHANGED <<closed, client, lock, active>> /\ UNCHANGED SDK /\ Unchanged

\* Cancelled in close(): the resource stays in the closing registry.
CloseCancelled(t) ==
    /\ task[t].pc = "closing" /\ End(t)
    /\ UNCHANGED <<closed, client>> /\ UNCHANGED Registries /\ UNCHANGED SDK /\ Unchanged

Cleaned(t, then) == task[t].pc = "cleaning" /\ task[t].todo = {} /\ task[t].then = then

\* The cleanup was all there was to do, or it failed before a request went on.
CleanupEnds(t) ==
    /\ Cleaned(t, "end") \/ Cleaned(t, "retired") \/ ((Cleaned(t, "secret") \/ Cleaned(t, "client")) /\ task[t].failed)
    /\ End(t)
    /\ UNCHANGED <<closed, client>> /\ UNCHANGED Registries /\ UNCHANGED SDK /\ Unchanged

(***************************************************************************)
(* _client_for_request_locked and the request itself.                      *)
(***************************************************************************)
CurrentKey == IF client = 0 THEN "none" ELSE keyOf[client - ClientId(0)]

\* The credential is read: reuse the client, or isolate it and clean up, to
\* create another or, without a credential or a store, to give up.
ReadSecret(t) ==
    /\ Cleaned(t, "secret") /\ ~task[t].failed
    /\ \E readable \in BOOLEAN :
         LET secret == IF closed \/ ~readable THEN "none" ELSE key IN
         IF secret # "none" /\ CurrentKey = secret
         THEN /\ Become(t, [task[t] EXCEPT !.pc = "creating"])
              /\ UNCHANGED client /\ UNCHANGED Registries
         ELSE /\ Isolate
              /\ Become(t, [task[t] EXCEPT !.pc = "cleaning", !.todo = Isolated \cup closing, !.read = secret,
                                           !.then = IF secret = "none" THEN "end" ELSE "client"])
    /\ UNCHANGED <<closed, lock>> /\ UNCHANGED SDK /\ Unchanged

MayCreate(t) == Cleaned(t, "client") /\ ~task[t].failed

\* The client of the key that was read.  The factory may raise.
CreateClient(t) ==
    /\ MayCreate(t)
    /\ \/ /\ keyOf' = Append(keyOf, task[t].read)
          /\ client' = ClientId(Len(keyOf) + 1) /\ open' = open \cup {client'}
          /\ Become(t, [task[t] EXCEPT !.pc = "creating", !.todo = {}])
          /\ UNCHANGED lock
       \/ End(t) /\ UNCHANGED <<keyOf, client, open>>
    /\ UNCHANGED <<closed, user>> /\ UNCHANGED Registries /\ Unchanged

\* create() answers, the stream is registered, and the lock is released.
CreateStream(t) ==
    /\ task[t].pc = "creating"
    /\ open' = open \cup {t} /\ user' = [user EXCEPT ![t] = client]
    /\ active' = active \cup {t}
    /\ Become(t, [task[t] EXCEPT !.pc = "streaming"]) /\ lock' = Nobody
    /\ UNCHANGED <<closed, client, pending, closing, keyOf>> /\ Unchanged

\* create() raises or is cancelled.
CreateFails(t) ==
    /\ task[t].pc = "creating" /\ End(t)
    /\ UNCHANGED <<closed, client>> /\ UNCHANGED Registries /\ UNCHANGED SDK /\ Unchanged

\* The stream is over: its end, an error, a cancellation, or it was closed.
\* _retire_stream moves it and waits for the lifecycle lock.
StreamEnds(t) ==
    /\ task[t].pc = "streaming"
    /\ active' = active \ {t} /\ pending' = pending \cup {t}
    /\ Become(t, [task[t] EXCEPT !.pc = "want", !.then = "retire"])
    /\ UNCHANGED <<closed, client, lock, closing>> /\ UNCHANGED SDK /\ Unchanged

Step(t) ==
    \/ Acquire(t) \/ BeginCloseResource(t) \/ CloseSucceeds(t) \/ CloseFails(t) \/ CleanupEnds(t)
    \/ ReadSecret(t) \/ CreateClient(t) \/ CreateStream(t) \/ CreateFails(t) \/ StreamEnds(t)

Next ==
    \/ CredentialChanges
    \/ \E t \in Tasks : Begin(t) \/ Step(t) \/ CancelWaiting(t) \/ CloseCancelled(t)

Spec == Init /\ [][Next]_vars

\* The event loop runs every task that can run; the lock is handed on in turn;
\* the SDK's calls have timeouts.
FairSpec == Spec /\ \A t \in Tasks : WF_vars(Step(t)) /\ SF_vars(Acquire(t))

(***************************************************************************)
(* Properties.                                                             *)
(***************************************************************************)
\* Every variable keeps its type.
TypeOK ==
    /\ kind \in {"openai", "deepseek"} /\ key \in Keys \cup {"none"} /\ lock \in Tasks \cup {Nobody}
    /\ active \subseteq Requests /\ active \cap (pending \cup closing) = {}
    /\ \A t \in Tasks : task[t].pc \in {"new", "want", "cleaning", "closing", "creating", "streaming", "done"}

\* Nothing that is open is forgotten: whatever fails and whoever is cancelled,
\* every open client and stream is in a registry from which a later request
\* or aclose() will close it.
NothingOpenIsLost == open \subseteq active \cup pending \cup closing \cup {client}

\* A credential change leaves no connection with the old key behind: a new
\* client exists only when every older client and stream is closed.
OneCredentialInUse ==
    client \in open => /\ {r \in open : ~IsStream(r)} = {client}
                       /\ \A r \in open : IsStream(r) => user[r] = client

\* Nothing open is forgotten, and one credential is in use.
ResourcesAreOwned == TypeOK /\ NothingOpenIsLost /\ OneCredentialInUse

\* After aclose() has marked the provider closed nothing is opened any more
\* and nothing is in use.
ClosedOpensNothing ==
    closed => client' = 0 /\ active' = {} /\ open' \subseteq open

\* DeepSeek closes a client only after all its streams.
ClientOutlivesStreams ==
    kind = "deepseek" => \A r \in open \ open' : IsStream(r) \/ \A s \in open' : IsStream(s) => user[s] # r

\* Every request and every aclose() ends and gives the lifecycle lock back.
TasksEnd == \A t \in Tasks : task[t].pc = "want" ~> task[t].pc = "done"
=============================================================================
