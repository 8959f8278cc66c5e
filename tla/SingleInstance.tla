--------------------------- MODULE SingleInstance ---------------------------
(***************************************************************************)
(* Single-instance ownership: several processes of the application start,  *)
(* race for the lock file and talk over the local socket                   *)
(* (single_instance.py), around the start and the end of the owner's       *)
(* process (main and PetApplicationCoordinator, pet_application.py).       *)
(*                                                                         *)
(* The owner's server listens while main still builds the application; its *)
(* event loop, which accepts and reads clients, runs only afterwards.  A   *)
(* process that ends, in order or not, gives up its lock, its server and   *)
(* its sockets: production never declares a lock stale by its age.         *)
(***************************************************************************)
EXTENDS Naturals, FiniteSets

CONSTANTS
    Procs,
    MaxClients,   \* _max_active_clients
    CleanupFails  \* whether timers, sockets, the server or the lock may raise

Nobody == "nobody"

\* What the constants must satisfy: there are finitely many processes.
InstanceAssumption ==
    /\ IsFiniteSet(Procs) /\ Nobody \notin Procs
    /\ MaxClients \in Nat \ {0} /\ CleanupFails \in BOOLEAN

VARIABLES
    pc,     \* where each process is in main
    lock,   \* the holder of the lock file
    server, \* the process that listens under the server name
    conn,   \* each process's connection as a client, seen by the owner
    sent,   \* what it wrote: nothing, a part, the whole message
    reply,  \* the owner's answer on its socket
    code,   \* its result
    queued, \* clients whose activation is queued in the owner's event loop
    shown   \* clients whose activation showed the pet

vars == <<pc, lock, server, conn, sent, reply, code, queued, shown>>

Running == {"running", "closing"}

\* Stages of main in which the process owns the application.
Owning == {"locked", "building", "close_server", "close_clients", "unlock"} \cup Running

Init ==
    /\ pc = [p \in Procs |-> "new"] /\ lock = Nobody /\ server = Nobody
    /\ conn = [p \in Procs |-> "none"] /\ sent = [p \in Procs |-> "nothing"]
    /\ reply = [p \in Procs |-> "none"] /\ code = [p \in Procs |-> "none"]
    /\ queued = {} /\ shown = {}

\* The owner's table of accepted clients.
Clients == {p \in Procs : conn[p] \in {"open", "expired", "terminal"}}

Go(p, stage) == pc' = [pc EXCEPT ![p] = stage]

Wire == <<conn, sent, reply, queued, shown>>

\* The process has ended; the system takes back what it held.
Exit(p, result) ==
    /\ Go(p, "exited") /\ code' = [code EXCEPT ![p] = result]
    /\ lock' = IF lock = p THEN Nobody ELSE lock
    /\ server' = IF server = p THEN Nobody ELSE server
    /\ conn' = IF lock # p THEN conn
               ELSE [q \in Procs |-> IF conn[q] = "none" THEN "none" ELSE "gone"]
    /\ queued' = IF lock = p THEN {} ELSE queued
    /\ UNCHANGED <<sent, reply, shown>>

(***************************************************************************)
(* start: tryLock(0), then serve or notify the owner.                      *)
(***************************************************************************)
TryLock(p) ==
    /\ pc[p] = "new"
    /\ IF lock = Nobody THEN lock' = p /\ Go(p, "locked") ELSE Go(p, "connecting") /\ UNCHANGED lock
    /\ UNCHANGED <<server, code>> /\ UNCHANGED Wire

\* The lock cannot be used at all: fail closed.
LockUnavailable(p) == pc[p] = "new" /\ Exit(p, "lock_unavailable")

\* _start_owner_server
Listen(p) ==
    /\ pc[p] = "locked" /\ server = Nobody
    /\ server' = p /\ Go(p, "building")
    /\ UNCHANGED <<lock, code>> /\ UNCHANGED Wire

ListenFails(p) == pc[p] = "locked" /\ Exit(p, "server_failed")

\* _connect_to_owner: tried again and again up to the deadline.
Connect(p) ==
    /\ pc[p] = "connecting" /\ server # Nobody
    /\ conn' = [conn EXCEPT ![p] = "queued"] /\ Go(p, "waiting")
    /\ UNCHANGED <<lock, server, code, sent, reply, queued, shown>>

ConnectTimesOut(p) == pc[p] = "connecting" /\ Exit(p, "owner_unreachable")

\* The message is written; the owner may see a part of it first.
WriteMessage(p) ==
    /\ pc[p] = "waiting" /\ sent[p] # "whole"
    /\ sent' = [sent EXCEPT ![p] = IF @ = "nothing" THEN "part" ELSE "whole"]
    /\ UNCHANGED <<pc, lock, server, code, conn, reply, queued, shown>>

Answer(r) == CASE r = "ack" -> "none" [] r = "busy" -> "owner_busy" [] OTHER -> "activation_rejected"

\* _wait_for_response: an answer, a closed socket or the deadline.
ReadAnswer(p) ==
    /\ pc[p] = "waiting" /\ reply[p] # "none"
    /\ Exit(p, IF reply[p] = "ack" THEN "acknowledged" ELSE Answer(reply[p]))

AnswerTimesOut(p) == pc[p] = "waiting" /\ reply[p] = "none" /\ Exit(p, "activation_timeout")

(***************************************************************************)
(* The owner's event loop.                                                 *)
(***************************************************************************)
Serves(p) == server = p /\ pc[p] \in Running

OwnerOnly == UNCHANGED <<pc, lock, server, code, sent>>

\* _accept_connections: a tracked session, or an answer and no session.
Accept(p, c) ==
    /\ Serves(p) /\ conn[c] = "queued"
    /\ IF Cardinality(Clients) >= MaxClients
       THEN conn' = [conn EXCEPT ![c] = "gone"] /\ reply' = [reply EXCEPT ![c] = "reject"]
       ELSE conn' = [conn EXCEPT ![c] = "open"] /\ UNCHANGED reply
    /\ OwnerOnly /\ UNCHANGED <<queued, shown>>

\* _cleanup_client_session: the session leaves the table unless that raises.
Cleaned(c, ok) == conn' = [conn EXCEPT ![c] = IF ok THEN "gone" ELSE "terminal"]

MayClean == IF CleanupFails THEN BOOLEAN ELSE {TRUE}

\* The closing probe decides between the two answers.
AnswerFor(p) == IF pc[p] = "closing" THEN "busy" ELSE "ack"

\* _read_client: the whole message is answered and the session finished.
\* The activation is queued behind the answer.
ReadClient(p, c) ==
    /\ Serves(p) /\ conn[c] = "open" /\ sent[c] = "whole"
    /\ reply' = [reply EXCEPT ![c] = AnswerFor(p)]
    /\ queued' = IF AnswerFor(p) = "ack" THEN queued \cup {c} ELSE queued
    /\ \E ok \in MayClean : Cleaned(c, ok)
    /\ OwnerOnly /\ UNCHANGED shown

\* _expire_client: no message in time.  The socket is aborted by a later event.
Expire(p, c) ==
    /\ Serves(p) /\ conn[c] = "open"
    /\ conn' = [conn EXCEPT ![c] = "expired"]
    /\ OwnerOnly /\ UNCHANGED <<reply, queued, shown>>

FinishExpired(p, c) ==
    /\ Serves(p) /\ conn[c] = "expired"
    /\ \E ok \in MayClean : Cleaned(c, ok)
    /\ OwnerOnly /\ UNCHANGED <<reply, queued, shown>>

\* _drop_client: the socket was closed, by the client or by the answer.
Drop(p, c) ==
    /\ Serves(p) /\ c \in Clients /\ (pc[c] # "waiting" \/ conn[c] = "terminal")
    /\ \E ok \in MayClean : Cleaned(c, ok)
    /\ OwnerOnly /\ UNCHANGED <<reply, queued, shown>>

\* activation_requested: show_pet, which a closing application ignores.
Activate(p) ==
    /\ Serves(p) /\ queued # {}
    /\ \E c \in queued :
         /\ queued' = queued \ {c}
         /\ shown' = IF pc[p] = "closing" THEN shown ELSE shown \cup {c}
    /\ OwnerOnly /\ UNCHANGED <<conn, reply>>

(***************************************************************************)
(* main and the end of the application.                                    *)
(***************************************************************************)
EventLoopStarts(p) ==
    /\ pc[p] = "building" /\ Go(p, "running")
    /\ UNCHANGED <<lock, server, code>> /\ UNCHANGED Wire

\* No production composition, no window: main returns before the event loop.
BuildFails(p) == pc[p] = "building" /\ Exit(p, "fatal")

\* The pet begins to close; the runtime shuts down; a failure reopens it.
BeginClose(p) ==
    /\ pc[p] = "running" /\ Go(p, "closing")
    /\ UNCHANGED <<lock, server, code>> /\ UNCHANGED Wire

ShutdownFails(p) ==
    /\ pc[p] = "closing" /\ Go(p, "running")
    /\ UNCHANGED <<lock, server, code>> /\ UNCHANGED Wire

\* _on_shutdown_finished: quit_requested is emitted by a later event.
ShutdownSucceeds(p) ==
    /\ pc[p] = "closing" /\ Go(p, "close_server")
    /\ UNCHANGED <<lock, server, code>> /\ UNCHANGED Wire

\* close, its three parts in order; other processes run in between.
CloseServer(p) ==
    /\ pc[p] = "close_server" /\ Go(p, "close_clients")
    /\ \/ server' = Nobody
       \/ CleanupFails /\ UNCHANGED server
    /\ UNCHANGED <<lock, code>> /\ UNCHANGED Wire

CloseClients(p) ==
    /\ pc[p] = "close_clients" /\ Go(p, "unlock")
    /\ \E kept \in SUBSET Clients :
         /\ CleanupFails \/ kept = {}
         /\ conn' = [q \in Procs |-> IF conn[q] = "none" THEN "none" ELSE IF q \in kept THEN "terminal" ELSE "gone"]
    /\ UNCHANGED <<lock, server, code, sent, reply, queued, shown>>

\* Seeded fault: the lock is released whatever could not be closed.
UnlockAlways(p) ==
    /\ pc[p] = "unlock" /\ Go(p, "quitting")
    /\ lock' = Nobody
    /\ UNCHANGED <<server, code>> /\ UNCHANGED Wire

Unlock(p) ==
    /\ pc[p] = "unlock" /\ Go(p, "quitting")
    /\ \/ server = Nobody /\ Clients = {} /\ lock' = Nobody
       \/ (CleanupFails \/ server # Nobody \/ Clients # {}) /\ UNCHANGED lock
    /\ UNCHANGED <<server, code>> /\ UNCHANGED Wire

\* app.quit, the second slot of quit_requested.
Quit(p) == pc[p] = "quitting" /\ Exit(p, "none")

\* The process dies at any moment.
Crash(p) == pc[p] \notin {"new", "exited"} /\ Exit(p, "crashed")

Start(p) ==
    \/ TryLock(p) \/ LockUnavailable(p) \/ Listen(p) \/ ListenFails(p)
    \/ Connect(p) \/ ConnectTimesOut(p) \/ WriteMessage(p) \/ ReadAnswer(p) \/ AnswerTimesOut(p)

Serve(p) ==
    \/ Activate(p)
    \/ \E c \in Procs : Accept(p, c) \/ ReadClient(p, c) \/ Expire(p, c) \/ FinishExpired(p, c) \/ Drop(p, c)

End(p) ==
    \/ ShutdownSucceeds(p) \/ CloseServer(p) \/ CloseClients(p) \/ Unlock(p) \/ Quit(p)

Next ==
    \E p \in Procs :
       Start(p) \/ Serve(p) \/ EventLoopStarts(p) \/ BuildFails(p) \/ BeginClose(p) \/ ShutdownFails(p)
          \/ End(p) \/ Crash(p)

Spec == Init /\ [][Next]_vars

\* start() is bounded by its deadlines, main gets to its event loop or fails,
\* and an event loop handles what is queued in it.
FairSpec ==
    /\ Spec
    /\ \A p \in Procs : WF_vars(Start(p)) /\ WF_vars(EventLoopStarts(p)) /\ WF_vars(Activate(p))
         /\ \A c \in Procs : WF_vars(Accept(p, c)) /\ WF_vars(ReadClient(p, c) \/ Expire(p, c))
                             /\ WF_vars(FinishExpired(p, c)) /\ WF_vars(Drop(p, c))

(***************************************************************************)
(* Properties.                                                             *)
(***************************************************************************)
\* Every variable keeps its type.
TypeOK ==
    /\ lock \in Procs \cup {Nobody} /\ server \in Procs \cup {Nobody}
    /\ \A p \in Procs :
         /\ conn[p] \in {"none", "queued", "open", "expired", "terminal", "gone"}
         /\ sent[p] \in {"nothing", "part", "whole"} /\ reply[p] \in {"none", "ack", "busy", "reject"}
    /\ Cardinality(Clients) <= MaxClients /\ shown \cap queued = {}

\* Whoever serves or builds the application holds the lock, from before the
\* server listens to after it is closed: two owners never meet, however the
\* starts, the failures of close() and the ends of processes interleave.
OwnerHoldsLock ==
    /\ server # Nobody => lock = server
    /\ \A p \in Procs : pc[p] \in Owning => lock = p

\* Whoever serves or builds the application holds the lock, the table of
\* clients keeps its bound, and no activation is shown twice.
OneOwner == TypeOK /\ OwnerHoldsLock

\* An acknowledged start is acted upon: the owner that acknowledged it shows
\* the pet, unless it begins to close or ends before its event loop gets there.
AcknowledgedIsShown ==
    \A c \in Procs : c \in queued ~> (c \in shown \/ (server = Nobody \/ pc[server] # "running"))

\* An owner that is closing acknowledges nobody: who is told that the pet was
\* activated was told so before the close began.
ClosingAcknowledgesNobody ==
    \A p, c \in Procs : pc[p] = "closing" /\ server = p /\ reply[c] # "ack" => reply'[c] # "ack"

\* Every start decides: it owns the application or its process ends.
StartDecides ==
    \A p \in Procs : pc[p] \in {"locked", "connecting", "waiting"} ~> pc[p] \notin {"locked", "connecting", "waiting"}

\* A client's place in the table is given back while the owner serves, also
\* when the client says nothing, too little, or goes away.
PlacesAreGivenBack ==
    \A c \in Procs : c \in Clients ~> (c \notin Clients \/ \A p \in Procs : ~Serves(p))
=============================================================================
