---------------------------- MODULE RuntimeBridge ----------------------------
(***************************************************************************)
(* The command protocol between the GUI thread (QtRuntimeBridge) and the   *)
(* worker thread that owns the asyncio loop (RuntimeThread).               *)
(*                                                                         *)
(* Two threads interleave.  A GUI step is one public bridge call or one    *)
(* queued Qt slot; it takes RuntimeThread._guard at most once, so it is    *)
(* atomic.  A worker step is what RuntimeThread.run does between two       *)
(* places the GUI can observe: a guarded section, a queue read, an emitted *)
(* signal.  Commands travel in a FIFO queue, results come back as queued   *)
(* signals, also FIFO because they have one sender and one receiver.       *)
(*                                                                         *)
(* What a command does inside the runtime is the subject of module         *)
(* RuntimeSession; here it only ends: with a result, with a cancellation   *)
(* that unwinds the thread, or with an exception that does.                *)
(***************************************************************************)
EXTENDS Naturals, Sequences

CONSTANTS
  CommandId,  \* command identifiers the bridge may allocate (uuid4 values)
  None        \* "no command"

ASSUME NoneAssumption == None \notin CommandId

VARIABLES
  \* QtRuntimeBridge, touched by the GUI thread only
  state,            \* _state
  startId,          \* _start_command_id
  shutdownId,       \* _shutdown_command_id
  kind,             \* what each allocated identifier was allocated for
  verdict,          \* pending set and terminal signal of each identifier
  exitSeen,         \* _shutdown_outcome
  \* RuntimeThread fields protected by _guard
  published,        \* _loop and _queue are set
  ready,            \* _ready
  accepting,        \* _accepting_submissions
  closing,          \* _closing
  inFlight,         \* _shutdown_in_flight
  startupShutdown,  \* _startup_shutdown
  \* RuntimeThread, touched by the worker only
  worker,           \* where run() is
  queue,            \* commands handed to the loop, oldest first
  active,           \* _active_command
  exit,             \* exit_outcome
  signals,          \* queued signals not yet delivered to the GUI thread
  \* history
  accepted,         \* ordinary commands submit() took
  executed          \* commands the dispatcher started

gui     == <<state, startId, shutdownId, kind, verdict, exitSeen>>
guarded == <<published, ready, accepting, closing, inFlight, startupShutdown>>
history == <<accepted, executed>>
vars    == <<gui, guarded, worker, queue, active, exit, signals, history>>

-----------------------------------------------------------------------------
(* Values.                                                                 *)

Ordinary == {"plain", "settings", "autostart"}

Kinds == Ordinary \cup {"none", "start", "shutdown"}

\* Codes the bridge itself decides.
BridgeCodes ==
  {"invalid_command", "runtime_not_ready", "runtime_closing", "runtime_closed",
   "runtime_failed", "runtime_already_started", "runtime_start_failed",
   "shutdown_in_progress", "journal_failed"}

\* Codes the worker decides: a command's own failure, and the exit outcomes.
ExitCodes ==
  {"none", "runtime_bootstrap_failed", "runtime_thread_failed",
   "runtime_thread_boundary_failed", "runtime_thread_cancelled",
   "runtime_command_cancelled", "runtime_shutdown_cancelled",
   "runtime_cleanup_failed"}

BoundaryFailed == "runtime_thread_boundary_failed"

CancelCodes ==
  {"runtime_thread_cancelled", "runtime_command_cancelled",
   "runtime_shutdown_cancelled"}

Verdicts ==
  {"unused", "pending", "completed", "command_error",
   "runtime_thread_stopped_unexpectedly"} \cup BridgeCodes \cup ExitCodes

States  == {"new", "starting", "ready", "closing", "closed", "failed"}
Workers == {"unstarted", "booting", "serving", "executing", "retrying",
            "unwinding", "finalizing", "exited"}

Outcome == [id : CommandId \cup {None}, ok : BOOLEAN, code : ExitCodes]
NoExit  == [id |-> None, ok |-> FALSE, code |-> "none"]

\* worker_ready, {provider_settings,autostart_state}_emitted,
\* command_result_emitted, shutdown_outcome_emitted and QThread.finished.
Ready          == [type |-> "ready"]
Finished       == [type |-> "finished"]
Data(id)       == [type |-> "data", id |-> id]
Result(id, ok) == [type |-> "result", id |-> id, ok |-> ok]
Exit(e)        == [type |-> "outcome", outcome |-> e]

Signal == {Ready, Finished} \cup {Data(id) : id \in CommandId}
          \cup {Result(id, ok) : id \in CommandId, ok \in BOOLEAN}
          \cup {Exit(e) : e \in Outcome}

Pending(id) == id # None /\ verdict[id] = "pending"

-----------------------------------------------------------------------------
(* _fail_command, _complete_command, _fail_all_pending: an identifier      *)
(* leaves the pending set with one verdict.  A completion of an autostart  *)
(* command is a failure when the diagnostic journal cannot record it.      *)

FailCommand(v, id, code) ==
  [i \in CommandId |-> IF i = id /\ v[i] = "pending" THEN code ELSE v[i]]

CompleteCommand(v, id, journalOk) ==
  [i \in CommandId |->
     IF i = id /\ v[i] = "pending"
     THEN IF kind[i] = "autostart" /\ ~journalOk THEN "journal_failed"
                                                 ELSE "completed"
     ELSE v[i]]

\* Seeded fault: the sweep at thread exit forgets who is still pending.
FailAllPendingSweepsSettled(v, code) ==
  [i \in CommandId |-> IF v[i] = "unused" THEN v[i] ELSE code]

FailAllPending(v, code) ==
  [i \in CommandId |-> IF v[i] = "pending" THEN code ELSE v[i]]

\* _new_command_id: a fresh identifier.
Fresh(id) == verdict[id] = "unused"

\* The call allocates id for a command of kind k, and settles it at once or
\* leaves it pending.
Allocate(id, k, v) ==
  /\ Fresh(id)
  /\ kind' = [kind EXCEPT ![id] = k]
  /\ verdict' = [verdict EXCEPT ![id] = v]

-----------------------------------------------------------------------------
(* RuntimeThread.submit and request_shutdown, called by the GUI thread     *)
(* with _guard held throughout.                                            *)

SubmitAccepts == published /\ ready /\ accepting /\ ~closing

ShutdownRecorded == ~inFlight /\ ~published /\ ~closing
ShutdownEnqueued == ~inFlight /\ published /\ ready

\* Seeded fault: a shutdown overtakes the commands queued before it.
RequestShutdownOvertakes(id) ==
  \/ /\ ShutdownRecorded
     /\ startupShutdown' = id
     /\ inFlight' = TRUE /\ closing' = TRUE /\ accepting' = FALSE
     /\ UNCHANGED <<published, ready, queue>>
  \/ /\ ShutdownEnqueued
     /\ queue' = <<id>> \o queue
     /\ inFlight' = TRUE /\ closing' = TRUE /\ accepting' = FALSE
     /\ UNCHANGED <<published, ready, startupShutdown>>
  \/ /\ ~ShutdownRecorded /\ ~ShutdownEnqueued
     /\ UNCHANGED <<guarded, queue>>

RequestShutdown(id) ==
  \/ /\ ShutdownRecorded
     /\ startupShutdown' = id
     /\ inFlight' = TRUE /\ closing' = TRUE /\ accepting' = FALSE
     /\ UNCHANGED <<published, ready, queue>>
  \/ /\ ShutdownEnqueued
     /\ queue' = Append(queue, id)
     /\ inFlight' = TRUE /\ closing' = TRUE /\ accepting' = FALSE
     /\ UNCHANGED <<published, ready, startupShutdown>>
  \/ /\ ~ShutdownRecorded /\ ~ShutdownEnqueued
     /\ UNCHANGED <<guarded, queue>>

-----------------------------------------------------------------------------
(* GUI thread: public calls.                                               *)

StartRuntime(id) ==
  \/ /\ state # "new"
     /\ Allocate(id, "start", "runtime_already_started")
     /\ UNCHANGED <<state, startId, worker>>
  \/ /\ state = "new"
     /\ Allocate(id, "start", "pending")
     /\ state' = "starting" /\ startId' = id /\ worker' = "booting"
  \/ /\ state = "new"          \* QThread.start raises RuntimeError
     /\ Allocate(id, "start", "runtime_start_failed")
     /\ state' = "failed" /\ UNCHANGED <<startId, worker>>

StartRuntimeCall(id) ==
  /\ StartRuntime(id)
  /\ UNCHANGED <<shutdownId, exitSeen, guarded, queue, active, exit, signals,
                 history>>

\* _submit: why the bridge refuses a command without asking the thread.
Refusal ==
  CASE state = "closing"             -> "runtime_closing"
    [] state \in {"closed", "failed"} -> "runtime_closed"
    [] OTHER                          -> "runtime_not_ready"

\* Every command method: local validation, the state check of _submit, the
\* journal entry of an autostart command, then RuntimeThread.submit.
Submit(id, k) ==
  /\ \/ /\ k # "autostart"
        /\ Allocate(id, k, "invalid_command")
        /\ UNCHANGED <<queue, accepted>>
     \/ /\ state # "ready"
        /\ Allocate(id, k, Refusal)
        /\ UNCHANGED <<queue, accepted>>
     \/ /\ state = "ready" /\ k = "autostart"
        /\ Allocate(id, k, "journal_failed")
        /\ UNCHANGED <<queue, accepted>>
     \/ /\ state = "ready" /\ ~SubmitAccepts
        /\ Allocate(id, k, "runtime_not_ready")
        /\ UNCHANGED <<queue, accepted>>
     \/ /\ state = "ready" /\ SubmitAccepts
        /\ Allocate(id, k, "pending")
        /\ queue' = Append(queue, id)
        /\ accepted' = accepted \cup {id}
  /\ UNCHANGED <<state, startId, shutdownId, exitSeen, guarded, worker, active,
                 exit, signals, executed>>

ShutdownSettled ==
  CASE state \in {"new", "closed"} -> "completed"
    [] state = "failed"            -> "runtime_failed"
    [] OTHER                       -> "shutdown_in_progress"

\* shutdown(): the result of request_shutdown is not looked at.
Shutdown(id) ==
  \/ /\ state \in {"new", "closed", "failed"} \/ shutdownId # None
     /\ Allocate(id, "shutdown", ShutdownSettled)
     /\ state' = IF state = "new" THEN "closed" ELSE state
     /\ UNCHANGED <<shutdownId, guarded, queue>>
  \/ /\ state \in {"starting", "ready", "closing"} /\ shutdownId = None
     /\ Allocate(id, "shutdown", "pending")
     /\ state' = "closing" /\ shutdownId' = id
     /\ RequestShutdown(id)

ShutdownCall(id) ==
  /\ Shutdown(id)
  /\ UNCHANGED <<startId, exitSeen, worker, active, exit, signals, history>>

-----------------------------------------------------------------------------
(* GUI thread: the slots behind queued connections.                        *)

Deliver(type) ==
  /\ signals # <<>>
  /\ Head(signals).type = type
  /\ signals' = Tail(signals)
  /\ UNCHANGED <<guarded, worker, queue, active, exit, history, kind>>

OnWorkerReady ==
  /\ Deliver("ready")
  /\ \/ /\ state = "starting"
        /\ state' = "ready"
        /\ verdict' = CompleteCommand(verdict, startId, TRUE)
        /\ startId' = None
     \/ /\ state # "starting"
        /\ UNCHANGED <<state, verdict, startId>>
  /\ UNCHANGED <<shutdownId, exitSeen>>

OnCommandResult ==
  /\ Deliver("result")
  /\ LET r == Head(signals) IN
       \/ /\ r.ok
          /\ \E journalOk \in BOOLEAN :
               verdict' = CompleteCommand(verdict, r.id, journalOk)
          /\ UNCHANGED shutdownId
       \/ /\ ~r.ok
          /\ verdict' = FailCommand(verdict, r.id, "command_error")
          /\ shutdownId' = IF Pending(r.id) /\ r.id = shutdownId
                           THEN None ELSE shutdownId
  /\ UNCHANGED <<state, startId, exitSeen>>

\* _relay_provider_settings and _relay_autostart_state forward the payload
\* of a command that is still pending and drop any other.
OnData ==
  /\ Deliver("data")
  /\ UNCHANGED <<state, startId, shutdownId, verdict, exitSeen>>

OnShutdownOutcome ==
  /\ Deliver("outcome")
  /\ exitSeen' = Head(signals).outcome
  /\ UNCHANGED <<state, startId, shutdownId, verdict>>

\* Seeded fault: a clean exit settles only the start and the shutdown.
FinishCleanExitSkipsSweep(v, e) ==
  CompleteCommand(CompleteCommand(v, startId, TRUE), e.id, TRUE)

\* What _on_thread_finished does to the pending set for a known outcome.
Finish(v, e) ==
  IF e.code = "runtime_bootstrap_failed" THEN FailAllPending(v, e.code)
  ELSE LET started == CompleteCommand(v, startId, TRUE) IN
       IF e.ok
       THEN FailAllPending(CompleteCommand(started, e.id, TRUE),
                           "runtime_closed")
       ELSE FailAllPending(FailCommand(started, e.id, e.code),
                           IF e.code \in CancelCodes
                           THEN "runtime_thread_cancelled"
                           ELSE "runtime_thread_stopped_unexpectedly")

OnThreadFinished ==
  /\ Deliver("finished")
  /\ exitSeen' = NoExit
  /\ startId' = None /\ shutdownId' = None
  /\ \/ /\ exitSeen = NoExit    \* the outcome signal never arrived
        /\ state' = "failed"
        /\ verdict' = FailAllPending(verdict,
                                     "runtime_thread_stopped_unexpectedly")
     \/ /\ exitSeen # NoExit
        /\ state' = IF exitSeen.ok THEN "closed" ELSE "failed"
        /\ verdict' = Finish(verdict, exitSeen)

-----------------------------------------------------------------------------
(* Worker thread.                                                          *)

\* The composition root returns: publish loop and queue under _guard, then
\* either announce readiness or execute the shutdown recorded meanwhile.
Boot ==
  /\ worker = "booting"
  /\ published' = TRUE /\ ready' = TRUE
  /\ startupShutdown' = None
  /\ UNCHANGED <<closing, inFlight, queue, exit, accepted, gui>>
  /\ \/ /\ startupShutdown = None
        /\ accepting' = (IF closing THEN accepting ELSE TRUE)
        /\ signals' = Append(signals, Ready)
        /\ worker' = "serving"
        /\ UNCHANGED <<active, executed>>
     \/ /\ startupShutdown # None
        /\ active' = startupShutdown
        /\ executed' = executed \cup {startupShutdown}
        /\ worker' = "executing"
        /\ UNCHANGED <<accepting, signals>>

\* The composition root raises, is cancelled, or there is no event loop.
BootFails ==
  /\ worker = "booting"
  /\ \E code \in {"runtime_bootstrap_failed", "runtime_thread_cancelled",
                  "runtime_thread_boundary_failed"} :
       exit' = [id |-> None, ok |-> FALSE, code |-> code]
  /\ worker' = "unwinding"
  /\ UNCHANGED <<gui, guarded, queue, active, signals, history>>

\* Seeded fault: the dispatcher does not note what it is executing.
DequeueForgetsActive ==
  /\ worker = "serving" /\ queue # <<>>
  /\ queue' = Tail(queue)
  /\ executed' = executed \cup {Head(queue)}
  /\ worker' = "executing"
  /\ UNCHANGED <<gui, guarded, active, exit, signals, accepted>>

\* Seeded fault: the dispatcher takes nothing any more once a shutdown is asked for.
DequeueUntilShutdown ==
  /\ worker = "serving" /\ queue # <<>> /\ ~closing
  /\ active' = Head(queue)
  /\ queue' = Tail(queue)
  /\ executed' = executed \cup {Head(queue)}
  /\ worker' = "executing"
  /\ UNCHANGED <<gui, guarded, exit, signals, accepted>>

\* _dispatch_commands takes the next command.
Dequeue ==
  /\ worker = "serving" /\ queue # <<>>
  /\ active' = Head(queue)
  /\ queue' = Tail(queue)
  /\ executed' = executed \cup {Head(queue)}
  /\ worker' = "executing"
  /\ UNCHANGED <<gui, guarded, exit, signals, accepted>>

\* An ordinary command ends.  A settings command that succeeds and an
\* autostart command that got as far as its service publish a payload first.
Replies(id) ==
  {<<Result(id, FALSE)>>}
  \cup (IF kind[id] = "plain" THEN {<<Result(id, TRUE)>>}
        ELSE {<<Data(id), Result(id, TRUE)>>})
  \cup (IF kind[id] = "autostart" THEN {<<Data(id), Result(id, FALSE)>>}
        ELSE {})

CommandEnds ==
  /\ worker = "executing" /\ kind[active] \in Ordinary
  /\ \E reply \in Replies(active) : signals' = signals \o reply
  /\ active' = None
  /\ worker' = "serving"
  /\ UNCHANGED <<gui, guarded, queue, exit, history>>

\* The dispatcher's own _stop_accepting is folded into StopAccepting: until
\* then inFlight and closing already refuse every call that would look at ready.
ShutdownSucceeds ==
  /\ worker = "executing" /\ kind[active] = "shutdown"
  /\ exit' = [id |-> active, ok |-> TRUE, code |-> "none"]
  /\ active' = None
  /\ worker' = "unwinding"
  /\ UNCHANGED <<gui, guarded, queue, signals, history>>

\* The failure is reported first; _allow_shutdown_retry is a later, separate
\* guarded section.
ShutdownFails ==
  /\ worker = "executing" /\ kind[active] = "shutdown"
  /\ signals' = Append(signals, Result(active, FALSE))
  /\ worker' = "retrying"
  /\ UNCHANGED <<gui, guarded, queue, active, exit, history>>

AllowShutdownRetry ==
  /\ worker = "retrying"
  /\ inFlight' = FALSE /\ closing' = TRUE /\ accepting' = FALSE
  /\ active' = None
  /\ worker' = "serving"
  /\ UNCHANGED <<gui, published, ready, startupShutdown, queue, exit, signals,
                 history>>

\* CancelledError leaves the dispatcher: _cancelled_exit_outcome.
CommandCancelled ==
  /\ worker = "executing"
  /\ exit' = [id |-> active, ok |-> FALSE,
              code |-> IF kind[active] = "shutdown"
                       THEN "runtime_shutdown_cancelled"
                       ELSE "runtime_command_cancelled"]
  /\ worker' = "unwinding"
  /\ UNCHANGED <<gui, guarded, queue, active, signals, history>>

\* Any other BaseException leaves the dispatcher.
DispatcherCrashes ==
  /\ worker = "executing"
  /\ exit' = [id |-> None, ok |-> FALSE, code |-> "runtime_thread_failed"]
  /\ worker' = "unwinding"
  /\ UNCHANGED <<gui, guarded, queue, active, signals, history>>

\* _stop_accepting, after _attempt_controller_cleanup where that is due.
StopAccepting ==
  /\ worker = "unwinding"
  /\ ready' = FALSE /\ accepting' = FALSE /\ closing' = TRUE /\ inFlight' = TRUE
  /\ worker' = "finalizing"
  /\ UNCHANGED <<gui, published, startupShutdown, queue, active, exit, signals,
                 history>>

\* _finalize_event_loop: a cleanup failure turns success into failure; the
\* loop and queue references are dropped; the outcome is emitted, then Qt
\* emits finished.  An emission that raises is swallowed.  Where the event loop
\* itself could not be made there is nothing to finalize and a recorded
\* shutdown stays recorded.
FinalizeEventLoop ==
  /\ worker = "finalizing"
  /\ published' = FALSE
  /\ startupShutdown' \in {None} \cup (IF exit.code = BoundaryFailed
                                      THEN {startupShutdown} ELSE {})
  /\ queue' = <<>> /\ active' = None
  /\ \/ exit' = exit
     \/ exit.ok /\ exit' = [exit EXCEPT !.ok = FALSE,
                                        !.code = "runtime_cleanup_failed"]
  /\ signals' \in {signals \o <<Exit(exit'), Finished>>,
                   Append(signals, Finished)}
  /\ worker' = "exited"
  /\ UNCHANGED <<gui, ready, accepting, closing, inFlight, history>>

-----------------------------------------------------------------------------

Init ==
  /\ state = "new" /\ startId = None /\ shutdownId = None
  /\ kind = [id \in CommandId |-> "none"]
  /\ verdict = [id \in CommandId |-> "unused"]
  /\ exitSeen = NoExit
  /\ published = FALSE /\ ready = FALSE /\ accepting = FALSE
  /\ closing = FALSE /\ inFlight = FALSE /\ startupShutdown = None
  /\ worker = "unstarted" /\ queue = <<>> /\ active = None /\ exit = NoExit
  /\ signals = <<>>
  /\ accepted = {} /\ executed = {}

Call ==
  \E id \in CommandId :
    \/ StartRuntimeCall(id)
    \/ ShutdownCall(id)
    \/ \E k \in Ordinary : Submit(id, k)

Slot ==
  \/ OnWorkerReady
  \/ OnCommandResult
  \/ OnData
  \/ OnShutdownOutcome
  \/ OnThreadFinished

WorkerStep ==
  \/ Boot
  \/ BootFails
  \/ Dequeue
  \/ CommandEnds
  \/ ShutdownSucceeds
  \/ ShutdownFails
  \/ AllowShutdownRetry
  \/ CommandCancelled
  \/ DispatcherCrashes
  \/ StopAccepting
  \/ FinalizeEventLoop

Next == Call \/ Slot \/ WorkerStep

Spec == Init /\ [][Next]_vars

\* The Qt event loop keeps delivering queued signals, and the worker keeps
\* running: every command body and every resource close returns.  Nobody has
\* to call the bridge.
Fairness == WF_vars(Slot) /\ WF_vars(WorkerStep)

FairSpec == Spec /\ Fairness

-----------------------------------------------------------------------------
(* Properties.                                                             *)

Occurs(msg) == \E i \in DOMAIN signals : signals[i] = msg

Queued(id) == \E i \in DOMAIN queue : queue[i] = id

GuiOK ==
  /\ state \in States
  /\ startId \in CommandId \cup {None} /\ shutdownId \in CommandId \cup {None}
  /\ kind \in [CommandId -> Kinds]
  /\ verdict \in [CommandId -> Verdicts]
  /\ exitSeen \in Outcome

GuardedOK ==
  /\ published \in BOOLEAN /\ ready \in BOOLEAN /\ accepting \in BOOLEAN
  /\ closing \in BOOLEAN /\ inFlight \in BOOLEAN

WorkerOK ==
  /\ startupShutdown \in CommandId \cup {None}
  /\ worker \in Workers
  /\ queue \in Seq(CommandId)
  /\ active \in CommandId \cup {None}
  /\ worker \in {"executing", "retrying"} => active \in CommandId
  /\ exit \in Outcome
  /\ signals \in Seq(Signal)
  /\ accepted \subseteq CommandId /\ executed \subseteq CommandId

TypeOK == GuiOK /\ GuardedOK /\ WorkerOK

\* Once the bridge is closed or failed, by whatever road the worker left, no
\* command is still pending: _on_thread_finished settles the start, the
\* shutdown and everything submitted meanwhile before the state is terminal.
NothingPendingAtTheEnd ==
  state \in {"closed", "failed"} => \A id \in CommandId : ~Pending(id)

\* A pending ordinary command is never lost between the threads: it is queued,
\* being executed, answered by a signal on its way, or the worker is on its
\* way out and the finished signal, which settles everything, is still to come.
PendingCommandIsOwned ==
  \A id \in CommandId :
    Pending(id) /\ kind[id] \in Ordinary =>
      \/ Queued(id)
      \/ id = active
      \/ \E ok \in BOOLEAN : Occurs(Result(id, ok))
      \/ worker \in {"unwinding", "finalizing"}
      \/ Occurs(Finished)

\* A clean close loses nothing: the shutdown command travels behind the
\* commands submit() accepted before it, so the dispatcher has started each
\* of them when the bridge reports "closed".
CleanCloseDrains ==
  state = "closed" => accepted \subseteq executed

\* The worker holds at most one shutdown command, recorded, queued or being
\* executed, also while a failed one is being handed back for a retry:
\* otherwise _allow_shutdown_retry would clear the flag of the next one.
OneShutdownInTheWorker ==
  /\ \A i, j \in DOMAIN queue :
       kind[queue[i]] = "shutdown" /\ kind[queue[j]] = "shutdown" => i = j
  /\ active # None /\ kind[active] = "shutdown" =>
       \A i \in DOMAIN queue : kind[queue[i]] # "shutdown"
  /\ startupShutdown # None =>
       /\ \A i \in DOMAIN queue : kind[queue[i]] # "shutdown"
       /\ active = None

\* A settings or autostart payload reaches the GUI while its command is still
\* pending, so _relay_provider_settings and _relay_autostart_state never drop
\* the payload of a command that succeeded.
PayloadBeforeResult ==
  \A i \in DOMAIN signals :
    signals[i].type = "data" => Pending(signals[i].id)

\* Between its acceptance and its terminal signal every command is accounted
\* for: owned by one side, drained by a clean close, a single shutdown in the
\* worker, and no payload after its result.
CommandsAreAccounted ==
  /\ PendingCommandIsOwned /\ CleanCloseDrains
  /\ OneShutdownInTheWorker /\ PayloadBeforeResult

\* A command leaves the pending set exactly once: no later result, outcome or
\* exit sweep gives it a second terminal signal, and no identifier returns.
SettledOnce ==
  [][\A id \in CommandId :
       verdict[id] \notin {"unused", "pending"} => verdict'[id] = verdict[id]]_vars

\* Every command the bridge took for the runtime is settled in the end,
\* whatever shutdown, cancellation or crash it meets on the way.
OrdinarySettles ==
  \A id \in CommandId :
    (Pending(id) /\ kind[id] \in Ordinary) ~> ~Pending(id)

\* The same for a shutdown command: docs/architecture/qt_runtime.md says that
\* a command leaves the pending set exactly once and that a failed shutdown
\* can be retried.
ShutdownSettles ==
  \A id \in CommandId :
    (Pending(id) /\ kind[id] = "shutdown") ~> ~Pending(id)
=============================================================================
