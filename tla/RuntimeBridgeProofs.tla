------------------------- MODULE RuntimeBridgeProofs -------------------------
(***************************************************************************)
(* Proofs about RuntimeBridge, for every set of command identifiers.       *)
(***************************************************************************)
EXTENDS RuntimeBridge, SequenceTheorems, TLAPS

-----------------------------------------------------------------------------
(* Lemmas about the operators of the model.                                *)

\* A signal of a type carries the payload of that type.
LEMMA SignalPayload ==
  ASSUME NEW m \in Signal
  PROVE  /\ m.type = "outcome" => m.outcome \in Outcome
         /\ m.type \in {"result", "data"} => m.id \in CommandId
BY DEF Signal, Ready, Finished, Data, Result, Exit

\* Every message a step can emit is a signal.
LEMMA SignalTypes ==
  /\ Ready \in Signal /\ Finished \in Signal
  /\ \A id \in CommandId : Data(id) \in Signal
  /\ \A id \in CommandId, ok \in BOOLEAN : Result(id, ok) \in Signal
  /\ \A e \in Outcome : Exit(e) \in Signal
BY DEF Signal

\* What the operators on sequences return.
LEMMA SeqTypes ==
  ASSUME NEW S
  PROVE  /\ \A s \in Seq(S), x \in S : Append(s, x) \in Seq(S)
         /\ \A s, t \in Seq(S) : s \o t \in Seq(S)
         /\ \A x \in S : <<x>> \in Seq(S)
         /\ \A x, y \in S : <<x, y>> \in Seq(S)
<1>1. \A s \in Seq(S), x \in S : Append(s, x) \in Seq(S)
  OBVIOUS
<1>2. \A s, t \in Seq(S) : s \o t \in Seq(S)
  OBVIOUS
<1>3. \A x \in S : <<x>> \in Seq(S)
  OBVIOUS
<1>4. \A x, y \in S : <<x, y>> \in Seq(S)
  OBVIOUS
<1> QED BY <1>1, <1>2, <1>3, <1>4

\* The settling operators keep the type of the verdicts and settle with
\* whatever code they are given.
LEMMA SettlingTypes ==
  ASSUME NEW v \in [CommandId -> Verdicts], NEW id, NEW code \in Verdicts,
         NEW ok \in BOOLEAN
  PROVE  /\ FailCommand(v, id, code) \in [CommandId -> Verdicts]
         /\ CompleteCommand(v, id, ok) \in [CommandId -> Verdicts]
         /\ FailAllPending(v, code) \in [CommandId -> Verdicts]
BY DEF FailCommand, CompleteCommand, FailAllPending, Verdicts, BridgeCodes

\* Settling one command or all of them changes pending verdicts only.
LEMMA SettlingKeepsSettled ==
  ASSUME NEW v \in [CommandId -> Verdicts], NEW id, NEW code, NEW ok \in BOOLEAN,
         NEW i \in CommandId, v[i] # "pending"
  PROVE  /\ FailCommand(v, id, code)[i] = v[i]
         /\ CompleteCommand(v, id, ok)[i] = v[i]
         /\ FailAllPending(v, code)[i] = v[i]
BY DEF FailCommand, CompleteCommand, FailAllPending

\* The verdicts after the finished signal.
LEMMA FinishTypes ==
  ASSUME NEW v \in [CommandId -> Verdicts], NEW e \in Outcome
  PROVE  Finish(v, e) \in [CommandId -> Verdicts]
<1> DEFINE started == CompleteCommand(v, startId, TRUE)
<1>1. started \in [CommandId -> Verdicts]
  BY SettlingTypes DEF Verdicts
<1>2. e.code \in Verdicts
  BY DEF Outcome, Verdicts
<1>3. CompleteCommand(started, e.id, TRUE) \in [CommandId -> Verdicts]
  BY <1>1, SettlingTypes DEF Verdicts
<1>4. FailCommand(started, e.id, e.code) \in [CommandId -> Verdicts]
  BY <1>1, <1>2, SettlingTypes
<1>5. "runtime_closed" \in Verdicts /\ "runtime_thread_cancelled" \in Verdicts
      /\ "runtime_thread_stopped_unexpectedly" \in Verdicts
  BY DEF Verdicts, BridgeCodes, ExitCodes
<1> HIDE DEF started
<1>6. FailAllPending(CompleteCommand(started, e.id, TRUE), "runtime_closed")
        \in [CommandId -> Verdicts]
  BY <1>3, <1>5, SettlingTypes
<1>7. \A code \in {"runtime_thread_cancelled", "runtime_thread_stopped_unexpectedly"} :
        FailAllPending(FailCommand(started, e.id, e.code), code)
          \in [CommandId -> Verdicts]
  BY <1>4, <1>5, SettlingTypes
<1>8. FailAllPending(v, e.code) \in [CommandId -> Verdicts]
  BY <1>2, SettlingTypes
<1> QED BY <1>6, <1>7, <1>8 DEF Finish, started

\* The finished signal settles pending commands only.
LEMMA FinishKeepsSettled ==
  ASSUME NEW v \in [CommandId -> Verdicts], NEW e \in Outcome,
         NEW i \in CommandId, v[i] # "pending"
  PROVE  Finish(v, e)[i] = v[i]
<1> DEFINE started == CompleteCommand(v, startId, TRUE)
<1>1. started \in [CommandId -> Verdicts] /\ started[i] = v[i]
  BY SettlingTypes, SettlingKeepsSettled DEF Verdicts
<1>2. e.code \in Verdicts
  BY DEF Outcome, Verdicts
<1> HIDE DEF started
<1>3. /\ CompleteCommand(started, e.id, TRUE) \in [CommandId -> Verdicts]
      /\ CompleteCommand(started, e.id, TRUE)[i] = v[i]
  BY <1>1, SettlingTypes, SettlingKeepsSettled DEF Verdicts
<1>4. FailCommand(started, e.id, e.code) \in [CommandId -> Verdicts]
  BY <1>1, <1>2, SettlingTypes
<1>4a. FailCommand(started, e.id, e.code)[i] = v[i]
  BY <1>1 DEF FailCommand
<1>5. \A code : FailAllPending(CompleteCommand(started, e.id, TRUE), code)[i] = v[i]
  BY <1>3, SettlingKeepsSettled
<1>6. \A code : FailAllPending(FailCommand(started, e.id, e.code), code)[i] = v[i]
  BY <1>4, <1>4a, SettlingKeepsSettled
<1>7. FailAllPending(v, e.code)[i] = v[i]
  BY SettlingKeepsSettled
<1> QED BY <1>5, <1>6, <1>7 DEF Finish, started

\* The sweep at thread exit leaves nothing pending.
LEMMA SweepSettlesAll ==
  ASSUME NEW v, NEW code, code # "pending", NEW i \in CommandId
  PROVE  FailAllPending(v, code)[i] # "pending"
BY DEF FailAllPending

\* It leaves none of them pending.
LEMMA FinishSettlesAll ==
  ASSUME NEW v, NEW e \in Outcome, NEW i \in CommandId
  PROVE  Finish(v, e)[i] # "pending"
<1>1. e.code # "pending"
  BY DEF Outcome, ExitCodes
<1> QED BY <1>1, SweepSettlesAll DEF Finish

-----------------------------------------------------------------------------
(* Type correctness.  Each third of TypeOK is preserved on its own: the    *)
(* bridge's fields, the guarded Booleans and the worker's fields.          *)

\* The outcomes of run() that occur.
LEMMA OutcomeTypes ==
  /\ NoExit \in Outcome
  /\ \A id \in CommandId \cup {None}, ok \in BOOLEAN, code \in ExitCodes :
       [id |-> id, ok |-> ok, code |-> code] \in Outcome
BY DEF NoExit, Outcome, ExitCodes

\* A new bridge has its types.
LEMMA TypeInit == Init => TypeOK
<1> SUFFICES ASSUME Init PROVE TypeOK
  OBVIOUS
<1>1. GuiOK
  BY OutcomeTypes DEF Init, GuiOK, States, Kinds, Verdicts
<1>2. GuardedOK
  BY Zenon DEF Init, GuardedOK
<1>3. WorkerOK
  BY OutcomeTypes DEF Init, WorkerOK, Workers
<1> QED BY <1>1, <1>2, <1>3 DEF TypeOK

\* What the lock guards keeps its shape.
LEMMA GuardedStep == GuardedOK /\ [Next]_vars => GuardedOK'
<1> SUFFICES ASSUME GuardedOK, [Next]_vars PROVE GuardedOK'
  OBVIOUS
<1> USE DEF GuardedOK
<1>1. CASE UNCHANGED guarded
  BY <1>1, Zenon DEF guarded
<1>2. ASSUME NEW id \in CommandId, RequestShutdown(id) PROVE GuardedOK'
  BY <1>2, Zenon DEF RequestShutdown, guarded
<1>3. CASE Call
  <2>1. PICK id \in CommandId :
          StartRuntimeCall(id) \/ ShutdownCall(id) \/ \E k \in Ordinary : Submit(id, k)
    BY <1>3 DEF Call
  <2>2. CASE ShutdownCall(id)
    BY <1>1, <1>2, <2>2, Zenon DEF ShutdownCall, Shutdown, guarded
  <2>3. CASE StartRuntimeCall(id) \/ \E k \in Ordinary : Submit(id, k)
    BY <1>1, <2>3, Zenon DEF StartRuntimeCall, Submit, guarded
  <2> QED BY <2>1, <2>2, <2>3
<1>4. CASE Slot
  BY <1>1, <1>4, Zenon DEF Slot, OnWorkerReady, OnCommandResult, OnData,
     OnShutdownOutcome, OnThreadFinished, Deliver, guarded
<1>5. CASE Boot
  BY <1>5, Zenon DEF Boot
<1>6. CASE AllowShutdownRetry \/ StopAccepting \/ FinalizeEventLoop
  BY <1>6, Zenon DEF AllowShutdownRetry, StopAccepting, FinalizeEventLoop
<1>7. CASE BootFails \/ Dequeue \/ CommandEnds \/ ShutdownSucceeds \/ ShutdownFails
           \/ CommandCancelled \/ DispatcherCrashes
  BY <1>1, <1>7, Zenon DEF BootFails, Dequeue, CommandEnds, ShutdownSucceeds,
     ShutdownFails, CommandCancelled, DispatcherCrashes
<1>8. CASE UNCHANGED vars
  BY <1>1, <1>8, Zenon DEF vars
<1> QED BY <1>3, <1>4, <1>5, <1>6, <1>7, <1>8 DEF Next, WorkerStep

\* The fields of the GUI thread keep their types.
LEMMA GuiStep == TypeOK /\ [Next]_vars => GuiOK'
<1> SUFFICES ASSUME TypeOK, [Next]_vars PROVE GuiOK'
  OBVIOUS
<1> USE DEF GuiOK
<1>0. GuiOK /\ WorkerOK
  BY DEF TypeOK
<1>1. CASE UNCHANGED gui
  BY <1>0, <1>1 DEF gui
<1>2. ASSUME NEW id \in CommandId, NEW k \in Kinds, NEW v \in Verdicts,
             Allocate(id, k, v)
      PROVE  kind' \in [CommandId -> Kinds] /\ verdict' \in [CommandId -> Verdicts]
  BY <1>0, <1>2 DEF Allocate
<1>3. CASE Call
  <2>1. PICK id \in CommandId :
          StartRuntimeCall(id) \/ ShutdownCall(id) \/ \E k \in Ordinary : Submit(id, k)
    BY <1>3 DEF Call
  <2>2. CASE StartRuntimeCall(id)
    <3>1. PICK v \in Verdicts : Allocate(id, "start", v)
      BY <2>2 DEF StartRuntimeCall, StartRuntime, Verdicts, BridgeCodes
    <3>2. kind' \in [CommandId -> Kinds] /\ verdict' \in [CommandId -> Verdicts]
      BY <3>1, <1>2 DEF Kinds
    <3>3. state' \in States /\ startId' \in CommandId \cup {None}
      BY <1>0, <2>2 DEF StartRuntimeCall, StartRuntime, States
    <3> QED BY <1>0, <2>2, <3>2, <3>3 DEF StartRuntimeCall
  <2>3. CASE ShutdownCall(id)
    <3>1. PICK v \in Verdicts : Allocate(id, "shutdown", v)
      BY <2>3 DEF ShutdownCall, Shutdown, ShutdownSettled, Verdicts, BridgeCodes
    <3>2. kind' \in [CommandId -> Kinds] /\ verdict' \in [CommandId -> Verdicts]
      BY <3>1, <1>2 DEF Kinds
    <3>3. state' \in States /\ shutdownId' \in CommandId \cup {None}
      BY <1>0, <2>3 DEF ShutdownCall, Shutdown, States
    <3> QED BY <1>0, <2>3, <3>2, <3>3 DEF ShutdownCall
  <2>4. ASSUME NEW k \in Ordinary, Submit(id, k) PROVE GuiOK'
    <3>1. PICK v \in Verdicts : Allocate(id, k, v)
      BY <2>4 DEF Submit, Refusal, Verdicts, BridgeCodes
    <3>2. kind' \in [CommandId -> Kinds] /\ verdict' \in [CommandId -> Verdicts]
      BY <3>1, <1>2 DEF Kinds
    <3> QED BY <1>0, <2>4, <3>2 DEF Submit
  <2> QED BY <2>1, <2>2, <2>3, <2>4
<1>4. CASE OnWorkerReady
  <2>1. verdict' \in [CommandId -> Verdicts]
    <3>1. CompleteCommand(verdict, startId, TRUE) \in [CommandId -> Verdicts]
      BY <1>0, SettlingTypes DEF Verdicts
    <3> QED BY <1>0, <1>4, <3>1, Zenon DEF OnWorkerReady
  <2> QED BY <1>0, <1>4, <2>1 DEF OnWorkerReady, Deliver, States
<1>5. CASE OnCommandResult
  <2>1. verdict' \in [CommandId -> Verdicts]
    <3>1. "command_error" \in Verdicts
      BY DEF Verdicts
    <3>2. /\ \A id : \A ok \in BOOLEAN :
               CompleteCommand(verdict, id, ok) \in [CommandId -> Verdicts]
          /\ \A id : FailCommand(verdict, id, "command_error") \in [CommandId -> Verdicts]
      BY <1>0, <3>1, SettlingTypes
    <3>3. \/ \E ok \in BOOLEAN : verdict' = CompleteCommand(verdict, Head(signals).id, ok)
          \/ verdict' = FailCommand(verdict, Head(signals).id, "command_error")
      BY <1>5, Zenon DEF OnCommandResult
    <3> QED BY <3>2, <3>3, Zenon
  <2> QED BY <1>0, <1>5, <2>1 DEF OnCommandResult, Deliver
<1>6. CASE OnData
  BY <1>0, <1>6 DEF OnData, Deliver
<1>7. CASE OnShutdownOutcome
  <2>1. Head(signals) \in Signal /\ Head(signals).type = "outcome"
    BY <1>0, <1>7 DEF WorkerOK, OnShutdownOutcome, Deliver
  <2> QED BY <1>0, <1>7, <2>1, SignalPayload DEF OnShutdownOutcome, Deliver
<1>8. CASE OnThreadFinished
  <2>1. verdict' \in [CommandId -> Verdicts]
    <3>1. "runtime_thread_stopped_unexpectedly" \in Verdicts
      BY DEF Verdicts
    <3>2. FailAllPending(verdict, "runtime_thread_stopped_unexpectedly")
            \in [CommandId -> Verdicts]
      BY <1>0, <3>1, SettlingTypes
    <3>3. Finish(verdict, exitSeen) \in [CommandId -> Verdicts]
      BY <1>0, FinishTypes
    <3> QED BY <1>8, <3>2, <3>3, Zenon DEF OnThreadFinished
  <2> QED BY <1>0, <1>8, <2>1, OutcomeTypes DEF OnThreadFinished, Deliver, States
<1>9. CASE WorkerStep
  BY <1>1, <1>9, Zenon DEF WorkerStep, Boot, BootFails, Dequeue, CommandEnds,
     ShutdownSucceeds, ShutdownFails, AllowShutdownRetry, CommandCancelled,
     DispatcherCrashes, StopAccepting, FinalizeEventLoop
<1>10. CASE UNCHANGED vars
  BY <1>1, <1>10, Zenon DEF vars
<1> QED BY <1>3, <1>4, <1>5, <1>6, <1>7, <1>8, <1>9, <1>10 DEF Next, Slot

\* The fields of the worker keep their types.
LEMMA WorkerTypeStep == TypeOK /\ [Next]_vars => WorkerOK'
<1> SUFFICES ASSUME TypeOK, [Next]_vars PROVE WorkerOK'
  OBVIOUS
<1> USE DEF WorkerOK
<1>0. WorkerOK /\ kind \in [CommandId -> Kinds]
  BY DEF TypeOK, GuiOK
<1>1. CASE UNCHANGED <<startupShutdown, worker, queue, active, exit, signals, history>>
  BY <1>0, <1>1 DEF history
<1>2. CASE Call
  <2>1. PICK id \in CommandId :
          StartRuntimeCall(id) \/ ShutdownCall(id) \/ \E k \in Ordinary : Submit(id, k)
    BY <1>2 DEF Call
  <2>2. CASE StartRuntimeCall(id)
    BY <1>0, <2>2 DEF StartRuntimeCall, StartRuntime, guarded, history, Workers
  <2>3. CASE ShutdownCall(id)
    <3>1. /\ startupShutdown' \in CommandId \cup {None}
          /\ queue' \in Seq(CommandId)
      <4>1. Append(queue, id) \in Seq(CommandId)
        BY <1>0, SeqTypes, Zenon
      <4> QED BY <1>0, <2>3, <4>1, Zenon DEF ShutdownCall, Shutdown, RequestShutdown,
              guarded
    <3> QED BY <1>0, <2>3, <3>1 DEF ShutdownCall, history
  <2>4. ASSUME NEW k \in Ordinary, Submit(id, k) PROVE WorkerOK'
    <3>1. queue' \in Seq(CommandId) /\ accepted' \subseteq CommandId
      <4>1. Append(queue, id) \in Seq(CommandId)
        BY <1>0, SeqTypes, Zenon
      <4> QED BY <1>0, <2>4, <4>1, Zenon DEF Submit
    <3> QED BY <1>0, <2>4, <3>1 DEF Submit, guarded
  <2> QED BY <2>1, <2>2, <2>3, <2>4
<1>3. CASE Slot
  <2>1. \E type : Deliver(type)
    BY <1>3 DEF Slot, OnWorkerReady, OnCommandResult, OnData, OnShutdownOutcome,
       OnThreadFinished
  <2>2. signals' \in Seq(Signal)
    BY <1>0, <2>1 DEF Deliver
  <2> QED BY <1>0, <2>1, <2>2 DEF Deliver, guarded, history
<1>4. CASE Boot
  <2>1. signals' \in Seq(Signal)
    <3>1. Append(signals, Ready) \in Seq(Signal)
      BY <1>0, SignalTypes, SeqTypes, Zenon
    <3> QED BY <1>0, <1>4, <3>1, Zenon DEF Boot
  <2>2. /\ active' \in CommandId \cup {None} /\ executed' \subseteq CommandId
        /\ worker' = "executing" => active' \in CommandId
        /\ worker' \in {"serving", "executing"}
    BY <1>0, <1>4, NoneAssumption DEF Boot
  <2> QED BY <1>0, <1>4, <2>1, <2>2 DEF Boot, Workers
<1>5. CASE BootFails
  <2>1. exit' \in Outcome
    BY <1>5, OutcomeTypes DEF BootFails, ExitCodes
  <2> QED BY <1>0, <1>5, <2>1 DEF BootFails, guarded, history, Workers
<1>6. CASE Dequeue
  <2>1. Head(queue) \in CommandId /\ Tail(queue) \in Seq(CommandId)
    BY <1>0, <1>6 DEF Dequeue
  <2> QED BY <1>0, <1>6, <2>1 DEF Dequeue, guarded, Workers
<1>7. CASE CommandEnds
  <2>1. active \in CommandId
    BY <1>0, <1>7 DEF CommandEnds
  <2>2. Replies(active) \subseteq Seq(Signal)
    <3>1. /\ Data(active) \in Signal /\ Result(active, TRUE) \in Signal
          /\ Result(active, FALSE) \in Signal
      BY <2>1, SignalTypes
    <3>2. /\ <<Result(active, TRUE)>> \in Seq(Signal)
          /\ <<Result(active, FALSE)>> \in Seq(Signal)
          /\ <<Data(active), Result(active, TRUE)>> \in Seq(Signal)
          /\ <<Data(active), Result(active, FALSE)>> \in Seq(Signal)
      BY <3>1, SeqTypes, Zenon
    <3> QED BY <3>2, Zenon DEF Replies
  <2>3. signals' \in Seq(Signal)
    BY <1>0, <1>7, <2>2 DEF CommandEnds
  <2> QED BY <1>0, <1>7, <2>3 DEF CommandEnds, guarded, history, Workers
<1>8. CASE ShutdownSucceeds
  <2>1. exit' \in Outcome
    BY <1>0, <1>8, OutcomeTypes DEF ShutdownSucceeds, ExitCodes
  <2> QED BY <1>0, <1>8, <2>1 DEF ShutdownSucceeds, guarded, history, Workers
<1>9. CASE ShutdownFails
  <2>1. active \in CommandId
    BY <1>0, <1>9 DEF ShutdownFails
  <2>2. signals' \in Seq(Signal)
    <3>1. Result(active, FALSE) \in Signal
      BY <2>1, SignalTypes
    <3>2. Append(signals, Result(active, FALSE)) \in Seq(Signal)
      BY <1>0, <3>1, SeqTypes, Zenon
    <3> QED BY <1>9, <3>2 DEF ShutdownFails
  <2> QED BY <1>0, <1>9, <2>1, <2>2 DEF ShutdownFails, guarded, history, Workers
<1>10. CASE AllowShutdownRetry
  BY <1>0, <1>10 DEF AllowShutdownRetry, history, Workers
<1>11. CASE CommandCancelled
  <2>1. exit' \in Outcome
    BY <1>0, <1>11, OutcomeTypes DEF CommandCancelled, ExitCodes
  <2> QED BY <1>0, <1>11, <2>1 DEF CommandCancelled, guarded, history, Workers
<1>12. CASE DispatcherCrashes
  <2>1. exit' \in Outcome
    BY <1>12, OutcomeTypes DEF DispatcherCrashes, ExitCodes
  <2> QED BY <1>0, <1>12, <2>1 DEF DispatcherCrashes, guarded, history, Workers
<1>13. CASE StopAccepting
  BY <1>0, <1>13 DEF StopAccepting, history, Workers
<1>14. CASE FinalizeEventLoop
  <2>1. exit' \in Outcome
    BY <1>0, <1>14 DEF FinalizeEventLoop, Outcome, ExitCodes
  <2>2. signals' \in Seq(Signal)
    <3>1. Exit(exit') \in Signal /\ Finished \in Signal
      BY <2>1, SignalTypes
    <3>2. /\ signals \o <<Exit(exit'), Finished>> \in Seq(Signal)
          /\ Append(signals, Finished) \in Seq(Signal)
      BY <1>0, <3>1, SeqTypes, Zenon
    <3> QED BY <1>14, <3>2 DEF FinalizeEventLoop
  <2>3. startupShutdown' \in CommandId \cup {None}
    BY <1>0, <1>14 DEF FinalizeEventLoop
  <2> QED BY <1>0, <1>14, <2>1, <2>2, <2>3 DEF FinalizeEventLoop, history, Workers
<1>15. CASE UNCHANGED vars
  BY <1>1, <1>15 DEF vars, guarded
<1> QED BY <1>2, <1>3, <1>4, <1>5, <1>6, <1>7, <1>8, <1>9, <1>10, <1>11, <1>12,
           <1>13, <1>14, <1>15 DEF Next, WorkerStep

\* Every field of the bridge and of the thread keeps its type, and the
\* dispatcher has an active command whenever it executes one.
THEOREM TypeCorrect == Spec => []TypeOK
<1>1. Init => TypeOK
  BY TypeInit
<1>2. TypeOK /\ [Next]_vars => TypeOK'
  BY GuiStep, GuardedStep, WorkerTypeStep DEF TypeOK
<1> QED BY <1>1, <1>2, PTL DEF Spec

-----------------------------------------------------------------------------
(* The pending set at the end.  NothingPendingAtTheEnd is not inductive: a *)
(* shutdown of a bridge that never started closes it at once, so "new"     *)
(* must be as free of pending commands as the terminal states are.         *)

IdleStates == {"new", "closed", "failed"}

IdleHasNoPending ==
  state \in IdleStates => \A id \in CommandId : verdict[id] # "pending"

\* A call that allocates one identifier without leaving it pending adds
\* nothing to the pending set.
LEMMA AllocateSettled ==
  ASSUME GuiOK, NEW id \in CommandId, NEW k, NEW v, Allocate(id, k, v),
         v # "pending", \A i \in CommandId : verdict[i] # "pending"
  PROVE  \A i \in CommandId : verdict'[i] # "pending"
BY DEF Allocate, GuiOK

\* A bridge that is closed or failed accepts nothing, so nothing becomes pending in it.
LEMMA IdleStep == TypeOK /\ IdleHasNoPending /\ [Next]_vars => IdleHasNoPending'
<1> SUFFICES ASSUME TypeOK, IdleHasNoPending, [Next]_vars, state' \in IdleStates,
                    NEW i \in CommandId
             PROVE  verdict'[i] # "pending"
  BY DEF IdleHasNoPending
<1>0. GuiOK
  BY DEF TypeOK
<1>1. CASE UNCHANGED <<state, verdict>>
  BY <1>1 DEF IdleHasNoPending
<1>2. CASE Call
  <2>1. PICK id \in CommandId :
          StartRuntimeCall(id) \/ ShutdownCall(id) \/ \E k \in Ordinary : Submit(id, k)
    BY <1>2 DEF Call
  <2>2. CASE StartRuntimeCall(id)
    <3>1. state \in IdleStates
      BY <2>2 DEF StartRuntimeCall, StartRuntime, IdleStates
    <3>2. \E v : Allocate(id, "start", v) /\ v # "pending"
      BY <2>2 DEF StartRuntimeCall, StartRuntime, IdleStates
    <3> QED BY <1>0, <3>1, <3>2, AllocateSettled DEF IdleHasNoPending
  <2>3. CASE ShutdownCall(id)
    <3>1. state \in IdleStates
      BY <2>3 DEF ShutdownCall, Shutdown, IdleStates
    <3>2. \E v : Allocate(id, "shutdown", v) /\ v # "pending"
      BY <2>3 DEF ShutdownCall, Shutdown, ShutdownSettled, IdleStates
    <3> QED BY <1>0, <3>1, <3>2, AllocateSettled DEF IdleHasNoPending
  <2>4. ASSUME NEW k \in Ordinary, Submit(id, k) PROVE verdict'[i] # "pending"
    <3>1. state \in IdleStates
      BY <2>4 DEF Submit
    <3>2. \E v : Allocate(id, k, v) /\ v # "pending"
      BY <2>4, <3>1 DEF Submit, Refusal, IdleStates
    <3> QED BY <1>0, <3>1, <3>2, AllocateSettled DEF IdleHasNoPending
  <2> QED BY <2>1, <2>2, <2>3, <2>4
<1>3. CASE OnWorkerReady
  <2>1. UNCHANGED <<state, verdict>>
    BY <1>3 DEF OnWorkerReady, IdleStates
  <2> QED BY <1>1, <2>1
<1>4. CASE OnCommandResult
  <2>1. state \in IdleStates
    BY <1>4 DEF OnCommandResult
  <2>2. verdict[i] # "pending"
    BY <2>1 DEF IdleHasNoPending
  <2>3. \/ \E ok \in BOOLEAN : verdict' = CompleteCommand(verdict, Head(signals).id, ok)
        \/ verdict' = FailCommand(verdict, Head(signals).id, "command_error")
    BY <1>4, Zenon DEF OnCommandResult
  <2>4. verdict'[i] = verdict[i]
    BY <2>2, <2>3 DEF CompleteCommand, FailCommand
  <2> QED BY <2>2, <2>4
<1>5. CASE OnData \/ OnShutdownOutcome
  BY <1>1, <1>5 DEF OnData, OnShutdownOutcome
<1>6. CASE OnThreadFinished
  <2>1. \/ verdict' = FailAllPending(verdict, "runtime_thread_stopped_unexpectedly")
        \/ verdict' = Finish(verdict, exitSeen)
    BY <1>6, Zenon DEF OnThreadFinished
  <2>2. exitSeen \in Outcome
    BY <1>0 DEF GuiOK
  <2> QED BY <2>1, <2>2, SweepSettlesAll, FinishSettlesAll
<1>7. CASE WorkerStep
  <2>1. UNCHANGED gui
    BY <1>7, Zenon DEF WorkerStep, Boot, BootFails, Dequeue, CommandEnds,
       ShutdownSucceeds, ShutdownFails, AllowShutdownRetry, CommandCancelled,
       DispatcherCrashes, StopAccepting, FinalizeEventLoop
  <2> QED BY <1>1, <2>1 DEF gui
<1>8. CASE UNCHANGED vars
  BY <1>1, <1>8 DEF vars, gui
<1> QED BY <1>2, <1>3, <1>4, <1>5, <1>6, <1>7, <1>8 DEF Next, Slot

\* Whatever way the worker left, a bridge that reports "closed" or "failed"
\* has no pending command.
THEOREM NoPendingAtTheEnd == Spec => []NothingPendingAtTheEnd
<1>1. Init => IdleHasNoPending
  BY DEF Init, IdleHasNoPending
<1>2. IdleHasNoPending => NothingPendingAtTheEnd
  BY DEF IdleHasNoPending, NothingPendingAtTheEnd, IdleStates, Pending
<1> QED BY <1>1, <1>2, IdleStep, TypeCorrect, PTL DEF Spec

-----------------------------------------------------------------------------
(* Exactly one terminal signal.                                            *)

\* No step settles a command that is settled.
LEMMA SettledStep ==
  ASSUME TypeOK, [Next]_vars, NEW i \in CommandId,
         verdict[i] \notin {"unused", "pending"}
  PROVE  verdict'[i] = verdict[i]
<1>0. GuiOK
  BY DEF TypeOK
<1>1. ASSUME NEW id \in CommandId, NEW k, NEW v, Allocate(id, k, v)
      PROVE  verdict'[i] = verdict[i]
  BY <1>0, <1>1 DEF Allocate, Fresh, GuiOK
<1>2. CASE Call
  <2>1. PICK id \in CommandId :
          StartRuntimeCall(id) \/ ShutdownCall(id) \/ \E k \in Ordinary : Submit(id, k)
    BY <1>2 DEF Call
  <2>2. \E k, v : Allocate(id, k, v)
    BY <2>1, Zenon DEF StartRuntimeCall, StartRuntime, ShutdownCall, Shutdown, Submit
  <2> QED BY <1>1, <2>2
<1>3. CASE OnWorkerReady
  <2>1. \/ verdict' = CompleteCommand(verdict, startId, TRUE)
        \/ verdict' = verdict
    BY <1>3, Zenon DEF OnWorkerReady
  <2> QED BY <2>1 DEF CompleteCommand
<1>4. CASE OnCommandResult
  <2>1. \/ \E ok \in BOOLEAN : verdict' = CompleteCommand(verdict, Head(signals).id, ok)
        \/ verdict' = FailCommand(verdict, Head(signals).id, "command_error")
    BY <1>4, Zenon DEF OnCommandResult
  <2> QED BY <2>1 DEF CompleteCommand, FailCommand
<1>5. CASE OnData \/ OnShutdownOutcome
  BY <1>5 DEF OnData, OnShutdownOutcome
<1>6. CASE OnThreadFinished
  <2>1. \/ verdict' = FailAllPending(verdict, "runtime_thread_stopped_unexpectedly")
        \/ verdict' = Finish(verdict, exitSeen)
    BY <1>6, Zenon DEF OnThreadFinished
  <2>2. exitSeen \in Outcome /\ verdict \in [CommandId -> Verdicts]
    BY <1>0 DEF GuiOK
  <2>3. FailAllPending(verdict, "runtime_thread_stopped_unexpectedly")[i] = verdict[i]
    BY DEF FailAllPending
  <2>4. Finish(verdict, exitSeen)[i] = verdict[i]
    BY <2>2, FinishKeepsSettled
  <2> QED BY <2>1, <2>3, <2>4
<1>7. CASE WorkerStep
  <2>1. UNCHANGED gui
    BY <1>7, Zenon DEF WorkerStep, Boot, BootFails, Dequeue, CommandEnds,
       ShutdownSucceeds, ShutdownFails, AllowShutdownRetry, CommandCancelled,
       DispatcherCrashes, StopAccepting, FinalizeEventLoop
  <2> QED BY <2>1 DEF gui
<1>8. CASE UNCHANGED vars
  BY <1>8 DEF vars, gui
<1> QED BY <1>2, <1>3, <1>4, <1>5, <1>6, <1>7, <1>8 DEF Next, Slot

\* A command leaves the pending set once: no result, outcome or exit sweep
\* settles a settled command again, and no identifier is allocated twice.
THEOREM CommandsSettleOnce == Spec => SettledOnce
<1>1. TypeOK /\ [Next]_vars =>
        [\A id \in CommandId :
           verdict[id] \notin {"unused", "pending"} => verdict'[id] = verdict[id]]_vars
  BY SettledStep
<1> QED BY <1>1, TypeCorrect, PTL DEF Spec, SettledOnce

-----------------------------------------------------------------------------
(* Every command is accounted for.  CommandsAreAccounted is not inductive: *)
(* it rests on what each place of the worker implies for the guarded       *)
(* fields, on the shutdown being the last command of the queue, on an      *)
(* unanswered command being pending with no signal of its own on the way,  *)
(* and on the finished signal being the last one.                          *)

\* What each place of run() says about the fields both threads share.
Phases ==
  /\ state = "new" => worker = "unstarted" /\ accepted = {}
  /\ worker \in {"unstarted", "booting"} => ~published
  /\ ~published => ~ready /\ queue = <<>> /\ active = None
  /\ worker \in {"serving", "executing", "retrying"} =>
       published /\ ready /\ startupShutdown = None
  /\ worker = "serving" => active = None
  /\ worker = "retrying" => kind[active] = "shutdown"
  /\ worker \in {"finalizing", "exited"} => closing /\ inFlight /\ ~ready
  /\ worker = "exited" => ~published

\* A shutdown command that the worker holds is the only one, nothing is behind
\* it, and it keeps submissions and other shutdowns out.
Shutdowns ==
  /\ startId # None => kind[startId] = "start" /\ verdict[startId] # "unused"
  /\ startupShutdown # None =>
       /\ kind[startupShutdown] = "shutdown" /\ verdict[startupShutdown] # "unused"
       /\ ~published /\ ~ready /\ inFlight /\ closing
       /\ queue = <<>> /\ active = None
  /\ active # None =>
       /\ verdict[active] # "unused"
       /\ kind[active] = "shutdown" => inFlight /\ closing /\ queue = <<>>
  /\ \A i \in 1..Len(queue) :
       /\ verdict[queue[i]] # "unused"
       /\ kind[queue[i]] = "shutdown" => inFlight /\ closing /\ i = Len(queue)
       /\ kind[queue[i]] # "shutdown" => kind[queue[i]] \in Ordinary

\* A clean exit is recorded, on its way to the bridge, or seen by it.
CleanExitKnown ==
  \/ exit.ok \/ exitSeen.ok
  \/ \E i \in 1..Len(signals) : signals[i].type = "outcome" /\ signals[i].outcome.ok

\* Accepted commands are started or queued until the loop is finalized, and a
\* clean exit comes after all of them.
Drains ==
  /\ worker # "exited" => \A id \in accepted : id \in executed \/ Queued(id)
  /\ CleanExitKnown => closing /\ accepted \subseteq executed
  /\ CleanCloseDrains

\* Nothing follows the finished signal, and it is missing only until the worker
\* has left and after it was delivered.
FinishedIsLast ==
  /\ \A i \in 1..Len(signals) :
       signals[i].type = "finished" => i = Len(signals) /\ worker = "exited"
  /\ worker = "exited" => Occurs(Finished) \/ state \in {"closed", "failed"}

\* No signal on its way carries a payload or a result of id.
Untouched(id) ==
  \A i \in 1..Len(signals) :
    signals[i].type \in {"data", "result"} => signals[i].id # id

\* A command that has not been answered is pending and untouched.
QueueUnanswered ==
  /\ \A i, j \in 1..Len(queue) : queue[i] = queue[j] => i = j
  /\ \A i \in 1..Len(queue) :
       /\ queue[i] # active
       /\ kind[queue[i]] \in Ordinary => verdict[queue[i]] = "pending" /\ Untouched(queue[i])

ActiveUnanswered ==
  worker = "executing" /\ kind[active] \in Ordinary =>
    verdict[active] = "pending" /\ Untouched(active)

\* A payload travels before the result of its command.
PayloadsFirst ==
  /\ \A i, j \in 1..Len(signals) :
       i < j /\ signals[i].type = "result" /\ signals[j].type = "data" =>
         signals[i].id # signals[j].id
  /\ \A i \in 1..Len(signals) :
       /\ signals[i].type \in {"data", "result"} =>
            signals[i].id \in CommandId /\ verdict[signals[i].id] # "unused"
       /\ signals[i].type = "data" => /\ verdict[signals[i].id] = "pending"
                                      /\ kind[signals[i].id] \in Ordinary

Answers == QueueUnanswered /\ ActiveUnanswered /\ PayloadsFirst

AccountInv ==
  /\ Phases /\ Shutdowns /\ Drains /\ FinishedIsLast /\ Answers /\ PendingCommandIsOwned

-----------------------------------------------------------------------------
(* What the steps do, as facts the next proofs share.                      *)

\* What Append, a concatenation and Tail do to the indices of a sequence.
LEMMA AppendFacts ==
  ASSUME NEW S, NEW s \in Seq(S), NEW x \in S
  PROVE  /\ Append(s, x) \in Seq(S) /\ Len(s) \in Nat
         /\ Len(Append(s, x)) = Len(s) + 1
         /\ \A i \in 1..Len(s) : Append(s, x)[i] = s[i]
         /\ Append(s, x)[Len(s) + 1] = x
OBVIOUS

\* A concatenation with two signals, the payload of a command and its result.
LEMMA ConcatTwo ==
  ASSUME NEW S, NEW s \in Seq(S), NEW x \in S, NEW y \in S
  PROVE  /\ Len(s \o <<x, y>>) = Len(s) + 2 /\ Len(s) \in Nat
         /\ \A i \in 1..Len(s) : (s \o <<x, y>>)[i] = s[i]
         /\ (s \o <<x, y>>)[Len(s) + 1] = x /\ (s \o <<x, y>>)[Len(s) + 2] = y
OBVIOUS

\* A concatenation with one signal.
LEMMA ConcatOne ==
  ASSUME NEW S, NEW s \in Seq(S), NEW x \in S
  PROVE  /\ Len(s \o <<x>>) = Len(s) + 1 /\ Len(s) \in Nat
         /\ \A i \in 1..Len(s) : (s \o <<x>>)[i] = s[i]
         /\ (s \o <<x>>)[Len(s) + 1] = x
OBVIOUS

\* What taking the head of the queue or of the signals leaves.
LEMMA TailFacts ==
  ASSUME NEW S, NEW s \in Seq(S), s # <<>>
  PROVE  /\ Tail(s) \in Seq(S) /\ Len(s) \in Nat /\ Len(s) > 0
         /\ Len(Tail(s)) = Len(s) - 1
         /\ \A i \in 1..(Len(s) - 1) : Tail(s)[i] = s[i + 1]
         /\ Head(s) = s[1] /\ s[1] \in S
OBVIOUS

\* A queued slot takes the oldest signal and changes nothing of the worker.
LEMMA Delivered ==
  ASSUME TypeOK, NEW type, Deliver(type)
  PROVE  /\ Len(signals) \in Nat /\ Len(signals) > 0 /\ Len(signals') = Len(signals) - 1
         /\ \A i \in 1..Len(signals') : signals'[i] = signals[i + 1]
         /\ Head(signals) = signals[1] /\ signals[1].type = type /\ signals[1] \in Signal
         /\ UNCHANGED <<guarded, worker, queue, active, exit, history, kind>>
<1>1. signals \in Seq(Signal) /\ signals # <<>>
  BY DEF TypeOK, WorkerOK, Deliver
<1>2. signals' = Tail(signals) /\ Head(signals).type = type
  BY DEF Deliver
<1>3. UNCHANGED <<guarded, worker, queue, active, exit, history, kind>>
  BY DEF Deliver
<1> QED BY <1>1, <1>2, <1>3, TailFacts

\* A call allocates one fresh identifier and leaves the others alone.
LEMMA Allocated ==
  ASSUME GuiOK, NEW id \in CommandId, NEW k, NEW v, Allocate(id, k, v)
  PROVE  /\ verdict[id] = "unused" /\ verdict'[id] = v /\ kind'[id] = k
         /\ \A i \in CommandId : i # id => verdict'[i] = verdict[i] /\ kind'[i] = kind[i]
         /\ \A i \in CommandId :
              verdict[i] # "unused" => verdict'[i] = verdict[i] /\ kind'[i] = kind[i]
BY DEF Allocate, Fresh, GuiOK

\* A result settles the command it names and no other.
LEMMA ResultSettles ==
  ASSUME TypeOK, OnCommandResult
  PROVE  /\ signals[1].id \in CommandId
         /\ verdict'[signals[1].id] # "pending"
         /\ \A i \in CommandId : i # signals[1].id => verdict'[i] = verdict[i]
         /\ \A i \in CommandId : verdict[i] # "unused" => verdict'[i] # "unused"
<1>1. Deliver("result")
  BY DEF OnCommandResult
<1>2. signals[1].id \in CommandId /\ Head(signals) = signals[1]
  BY <1>1, Delivered, SignalPayload
<1>3. \/ \E ok \in BOOLEAN : verdict' = CompleteCommand(verdict, signals[1].id, ok)
      \/ verdict' = FailCommand(verdict, signals[1].id, "command_error")
  BY <1>2, Zenon DEF OnCommandResult
<1> QED BY <1>2, <1>3 DEF CompleteCommand, FailCommand

\* Readiness settles the start command and no other.
LEMMA ReadySettles ==
  ASSUME TypeOK, OnWorkerReady
  PROVE  /\ \A i \in CommandId : i # startId => verdict'[i] = verdict[i]
         /\ \A i \in CommandId : verdict[i] # "unused" => verdict'[i] # "unused"
         /\ startId' \in {startId, None}
<1>1. \/ verdict' = CompleteCommand(verdict, startId, TRUE) /\ startId' = None
      \/ verdict' = verdict /\ startId' = startId
  BY Zenon DEF OnWorkerReady
<1> QED BY <1>1 DEF CompleteCommand

\* The finished signal settles every command.
LEMMA FinishedSettles ==
  ASSUME TypeOK, OnThreadFinished
  PROVE  /\ \A i \in CommandId : verdict'[i] # "pending"
         /\ \A i \in CommandId : verdict[i] # "unused" => verdict'[i] # "unused"
         /\ state' \in {"closed", "failed"} /\ startId' = None /\ exitSeen' = NoExit
         /\ state' = "closed" => exitSeen.ok
<1>1. \/ verdict' = FailAllPending(verdict, "runtime_thread_stopped_unexpectedly")
      \/ verdict' = Finish(verdict, exitSeen)
  BY Zenon DEF OnThreadFinished
<1>2. exitSeen \in Outcome /\ verdict \in [CommandId -> Verdicts]
  BY DEF TypeOK, GuiOK
<1>3. \A i \in CommandId : verdict'[i] # "pending"
  BY <1>1, <1>2, SweepSettlesAll, FinishSettlesAll
<1>4. \A i \in CommandId : verdict[i] # "unused" => verdict'[i] # "unused"
  <2> SUFFICES ASSUME NEW i \in CommandId, verdict[i] # "unused" PROVE verdict'[i] # "unused"
    OBVIOUS
  <2>1. exitSeen.code # "unused"
    BY <1>2 DEF Outcome, ExitCodes
  <2> QED BY <1>1, <2>1 DEF FailAllPending, Finish, CompleteCommand, FailCommand
<1>5. state' \in {"closed", "failed"} /\ startId' = None /\ exitSeen' = NoExit
  BY DEF OnThreadFinished
<1>6. state' = "closed" => exitSeen.ok
  BY DEF OnThreadFinished
<1> QED BY <1>3, <1>4, <1>5, <1>6

\* The end of an ordinary command is its result, after its payload if it has one.
LEMMA Replied ==
  ASSUME TypeOK, CommandEnds
  PROVE  /\ active \in CommandId /\ Len(signals) \in Nat
         /\ Len(signals') \in {Len(signals) + 1, Len(signals) + 2}
         /\ \A i \in 1..Len(signals) : signals'[i] = signals[i]
         /\ signals'[Len(signals')].type = "result" /\ signals'[Len(signals')].id = active
         /\ signals'[Len(signals')] \in {Result(active, TRUE), Result(active, FALSE)}
         /\ \A i \in 1..Len(signals') : i \notin 1..Len(signals) =>
              /\ signals'[i].id = active
              /\ \/ signals'[i].type = "result" /\ i = Len(signals')
                 \/ signals'[i].type = "data" /\ i # Len(signals')
<1>1. active \in CommandId /\ signals \in Seq(Signal)
  BY DEF TypeOK, WorkerOK, CommandEnds
<1>2. PICK reply \in Replies(active) : signals' = signals \o reply
  BY DEF CommandEnds
<1>3. \E ok \in BOOLEAN : \/ reply = <<Result(active, ok)>>
                          \/ reply = <<Data(active), Result(active, ok)>>
  BY DEF Replies
<1>4. PICK ok \in BOOLEAN : \/ reply = <<Result(active, ok)>>
                            \/ reply = <<Data(active), Result(active, ok)>>
  BY <1>3
<1>5. Result(active, ok) \in Signal /\ Data(active) \in Signal
  BY <1>1, SignalTypes
<1>5a. Result(active, ok) \in {Result(active, TRUE), Result(active, FALSE)}
  <2>1. ok = TRUE \/ ok = FALSE
    OBVIOUS
  <2> QED BY <2>1, Zenon
<1>5b. /\ Result(active, ok).type = "result" /\ Result(active, ok).id = active
       /\ Data(active).type = "data" /\ Data(active).id = active
  BY DEF Result, Data
<1>6. CASE reply = <<Result(active, ok)>>
  <2>1. /\ Len(signals') = Len(signals) + 1 /\ Len(signals) \in Nat
        /\ signals'[Len(signals) + 1] = Result(active, ok)
        /\ \A i \in 1..Len(signals) : signals'[i] = signals[i]
    BY <1>1, <1>2, <1>5, <1>6, ConcatOne
  <2>2. Len(signals') # Len(signals) + 2
    BY <2>1
  <2>3. \A i \in 1..Len(signals') : i \notin 1..Len(signals) => i = Len(signals')
    BY <2>1
  <2> QED BY <1>1, <1>5a, <1>5b, <2>1, <2>2, <2>3
<1>7. CASE reply = <<Data(active), Result(active, ok)>>
  <2>1. /\ Len(signals') = Len(signals) + 2 /\ Len(signals) \in Nat
        /\ signals'[Len(signals) + 1] = Data(active)
        /\ signals'[Len(signals) + 2] = Result(active, ok)
        /\ \A i \in 1..Len(signals) : signals'[i] = signals[i]
    BY <1>1, <1>2, <1>5, <1>7, ConcatTwo
  <2>2. \A i \in 1..Len(signals') :
          i \notin 1..Len(signals) => i = Len(signals) + 1 \/ i = Len(signals) + 2
    BY <2>1
  <2>3. Len(signals') = Len(signals) + 2 /\ Len(signals) + 1 # Len(signals')
    BY <2>1
  <2> QED BY <1>1, <1>5a, <1>5b, <2>1, <2>2, <2>3
<1> QED BY <1>4, <1>6, <1>7

\* The last thing the thread sends is finished, after its outcome when that
\* could be sent.
LEMMA Finalized ==
  ASSUME TypeOK, FinalizeEventLoop
  PROVE  /\ Len(signals) \in Nat /\ Len(signals') \in Nat /\ Len(signals') > Len(signals)
         /\ \A i \in 1..Len(signals) : signals'[i] = signals[i]
         /\ signals'[Len(signals')] = Finished
         /\ \A i \in 1..Len(signals') : i \notin 1..Len(signals) =>
              signals'[i] = Exit(exit') \/ i = Len(signals')
<1>1. signals \in Seq(Signal) /\ exit \in Outcome
  BY DEF TypeOK, WorkerOK
<1>2. exit' \in Outcome
  BY <1>1 DEF FinalizeEventLoop, Outcome, ExitCodes
<1>3. Exit(exit') \in Signal /\ Finished \in Signal
  BY <1>2, SignalTypes
<1>4. CASE signals' = signals \o <<Exit(exit'), Finished>>
  <2>1. /\ Len(signals') = Len(signals) + 2 /\ Len(signals) \in Nat
        /\ signals'[Len(signals) + 1] = Exit(exit')
        /\ signals'[Len(signals) + 2] = Finished
        /\ \A i \in 1..Len(signals) : signals'[i] = signals[i]
    BY <1>1, <1>3, <1>4, ConcatTwo
  <2>2. \A i \in 1..Len(signals') :
          i \notin 1..Len(signals) => i = Len(signals) + 1 \/ i = Len(signals')
    BY <2>1
  <2> QED BY <2>1, <2>2
<1>5. CASE signals' = Append(signals, Finished)
  <2>1. /\ Len(signals') = Len(signals) + 1 /\ Len(signals) \in Nat
        /\ signals'[Len(signals) + 1] = Finished
        /\ \A i \in 1..Len(signals) : signals'[i] = signals[i]
    BY <1>1, <1>3, <1>5, AppendFacts
  <2>2. \A i \in 1..Len(signals') : i \notin 1..Len(signals) => i = Len(signals')
    BY <2>1
  <2> QED BY <2>1, <2>2
<1> QED BY <1>4, <1>5 DEF FinalizeEventLoop

\* Readiness and a failed shutdown add one signal.
LEMMA Booted ==
  ASSUME TypeOK, Boot
  PROVE  \/ UNCHANGED signals
         \/ /\ Len(signals) \in Nat /\ Len(signals') = Len(signals) + 1
            /\ \A i \in 1..Len(signals) : signals'[i] = signals[i]
            /\ \A i \in 1..Len(signals') :
                 i \notin 1..Len(signals) => signals'[i].type = "ready"
<1>1. signals \in Seq(Signal) /\ Ready \in Signal
  BY SignalTypes DEF TypeOK, WorkerOK
<1>2. UNCHANGED signals \/ signals' = Append(signals, Ready)
  BY Zenon DEF Boot
<1>3. Ready.type = "ready"
  BY DEF Ready
<1>4. CASE signals' = Append(signals, Ready)
  <2>1. /\ Len(signals') = Len(signals) + 1 /\ Len(signals) \in Nat
        /\ signals'[Len(signals) + 1] = Ready
        /\ \A i \in 1..Len(signals) : signals'[i] = signals[i]
    BY <1>1, <1>4, AppendFacts
  <2>2. \A i \in 1..Len(signals') : i \notin 1..Len(signals) => i = Len(signals) + 1
    BY <2>1
  <2> QED BY <1>3, <2>1, <2>2
<1> QED BY <1>2, <1>4

\* A failed shutdown is reported by one result.
LEMMA ShutdownFailed ==
  ASSUME TypeOK, ShutdownFails
  PROVE  /\ active \in CommandId /\ Len(signals) \in Nat /\ Len(signals') = Len(signals) + 1
         /\ \A i \in 1..Len(signals) : signals'[i] = signals[i]
         /\ \A i \in 1..Len(signals') : i \notin 1..Len(signals) =>
              signals'[i].type = "result" /\ signals'[i].id = active
<1>1. signals \in Seq(Signal) /\ active \in CommandId
  BY DEF TypeOK, WorkerOK, ShutdownFails
<1>2. Result(active, FALSE) \in Signal /\ signals' = Append(signals, Result(active, FALSE))
  BY <1>1, SignalTypes DEF ShutdownFails
<1>2a. PICK x \in Signal : x = Result(active, FALSE) /\ signals' = Append(signals, x)
  BY <1>2
<1>2b. signals' = Append(signals, x)
  BY <1>2a
<1>3. /\ Len(signals') = Len(signals) + 1 /\ Len(signals) \in Nat
      /\ signals'[Len(signals) + 1] = x
      /\ \A i \in 1..Len(signals) : signals'[i] = signals[i]
  BY <1>1, <1>2b, AppendFacts
<1>4. \A i \in 1..Len(signals') : i \notin 1..Len(signals) => i = Len(signals) + 1
  BY <1>3
<1>5. x.type = "result" /\ x.id = active
  BY <1>2a DEF Result
<1> QED BY <1>1, <1>3, <1>4, <1>5

\* The dispatcher takes the oldest command.
LEMMA Dequeued ==
  ASSUME TypeOK, Dequeue
  PROVE  /\ Len(queue) \in Nat /\ Len(queue) > 0 /\ Len(queue') = Len(queue) - 1
         /\ \A i \in 1..Len(queue') : queue'[i] = queue[i + 1]
         /\ active' = queue[1] /\ queue[1] \in CommandId
         /\ \A x : Queued(x) => Queued(x)' \/ x = queue[1]
<1>1. queue \in Seq(CommandId) /\ queue # <<>>
  BY DEF TypeOK, WorkerOK, Dequeue
<1>2. queue' = Tail(queue) /\ active' = Head(queue)
  BY DEF Dequeue
<1>3. /\ Len(queue) \in Nat /\ Len(queue) > 0 /\ Len(queue') = Len(queue) - 1
      /\ \A i \in 1..Len(queue') : queue'[i] = queue[i + 1]
      /\ active' = queue[1] /\ queue[1] \in CommandId
      /\ queue' \in Seq(CommandId)
  BY <1>1, <1>2, TailFacts
<1>4. ASSUME NEW x, Queued(x), x # queue[1] PROVE Queued(x)'
  <2>1. PICK i \in 1..Len(queue) : queue[i] = x
    BY <1>1, <1>4 DEF Queued
  <2>2. i - 1 \in 1..Len(queue') /\ queue'[i - 1] = x
    BY <1>3, <1>4, <2>1
  <2> QED BY <1>3, <2>2 DEF Queued
<1> QED BY <1>3, <1>4

-----------------------------------------------------------------------------
(* The parts of the invariant, one lemma each, one step per action.        *)

\* The identifiers the worker holds are allocated, so no call changes their
\* kind or their verdict.
LEMMA CallKeepsHeld ==
  ASSUME TypeOK, Shutdowns, NEW id \in CommandId, NEW k, NEW v, Allocate(id, k, v)
  PROVE  /\ startId # None => kind'[startId] = kind[startId] /\ verdict'[startId] = verdict[startId]
         /\ startupShutdown # None =>
              /\ kind'[startupShutdown] = kind[startupShutdown]
              /\ verdict'[startupShutdown] = verdict[startupShutdown]
         /\ active # None => kind'[active] = kind[active] /\ verdict'[active] = verdict[active]
         /\ \A i \in 1..Len(queue) : /\ kind'[queue[i]] = kind[queue[i]]
                                     /\ verdict'[queue[i]] = verdict[queue[i]]
                                     /\ queue[i] # id
         /\ active # id
<1>1. GuiOK /\ WorkerOK
  BY DEF TypeOK
<1>2. /\ startId # None => startId \in CommandId
      /\ startupShutdown # None => startupShutdown \in CommandId
      /\ active # None => active \in CommandId
      /\ \A i \in 1..Len(queue) : queue[i] \in CommandId
  BY <1>1 DEF GuiOK, WorkerOK
<1> QED BY <1>1, <1>2, Allocated, NoneAssumption DEF Shutdowns

\* Calls, with what they do to the fields the two threads share.
LEMMA CallCases ==
  ASSUME Call
  PROVE  \E id \in CommandId :
           \/ StartRuntimeCall(id) /\ \E v : Allocate(id, "start", v)
           \/ ShutdownCall(id) /\ \E v : Allocate(id, "shutdown", v)
           \/ \E k \in Ordinary : Submit(id, k) /\ \E v : Allocate(id, k, v)
BY ZenonT(40) DEF Call, StartRuntimeCall, StartRuntime, ShutdownCall, Shutdown, Submit

\* No step of either thread breaks what the place of run() promises.
LEMMA PhasesStep ==
  ASSUME TypeOK, Phases, Shutdowns, [Next]_vars
  PROVE  Phases'
<1>0. GuiOK /\ GuardedOK /\ WorkerOK
  BY DEF TypeOK
<1>a. worker = "retrying" => active \in CommandId /\ active # None
  BY <1>0, NoneAssumption DEF WorkerOK
<1>1. ASSUME NEW id \in CommandId, StartRuntimeCall(id), NEW v, Allocate(id, "start", v)
      PROVE Phases'
  <2>1. worker = "retrying" => kind'[active] = "shutdown"
    BY <1>1, <1>a, CallKeepsHeld DEF Phases
  <2>2. UNCHANGED <<guarded, queue, active, history>>
    BY <1>1 DEF StartRuntimeCall
  <2>3. \/ UNCHANGED <<state, worker>> /\ state # "new"
        \/ state = "new" /\ state' = "starting" /\ worker' = "booting"
        \/ state = "new" /\ state' = "failed" /\ UNCHANGED worker
    BY <1>1, Zenon DEF StartRuntimeCall, StartRuntime
  <2> QED BY <2>1, <2>2, <2>3 DEF Phases, guarded, history
<1>2. ASSUME NEW id \in CommandId, ShutdownCall(id), NEW v, Allocate(id, "shutdown", v)
      PROVE Phases'
  <2>1. worker = "retrying" => kind'[active] = "shutdown"
    BY <1>2, <1>a, CallKeepsHeld DEF Phases
  <2>2. UNCHANGED <<active, history, worker>> /\ state' # "new"
    BY <1>2 DEF ShutdownCall, Shutdown
  <2>3. UNCHANGED <<guarded, queue>> \/ RequestShutdown(id)
    BY <1>2 DEF ShutdownCall, Shutdown
  <2> QED BY <2>1, <2>2, <2>3
      DEF Phases, RequestShutdown, ShutdownRecorded, ShutdownEnqueued, guarded, history
<1>3. ASSUME NEW id \in CommandId, NEW k \in Ordinary, Submit(id, k), NEW v, Allocate(id, k, v)
      PROVE Phases'
  <2>1. worker = "retrying" => kind'[active] = "shutdown"
    BY <1>3, <1>a, CallKeepsHeld DEF Phases
  <2>2. UNCHANGED <<state, guarded, worker, active>>
    BY <1>3 DEF Submit
  <2>3. UNCHANGED <<queue, accepted>> \/ (state = "ready" /\ SubmitAccepts)
    BY <1>3, Zenon DEF Submit
  <2> QED BY <2>1, <2>2, <2>3 DEF Phases, guarded, SubmitAccepts
<1>4. CASE OnWorkerReady \/ OnCommandResult \/ OnData \/ OnShutdownOutcome \/ OnThreadFinished
  <2>1. UNCHANGED <<guarded, worker, queue, active, history, kind>>
    BY <1>4 DEF OnWorkerReady, OnCommandResult, OnData, OnShutdownOutcome, OnThreadFinished, Deliver
  <2>2. state' = "new" => state = "new"
    BY <1>4 DEF OnWorkerReady, OnCommandResult, OnData, OnShutdownOutcome, OnThreadFinished
  <2> QED BY <2>1, <2>2 DEF Phases, guarded, history
<1>5. CASE Boot
  BY <1>5 DEF Boot, Phases, gui
<1>6. CASE BootFails \/ CommandCancelled \/ DispatcherCrashes
  BY <1>6 DEF BootFails, CommandCancelled, DispatcherCrashes, Phases, gui, guarded, history
<1>7. CASE Dequeue
  BY <1>7 DEF Dequeue, Phases, gui, guarded
<1>8. CASE CommandEnds
  BY <1>8 DEF CommandEnds, Phases, gui, guarded, history
<1>9. CASE ShutdownSucceeds \/ ShutdownFails
  BY <1>9 DEF ShutdownSucceeds, ShutdownFails, Phases, gui, guarded, history
<1>10. CASE AllowShutdownRetry
  BY <1>10 DEF AllowShutdownRetry, Phases, gui, history
<1>11. CASE StopAccepting
  BY <1>11 DEF StopAccepting, Phases, gui, history
<1>12. CASE FinalizeEventLoop
  BY <1>12 DEF FinalizeEventLoop, Phases, gui, history
<1>13. CASE UNCHANGED vars
  BY <1>13 DEF vars, gui, guarded, history, Phases
<1> QED BY <1>1, <1>2, <1>3, <1>4, <1>5, <1>6, <1>7, <1>8, <1>9, <1>10, <1>11, <1>12, <1>13, CallCases
    DEF Next, Slot, WorkerStep

\* request_shutdown, submit and the dispatcher keep a single, last shutdown.
LEMMA ShutdownsStep ==
  ASSUME TypeOK, Phases, Shutdowns, [Next]_vars
  PROVE  Shutdowns'
<1>0. GuiOK /\ GuardedOK /\ WorkerOK
  BY DEF TypeOK
<1>a. /\ startId \in CommandId \cup {None} /\ startupShutdown \in CommandId \cup {None}
      /\ active \in CommandId \cup {None} /\ queue \in Seq(CommandId)
      /\ Len(queue) \in Nat /\ \A i \in 1..Len(queue) : queue[i] \in CommandId
  BY <1>0 DEF GuiOK, WorkerOK
<1>1. ASSUME NEW id \in CommandId, StartRuntimeCall(id), NEW v, Allocate(id, "start", v)
      PROVE Shutdowns'
  <2>1. UNCHANGED <<published, ready, closing, inFlight, startupShutdown, queue, active>>
    BY <1>1 DEF StartRuntimeCall, guarded
  <2>2. startId' \in {startId, id}
    BY <1>1 DEF StartRuntimeCall, StartRuntime
  <2>3. startId' = id => verdict'[id] # "unused"
    BY <1>1, <1>0, NoneAssumption, Allocated DEF StartRuntimeCall, StartRuntime, Shutdowns
  <2>4. kind'[id] = "start"
    BY <1>0, <1>1, Allocated
  <2> QED BY <1>1, <2>1, <2>2, <2>3, <2>4, CallKeepsHeld DEF Shutdowns
<1>2. ASSUME NEW id \in CommandId, ShutdownCall(id), NEW v, Allocate(id, "shutdown", v)
      PROVE Shutdowns'
  <2>1. UNCHANGED <<startId, active>>
    BY <1>2 DEF ShutdownCall
  <2>2. kind'[id] = "shutdown" /\ verdict'[id] = v
    BY <1>0, <1>2, Allocated
  <2>3. \/ UNCHANGED <<guarded, queue>>
        \/ RequestShutdown(id) /\ Allocate(id, "shutdown", "pending")
    BY <1>2, Zenon DEF ShutdownCall, Shutdown
  <2>4. CASE UNCHANGED <<guarded, queue>>
    BY <1>2, <2>1, <2>4, CallKeepsHeld DEF Shutdowns, guarded
  <2>5. CASE RequestShutdown(id) /\ Allocate(id, "shutdown", "pending")
    <3>1. verdict'[id] # "unused"
      BY <1>0, <2>5, Allocated
    <3>2. CASE ShutdownRecorded /\ startupShutdown' = id /\ inFlight' /\ closing'
               /\ UNCHANGED <<published, ready, queue>>
      <4>1. queue = <<>> /\ active = None /\ ~published /\ ~ready
        BY <3>2 DEF ShutdownRecorded, Phases
      <4> QED BY <1>2, <2>1, <2>2, <3>1, <3>2, <4>1, CallKeepsHeld DEF Shutdowns
    <3>3. CASE ShutdownEnqueued /\ queue' = Append(queue, id) /\ inFlight' /\ closing'
               /\ UNCHANGED <<published, ready, startupShutdown>>
      <4>1. /\ \A i \in 1..Len(queue) : kind[queue[i]] # "shutdown"
            /\ active # None => kind[active] # "shutdown"
            /\ startupShutdown = None
        BY <3>3 DEF ShutdownEnqueued, Shutdowns
      <4>2. /\ Len(queue') = Len(queue) + 1 /\ queue'[Len(queue) + 1] = id
            /\ \A i \in 1..Len(queue) : queue'[i] = queue[i]
        BY <1>a, <3>3, AppendFacts
      <4> QED BY <1>a, <1>2, <2>1, <2>2, <3>1, <3>3, <4>1, <4>2, CallKeepsHeld DEF Shutdowns
    <3>4. CASE UNCHANGED <<guarded, queue>>
      BY <2>4, <3>4
    <3> QED BY <2>5, <3>2, <3>3, <3>4, Zenon DEF RequestShutdown
  <2> QED BY <2>3, <2>4, <2>5
<1>3. ASSUME NEW id \in CommandId, NEW k \in Ordinary, Submit(id, k), NEW v, Allocate(id, k, v)
      PROVE Shutdowns'
  <2>1. UNCHANGED <<startId, guarded, active>>
    BY <1>3 DEF Submit
  <2>2. kind'[id] = k /\ k # "shutdown"
    BY <1>0, <1>3, Allocated DEF Ordinary
  <2>3. CASE UNCHANGED queue
    BY <1>3, <2>1, <2>3, CallKeepsHeld DEF Shutdowns, guarded
  <2>4. CASE SubmitAccepts /\ queue' = Append(queue, id) /\ Allocate(id, k, "pending")
    <3>1. verdict'[id] # "unused"
      BY <1>0, <2>4, Allocated
    <3>2. /\ \A i \in 1..Len(queue) : kind[queue[i]] # "shutdown"
          /\ active # None => kind[active] # "shutdown"
          /\ startupShutdown = None
      BY <2>4 DEF SubmitAccepts, Shutdowns
    <3>3. /\ Len(queue') = Len(queue) + 1 /\ queue'[Len(queue) + 1] = id
          /\ \A i \in 1..Len(queue) : queue'[i] = queue[i]
      BY <1>a, <2>4, AppendFacts
    <3> QED BY <1>a, <1>3, <2>1, <2>2, <3>1, <3>2, <3>3, CallKeepsHeld DEF Shutdowns, guarded
  <2> QED BY <1>3, <2>3, <2>4, Zenon DEF Submit
<1>4. ASSUME UNCHANGED <<guarded, queue, active, kind>>, startId' \in {startId, None},
             \A i \in CommandId : verdict[i] # "unused" => verdict'[i] # "unused"
      PROVE  Shutdowns'
  BY <1>a, <1>4, NoneAssumption DEF Shutdowns, guarded
<1>5. CASE OnWorkerReady
  BY <1>4, <1>5, ReadySettles DEF OnWorkerReady, Deliver
<1>6. CASE OnCommandResult
  BY <1>4, <1>6, ResultSettles DEF OnCommandResult, Deliver
<1>7. CASE OnData \/ OnShutdownOutcome
  BY <1>4, <1>7 DEF OnData, OnShutdownOutcome, Deliver
<1>8. CASE OnThreadFinished
  BY <1>4, <1>8, FinishedSettles DEF OnThreadFinished, Deliver
<1>9. CASE Boot
  BY <1>a, <1>9 DEF Boot, Shutdowns, Phases, gui
<1>10. CASE BootFails \/ CommandCancelled \/ DispatcherCrashes \/ ShutdownFails
  <2>1. UNCHANGED <<gui, guarded, queue, active>>
    BY <1>10 DEF BootFails, CommandCancelled, DispatcherCrashes, ShutdownFails
  <2> QED BY <2>1 DEF Shutdowns, gui, guarded
<1>11. CASE Dequeue
  <2>1. queue # <<>> /\ queue' = Tail(queue) /\ active' = Head(queue) /\ UNCHANGED <<gui, guarded>>
        /\ worker = "serving"
    BY <1>11 DEF Dequeue
  <2>2. /\ Len(queue) > 0 /\ Len(queue') = Len(queue) - 1 /\ active' = queue[1]
        /\ \A i \in 1..(Len(queue) - 1) : queue'[i] = queue[i + 1]
    BY <1>a, <2>1, TailFacts
  <2>3. kind[queue[1]] = "shutdown" => Len(queue) = 1
    BY <1>a, <2>2 DEF Shutdowns
  <2>3a. kind[queue[1]] = "shutdown" => queue' = <<>>
    BY <1>a, <2>1, <2>2, <2>3
  <2>4. startupShutdown = None
    BY <2>1 DEF Phases
  <2>5. ASSUME NEW i \in 1..Len(queue')
        PROVE  /\ verdict'[queue'[i]] # "unused"
               /\ kind'[queue'[i]] = "shutdown" => inFlight' /\ closing' /\ i = Len(queue')
               /\ kind'[queue'[i]] # "shutdown" => kind'[queue'[i]] \in Ordinary
    <3>1. i + 1 \in 1..Len(queue) /\ queue'[i] = queue[i + 1] /\ (i + 1 = Len(queue) => i = Len(queue'))
      BY <1>a, <2>2
    <3> QED BY <2>1, <3>1 DEF Shutdowns, gui, guarded
  <2>6. 1 \in 1..Len(queue)
    BY <1>a, <2>2
  <2> QED BY <2>1, <2>2, <2>3a, <2>4, <2>5, <2>6 DEF Shutdowns, gui, guarded
<1>12. CASE CommandEnds \/ ShutdownSucceeds
  <2>1. UNCHANGED <<gui, guarded, queue>> /\ active' = None
    BY <1>12 DEF CommandEnds, ShutdownSucceeds
  <2>2. startupShutdown # None => FALSE
    BY <1>12 DEF CommandEnds, ShutdownSucceeds, Phases
  <2> QED BY <2>1, <2>2 DEF Shutdowns, gui, guarded
<1>13. CASE AllowShutdownRetry
  <2>1. queue = <<>> /\ startupShutdown = None
    BY <1>13, <1>0, NoneAssumption DEF AllowShutdownRetry, Phases, Shutdowns, WorkerOK
  <2> QED BY <1>13, <2>1 DEF AllowShutdownRetry, Shutdowns, gui
<1>14. CASE StopAccepting
  BY <1>14 DEF StopAccepting, Shutdowns, gui
<1>15. CASE FinalizeEventLoop
  <2>1. /\ UNCHANGED <<gui, ready, closing, inFlight>> /\ queue' = <<>> /\ active' = None
        /\ ~published' /\ startupShutdown' \in {None, startupShutdown}
    BY <1>15 DEF FinalizeEventLoop
  <2> QED BY <2>1 DEF Shutdowns, gui
<1>16. CASE UNCHANGED vars
  BY <1>16 DEF vars, gui, guarded, Shutdowns
<1> QED BY <1>1, <1>2, <1>3, <1>5, <1>6, <1>7, <1>8, <1>9, <1>10, <1>11, <1>12, <1>13, <1>14,
       <1>15, <1>16, CallCases DEF Next, Slot, WorkerStep

\* Accepted commands stay queued or started, and a clean exit follows them all.
LEMMA DrainsStep ==
  ASSUME TypeOK, Phases, Shutdowns, Drains, [Next]_vars
  PROVE  Drains'
<1>0. GuiOK /\ queue \in Seq(CommandId) /\ signals \in Seq(Signal) /\ Len(signals) \in Nat
      /\ exit \in Outcome /\ exitSeen \in Outcome
  BY DEF TypeOK, WorkerOK, GuiOK
<1>1. ASSUME NEW id \in CommandId, StartRuntimeCall(id) PROVE Drains'
  <2>1. UNCHANGED <<exitSeen, guarded, queue, exit, signals, history>>
        /\ (worker' # "exited" => worker # "exited" \/ state = "new")
        /\ (state' = "closed" => state = "closed")
    BY <1>1 DEF StartRuntimeCall, StartRuntime
  <2> QED BY <2>1 DEF Drains, CleanExitKnown, CleanCloseDrains, Queued, guarded, history, Phases
<1>2. ASSUME NEW id \in CommandId, ShutdownCall(id) PROVE Drains'
  <2>1. UNCHANGED <<exitSeen, worker, exit, signals, history>>
    BY <1>2 DEF ShutdownCall
  <2>2. state' = "closed" => state = "closed" \/ accepted = {}
    BY <1>2 DEF ShutdownCall, Shutdown, Phases
  <2>3. (closing => closing') /\ (UNCHANGED queue \/ queue' = Append(queue, id))
    BY <1>2 DEF ShutdownCall, Shutdown, RequestShutdown, guarded
  <2>4. \A x : Queued(x) => Queued(x)'
    BY <1>0, <2>3, AppendFacts DEF Queued
  <2> QED BY <2>1, <2>2, <2>3, <2>4 DEF Drains, CleanExitKnown, CleanCloseDrains, history
<1>3. ASSUME NEW id \in CommandId, NEW k \in Ordinary, Submit(id, k) PROVE Drains'
  <2>1. UNCHANGED <<state, exitSeen, guarded, worker, exit, signals, executed>>
    BY <1>3 DEF Submit
  <2>2. CASE UNCHANGED <<queue, accepted>>
    BY <2>1, <2>2 DEF Drains, CleanExitKnown, CleanCloseDrains, Queued, guarded
  <2>3. CASE /\ state = "ready" /\ SubmitAccepts
             /\ queue' = Append(queue, id) /\ accepted' = accepted \cup {id}
    <3>1. \A x : Queued(x) => Queued(x)'
      BY <1>0, <2>3, AppendFacts DEF Queued
    <3>2. Queued(id)'
      BY <1>0, <2>3, AppendFacts DEF Queued
    <3>3. ~closing
      BY <2>3 DEF SubmitAccepts
    <3> QED BY <2>1, <2>3, <3>1, <3>2, <3>3 DEF Drains, CleanExitKnown, CleanCloseDrains, guarded
  <2> QED BY <1>3, <2>2, <2>3, Zenon DEF Submit
<1>4. ASSUME NEW type, Deliver(type), exitSeen'.ok => CleanExitKnown,
             state' = "closed" => state = "closed" \/ CleanExitKnown
      PROVE  Drains'
  <2>1. UNCHANGED <<guarded, worker, queue, exit, history>>
    BY <1>4 DEF Deliver
  <2>2. CleanExitKnown' => CleanExitKnown
    BY <1>4, <2>1, Delivered DEF CleanExitKnown
  <2> QED BY <1>4, <2>1, <2>2 DEF Drains, CleanCloseDrains, Queued, guarded, history
<1>5. CASE OnWorkerReady \/ OnCommandResult \/ OnData
  BY <1>4, <1>5 DEF OnWorkerReady, OnCommandResult, OnData, CleanExitKnown
<1>6. CASE OnShutdownOutcome
  <2>1. Deliver("outcome") /\ exitSeen' = signals[1].outcome /\ UNCHANGED state
        /\ Len(signals) > 0 /\ signals[1].type = "outcome"
    BY <1>6, Delivered DEF OnShutdownOutcome
  <2> QED BY <1>0, <1>4, <2>1 DEF CleanExitKnown
<1>7. CASE OnThreadFinished
  <2>1. Deliver("finished") /\ exitSeen' = NoExit /\ (state' = "closed" => exitSeen.ok)
    BY <1>7, FinishedSettles DEF OnThreadFinished
  <2> QED BY <1>4, <2>1 DEF CleanExitKnown, NoExit
<1>8. CASE Boot
  <2>1. \A i \in 1..Len(signals') :
          signals'[i].type = "outcome" => i \in 1..Len(signals) /\ signals'[i] = signals[i]
    BY <1>0, <1>8, Booted
  <2>2. UNCHANGED <<exit, exitSeen>>
    BY <1>8 DEF Boot, gui
  <2>3. CleanExitKnown' => CleanExitKnown
    BY <2>1, <2>2 DEF CleanExitKnown
  <2> QED BY <1>8, <2>3 DEF Boot, Drains, CleanCloseDrains, Queued, gui
<1>9. CASE BootFails \/ CommandCancelled \/ DispatcherCrashes
  <2>1. UNCHANGED <<gui, guarded, queue, signals, history>> /\ ~exit'.ok /\ worker # "exited"
    BY <1>9 DEF BootFails, CommandCancelled, DispatcherCrashes
  <2> QED BY <2>1 DEF Drains, CleanExitKnown, CleanCloseDrains, Queued, gui, guarded, history
<1>10. CASE Dequeue
  <2>1. UNCHANGED <<gui, guarded, exit, signals, accepted>> /\ worker # "exited"
        /\ executed' = executed \cup {queue[1]}
    BY <1>10, Dequeued DEF Dequeue
  <2> QED BY <1>10, <2>1, Dequeued DEF Drains, CleanExitKnown, CleanCloseDrains, gui, guarded
<1>11. CASE CommandEnds
  <2>1. UNCHANGED <<gui, guarded, queue, exit, history>> /\ worker # "exited"
    BY <1>11 DEF CommandEnds
  <2>1a. \A i \in 1..Len(signals') :
           signals'[i].type = "outcome" => i \in 1..Len(signals) /\ signals'[i] = signals[i]
    BY <1>0, <1>11, Replied
  <2>2. CleanExitKnown' => CleanExitKnown
    BY <2>1, <2>1a DEF CleanExitKnown, gui
  <2> QED BY <2>1, <2>2 DEF Drains, CleanCloseDrains, Queued, gui, guarded, history
<1>12. CASE ShutdownSucceeds
  <2>1. queue = <<>> /\ closing /\ worker # "exited"
    BY <1>12, NoneAssumption DEF ShutdownSucceeds, Shutdowns, TypeOK, WorkerOK
  <2>2. accepted \subseteq executed
    BY <2>1 DEF Drains, Queued
  <2> QED BY <1>12, <2>1, <2>2 DEF ShutdownSucceeds, Drains, CleanExitKnown, CleanCloseDrains, Queued, gui, guarded, history
<1>13. CASE ShutdownFails
  <2>1. UNCHANGED <<gui, guarded, queue, exit, history>> /\ worker # "exited"
    BY <1>13 DEF ShutdownFails
  <2>2. CleanExitKnown' => CleanExitKnown
    BY <1>13, <2>1, ShutdownFailed DEF CleanExitKnown, gui
  <2> QED BY <2>1, <2>2 DEF Drains, CleanCloseDrains, Queued, gui, guarded, history
<1>14. CASE AllowShutdownRetry \/ StopAccepting
  BY <1>14 DEF AllowShutdownRetry, StopAccepting, Drains, CleanExitKnown, CleanCloseDrains, Queued, gui, history
<1>15. CASE FinalizeEventLoop
  <2>1. UNCHANGED <<gui, closing, history>> /\ worker' = "exited" /\ (exit'.ok => exit.ok)
    BY <1>15 DEF FinalizeEventLoop
  <2>2. Exit(exit').outcome = exit' /\ Finished.type # "outcome"
    BY DEF Exit, Finished
  <2>3. CleanExitKnown' => CleanExitKnown
    BY <1>15, <2>1, <2>2, Finalized DEF CleanExitKnown, gui
  <2> QED BY <2>1, <2>3 DEF Drains, CleanCloseDrains, gui, history
<1>16. CASE UNCHANGED vars
  BY <1>16 DEF vars, gui, guarded, history, Drains, CleanExitKnown, CleanCloseDrains, Queued
<1> QED BY <1>1, <1>2, <1>3, <1>5, <1>6, <1>7, <1>8, <1>9, <1>10, <1>11, <1>12, <1>13, <1>14,
       <1>15, <1>16 DEF Next, Call, Slot, WorkerStep

\* Nothing is emitted after QThread.finished.
LEMMA FinishedIsLastStep ==
  ASSUME TypeOK, Phases, FinishedIsLast, [Next]_vars
  PROVE  FinishedIsLast'
<1>0. signals \in Seq(Signal) /\ Len(signals) \in Nat /\ DOMAIN signals = 1..Len(signals)
      /\ signals' \in Seq(Signal) /\ DOMAIN signals' = 1..Len(signals')
  BY WorkerTypeStep DEF TypeOK, WorkerOK
<1>1. ASSUME NEW id \in CommandId,
             StartRuntimeCall(id) \/ ShutdownCall(id) \/ \E k \in Ordinary : Submit(id, k)
      PROVE  FinishedIsLast'
  <2>1. UNCHANGED signals /\ (state \in {"closed", "failed"} => UNCHANGED state)
        /\ (UNCHANGED worker \/ (state = "new" /\ worker' = "booting"))
    BY <1>1 DEF StartRuntimeCall, StartRuntime, ShutdownCall, Shutdown, Submit
  <2> QED BY <2>1 DEF FinishedIsLast, Phases, Occurs
<1>2. ASSUME NEW type, Deliver(type), type # "finished",
             state \in {"closed", "failed"} => UNCHANGED state
      PROVE  FinishedIsLast'
  <2>1. Occurs(Finished) => Occurs(Finished)'
    <3> SUFFICES ASSUME Occurs(Finished) PROVE Occurs(Finished)'
      OBVIOUS
    <3>1. PICK i \in 1..Len(signals) : signals[i] = Finished
      BY <1>0 DEF Occurs
    <3>2. i # 1
      BY <1>2, <3>1, Delivered DEF Finished
    <3>3. i - 1 \in 1..Len(signals') /\ signals'[i - 1] = Finished
      <4>1. i - 1 \in 1..Len(signals') /\ (i - 1) + 1 = i
        BY <1>2, <3>1, <3>2, Delivered
      <4> QED BY <1>2, <3>1, <4>1, Delivered
    <3> QED BY <1>0, <3>3 DEF Occurs
  <2>2. \A i \in 1..Len(signals') :
          signals'[i].type = "finished" => i = Len(signals') /\ worker = "exited"
    BY <1>2, Delivered DEF FinishedIsLast
  <2> QED BY <1>2, <2>1, <2>2 DEF FinishedIsLast, Deliver
<1>3. CASE OnWorkerReady \/ OnCommandResult \/ OnData \/ OnShutdownOutcome
  BY <1>2, <1>3 DEF OnWorkerReady, OnCommandResult, OnData, OnShutdownOutcome
<1>4. CASE OnThreadFinished
  <2>1. Deliver("finished") /\ state' \in {"closed", "failed"}
    BY <1>4, FinishedSettles DEF OnThreadFinished
  <2>2. \A i \in 1..Len(signals') :
          signals'[i].type = "finished" => i = Len(signals') /\ worker = "exited"
    BY <2>1, Delivered DEF FinishedIsLast
  <2> QED BY <2>1, <2>2 DEF FinishedIsLast, Deliver
<1>5. CASE Boot
  <2>1. worker # "exited" /\ worker' # "exited"
    BY <1>5 DEF Boot
  <2> QED BY <1>5, <2>1, Booted DEF FinishedIsLast
<1>6. CASE CommandEnds
  <2>1. worker # "exited" /\ worker' # "exited"
    BY <1>6 DEF CommandEnds
  <2> QED BY <1>6, <2>1, Replied DEF FinishedIsLast
<1>7. CASE ShutdownFails
  <2>1. worker # "exited" /\ worker' # "exited"
    BY <1>7 DEF ShutdownFails
  <2> QED BY <1>7, <2>1, ShutdownFailed DEF FinishedIsLast
<1>8. CASE BootFails \/ Dequeue \/ ShutdownSucceeds \/ AllowShutdownRetry \/ CommandCancelled
           \/ DispatcherCrashes \/ StopAccepting
  BY <1>8 DEF BootFails, Dequeue, ShutdownSucceeds, AllowShutdownRetry, CommandCancelled,
     DispatcherCrashes, StopAccepting, FinishedIsLast
<1>9. CASE FinalizeEventLoop
  <2>1. worker # "exited" /\ worker' = "exited"
    BY <1>9 DEF FinalizeEventLoop
  <2>2. Exit(exit').type = "outcome"
    BY DEF Exit
  <2>3. \A i \in 1..Len(signals') : signals'[i].type = "finished" => i = Len(signals')
    BY <1>9, <2>1, <2>2, Finalized DEF FinishedIsLast
  <2>4. Len(signals') \in 1..Len(signals') /\ signals'[Len(signals')] = Finished
    BY <1>9, Finalized
  <2>5. Occurs(Finished)'
    BY <1>0, <2>4 DEF Occurs
  <2> QED BY <2>1, <2>3, <2>5 DEF FinishedIsLast
<1>10. CASE UNCHANGED vars
  BY <1>10 DEF vars, gui, FinishedIsLast, Occurs
<1> QED BY <1>1, <1>3, <1>4, <1>5, <1>6, <1>7, <1>8, <1>9, <1>10 DEF Next, Call, Slot, WorkerStep

\* The dispatcher answers a command once, payload first, and only after it
\* left the queue.
LEMMA AnswersStep ==
  ASSUME TypeOK, Phases, Shutdowns, FinishedIsLast, Answers, [Next]_vars
  PROVE  Answers'
<1>0. GuiOK /\ WorkerOK
  BY DEF TypeOK
<1>a. /\ queue \in Seq(CommandId) /\ Len(queue) \in Nat
      /\ \A i \in 1..Len(queue) : queue[i] \in CommandId
      /\ Len(signals) \in Nat
      /\ worker \in {"executing", "retrying"} => active \in CommandId
      /\ active \in CommandId \cup {None}
  BY <1>0 DEF WorkerOK
<1>b. QueueUnanswered /\ ActiveUnanswered /\ PayloadsFirst
  BY DEF Answers
\* Calls.
<1>1. ASSUME NEW id \in CommandId, NEW k, NEW v, Allocate(id, k, v), UNCHANGED <<signals, active>>,
             UNCHANGED worker \/ (worker # "executing" /\ worker' # "executing"),
             \/ UNCHANGED queue
             \/ /\ queue' = Append(queue, id)
                /\ k \in Ordinary => v = "pending"
      PROVE  Answers'
  <2>1. /\ verdict[id] = "unused" /\ verdict'[id] = v /\ kind'[id] = k
        /\ \A i \in CommandId :
             verdict[i] # "unused" => verdict'[i] = verdict[i] /\ kind'[i] = kind[i]
    BY <1>0, <1>1, Allocated
  <2>2. Untouched(id)
    BY <2>1, <1>b DEF PayloadsFirst, Untouched
  <2>3. PayloadsFirst'
    BY <1>1, <1>b, <2>1 DEF PayloadsFirst
  <2>4. ActiveUnanswered'
    <3> SUFFICES ASSUME worker' = "executing", kind'[active] \in Ordinary
                 PROVE  verdict'[active] = "pending" /\ Untouched(active)'
      BY <1>1 DEF ActiveUnanswered
    <3>1. worker = "executing" /\ active \in CommandId /\ active # None
      BY <1>1, <1>a, NoneAssumption
    <3>2. kind'[active] = kind[active] /\ verdict'[active] = verdict[active]
      BY <1>1, <3>1, CallKeepsHeld
    <3> QED BY <1>1, <1>b, <3>1, <3>2 DEF ActiveUnanswered, Untouched
  <2>5. /\ \A i \in 1..Len(queue) : /\ kind'[queue[i]] = kind[queue[i]]
                                    /\ verdict'[queue[i]] = verdict[queue[i]]
                                    /\ queue[i] # id
        /\ active # id
    BY <1>1, CallKeepsHeld
  <2>6. \A x : Untouched(x) => Untouched(x)'
    BY <1>1 DEF Untouched
  <2>7. CASE UNCHANGED queue
    BY <1>1, <1>b, <2>5, <2>6, <2>7, <2>3, <2>4 DEF Answers, QueueUnanswered
  <2>8. CASE queue' = Append(queue, id) /\ (k \in Ordinary => v = "pending")
    <3>1. /\ Len(queue') = Len(queue) + 1 /\ queue'[Len(queue) + 1] = id
          /\ \A i \in 1..Len(queue) : queue'[i] = queue[i]
      BY <1>a, <2>8, AppendFacts
    <3>2. \A i \in 1..Len(queue') : i \in 1..Len(queue) \/ i = Len(queue) + 1
      BY <1>a, <3>1
    <3>3. \A i, j \in 1..Len(queue') : queue'[i] = queue'[j] => i = j
      BY <1>b, <2>5, <3>1, <3>2 DEF QueueUnanswered
    <3>4. \A i \in 1..Len(queue') :
            /\ queue'[i] # active'
            /\ kind'[queue'[i]] \in Ordinary => verdict'[queue'[i]] = "pending" /\ Untouched(queue[i])'
      <4> TAKE i \in 1..Len(queue')
      <4>1. CASE i \in 1..Len(queue)
        <5>1. queue'[i] = queue[i]
          BY <3>1, <4>1
        <5> QED BY <1>1, <1>b, <2>5, <4>1, <5>1 DEF QueueUnanswered, Untouched
      <4>2. CASE i = Len(queue) + 1
        <5>1. queue'[i] = id
          BY <3>1, <4>2
        <5>2. k \in Ordinary => v = "pending"
          BY <2>8
        <5> QED BY <1>1, <2>1, <2>2, <2>5, <5>1, <5>2 DEF Untouched
      <4> QED BY <3>2, <4>1, <4>2
    <3> QED BY <2>3, <2>4, <3>3, <3>4 DEF Answers, QueueUnanswered
  <2> QED BY <1>1, <2>7, <2>8
<1>2. ASSUME NEW id \in CommandId, StartRuntimeCall(id) PROVE Answers'
  <2>1. \E v : Allocate(id, "start", v)
    BY <1>2, Zenon DEF StartRuntimeCall, StartRuntime
  <2>2. UNCHANGED <<signals, active, queue>>
        /\ (UNCHANGED worker \/ (state = "new" /\ worker' = "booting"))
    BY <1>2 DEF StartRuntimeCall, StartRuntime
  <2>3. UNCHANGED worker \/ (worker # "executing" /\ worker' # "executing")
    BY <2>2 DEF Phases
  <2> QED BY <1>1, <2>1, <2>2, <2>3
<1>3. ASSUME NEW id \in CommandId, ShutdownCall(id) PROVE Answers'
  <2>1. \E v : Allocate(id, "shutdown", v)
    BY <1>3, Zenon DEF ShutdownCall, Shutdown
  <2>2. UNCHANGED <<signals, active, worker>>
        /\ (UNCHANGED queue \/ queue' = Append(queue, id))
    BY <1>3 DEF ShutdownCall, Shutdown, RequestShutdown
  <2>3. "shutdown" \notin Ordinary
    BY DEF Ordinary
  <2> QED BY <1>1, <2>1, <2>2, <2>3
<1>4. ASSUME NEW id \in CommandId, NEW k \in Ordinary, Submit(id, k) PROVE Answers'
  <2>1. UNCHANGED <<signals, active, worker>>
    BY <1>4 DEF Submit
  <2>2. \/ UNCHANGED queue /\ \E v : Allocate(id, k, v)
        \/ queue' = Append(queue, id) /\ Allocate(id, k, "pending")
    BY <1>4, Zenon DEF Submit
  <2> QED BY <1>1, <2>1, <2>2
\* Slots.
<1>5. ASSUME NEW type, Deliver(type),
             \A i \in CommandId : verdict[i] # "unused" => verdict'[i] # "unused",
             \A i \in CommandId : kind[i] \in Ordinary /\ verdict'[i] # verdict[i] =>
                                    signals[1].type = "result" /\ signals[1].id = i
      PROVE  Answers'
  <2>1. UNCHANGED <<worker, queue, active, kind>>
    BY <1>5 DEF Deliver
  <2>2. \A x : Untouched(x) => Untouched(x)'
    BY <1>5, Delivered DEF Untouched
  <2>3. \A i \in CommandId : kind[i] \in Ordinary /\ Untouched(i) => verdict'[i] = verdict[i]
    BY <1>5, Delivered DEF Untouched
  <2>4. QueueUnanswered'
    BY <1>a, <1>b, <2>1, <2>2, <2>3 DEF QueueUnanswered
  <2>5. ActiveUnanswered'
    BY <1>a, <1>b, <2>1, <2>2, <2>3 DEF ActiveUnanswered
  <2>6. PayloadsFirst'
    <3>1. \A i \in 1..Len(signals') : i + 1 \in 1..Len(signals) /\ signals'[i] = signals[i + 1] /\ 1 < i + 1
      BY <1>5, Delivered
    <3>2. \A i, j \in 1..Len(signals') : i < j => i + 1 < j + 1
      BY <1>5, Delivered
    <3>3. 1 \in 1..Len(signals)
      BY <1>5, Delivered
    <3>4. \A i, j \in 1..Len(signals') :
            i < j /\ signals'[i].type = "result" /\ signals'[j].type = "data" =>
              signals'[i].id # signals'[j].id
      <4> TAKE i, j \in 1..Len(signals')
      <4> HAVE i < j /\ signals'[i].type = "result" /\ signals'[j].type = "data"
      <4>1. /\ i + 1 \in 1..Len(signals) /\ j + 1 \in 1..Len(signals) /\ i + 1 < j + 1
            /\ signals'[i] = signals[i + 1] /\ signals'[j] = signals[j + 1]
        BY <3>1, <3>2
      <4> QED BY <1>b, <4>1 DEF PayloadsFirst
    <3>5. \A i \in 1..Len(signals') :
            /\ signals'[i].type \in {"data", "result"} =>
                 signals'[i].id \in CommandId /\ verdict'[signals'[i].id] # "unused"
            /\ signals'[i].type = "data" => /\ verdict'[signals'[i].id] = "pending"
                                            /\ kind'[signals'[i].id] \in Ordinary
      BY <1>5, <1>b, <2>1, <3>1, <3>3 DEF PayloadsFirst
    <3> QED BY <3>4, <3>5 DEF PayloadsFirst
  <2> QED BY <2>4, <2>5, <2>6 DEF Answers
<1>6. CASE OnWorkerReady
  <2>1. \A i \in CommandId : kind[i] \in Ordinary => verdict'[i] = verdict[i]
    BY <1>6, ReadySettles, NoneAssumption DEF Shutdowns, Ordinary
  <2> QED BY <1>5, <1>6, <2>1, ReadySettles DEF OnWorkerReady
<1>7. CASE OnCommandResult
  <2>1. Deliver("result") /\ signals[1].type = "result"
    BY <1>7, Delivered DEF OnCommandResult
  <2> QED BY <1>5, <1>7, <2>1, ResultSettles
<1>8. CASE OnData \/ OnShutdownOutcome
  BY <1>5, <1>8 DEF OnData, OnShutdownOutcome
<1>9. CASE OnThreadFinished
  <2>1. Deliver("finished")
    BY <1>9 DEF OnThreadFinished
  <2>2. worker = "exited" /\ Len(signals) = 1
    <3>1. 1 \in 1..Len(signals) /\ signals[1].type = "finished"
      BY <2>1, Delivered
    <3> QED BY <3>1 DEF FinishedIsLast
  <2>3. Len(signals') = 0 /\ queue' = <<>> /\ worker' # "executing"
    BY <2>1, <2>2, Delivered DEF Phases, Deliver
  <2> QED BY <2>3 DEF Answers, QueueUnanswered, ActiveUnanswered, PayloadsFirst
\* Worker steps.
<1>10. ASSUME UNCHANGED <<kind, verdict>>,
              \A i \in 1..Len(signals) : signals'[i] = signals[i],
              \A i \in 1..Len(signals') :
                i \notin 1..Len(signals) => signals'[i].type \notin {"data", "result"}
       PROVE  PayloadsFirst' /\ \A x : Untouched(x) => Untouched(x)'
  BY <1>10, <1>b DEF PayloadsFirst, Untouched
<1>11. CASE Boot
  <2>1. PayloadsFirst'
    BY <1>10, <1>11, Booted DEF Boot, gui
  <2>2. queue' = <<>>
    BY <1>11 DEF Boot, Phases
  <2>3. worker' = "executing" => kind'[active'] = "shutdown"
    BY <1>11 DEF Boot, Shutdowns, gui
  <2> QED BY <2>1, <2>2, <2>3 DEF Answers, QueueUnanswered, ActiveUnanswered, Ordinary
<1>12. CASE BootFails \/ CommandCancelled \/ DispatcherCrashes \/ StopAccepting
  BY <1>12, <1>b DEF BootFails, CommandCancelled, DispatcherCrashes, StopAccepting, Answers,
     QueueUnanswered, ActiveUnanswered, PayloadsFirst, Untouched, gui
<1>13. CASE Dequeue
  <2>1. UNCHANGED <<kind, verdict, signals>>
    BY <1>13 DEF Dequeue, gui
  <2>2. 1 \in 1..Len(queue) /\ active' = queue[1]
        /\ \A i \in 1..Len(queue') : i + 1 \in 1..Len(queue) /\ queue'[i] = queue[i + 1] /\ i + 1 # 1
    BY <1>13, Dequeued
  <2>3. \A x : Untouched(x) => Untouched(x)'
    BY <2>1 DEF Untouched
  <2>4. ActiveUnanswered'
    BY <1>b, <2>1, <2>2, <2>3 DEF QueueUnanswered, ActiveUnanswered
  <2>5. \A i, j \in 1..Len(queue') : queue'[i] = queue'[j] => i = j
    <3> TAKE i, j \in 1..Len(queue')
    <3> HAVE queue'[i] = queue'[j]
    <3>1. i + 1 = j + 1
      BY <1>b, <2>2 DEF QueueUnanswered
    <3> QED BY <3>1, <1>13, Dequeued
  <2>6. QueueUnanswered'
    BY <1>b, <2>1, <2>2, <2>3, <2>5 DEF QueueUnanswered
  <2>7. PayloadsFirst'
    BY <1>b, <2>1 DEF PayloadsFirst
  <2> QED BY <2>4, <2>6, <2>7 DEF Answers
<1>14. CASE CommandEnds
  <2>1. UNCHANGED <<kind, verdict, queue>> /\ active' = None /\ worker' = "serving"
        /\ kind[active] \in Ordinary /\ worker = "executing"
    BY <1>14 DEF CommandEnds, gui
  <2>2. verdict[active] = "pending" /\ Untouched(active)
    BY <1>b, <2>1 DEF ActiveUnanswered
  <2>3. \A x : x # active /\ Untouched(x) => Untouched(x)'
    BY <1>14, Replied DEF Untouched
  <2>4. QueueUnanswered'
    BY <1>a, <1>b, <2>1, <2>3, NoneAssumption DEF QueueUnanswered
  <2>5. ActiveUnanswered'
    BY <2>1 DEF ActiveUnanswered
  <2>6. PayloadsFirst'
    <3>1. \A i, j \in 1..Len(signals') :
            i < j /\ signals'[i].type = "result" /\ signals'[j].type = "data" =>
              signals'[i].id # signals'[j].id
      <4> TAKE i, j \in 1..Len(signals')
      <4> HAVE i < j /\ signals'[i].type = "result" /\ signals'[j].type = "data"
      <4>1. i # Len(signals')
        BY <1>14, Replied
      <4>2. i \in 1..Len(signals) /\ signals'[i] = signals[i]
        BY <1>14, <4>1, Replied
      <4>3. CASE j \in 1..Len(signals)
        BY <1>14, <1>b, <4>2, <4>3, Replied DEF PayloadsFirst
      <4>4. CASE j \notin 1..Len(signals)
        BY <1>14, <2>2, <4>2, <4>4, Replied DEF Untouched
      <4> QED BY <4>3, <4>4
    <3>2. \A i \in 1..Len(signals') :
            /\ signals'[i].type \in {"data", "result"} =>
                 signals'[i].id \in CommandId /\ verdict'[signals'[i].id] # "unused"
            /\ signals'[i].type = "data" => /\ verdict'[signals'[i].id] = "pending"
                                            /\ kind'[signals'[i].id] \in Ordinary
      <4> TAKE i \in 1..Len(signals')
      <4>1. CASE i \in 1..Len(signals)
        BY <1>14, <1>b, <2>1, <4>1, Replied DEF PayloadsFirst
      <4>2. CASE i \notin 1..Len(signals)
        BY <1>14, <2>1, <2>2, <4>2, Replied
      <4> QED BY <4>1, <4>2
    <3> QED BY <3>1, <3>2 DEF PayloadsFirst
  <2> QED BY <2>4, <2>5, <2>6 DEF Answers
<1>15. CASE ShutdownSucceeds \/ AllowShutdownRetry
  <2>1. UNCHANGED <<kind, verdict, queue, signals>> /\ active' = None /\ worker' # "executing"
    BY <1>15 DEF ShutdownSucceeds, AllowShutdownRetry, gui
  <2> QED BY <1>a, <1>b, <2>1, NoneAssumption DEF Answers, QueueUnanswered, ActiveUnanswered,
         PayloadsFirst, Untouched
<1>16. CASE ShutdownFails
  <2>1. UNCHANGED <<kind, verdict, queue, active>> /\ worker' = "retrying" /\ worker = "executing"
    BY <1>16 DEF ShutdownFails, gui
  <2>2. \A x : x # active /\ Untouched(x) => Untouched(x)'
    BY <1>16, ShutdownFailed DEF Untouched
  <2>3. QueueUnanswered' /\ ActiveUnanswered'
    BY <1>a, <1>b, <2>1, <2>2 DEF QueueUnanswered, ActiveUnanswered
  <2>4. active \in CommandId /\ verdict[active] # "unused"
    BY <1>a, <2>1, NoneAssumption DEF Shutdowns
  <2>5. \A i, j \in 1..Len(signals') :
          i < j => i \in 1..Len(signals)
    BY <1>16, ShutdownFailed
  <2>6. \A j \in 1..Len(signals') : signals'[j].type = "data" => j \in 1..Len(signals)
    BY <1>16, ShutdownFailed
  <2>7. PayloadsFirst'
    BY <1>16, <1>b, <2>1, <2>4, <2>5, <2>6, ShutdownFailed DEF PayloadsFirst
  <2> QED BY <2>3, <2>7 DEF Answers
<1>17. CASE FinalizeEventLoop
  <2>1. UNCHANGED <<kind, verdict>> /\ queue' = <<>> /\ worker' = "exited"
    BY <1>17 DEF FinalizeEventLoop, gui
  <2>2. Exit(exit').type = "outcome" /\ Finished.type = "finished"
    BY DEF Exit, Finished
  <2>3. PayloadsFirst'
    BY <1>10, <1>17, <2>1, <2>2, Finalized
  <2> QED BY <2>1, <2>3 DEF Answers, QueueUnanswered, ActiveUnanswered
<1>18. CASE UNCHANGED vars
  BY <1>18, <1>b DEF vars, gui, Answers, QueueUnanswered, ActiveUnanswered, PayloadsFirst, Untouched
<1> QED BY <1>2, <1>3, <1>4, <1>6, <1>7, <1>8, <1>9, <1>11, <1>12, <1>13, <1>14, <1>15, <1>16,
       <1>17, <1>18 DEF Next, Call, Slot, WorkerStep

\* Who owns a pending command, in terms of the types of the signals.
Answered(id) ==
  \E i \in 1..Len(signals) : signals[i].type = "result" /\ signals[i].id = id

FinishComing == \E i \in 1..Len(signals) : signals[i].type = "finished"

Owned(id) ==
  \/ Queued(id) \/ id = active \/ Answered(id)
  \/ worker \in {"unwinding", "finalizing"} \/ FinishComing

AllOwned == \A id \in CommandId : Pending(id) /\ kind[id] \in Ordinary => Owned(id)

\* The two readings of ownership agree.
LEMMA OwnedMeans == TypeOK => (PendingCommandIsOwned <=> AllOwned)
<1> SUFFICES ASSUME TypeOK PROVE PendingCommandIsOwned <=> AllOwned
  OBVIOUS
<1>1. signals \in Seq(Signal)
  BY DEF TypeOK, WorkerOK
<1>2. DOMAIN signals = 1..Len(signals)
  BY <1>1
<1>3. FinishComing <=> Occurs(Finished)
  <2>1. \A i \in 1..Len(signals) : signals[i] \in Signal
    BY <1>1
  <2>2. \A x \in Signal : x.type = "finished" <=> x = Finished
    BY DEF Signal, Ready, Finished, Data, Result, Exit
  <2> QED BY <1>2, <2>1, <2>2 DEF FinishComing, Occurs
<1>4. ASSUME NEW id \in CommandId
      PROVE  Answered(id) <=> \E ok \in BOOLEAN : Occurs(Result(id, ok))
  <2>1. \A i \in 1..Len(signals) : signals[i] \in Signal
    BY <1>1
  <2>2. \A x \in Signal : x.type = "result" /\ x.id = id => \E ok \in BOOLEAN : x = Result(id, ok)
    BY DEF Signal, Ready, Finished, Data, Result, Exit
  <2>3. \A ok \in BOOLEAN : Result(id, ok).type = "result" /\ Result(id, ok).id = id
    BY DEF Result
  <2>4. Answered(id) => \E ok \in BOOLEAN : Occurs(Result(id, ok))
    BY <1>2, <2>1, <2>2, Zenon DEF Answered, Occurs
  <2>5. (\E ok \in BOOLEAN : Occurs(Result(id, ok))) => Answered(id)
    BY <1>2, <2>3, Zenon DEF Answered, Occurs
  <2> QED BY <2>4, <2>5
<1> QED BY <1>3, <1>4, Zenon DEF PendingCommandIsOwned, AllOwned, Owned

\* No call, slot or worker step loses a pending command.
LEMMA OwnedStep ==
  ASSUME TypeOK, TypeOK', Phases, Shutdowns, FinishedIsLast, PendingCommandIsOwned, [Next]_vars
  PROVE  PendingCommandIsOwned'
<1>0. GuiOK /\ WorkerOK
  BY DEF TypeOK
<1>a. /\ queue \in Seq(CommandId) /\ Len(queue) \in Nat /\ DOMAIN queue = 1..Len(queue)
      /\ active \in CommandId \cup {None}
      /\ Len(signals) \in Nat
  BY <1>0 DEF WorkerOK
<1>b. \A id \in CommandId : verdict[id] = "pending" /\ kind[id] \in Ordinary => Owned(id)
  BY OwnedMeans, NoneAssumption DEF AllOwned, Pending
<1>c. AllOwned' => PendingCommandIsOwned'
  BY OwnedMeans, PTL
<1> SUFFICES ASSUME NEW id \in CommandId, verdict'[id] = "pending", kind'[id] \in Ordinary
             PROVE  Owned(id)'
  BY <1>c DEF AllOwned, Pending
<1>d. id # None
  BY NoneAssumption
\* What is on its way stays on its way.
<1>e. ASSUME \A i \in 1..Len(signals) : signals'[i] = signals[i],
             Len(signals') \in Nat, Len(signals') >= Len(signals)
      PROVE  (Answered(id) => Answered(id)') /\ (FinishComing => FinishComing')
  <2>1. \A i \in 1..Len(signals) : i \in 1..Len(signals')
    BY <1>a, <1>e
  <2> QED BY <1>e, <2>1 DEF Answered, FinishComing
\* Calls.
<1>1. ASSUME NEW c \in CommandId, NEW k, NEW v, Allocate(c, k, v), UNCHANGED <<signals, active>>,
             UNCHANGED worker \/ worker = "unstarted",
             UNCHANGED queue \/ queue' = Append(queue, c),
             k \in Ordinary /\ v = "pending" => queue' = Append(queue, c)
      PROVE  Owned(id)'
  <2>1. /\ verdict'[c] = v /\ kind'[c] = k
        /\ \A i \in CommandId : i # c => verdict'[i] = verdict[i] /\ kind'[i] = kind[i]
    BY <1>0, <1>1, Allocated
  <2>2. /\ queue' = Append(queue, c) => Queued(c)'
        /\ \A x : Queued(x) => Queued(x)'
    <3>1. CASE queue' = Append(queue, c)
      <4>1. /\ queue' \in Seq(CommandId)
            /\ Len(queue') = Len(queue) + 1 /\ queue'[Len(queue) + 1] = c
            /\ \A i \in 1..Len(queue) : queue'[i] = queue[i]
        BY <1>a, <3>1, AppendFacts
      <4>2. DOMAIN queue' = 1..(Len(queue) + 1)
        BY <4>1
      <4> QED BY <1>a, <4>1, <4>2 DEF Queued
    <3>2. CASE UNCHANGED queue /\ queue' # Append(queue, c)
      BY <3>2 DEF Queued
    <3> QED BY <1>1, <3>1, <3>2
  <2>3. CASE id = c
    BY <1>1, <2>1, <2>2, <2>3 DEF Owned
  <2>4. CASE id # c
    <3>1. Owned(id)
      BY <1>b, <2>1, <2>4
    <3>2. worker \in {"unwinding", "finalizing"} => worker' \in {"unwinding", "finalizing"}
      BY <1>1
    <3> QED BY <1>1, <2>2, <3>1, <3>2 DEF Owned, Answered, FinishComing
  <2> QED BY <2>3, <2>4
<1>2. ASSUME NEW c \in CommandId, StartRuntimeCall(c) PROVE Owned(id)'
  <2>1. \E v : Allocate(c, "start", v)
    BY <1>2, Zenon DEF StartRuntimeCall, StartRuntime
  <2>2. UNCHANGED <<signals, active, queue>> /\ (UNCHANGED worker \/ state = "new")
    BY <1>2 DEF StartRuntimeCall, StartRuntime
  <2>3. "start" \notin Ordinary
    BY DEF Ordinary
  <2>4. UNCHANGED worker \/ worker = "unstarted"
    BY <2>2 DEF Phases
  <2> QED BY <1>1, <2>1, <2>2, <2>3, <2>4
<1>3. ASSUME NEW c \in CommandId, ShutdownCall(c) PROVE Owned(id)'
  <2>1. \E v : Allocate(c, "shutdown", v)
    BY <1>3, Zenon DEF ShutdownCall, Shutdown
  <2>2. UNCHANGED <<signals, active, worker>>
        /\ (UNCHANGED queue \/ queue' = Append(queue, c))
    BY <1>3 DEF ShutdownCall, Shutdown, RequestShutdown
  <2>3. "shutdown" \notin Ordinary
    BY DEF Ordinary
  <2> QED BY <1>1, <2>1, <2>2, <2>3
<1>4. ASSUME NEW c \in CommandId, NEW k \in Ordinary, Submit(c, k) PROVE Owned(id)'
  <2>1. UNCHANGED <<signals, active, worker>>
    BY <1>4 DEF Submit
  <2>2. \/ UNCHANGED queue /\ \E v : v # "pending" /\ Allocate(c, k, v)
        \/ queue' = Append(queue, c) /\ Allocate(c, k, "pending")
    <3>1. Refusal # "pending"
      BY DEF Refusal
    <3>2. "invalid_command" # "pending" /\ "journal_failed" # "pending" /\ "runtime_not_ready" # "pending"
      OBVIOUS
    <3> QED BY <1>4, <3>1, <3>2, Zenon DEF Submit
  <2> QED BY <1>1, <2>1, <2>2
\* Slots.
<1>5. ASSUME NEW type, Deliver(type), type # "finished", verdict[id] = "pending",
             type = "result" => signals[1].id # id
      PROVE  Owned(id)'
  <2>1. UNCHANGED <<worker, queue, active, kind>>
    BY <1>5 DEF Deliver
  <2>2. Owned(id)
    BY <1>b, <1>5, <2>1
  <2>3. \A i \in 1..Len(signals) :
          i # 1 => i - 1 \in 1..Len(signals') /\ signals'[i - 1] = signals[i]
    <3> TAKE i \in 1..Len(signals)
    <3> HAVE i # 1
    <3>1. i - 1 \in 1..Len(signals') /\ (i - 1) + 1 = i
      BY <1>5, Delivered
    <3> QED BY <1>5, <3>1, Delivered
  <2>4. signals[1].type = type
    BY <1>5, Delivered
  <2>5. Answered(id) => Answered(id)'
    BY <1>5, <2>3, <2>4 DEF Answered
  <2>6. FinishComing => FinishComing'
    BY <1>5, <2>3, <2>4 DEF FinishComing
  <2> QED BY <2>1, <2>2, <2>5, <2>6 DEF Owned, Queued
<1>6. CASE OnWorkerReady
  <2>1. Deliver("ready") /\ UNCHANGED kind
    BY <1>6 DEF OnWorkerReady, Deliver
  <2>2. id # startId
    BY <1>d, <2>1 DEF Shutdowns, Ordinary
  <2>3. verdict[id] = "pending"
    BY <1>6, <2>2, ReadySettles
  <2> QED BY <1>5, <2>1, <2>3
<1>7. CASE OnCommandResult
  <2>1. Deliver("result")
    BY <1>7 DEF OnCommandResult
  <2>2. signals[1].id # id
    BY <1>7, ResultSettles
  <2>3. verdict[id] = "pending"
    BY <1>7, <2>2, ResultSettles
  <2> QED BY <1>5, <2>1, <2>2, <2>3
<1>8. CASE OnData \/ OnShutdownOutcome
  BY <1>5, <1>8 DEF OnData, OnShutdownOutcome
<1>9. CASE OnThreadFinished
  BY <1>9, FinishedSettles
\* Worker steps.
<1>10. ASSUME WorkerStep PROVE verdict[id] = "pending" /\ kind[id] \in Ordinary /\ Owned(id)
  <2>1. UNCHANGED <<kind, verdict>>
    BY <1>10 DEF WorkerStep, Boot, BootFails, Dequeue, CommandEnds, ShutdownSucceeds, ShutdownFails,
       AllowShutdownRetry, CommandCancelled, DispatcherCrashes, StopAccepting, FinalizeEventLoop, gui
  <2> QED BY <1>b, <2>1
<1>11. CASE Boot
  <2>1. Owned(id)
    BY <1>10, <1>11 DEF WorkerStep
  <2>2. worker = "booting" /\ UNCHANGED queue /\ active = None
    BY <1>11 DEF Boot, Phases
  <2>3. (Answered(id) => Answered(id)') /\ (FinishComing => FinishComing')
    <3>1. CASE UNCHANGED signals
      BY <3>1 DEF Answered, FinishComing
    <3>2. CASE ~ UNCHANGED signals
      BY <1>a, <1>e, <1>11, <3>2, Booted
    <3> QED BY <3>1, <3>2
  <2> QED BY <1>d, <2>1, <2>2, <2>3 DEF Owned, Queued
<1>12. CASE BootFails \/ CommandCancelled \/ DispatcherCrashes \/ StopAccepting \/ ShutdownSucceeds
  BY <1>12 DEF BootFails, CommandCancelled, DispatcherCrashes, StopAccepting, ShutdownSucceeds, Owned
<1>13. CASE FinalizeEventLoop
  <2>1. Len(signals') \in 1..Len(signals') /\ signals'[Len(signals')] = Finished
    BY <1>13, Finalized
  <2>2. Finished.type = "finished"
    BY DEF Finished
  <2> QED BY <2>1, <2>2 DEF Owned, FinishComing
<1>14. CASE Dequeue
  <2>1. Owned(id)
    BY <1>10, <1>14 DEF WorkerStep
  <2>2. worker = "serving" /\ UNCHANGED signals /\ active = None
    BY <1>14 DEF Dequeue, Phases
  <2>3. Queued(id) => Queued(id)' \/ id = active'
    BY <1>14, Dequeued
  <2> QED BY <1>d, <2>1, <2>2, <2>3 DEF Owned, Answered, FinishComing
<1>15. CASE CommandEnds
  <2>1. Owned(id)
    BY <1>10, <1>15 DEF WorkerStep
  <2>2. worker = "executing" /\ UNCHANGED queue
    BY <1>15 DEF CommandEnds
  <2>3. (Answered(id) => Answered(id)') /\ (FinishComing => FinishComing')
    BY <1>a, <1>e, <1>15, Replied
  <2>4. Len(signals') \in 1..Len(signals')
    BY <1>15, Replied
  <2>5. id = active => Answered(id)'
    BY <1>15, <2>4, Replied DEF Answered
  <2> QED BY <2>1, <2>2, <2>3, <2>5 DEF Owned, Queued
<1>16. CASE ShutdownFails
  <2>1. Owned(id)
    BY <1>10, <1>16 DEF WorkerStep
  <2>2. worker = "executing" /\ UNCHANGED <<queue, active>>
    BY <1>16 DEF ShutdownFails
  <2>3. (Answered(id) => Answered(id)') /\ (FinishComing => FinishComing')
    BY <1>a, <1>e, <1>16, ShutdownFailed
  <2> QED BY <2>1, <2>2, <2>3 DEF Owned, Queued
<1>17. CASE AllowShutdownRetry
  <2>1. Owned(id) /\ kind[id] \in Ordinary
    BY <1>10, <1>17 DEF WorkerStep
  <2>2. worker = "retrying" /\ UNCHANGED <<queue, signals>> /\ kind[active] = "shutdown"
    BY <1>17 DEF AllowShutdownRetry, Phases
  <2>3. id # active
    BY <2>1, <2>2 DEF Ordinary
  <2> QED BY <2>1, <2>2, <2>3 DEF Owned, Queued, Answered, FinishComing
<1>18. CASE UNCHANGED vars
  <2>1. UNCHANGED <<kind, verdict, worker, queue, active, signals>>
    BY <1>18 DEF vars, gui
  <2> QED BY <1>b, <2>1 DEF Owned, Queued, Answered, FinishComing
<1> QED BY <1>2, <1>3, <1>4, <1>6, <1>7, <1>8, <1>9, <1>11, <1>12, <1>13, <1>14, <1>15, <1>16, <1>17,
       <1>18 DEF Next, Call, Slot, WorkerStep

\* The initial states and what the invariant says of the property.
LEMMA AccountInit == Init => AccountInv
<1> SUFFICES ASSUME Init PROVE AccountInv
  OBVIOUS
<1>1. Len(queue) = 0 /\ Len(signals) = 0
  BY DEF Init
<1>2. Phases /\ Shutdowns /\ FinishedIsLast
  BY <1>1 DEF Init, Phases, Shutdowns, FinishedIsLast
<1>3. Drains
  BY <1>1 DEF Init, Drains, CleanExitKnown, CleanCloseDrains, NoExit
<1>4. Answers
  BY <1>1 DEF Init, Answers, QueueUnanswered, ActiveUnanswered, PayloadsFirst
<1>5. PendingCommandIsOwned
  BY DEF Init, PendingCommandIsOwned, Pending
<1> QED BY <1>2, <1>3, <1>4, <1>5 DEF AccountInv

\* The invariant implies the property.
LEMMA AccountMeans ==
  ASSUME TypeOK, AccountInv
  PROVE  CommandsAreAccounted
<1>1. DOMAIN queue = 1..Len(queue) /\ DOMAIN signals = 1..Len(signals)
  BY DEF TypeOK, WorkerOK
<1>2. OneShutdownInTheWorker
  <2>1. Len(queue) \in Nat /\ (queue = <<>> => Len(queue) = 0)
    BY DEF TypeOK, WorkerOK
  <2>2. Shutdowns
    BY DEF AccountInv
  <2>3. \A i, j \in 1..Len(queue) :
          kind[queue[i]] = "shutdown" /\ kind[queue[j]] = "shutdown" => i = j
    BY <2>2 DEF Shutdowns
  <2>4. active # None /\ kind[active] = "shutdown" => Len(queue) = 0
    BY <2>1, <2>2 DEF Shutdowns
  <2>5. startupShutdown # None => Len(queue) = 0 /\ active = None
    BY <2>1, <2>2 DEF Shutdowns
  <2>6. Len(queue) = 0 => \A i \in 1..Len(queue) : FALSE
    OBVIOUS
  <2> QED BY <1>1, <2>3, <2>4, <2>5, <2>6 DEF OneShutdownInTheWorker
<1>3. PayloadBeforeResult
  BY <1>1, NoneAssumption DEF AccountInv, Answers, PayloadsFirst, PayloadBeforeResult, Pending
<1> QED BY <1>2, <1>3 DEF AccountInv, Drains, CommandsAreAccounted

\* One lemma per conjunct.
LEMMA AccountStep ==
  ASSUME TypeOK, TypeOK', AccountInv, [Next]_vars
  PROVE  AccountInv'
<1> USE DEF AccountInv
<1>1. Phases'
  BY PhasesStep
<1>2. Shutdowns'
  BY ShutdownsStep
<1>3. Drains'
  BY DrainsStep
<1>4. FinishedIsLast'
  BY FinishedIsLastStep
<1>5. Answers'
  BY AnswersStep
<1>6. PendingCommandIsOwned'
  BY OwnedStep
<1> QED BY <1>1, <1>2, <1>3, <1>4, <1>5, <1>6

\* Every command is accounted for between submit() or shutdown() and its
\* terminal signal: owned by one side, drained by a clean close, with a single
\* shutdown in the worker and no payload after its result.
THEOREM CommandsAccounted == Spec => []CommandsAreAccounted
<1>1. TypeOK /\ TypeOK' /\ AccountInv /\ [Next]_vars => AccountInv'
  BY AccountStep
<1>2. TypeOK /\ AccountInv => CommandsAreAccounted
  BY AccountMeans
<1> QED BY <1>1, <1>2, AccountInit, TypeCorrect, PTL DEF Spec
=============================================================================
