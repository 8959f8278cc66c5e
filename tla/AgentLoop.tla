------------------------------ MODULE AgentLoop ------------------------------
(***************************************************************************)
(* One turn: AgentLoop.run reading a Provider's event stream under a       *)
(* cancellation token and a deadline, and RuntimeSessionController.        *)
(* _run_turn consuming what it yields.                                     *)
(*                                                                         *)
(* The consumer never suspends, so the code between two awaits of the      *)
(* generator is one step: the wait for the next Provider event or the      *)
(* token, the execution of a tool, and the cleanup in the finally block.   *)
(* The Provider is arbitrary: any event, exception or end of stream may    *)
(* come at any time, and closing the stream may fail.                      *)
(***************************************************************************)
EXTENDS Naturals, Sequences

CONSTANT Registry  \* risks of the tools registered; {} in both compositions

Risks == {"safe", "sensitive_read", "side_effect", "destructive"}

ASSUME RegistryAssumption == Registry \subseteq Risks

VARIABLES
  pc,            \* where run() is suspended
  token,         \* CancellationToken.cancelled
  stream,        \* the Provider's stream
  seen,          \* terminal_type
  toolExecuted,  \* tool_executed
  blank,         \* the text collected so far is empty or white space
  cause,         \* why the read loop was left
  agentState,    \* _agent_state of the controller
  terminals,     \* terminal events handed to the controller, in order
  committed      \* _commit_completed_turn took effect

vars == <<pc, token, stream, seen, toolExecuted, blank, cause, agentState,
          terminals, committed>>

Running == pc # "over"

-----------------------------------------------------------------------------
(* DefaultToolPolicy.evaluate.  run() passes no approval and asks for a    *)
(* tool by its registered name, so only the risk decides.                  *)

Evaluate(risk) ==
  CASE risk = "destructive" -> "deny"
    [] risk = "safe"        -> "allow"
    [] OTHER                -> "require_approval"

-----------------------------------------------------------------------------
(* Terminal events.  TURN_COMPLETED is committed before it is relayed; a   *)
(* blank text cannot become a ChatMessage, the commit raises and the       *)
(* controller reports TURN_FAILED instead.                                 *)

Emit(event) == terminals' = Append(terminals, event)

Complete(isBlank) ==
  IF isBlank THEN Emit("failed") /\ UNCHANGED committed
             ELSE Emit("completed") /\ committed' = TRUE

Fail == Emit("failed") /\ UNCHANGED committed

-----------------------------------------------------------------------------
(* Environment: cancel_active_turn, a switch or a shutdown.                *)

Cancel ==
  /\ Running /\ ~token
  /\ token' = TRUE
  /\ UNCHANGED <<pc, stream, seen, toolExecuted, blank, cause, agentState,
                 terminals, committed>>

-----------------------------------------------------------------------------
(* Up to the first await: a token set before the start, a continuation of  *)
(* another Provider, a message over the context budget.                    *)

Begin ==
  /\ pc = "start"
  /\ \/ /\ token
        /\ Emit("cancelled") /\ pc' = "over" /\ agentState' = "idle"
        /\ UNCHANGED <<stream, committed>>
     \/ /\ ~token
        /\ Fail /\ pc' = "over" /\ agentState' = "idle"
        /\ UNCHANGED stream
     \/ /\ ~token
        /\ stream' = "open" /\ pc' = "reading" /\ agentState' = "thinking"
        /\ UNCHANGED <<terminals, committed>>
  /\ UNCHANGED <<token, seen, toolExecuted, blank, cause>>

-----------------------------------------------------------------------------
(* The read loop.  The token may be set while a read event is already on   *)
(* its way: the event is still handled, the next wait sees the token.      *)

ReadFrame == UNCHANGED <<token, stream, committed, terminals>>

Leave(why) ==
  /\ cause' = why /\ pc' = "closing"
  /\ UNCHANGED <<seen, toolExecuted, blank, agentState>>

ReadDelta ==
  /\ pc = "reading" /\ seen = "none"
  /\ blank' \in {blank, FALSE}
  /\ agentState' = "speaking"
  /\ ReadFrame /\ UNCHANGED <<pc, seen, toolExecuted, cause>>

\* An ERROR or a COMPLETED event: the loop goes on until the end of stream.
ReadTerminal ==
  /\ pc = "reading" /\ seen = "none"
  /\ seen' \in {"error", "completed"}
  /\ ReadFrame /\ UNCHANGED <<pc, toolExecuted, blank, cause, agentState>>

ReadEof ==
  /\ pc = "reading"
  /\ Leave("eof") /\ ReadFrame

\* A malformed event, one after the terminal one, or an exception.
ReadFails ==
  /\ pc = "reading"
  /\ Leave("exception") /\ ReadFrame

\* A call of a tool with this risk.
ReadToolCall(risk) ==
  /\ pc = "reading" /\ seen = "none" /\ risk \in Registry
  /\ UNCHANGED <<token, stream, seen, toolExecuted, blank>>
  /\ \/ /\ Evaluate(risk) = "allow"
        /\ pc' = "tool"
        /\ UNCHANGED <<cause, agentState, terminals, committed>>
     \/ /\ Evaluate(risk) = "require_approval"
        /\ Complete(FALSE)
        /\ agentState' = "idle" /\ cause' = "returned" /\ pc' = "closing"
     \/ /\ Evaluate(risk) = "deny"
        /\ Fail
        /\ agentState' = "idle" /\ cause' = "returned" /\ pc' = "closing"

ReadUnknownTool ==
  /\ pc = "reading" /\ seen = "none"
  /\ Fail
  /\ agentState' = "idle" /\ cause' = "returned" /\ pc' = "closing"
  /\ UNCHANGED <<token, stream, seen, toolExecuted, blank>>

ToolReturns ==
  /\ pc = "tool"
  /\ pc' = "reading" /\ toolExecuted' = TRUE /\ blank' = FALSE
  /\ ReadFrame /\ UNCHANGED <<seen, cause, agentState>>

ToolRaises ==
  /\ pc = "tool"
  /\ Leave("exception") /\ ReadFrame

SeeToken ==
  /\ pc = "reading" /\ token
  /\ Leave("cancelled") /\ ReadFrame

\* Seeded fault: the deadline does not cover the execution of a tool.
TimeoutOfReads ==
  /\ pc = "reading"
  /\ Leave("timeout") /\ ReadFrame

Timeout ==
  /\ pc \in {"reading", "tool"}
  /\ Leave("timeout") /\ ReadFrame

\* The task is cancelled natively while it waits.
Abort ==
  /\ \/ /\ pc = "start"
        /\ pc' = "over" /\ cause' = "aborted" /\ UNCHANGED stream
     \/ /\ pc \in {"reading", "tool"}
        /\ pc' = "closing" /\ cause' = "aborted" /\ UNCHANGED stream
     \/ /\ pc = "closing"       \* while a helper task is awaited: not closed
        /\ pc' = "over" /\ cause' = "aborted" /\ stream' = "abandoned"
  /\ UNCHANGED <<token, seen, toolExecuted, blank, agentState, terminals,
                 committed>>

-----------------------------------------------------------------------------
(* The finally block and what follows it.                                  *)

\* Seeded fault: only the cancellation the read loop saw counts.
CancelledAtEndSeenOnly == cause = "cancelled"

CancelledAtEnd == cause \in {"eof", "cancelled"} /\ (cause = "cancelled" \/ token)

\* Seeded fault: a stream that ends without a terminal event is an answer.
AnsweredAtEof == seen # "error"

Answered == seen = "completed" \/ (seen = "none" /\ toolExecuted)

\* Seeded fault: the early returns of the tool branch skip the IDLE state.
SettleLeavesState ==
  /\ UNCHANGED agentState
  /\ IF cause = "returned" THEN UNCHANGED <<terminals, committed>> ELSE Fail

Settle ==
  /\ agentState' = IF cause = "aborted" THEN agentState ELSE "idle"
  /\ IF cause \in {"returned", "aborted"} THEN UNCHANGED <<terminals, committed>>
     ELSE IF CancelledAtEnd THEN Emit("cancelled") /\ UNCHANGED committed
     ELSE IF cause = "eof" /\ Answered THEN Complete(blank)
     ELSE Fail

\* Seeded fault: the loop asks a stream it has closed for another event.
CloseSucceedsReadsOn ==
  /\ pc = "closing"
  /\ stream' = "closed" /\ pc' = "reading"
  /\ UNCHANGED <<token, seen, toolExecuted, blank, cause, agentState, terminals,
                 committed>>

CloseSucceeds ==
  /\ pc = "closing"
  /\ stream' = "closed" /\ pc' = "over"
  /\ Settle
  /\ UNCHANGED <<token, seen, toolExecuted, blank, cause>>

\* The exception of the close replaces whatever was under way, an early
\* return included, and ends in the last except clause.
CloseFails ==
  /\ pc = "closing"
  /\ stream' = "failed" /\ pc' = "over"
  /\ Fail /\ agentState' = "idle"
  /\ cause' = "exception"
  /\ UNCHANGED <<token, seen, toolExecuted, blank>>

-----------------------------------------------------------------------------

Init ==
  /\ pc = "start" /\ token \in BOOLEAN /\ stream = "none" /\ seen = "none"
  /\ toolExecuted = FALSE /\ blank = TRUE /\ cause = "none"
  /\ agentState = "idle" /\ terminals = <<>> /\ committed = FALSE

Read ==
  \/ ReadDelta
  \/ ReadTerminal
  \/ ReadEof
  \/ ReadFails
  \/ \E risk \in Risks : ReadToolCall(risk)
  \/ ReadUnknownTool

Close == CloseSucceeds \/ CloseFails

Next ==
  \/ Cancel
  \/ Begin
  \/ Read
  \/ ToolReturns
  \/ ToolRaises
  \/ SeeToken
  \/ Timeout
  \/ Abort
  \/ Close

Spec == Init /\ [][Next]_vars

\* The task is scheduled, asyncio.timeout fires, and the cleanup of the stream
\* returns or raises.  The Provider need not send anything, a tool need not
\* return, and nobody has to cancel.
Fairness == WF_vars(Begin) /\ WF_vars(Timeout) /\ WF_vars(Close)

FairSpec == Spec /\ Fairness

-----------------------------------------------------------------------------
(* Properties.                                                             *)

Emitted(event) == \E i \in DOMAIN terminals : terminals[i] = event

FlagsOK ==
  /\ token \in BOOLEAN /\ toolExecuted \in BOOLEAN
  /\ blank \in BOOLEAN /\ committed \in BOOLEAN

ShapeOK ==
  /\ pc \in {"start", "reading", "tool", "closing", "over"}
  /\ stream \in {"none", "open", "closed", "failed", "abandoned"}
  /\ pc \in {"reading", "tool", "closing"} => stream = "open"
  /\ seen \in {"none", "error", "completed"}
  /\ cause \in {"none", "eof", "exception", "returned", "cancelled", "timeout",
                "aborted"}
  /\ agentState \in {"idle", "thinking", "speaking"}
  /\ terminals \in Seq({"completed", "cancelled", "failed"})

TypeOK == FlagsOK /\ ShapeOK

\* However the stream behaves, a turn whose task returns has told the
\* controller a terminal event, which quiescing a turn relies on, shows the
\* agent idle and has not left its stream open.
ReturnIsTerminal ==
  pc = "over" /\ cause # "aborted" =>
    /\ terminals # <<>>
    /\ agentState = "idle"
    /\ stream # "open"

\* No registered tool needs approval; both compositions register no tool.
NoApproval == \A risk \in Registry : Evaluate(risk) # "require_approval"

\* The conversation changes only for an answer the Provider finished and whose
\* stream was closed without a failure: no partial text, nothing after an
\* error event, nothing of a turn that TURN_FAILED or TURN_CANCELLED reports.
\* (Without a tool that needs approval.)
CommitIsCleanAnswer ==
  committed =>
    /\ stream = "closed" /\ ~blank /\ cause = "eof"
    /\ seen = "completed" \/ toolExecuted
    /\ terminals = <<"completed">>

\* Once cancellation has been requested the turn can no longer change the
\* conversation, even if the answer is complete when the token is set.
\* (Without a tool that needs approval.)
NoCommitAfterCancel ==
  [][token /\ ~committed => ~committed']_vars

\* docs/architecture/qt_runtime.md: "TURN_FAILED, TURN_CANCELLED, timeout,
\* malformed terminal output, and unexpected exceptions do not commit the
\* user message, partial assistant text, or continuation."
FailedTurnCommitsNothing ==
  Emitted("failed") => ~committed

\* Every turn ends, also against a Provider that never answers.
TurnEnds == <>(pc = "over")
=============================================================================
