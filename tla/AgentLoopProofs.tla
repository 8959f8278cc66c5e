--------------------------- MODULE AgentLoopProofs ---------------------------
(***************************************************************************)
(* Proofs about AgentLoop, for every registry of tools; the two facts      *)
(* about commits assume that no registered tool needs approval.            *)
(***************************************************************************)
EXTENDS AgentLoop, TLAPS

\* Before the finally block nothing has been reported; in it, a terminal event
\* was reported exactly when the loop was left through an early return.
NothingReportedYet ==
  /\ pc = "start" => stream = "none"
  /\ pc \in {"start", "reading", "tool"} => cause = "none" /\ terminals = <<>>
  /\ pc = "closing" /\ cause = "returned" => terminals # <<>> /\ agentState = "idle"
  /\ pc = "closing" /\ cause # "returned" => terminals = <<>>

ReturnInv == TypeOK /\ NothingReportedYet /\ ReturnIsTerminal

CommitInv ==
  /\ TypeOK /\ NothingReportedYet
  /\ pc # "over" => ~committed
  /\ CommitIsCleanAnswer

-----------------------------------------------------------------------------

\* What the three branches of a registered tool call do, and when one commits.
LEMMA ToolCallCases ==
  ASSUME NEW risk \in Risks, ReadToolCall(risk)
  PROVE  /\ pc = "reading"
         /\ stream' = stream /\ seen' = seen
         /\ \/ /\ pc' = "tool" /\ cause' = cause
               /\ agentState' = agentState /\ terminals' = terminals
            \/ /\ pc' = "closing" /\ cause' = "returned" /\ agentState' = "idle"
               /\ \E event \in {"completed", "failed"} :
                    terminals' = Append(terminals, event)
BY DEF ReadToolCall, Complete, Emit, Fail

\* A call of a read-only or unknown tool commits nothing.
LEMMA ToolCallCommits ==
  ASSUME NEW risk \in Risks, ReadToolCall(risk), NoApproval
  PROVE  committed' = committed
BY DEF ReadToolCall, Complete, Fail, NoApproval

\* The shape of the state is kept by every step of a turn.
LEMMA ShapeStep == ShapeOK /\ [Next]_vars => ShapeOK'
<1> SUFFICES ASSUME ShapeOK, [Next]_vars PROVE ShapeOK'
  OBVIOUS
<1> USE DEF ShapeOK
<1>1. CASE Cancel
  BY <1>1 DEF Cancel
<1>2. CASE Begin
  BY <1>2 DEF Begin, Emit, Fail
<1>3. CASE Read
  <2>1. CASE ReadDelta BY <2>1 DEF ReadDelta, ReadFrame
  <2>2. CASE ReadTerminal BY <2>2 DEF ReadTerminal, ReadFrame
  <2>3. CASE ReadEof BY <2>3 DEF ReadEof, Leave, ReadFrame
  <2>4. CASE ReadFails BY <2>4 DEF ReadFails, Leave, ReadFrame
  <2>5. ASSUME NEW risk \in Risks, ReadToolCall(risk) PROVE ShapeOK'
    BY <2>5, ToolCallCases
  <2>6. CASE ReadUnknownTool BY <2>6 DEF ReadUnknownTool, Emit, Fail
  <2> QED BY <1>3, <2>1, <2>2, <2>3, <2>4, <2>5, <2>6 DEF Read
<1>4. CASE ToolReturns
  BY <1>4 DEF ToolReturns, ReadFrame
<1>5. CASE ToolRaises
  BY <1>5 DEF ToolRaises, Leave, ReadFrame
<1>6. CASE SeeToken
  BY <1>6 DEF SeeToken, Leave, ReadFrame
<1>7. CASE Timeout
  BY <1>7 DEF Timeout, Leave, ReadFrame
<1>8. CASE Abort
  BY <1>8 DEF Abort
<1>9. CASE Close
  <2>1. CASE CloseSucceeds
    BY <2>1 DEF CloseSucceeds, Settle, Emit, Fail, Complete
  <2>2. CASE CloseFails BY <2>2 DEF CloseFails, Emit, Fail
  <2> QED BY <1>9, <2>1, <2>2 DEF Close
<1>10. CASE UNCHANGED vars
  BY <1>10 DEF vars
<1> QED BY <1>1, <1>2, <1>3, <1>4, <1>5, <1>6, <1>7, <1>8, <1>9, <1>10 DEF Next

\* The flags stay Boolean.
LEMMA FlagsStep == FlagsOK /\ [Next]_vars => FlagsOK'
<1> SUFFICES ASSUME FlagsOK, [Next]_vars PROVE FlagsOK'
  OBVIOUS
<1>1. token' \in BOOLEAN
  BY DEF FlagsOK, Next, vars, Cancel, Begin, Read, ReadDelta, ReadTerminal,
     ReadEof, ReadFails, ReadToolCall, ReadUnknownTool, ToolReturns, ToolRaises,
     SeeToken, Timeout, Abort, Close, CloseSucceeds, CloseFails, ReadFrame
<1>2. toolExecuted' \in BOOLEAN
  BY DEF FlagsOK, Next, vars, Cancel, Begin, Read, ReadDelta, ReadTerminal,
     ReadEof, ReadFails, ReadToolCall, ReadUnknownTool, ToolReturns, ToolRaises,
     SeeToken, Timeout, Abort, Close, CloseSucceeds, CloseFails, Leave
<1>3. blank' \in BOOLEAN
  BY DEF FlagsOK, Next, vars, Cancel, Begin, Read, ReadDelta, ReadTerminal,
     ReadEof, ReadFails, ReadToolCall, ReadUnknownTool, ToolReturns, ToolRaises,
     SeeToken, Timeout, Abort, Close, CloseSucceeds, CloseFails, Leave
<1>4. committed' \in BOOLEAN
  BY DEF FlagsOK, Next, vars, Cancel, Begin, Read, ReadDelta, ReadTerminal,
     ReadEof, ReadFails, ReadToolCall, ReadUnknownTool, ToolReturns, ToolRaises,
     SeeToken, Timeout, Abort, Close, CloseSucceeds, CloseFails, ReadFrame,
     Complete, Fail, Settle
<1> QED BY <1>1, <1>2, <1>3, <1>4 DEF FlagsOK

\* Every step keeps the types.
LEMMA TypeStep == TypeOK /\ [Next]_vars => TypeOK'
BY FlagsStep, ShapeStep DEF TypeOK

\* A new turn has its types.
LEMMA TypeInit == Init => TypeOK
<1>1. Init => FlagsOK
  BY DEF Init, FlagsOK
<1>2. Init => ShapeOK
  BY DEF Init, ShapeOK
<1> QED BY <1>1, <1>2 DEF TypeOK

\* Nothing is reported before the finally block except by an early return.
LEMMA ReportedStep ==
  TypeOK /\ NothingReportedYet /\ [Next]_vars => NothingReportedYet'
<1> SUFFICES ASSUME TypeOK, NothingReportedYet, [Next]_vars
             PROVE  NothingReportedYet'
  OBVIOUS
<1> USE DEF NothingReportedYet
<1>1. CASE Cancel
  BY <1>1 DEF Cancel
<1>2. CASE Begin
  BY <1>2 DEF Begin
<1>3. CASE Read
  <2>1. CASE ReadDelta BY <2>1 DEF ReadDelta, ReadFrame
  <2>2. CASE ReadTerminal BY <2>2 DEF ReadTerminal, ReadFrame
  <2>3. CASE ReadEof BY <2>3 DEF ReadEof, Leave, ReadFrame
  <2>4. CASE ReadFails BY <2>4 DEF ReadFails, Leave, ReadFrame
  <2>5. ASSUME NEW risk \in Risks, ReadToolCall(risk) PROVE NothingReportedYet'
    BY <2>5, ToolCallCases DEF TypeOK, ShapeOK
  <2>6. CASE ReadUnknownTool BY <2>6 DEF ReadUnknownTool, Emit, Fail, TypeOK, ShapeOK
  <2> QED BY <1>3, <2>1, <2>2, <2>3, <2>4, <2>5, <2>6 DEF Read
<1>4. CASE ToolReturns
  BY <1>4 DEF ToolReturns, ReadFrame
<1>5. CASE ToolRaises
  BY <1>5 DEF ToolRaises, Leave, ReadFrame
<1>6. CASE SeeToken
  BY <1>6 DEF SeeToken, Leave, ReadFrame
<1>7. CASE Timeout
  BY <1>7 DEF Timeout, Leave, ReadFrame
<1>8. CASE Abort
  BY <1>8 DEF Abort
<1>9. CASE Close
  BY <1>9 DEF Close, CloseSucceeds, CloseFails
<1>10. CASE UNCHANGED vars
  BY <1>10 DEF vars
<1> QED BY <1>1, <1>2, <1>3, <1>4, <1>5, <1>6, <1>7, <1>8, <1>9, <1>10 DEF Next

\* A turn reaches "over" only through Begin, an abort or the finally block.
LEMMA ReturnStep == ReturnInv /\ [Next]_vars => ReturnIsTerminal'
<1> SUFFICES ASSUME ReturnInv, [Next]_vars PROVE ReturnIsTerminal'
  OBVIOUS
<1> USE DEF ReturnInv, NothingReportedYet, ReturnIsTerminal
<1>1. CASE Cancel
  BY <1>1 DEF Cancel
<1>2. CASE Begin
  BY <1>2 DEF Begin, Emit, Fail, TypeOK, ShapeOK
<1>3. CASE Read
  <2>1. pc' # "over"
    BY <1>3, ToolCallCases DEF Read, ReadDelta, ReadTerminal, ReadEof, ReadFails,
       ReadUnknownTool, Leave
  <2> QED BY <2>1
<1>4. CASE ToolReturns \/ ToolRaises \/ SeeToken \/ Timeout
  BY <1>4 DEF ToolReturns, ToolRaises, SeeToken, Timeout, Leave
<1>5. CASE Abort
  BY <1>5 DEF Abort
<1>6. CASE Close
  <2>1. CASE CloseSucceeds
    <3>1. CASE cause = "returned"
      BY <2>1, <3>1 DEF CloseSucceeds, Settle
    <3>2. CASE cause = "aborted"
      BY <2>1, <3>2 DEF CloseSucceeds
    <3>3. CASE cause \notin {"returned", "aborted"}
      <4>1. terminals' # <<>>
        BY <2>1, <3>3 DEF CloseSucceeds, Settle, Emit, Fail, Complete, TypeOK, ShapeOK
      <4> QED BY <2>1, <3>3, <4>1 DEF CloseSucceeds, Settle
    <3> QED BY <3>1, <3>2, <3>3
  <2>2. CASE CloseFails
    BY <2>2 DEF CloseFails, Fail, Emit, TypeOK, ShapeOK
  <2> QED BY <1>6, <2>1, <2>2 DEF Close
<1>7. CASE UNCHANGED vars
  BY <1>7 DEF vars
<1> QED BY <1>1, <1>2, <1>3, <1>4, <1>5, <1>6, <1>7 DEF Next

\* The type invariant of the turn.
THEOREM TypeCorrect == Spec => []TypeOK
BY TypeInit, TypeStep, PTL DEF Spec

\* A turn whose task returns has reported a terminal event, left the agent
\* idle and its stream not open (AgentLoop.run, RuntimeSessionController.
\* _run_turn), for every registry of tools.
THEOREM ReturnTerminal == Spec => []ReturnIsTerminal
<1>1. Init => ReturnInv
  BY TypeInit DEF Init, ReturnInv, NothingReportedYet, ReturnIsTerminal
<1>2. ReturnInv /\ [Next]_vars => ReturnInv'
  BY TypeStep, ReportedStep, ReturnStep DEF ReturnInv
<1>3. ReturnInv => ReturnIsTerminal
  BY DEF ReturnInv
<1> QED BY <1>1, <1>2, <1>3, PTL DEF Spec

-----------------------------------------------------------------------------

\* Without tools that need approval only a clean end of stream commits.
LEMMA CommitStep ==
  ASSUME NoApproval, CommitInv, [Next]_vars
  PROVE  /\ (pc # "over" => ~committed)'
         /\ CommitIsCleanAnswer'
         /\ token /\ ~committed => ~committed'
<1> USE DEF CommitInv, NothingReportedYet, CommitIsCleanAnswer
<1>1. CASE Cancel
  BY <1>1 DEF Cancel, Running
<1>2. CASE Begin
  BY <1>2 DEF Begin, Fail
<1>3. CASE Read
  <2>1. CASE ReadDelta \/ ReadTerminal \/ ReadEof \/ ReadFails \/ ReadUnknownTool
    <3>1. ~committed
      BY <2>1 DEF ReadDelta, ReadTerminal, ReadEof, ReadFails, ReadUnknownTool
    <3>2. committed' = committed
      BY <2>1 DEF ReadDelta, ReadTerminal, ReadEof, ReadFails, ReadUnknownTool,
         ReadFrame, Fail
    <3> QED BY <3>1, <3>2
  <2>2. ASSUME NEW risk \in Risks, ReadToolCall(risk)
        PROVE  pc # "over" /\ ~committed'
    BY <2>2, ToolCallCases, ToolCallCommits
  <2> QED BY <1>3, <2>1, <2>2 DEF Read
<1>4. CASE ToolReturns \/ ToolRaises \/ SeeToken \/ Timeout
  BY <1>4 DEF ToolReturns, ToolRaises, SeeToken, Timeout, Leave, ReadFrame
<1>5. CASE Abort
  BY <1>5 DEF Abort
<1>6. CASE Close
  <2>1. CASE CloseSucceeds
    <3>1. CASE committed'
      <4>1. /\ cause = "eof" /\ Answered /\ ~CancelledAtEnd /\ ~blank
            /\ terminals' = Append(terminals, "completed")
        BY <2>1, <3>1 DEF CloseSucceeds, Settle, Complete, Emit, Fail, TypeOK, ShapeOK
      <4>2. terminals' = <<"completed">>
        BY <2>1, <4>1 DEF CloseSucceeds
      <4>3. ~token
        BY <4>1 DEF CancelledAtEnd
      <4> QED BY <2>1, <4>1, <4>2, <4>3 DEF CloseSucceeds, Answered, TypeOK, ShapeOK
    <3>2. CASE ~committed'
      BY <3>2
    <3> QED BY <3>1, <3>2
  <2>2. CASE CloseFails
    BY <2>2 DEF CloseFails, Fail
  <2> QED BY <1>6, <2>1, <2>2 DEF Close
<1>7. CASE UNCHANGED vars
  BY <1>7 DEF vars
<1> QED BY <1>1, <1>2, <1>3, <1>4, <1>5, <1>6, <1>7 DEF Next

\* Without approvals, what a turn has committed is the answer of its clean end.
LEMMA CommitInvariant == ASSUME NoApproval PROVE Spec => []CommitInv
<1>1. Init => CommitInv
  BY TypeInit DEF Init, CommitInv, NothingReportedYet, CommitIsCleanAnswer
<1>2. CommitInv /\ [Next]_vars => CommitInv'
  BY TypeStep, ReportedStep, CommitStep DEF CommitInv
<1> QED BY <1>1, <1>2, PTL DEF Spec

\* A commit is the clean answer of a finished stream (_commit_completed_turn).
THEOREM CleanCommits == ASSUME NoApproval PROVE Spec => []CommitIsCleanAnswer
<1>1. CommitInv => CommitIsCleanAnswer
  BY DEF CommitInv
<1> QED BY <1>1, CommitInvariant, PTL

\* Once the token is set, the turn never commits (the check of token.cancelled
\* after the finally block of AgentLoop.run).
THEOREM CancelPreventsCommit == ASSUME NoApproval PROVE Spec => NoCommitAfterCancel
<1>1. CommitInv /\ [Next]_vars => [token /\ ~committed => ~committed']_vars
  BY CommitStep
<1> QED BY <1>1, CommitInvariant, PTL DEF Spec, NoCommitAfterCancel
=============================================================================
