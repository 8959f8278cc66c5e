--------------------------- MODULE AutostartProofs ---------------------------
(***************************************************************************)
(* Proofs about Autostart, for any set of facts the executable must        *)
(* satisfy and any bound on requests and foreign changes: when nothing is  *)
(* under way the menus show what the service last said, and a step shows   *)
(* nothing older than the user's toggle and leaves a lost entry alone.     *)
(*                                                                         *)
(* QuietUiAgrees is not inductive: that nothing is pending says something  *)
(* about what is shown only because commands are executed and answered in  *)
(* the order of their revisions, because a pending toggle is the only one, *)
(* and because the last state on its way is what the service last said.    *)
(***************************************************************************)
EXTENDS Autostart, TLAPS

-----------------------------------------------------------------------------
(* The inductive invariant.                                                *)

Request == [rev : Nat, kind : Kinds]

Reply == [type : {"state", "result", "finished"}, cmd : Request, ok : BOOLEAN, snap : Statuses]

Values == {"absent", "ours", "other"}

Service == [snap : Statuses, confirmed : BOOLEAN, lost : BOOLEAN]

Operation ==
  [pc : {"idle", "enter", "read", "write", "written", "verify", "publish"},
   kind : Kinds, rev : Nat, prev : Statuses, ok : BOOLEAN, snap : Statuses]

Menus ==
  [snap : Statuses, busy : BOOLEAN, closing : BOOLEAN, error : BOOLEAN,
   rev : Nat, mutation : Nat, applied : Nat]

ServiceTypes ==
  /\ entry \in Values /\ failing \subseteq Facts /\ foreign \in Nat
  /\ journal \in {"off", "on", "failed"} /\ thread \in {"up", "stopped"}
  /\ svc \in Service /\ op \in Operation

MenuTypes ==
  /\ gui \in Menus /\ gui.mutation <= gui.rev /\ gui.applied <= gui.rev
  /\ gui.rev <= MaxRevision + 1 /\ (bridge = "ready" => gui.rev <= MaxRevision)
  /\ bridge \in {"ready", "closing", "down"}

QueueTypes == queue \in Seq(Request) /\ replies \in Seq(Reply) /\ pending \subseteq Request

Active == op.pc # "idle"

\* Commands are executed and answered in the order of their revisions, and what
\* was shown is older than any answer to come.
QueueOrdered ==
  /\ \A i, j \in 1..Len(queue) : i < j => queue[i].rev < queue[j].rev
  /\ \A i \in 1..Len(queue) : gui.applied < queue[i].rev /\ queue[i].rev <= gui.rev
  /\ Active => gui.applied < op.rev /\ op.rev <= gui.rev /\ \A i \in 1..Len(queue) : op.rev < queue[i].rev

RepliesOrdered ==
  \A i \in 1..Len(replies) : replies[i].type # "finished" =>
     /\ replies[i].cmd.rev <= gui.rev
     /\ Active => replies[i].cmd.rev < op.rev
     /\ \A j \in 1..Len(queue) : replies[i].cmd.rev < queue[j].rev
     /\ replies[i].type = "state" => gui.applied < replies[i].cmd.rev
     /\ \A j \in 1..Len(replies) : i < j /\ replies[j].type # "finished" =>
          \/ replies[i].cmd.rev < replies[j].cmd.rev
          \/ replies[i].type = "state" /\ replies[j].type = "result" /\ replies[i].cmd = replies[j].cmd

\* The finished signal is the last one of a thread that holds nothing any more.
FinishedIsLast ==
  /\ thread = "stopped" => ~Active /\ queue = <<>>
  /\ \A i \in 1..Len(replies) : replies[i].type = "finished" => thread = "stopped" /\ i = Len(replies)

\* What has not been answered is pending.
UnansweredIsPending ==
  /\ \A i \in 1..Len(queue) : queue[i] \in pending
  /\ Active => Cmd \in pending
  /\ \A i \in 1..Len(replies) : replies[i].type = "state" => replies[i].cmd \in pending

\* A toggle on its way is the last one, and the menus are busy with it.
OneToggle ==
  /\ \A i \in 1..Len(queue) : queue[i].kind # "query" => gui.busy /\ queue[i].rev = gui.mutation
  /\ Active /\ op.kind # "query" => gui.busy /\ op.rev = gui.mutation
  /\ \A i \in 1..Len(replies) : replies[i].type # "finished" /\ replies[i].cmd.kind # "query" =>
        gui.busy /\ replies[i].cmd.rev = gui.mutation

\* The service: what it shows as enabled it owns, during an operation too, and
\* an operation that changes the entry has not lost it.
Owned ==
  /\ EnabledIsOwned
  /\ op.pc \in {"enter", "read", "write", "written", "verify"} /\ op.prev = "enabled" => svc.confirmed /\ ~svc.lost
  /\ op.pc \in {"write", "written", "verify"} => op.kind # "query"
  /\ op.pc \in {"read", "write", "written", "verify"} /\ op.kind # "query" => ~svc.lost

\* As long as nothing failed: the toggle was shown or its answer is still to
\* come, and the last answer on its way is what the service last said.
Answering(rev) ==
  \/ Active /\ op.rev = rev
  \/ \E i \in 1..Len(queue) : queue[i].rev = rev
  \/ \E i \in 1..Len(replies) : replies[i].type = "state" /\ replies[i].cmd.rev = rev

LastState(i) == replies[i].type = "state" /\ \A j \in 1..Len(replies) : i < j => replies[j].type # "state"

NoState == \A i \in 1..Len(replies) : replies[i].type # "state"

ToggleIsShown == gui.mutation <= gui.applied \/ Answering(gui.mutation)

AnswersAreTrue ==
  /\ op.pc = "publish" => op.snap = svc.snap
  /\ op.pc # "publish" => /\ \A i \in 1..Len(replies) : LastState(i) => replies[i].snap = svc.snap
                          /\ NoState => gui.snap = svc.snap \/ gui.applied < gui.mutation

Sound == journal # "failed" /\ thread = "up"

AutostartInv ==
  /\ ServiceTypes /\ MenuTypes /\ QueueTypes
  /\ QueueOrdered /\ RepliesOrdered /\ FinishedIsLast /\ UnansweredIsPending /\ OneToggle /\ Owned
  /\ Sound => ToggleIsShown /\ AnswersAreTrue

-----------------------------------------------------------------------------
(* What the operators do, as facts the proofs share.                       *)

\* What Append does to the indices of a sequence.
LEMMA AppendFacts ==
  ASSUME NEW S, NEW s \in Seq(S), NEW x \in S
  PROVE  /\ Append(s, x) \in Seq(S) /\ Len(s) \in Nat
         /\ Len(Append(s, x)) = Len(s) + 1
         /\ \A i \in 1..Len(s) : Append(s, x)[i] = s[i] /\ s[i] \in S
         /\ Append(s, x)[Len(s) + 1] = x
OBVIOUS

\* A concatenation with two signals, the state and the result of a command.
LEMMA ConcatTwo ==
  ASSUME NEW S, NEW s \in Seq(S), NEW x \in S, NEW y \in S
  PROVE  /\ s \o <<x, y>> \in Seq(S)
         /\ Len(s \o <<x, y>>) = Len(s) + 2 /\ Len(s) \in Nat
         /\ \A i \in 1..Len(s) : (s \o <<x, y>>)[i] = s[i] /\ s[i] \in S
         /\ (s \o <<x, y>>)[Len(s) + 1] = x /\ (s \o <<x, y>>)[Len(s) + 2] = y
OBVIOUS

\* What taking the head of a queue leaves.
LEMMA TailFacts ==
  ASSUME NEW S, NEW s \in Seq(S), s # <<>>
  PROVE  /\ Tail(s) \in Seq(S) /\ Len(s) \in Nat /\ Len(s) > 0
         /\ Len(Tail(s)) = Len(s) - 1
         /\ \A i \in 1..(Len(s) - 1) : Tail(s)[i] = s[i + 1]
         /\ Head(s) = s[1] /\ \A i \in 1..Len(s) : s[i] \in S
OBVIOUS

\* A journal that failed stays so, and one that is off cannot fail.
LEMMA RecordFacts ==
  ASSUME journal \in {"off", "on", "failed"}, NEW ok \in BOOLEAN, Record(ok)
  PROVE  /\ journal' \in {"off", "on", "failed"}
         /\ ok => journal # "failed" /\ journal' = journal
         /\ ~ok => journal' = "failed"
         /\ journal = "failed" => journal' = "failed"
BY DEF Record

\* What _classify makes of a value: a status that goes with what is owned.
LEMMA ClassifiedFacts ==
  ASSUME svc \in Service, NEW stored
  PROVE  /\ Classified(stored) \in Service
         /\ Classified(stored).snap = "enabled" => Classified(stored).confirmed /\ ~Classified(stored).lost
         /\ svc.lost => Classified(stored).lost
BY DEF Classified, Service, Statuses

\* What a step of the service does to the operation under way.
ServiceMoves ==
  /\ UNCHANGED <<failing, pending, gui, bridge, foreign, thread, queue, replies>>
  /\ Active /\ Active' /\ op'.rev = op.rev /\ op'.kind = op.kind
  /\ op' \in Operation /\ svc' \in Service /\ entry' \in Values
  /\ journal' \in {"off", "on", "failed"} /\ (journal = "failed" => journal' = "failed")
  /\ op'.pc # "publish" => op.pc # "publish" /\ svc'.snap = svc.snap
  /\ op'.pc = "publish" /\ journal' # "failed" => op'.snap = svc'.snap

\* How an operation ends in the service: what it publishes is what the service
\* holds, unless the journal failed, and what is enabled is owned.
Concludes ==
  /\ op' \in Operation /\ op'.pc = "publish" /\ op'.rev = op.rev /\ op'.kind = op.kind
  /\ svc' \in Service /\ EnabledIsOwned'
  /\ journal' # "failed" => op'.snap = svc'.snap

\* How an operation goes on: the snapshot stays as it is.
Continues ==
  /\ op' \in Operation /\ op'.pc \in {"read", "write", "written", "verify"}
  /\ op'.rev = op.rev /\ op'.kind = op.kind /\ op'.prev = op.prev

\* A service that returns publishes what it was given.
LEMMA PublishesConcludes ==
  ASSUME ServiceTypes, NEW s \in Service, s.snap = "enabled" => s.confirmed /\ ~s.lost,
         NEW ok \in BOOLEAN, Publishes(s, ok)
  PROVE  Concludes
BY DEF ServiceTypes, Publishes, Return, Concludes, EnabledIsOwned, Operation, Service

\* A journal that fails, or a registry access that does, ends the operation.
LEMMA FailureConcludes ==
  ASSUME ServiceTypes, Owned, op.pc \in {"enter", "read", "write", "written", "verify"},
         JournalFails \/ BackendFails
  PROVE  Concludes /\ journal' \in {"off", "on", "failed"} /\ (journal = "failed" => journal' = "failed")
<1>1. CASE JournalFails
  <2>1. svc' = [svc EXCEPT !.snap = "error"] /\ Return(FALSE, IF op.kind = "query" THEN "error" ELSE op.prev)
    BY <1>1 DEF JournalFails
  <2>2. journal' = "failed"
    BY <1>1, RecordFacts DEF JournalFails, ServiceTypes
  <2> QED BY <2>1, <2>2 DEF ServiceTypes, Return, Concludes, EnabledIsOwned, Operation, Service, Statuses
<1>2. CASE BackendFails
  <2> DEFINE snap == IF op.kind = "query" THEN "error" ELSE op.prev
  <2>1. svc' = [svc EXCEPT !.snap = snap] /\ Return(FALSE, snap)
    BY <1>2 DEF BackendFails
  <2>2. journal' = journal
    BY <1>2, RecordFacts DEF BackendFails, ServiceTypes
  <2>3. snap \in Statuses /\ (snap = "enabled" => svc.confirmed /\ ~svc.lost)
    BY DEF ServiceTypes, Operation, Owned, Statuses
  <2> QED BY <2>1, <2>2, <2>3 DEF ServiceTypes, Return, Concludes, EnabledIsOwned, Operation, Service
<1> QED BY <1>1, <1>2

\* The next step of an operation.
LEMMA GotoContinues ==
  ASSUME ServiceTypes, NEW pc \in {"read", "write", "written", "verify"}, Goto(pc)
  PROVE  Continues /\ op'.pc = pc
BY DEF ServiceTypes, Goto, Continues, Operation

\* What the value read calls for.
LEMMA ReadSteps ==
  ASSUME ServiceTypes, op.kind # "query" => ~svc.lost, NEW stored \in Values, ReadStep(stored)
  PROVE  \/ Concludes
         \/ Continues /\ op'.pc = "write" /\ op.kind # "query" /\ svc' = svc
<1>1. Classified(stored) \in Service
      /\ (Classified(stored).snap = "enabled" => Classified(stored).confirmed /\ ~Classified(stored).lost)
  BY ClassifiedFacts DEF ServiceTypes
<1>2. \A ok \in BOOLEAN : Publishes(Classified(stored), ok) => Concludes
  BY <1>1, PublishesConcludes
<1>3. (Classified(stored).snap = "enabled") \in BOOLEAN /\ (Classified(stored).snap # "ownership_lost") \in BOOLEAN
  OBVIOUS
<1>4. Goto("write") => Continues /\ op'.pc = "write"
  BY GotoContinues
<1>5. Publishes([svc EXCEPT !.snap = "ownership_lost", !.lost = TRUE], FALSE) => Concludes
  BY PublishesConcludes DEF ServiceTypes, Service, Statuses
<1>6. op.kind \in Kinds
  BY DEF ServiceTypes, Operation
<1> HIDE DEF Classified
<1>a. CASE op.kind = "query"
  BY <1>a, <1>2 DEF ReadStep
<1>b. CASE op.kind = "enable"
  BY <1>b, <1>2, <1>3, <1>4 DEF ReadStep
<1>c. CASE op.kind = "disable"
  BY <1>c, <1>2, <1>3, <1>4, <1>5 DEF ReadStep, Values
<1> QED BY <1>6, <1>a, <1>b, <1>c DEF Kinds

\* What the value read back proves.
LEMMA VerifySteps ==
  ASSUME ServiceTypes, NEW stored \in Values, VerifyStep(stored)
  PROVE  Concludes
<1>1. Classified(stored) \in Service
      /\ (Classified(stored).snap = "enabled" => Classified(stored).confirmed /\ ~Classified(stored).lost)
  BY ClassifiedFacts DEF ServiceTypes
<1>2. \A ok \in BOOLEAN : Publishes(Classified(stored), ok) => Concludes
  BY <1>1, PublishesConcludes
<1>3. (Classified(stored).snap = "enabled") \in BOOLEAN
  OBVIOUS
<1>4. Publishes([svc EXCEPT !.snap = "ownership_lost", !.lost = TRUE], FALSE) => Concludes
  BY PublishesConcludes DEF ServiceTypes, Service, Statuses
<1>5. Publishes([snap |-> "disabled", confirmed |-> FALSE, lost |-> FALSE], TRUE) => Concludes
  BY PublishesConcludes DEF Service, Statuses
<1> QED BY <1>2, <1>3, <1>4, <1>5 DEF VerifyStep

\* Every step of the service is such a move, and what it shows as enabled it
\* owns.
LEMMA ServiceSteps ==
  ASSUME ServiceTypes, Owned, Enter \/ ReadValue \/ WriteValue \/ Written \/ Verify
  PROVE  ServiceMoves /\ Owned'
<1> DEFINE working == op.pc \in {"enter", "read", "write", "written", "verify"}
           quiet == UNCHANGED <<failing, pending, gui, bridge, foreign, thread, queue, replies>>
           kept == journal' \in {"off", "on", "failed"} /\ (journal = "failed" => journal' = "failed")
<1>1. ASSUME Concludes, working, quiet, kept, entry' \in Values PROVE ServiceMoves /\ Owned'
  BY <1>1 DEF Concludes, ServiceMoves, Owned, Active
<1>2. ASSUME Continues, working, quiet, kept, entry' \in Values, svc' \in Service, svc'.snap = svc.snap,
             svc.confirmed => svc'.confirmed, svc'.lost = svc.lost,
             op'.pc # "read" => op.kind # "query",
             op.kind # "query" => ~svc.lost
      PROVE  ServiceMoves /\ Owned'
  BY <1>2 DEF Continues, ServiceMoves, Owned, EnabledIsOwned, Active
<1>3. ASSUME working, JournalFails \/ BackendFails PROVE Concludes /\ kept
  BY <1>3, FailureConcludes
<1>4. Record(TRUE) => kept /\ UNCHANGED journal
  BY RecordFacts DEF ServiceTypes
<1>5. entry \in Values /\ svc \in Service /\ (op.kind = "query" \/ op.kind # "query")
  BY DEF ServiceTypes
<1>6. CASE Enter
  <2>1. working /\ quiet /\ entry' = entry
    BY <1>6 DEF Enter, GuiUntouched
  <2>2. Entered => kept
    BY <1>4 DEF Entered, ServiceTypes
  <2>3. CASE JournalFails
    BY <2>1, <2>3, <1>1, <1>3, <1>5
  <2>4. CASE Entered /\ MayProceed /\ Goto("read") /\ UNCHANGED svc
    <3>1. Continues /\ op'.pc = "read"
      BY <2>4, GotoContinues
    <3>2. op.kind # "query" => ~svc.lost
      BY <2>4 DEF MayProceed
    <3> QED BY <2>1, <2>2, <2>4, <3>1, <3>2, <1>2, <1>5
  <2>5. CASE /\ Entered /\ ~MayProceed
             /\ Publishes([svc EXCEPT !.snap = IF ~Eligible THEN "invalid_executable" ELSE "ownership_lost"],
                          op.kind = "query")
    <3>1. Concludes
      BY <2>5, PublishesConcludes DEF ServiceTypes, Service, Statuses
    <3> QED BY <2>1, <2>2, <2>5, <3>1, <1>1, <1>5
  <2> QED BY <1>6, <2>3, <2>4, <2>5 DEF Enter
<1>7. CASE ReadValue
  <2>1. working /\ quiet /\ entry' = entry /\ op.pc = "read" /\ (op.kind # "query" => ~svc.lost)
    BY <1>7 DEF ReadValue, GuiUntouched, Owned
  <2>2. CASE JournalFails \/ BackendFails
    BY <2>1, <2>2, <1>1, <1>3, <1>5
  <2>3. CASE Record(TRUE) /\ ReadStep(entry)
    BY <2>1, <2>3, <1>1, <1>2, <1>4, <1>5, ReadSteps
  <2> QED BY <1>7, <2>2, <2>3 DEF ReadValue
<1>8. CASE WriteValue
  <2>1. working /\ quiet /\ op.kind # "query" /\ ~svc.lost
    BY <1>8 DEF WriteValue, GuiUntouched, Owned
  <2>2. CASE (JournalFails \/ BackendFails) /\ UNCHANGED entry
    BY <2>1, <2>2, <1>1, <1>3, <1>5
  <2>3. CASE /\ entry' = IF op.kind = "enable" THEN "ours" ELSE "absent"
             /\ Record(TRUE) /\ Goto("written") /\ UNCHANGED svc
    <3>1. entry' \in Values
      BY <2>3 DEF Values
    <3>2. Continues
      BY <2>3, GotoContinues
    <3> QED BY <2>1, <2>3, <3>1, <3>2, <1>2, <1>4, <1>5
  <2> QED BY <1>8, <2>2, <2>3 DEF WriteValue
<1>9. CASE Written
  <2>1. working /\ quiet /\ entry' = entry /\ op.kind # "query" /\ ~svc.lost
    BY <1>9 DEF Written, GuiUntouched, Owned
  <2>2. CASE JournalFails
    BY <2>1, <2>2, <1>1, <1>3, <1>5
  <2>3. CASE Record(TRUE) /\ Goto("verify") /\ svc' = [svc EXCEPT !.confirmed = @ \/ op.kind = "enable"]
    <3>1. /\ svc' \in Service /\ svc'.snap = svc.snap /\ svc'.lost = svc.lost
          /\ svc.confirmed => svc'.confirmed
      BY <2>3, <1>5 DEF Service
    <3>2. Continues
      BY <2>3, GotoContinues
    <3> QED BY <2>1, <2>3, <3>1, <3>2, <1>2, <1>4, <1>5
  <2> QED BY <1>9, <2>2, <2>3 DEF Written
<1>10. CASE Verify
  <2>1. working /\ quiet /\ entry' = entry
    BY <1>10 DEF Verify, GuiUntouched
  <2>2. CASE JournalFails \/ BackendFails
    BY <2>1, <2>2, <1>1, <1>3, <1>5
  <2>3. CASE Record(TRUE) /\ VerifyStep(entry)
    BY <2>1, <2>3, <1>1, <1>4, <1>5, VerifySteps
  <2> QED BY <1>10, <2>2, <2>3 DEF Verify
<1> QED BY <1>6, <1>7, <1>8, <1>9, <1>10

-----------------------------------------------------------------------------
(* The steps outside the service.                                          *)

\* The types of what is queued, answered and executed.
LEMMA QueueFacts ==
  ASSUME ServiceTypes, QueueTypes
  PROVE  /\ Len(queue) \in Nat /\ Len(replies) \in Nat
         /\ \A i \in 1..Len(queue) : queue[i] \in Request /\ queue[i].rev \in Nat
         /\ \A i \in 1..Len(replies) : /\ replies[i] \in Reply
                                       /\ replies[i].cmd \in Request /\ replies[i].cmd.rev \in Nat
         /\ op.rev \in Nat /\ Cmd \in Request
<1>1. /\ Len(queue) \in Nat /\ Len(replies) \in Nat
      /\ \A i \in 1..Len(queue) : queue[i] \in Request
      /\ \A i \in 1..Len(replies) : replies[i] \in Reply
  BY DEF QueueTypes
<1>2. \A c \in Request : c.rev \in Nat
  BY DEF Request
<1>3. \A r \in Reply : r.cmd \in Request
  BY DEF Reply
<1>4. op.rev \in Nat /\ Cmd \in Request
  BY DEF ServiceTypes, Operation, Cmd, Request
<1> QED BY <1>1, <1>2, <1>3, <1>4

\* What the assignments to the fields of the controller leave.
LEMMA RefreshUpdates ==
  ASSUME gui \in Menus, NEW rev \in Nat, NEW error \in BOOLEAN, NEW g,
         g = [gui EXCEPT !.rev = rev, !.error = error]
  PROVE  /\ g \in Menus /\ g.rev = rev /\ g.snap = gui.snap /\ g.applied = gui.applied
         /\ g.mutation = gui.mutation /\ g.busy = gui.busy
BY DEF Menus

\* Likewise when it begins to close.
LEMMA ClosingUpdates ==
  ASSUME gui \in Menus, NEW rev \in Nat, NEW g,
         g = [gui EXCEPT !.closing = TRUE, !.rev = rev]
  PROVE  /\ g \in Menus /\ g.rev = rev /\ g.snap = gui.snap /\ g.applied = gui.applied
         /\ g.mutation = gui.mutation /\ g.busy = gui.busy
BY DEF Menus

\* A step that leaves commands, answers and the service alone, and at most
\* takes a revision of the controller.
LEMMA QuietKeeps ==
  ASSUME AutostartInv, UNCHANGED <<queue, replies, pending, op, svc, thread>>,
         ServiceTypes', MenuTypes', journal = "failed" => journal' = "failed",
         gui'.rev >= gui.rev, gui'.snap = gui.snap, gui'.applied = gui.applied,
         gui'.mutation = gui.mutation, gui'.busy = gui.busy
  PROVE  AutostartInv'
<1>1. /\ gui.rev \in Nat /\ gui'.rev \in Nat
      /\ \A i \in 1..Len(queue) : queue[i].rev \in Nat
      /\ \A i \in 1..Len(replies) : replies[i].cmd.rev \in Nat
      /\ op.rev \in Nat
  <2>1. gui.rev \in Nat /\ gui'.rev \in Nat
    BY DEF AutostartInv, MenuTypes, Menus
  <2> QED BY <2>1, QueueFacts DEF AutostartInv
<1>2. QueueTypes' /\ UnansweredIsPending' /\ FinishedIsLast'
  BY DEF AutostartInv, QueueTypes, UnansweredIsPending, FinishedIsLast, Active, Cmd
<1>3. QueueOrdered' /\ RepliesOrdered'
  BY <1>1 DEF AutostartInv, QueueOrdered, RepliesOrdered, Active
<1>4. OneToggle' /\ Owned'
  BY DEF AutostartInv, OneToggle, Owned, EnabledIsOwned, Active
<1>5. Sound' => ToggleIsShown' /\ AnswersAreTrue'
  BY DEF AutostartInv, Sound, ToggleIsShown, AnswersAreTrue, Answering, Active, LastState, NoState
<1> QED BY <1>2, <1>3, <1>4, <1>5 DEF AutostartInv

\* Other programs, a refused request and the begin of the shutdown.
LEMMA EnvironmentKeeps ==
  ASSUME AutostartAssumption, AutostartInv,
         \/ OthersChangeValue \/ ExecutableChanges \/ RejectRequest \/ BeginClosing
         \/ UNCHANGED autostartVars
  PROVE  AutostartInv'
<1> USE DEF AutostartAssumption
<1>1. ServiceTypes /\ MenuTypes
  BY DEF AutostartInv
<1>2. CASE OthersChangeValue
  BY <1>1, <1>2, QuietKeeps DEF OthersChangeValue, ServiceTypes, MenuTypes, Menus, Values
<1>3. CASE ExecutableChanges
  BY <1>1, <1>3, QuietKeeps DEF ExecutableChanges, ServiceTypes, MenuTypes, Menus
<1>4. CASE RejectRequest
  <2>1. /\ UNCHANGED <<queue, replies, pending, op, svc, thread, bridge, entry, failing, foreign>>
        /\ gui' = [gui EXCEPT !.rev = gui.rev + 1] /\ gui.rev < MaxRevision
    BY <1>4 DEF RejectRequest, ServiceUntouched, NewRevision
  <2>2. journal' \in {"off", "on", "failed"} /\ (journal = "failed" => journal' = "failed")
    BY <1>1, <1>4, RecordFacts DEF RejectRequest, ServiceTypes
  <2>3. MenuTypes' /\ gui'.rev >= gui.rev
    BY <1>1, <2>1 DEF MenuTypes, Menus
  <2>4. ServiceTypes'
    BY <1>1, <2>1, <2>2 DEF ServiceTypes
  <2>5. gui'.snap = gui.snap /\ gui'.applied = gui.applied /\ gui'.mutation = gui.mutation /\ gui'.busy = gui.busy
    BY <1>1, <2>1 DEF MenuTypes, Menus
  <2> QED BY <2>1, <2>2, <2>3, <2>4, <2>5, QuietKeeps
<1>5. CASE BeginClosing
  <2>1. /\ UNCHANGED <<queue, replies, pending, op, svc, thread, entry, failing, foreign>>
        /\ gui' = [gui EXCEPT !.closing = TRUE, !.rev = gui.rev + 1]
        /\ bridge = "ready" /\ bridge' = "closing"
    BY <1>5 DEF BeginClosing, ServiceUntouched, NewRevision
  <2>2. journal' \in {"off", "on", "failed"} /\ (journal = "failed" => journal' = "failed")
    BY <1>1, <1>5, RecordFacts DEF BeginClosing, ServiceTypes
  <2>3. gui \in Menus /\ gui.rev \in Nat /\ gui.applied \in Nat /\ gui.mutation \in Nat /\ gui.rev + 1 \in Nat
    BY <1>1 DEF MenuTypes, Menus
  <2>4. /\ gui' \in Menus /\ gui'.rev = gui.rev + 1 /\ gui'.snap = gui.snap /\ gui'.applied = gui.applied
        /\ gui'.mutation = gui.mutation /\ gui'.busy = gui.busy
    BY <2>1, <2>3, ClosingUpdates, ZenonT(40)
  <2>5. MenuTypes' /\ gui'.rev >= gui.rev
    BY <1>1, <2>1, <2>3, <2>4 DEF MenuTypes
  <2>6. ServiceTypes'
    BY <1>1, <2>1, <2>2 DEF ServiceTypes
  <2> QED BY <2>1, <2>2, <2>4, <2>5, <2>6, QuietKeeps
<1>6. CASE UNCHANGED autostartVars
  BY <1>1, <1>6, QuietKeeps DEF autostartVars, ServiceTypes, MenuTypes, Menus
<1> QED BY <1>2, <1>3, <1>4, <1>5, <1>6

\* What a request that is accepted does: it goes to the end of the queue with
\* the newest revision, or it is lost together with the journal or the thread.
Asks(k) ==
  /\ UNCHANGED <<replies, bridge, entry, failing, svc, op, thread, foreign>>
  /\ journal' \in {"off", "on", "failed"} /\ (journal = "failed" => journal' = "failed")
  /\ k \in Kinds /\ gui' \in Menus /\ gui.rev < MaxRevision
  /\ gui'.rev = gui.rev + 1 /\ gui'.snap = gui.snap /\ gui'.applied = gui.applied
  /\ \/ k = "query" /\ gui'.mutation = gui.mutation /\ gui'.busy = gui.busy
     \/ k # "query" /\ gui'.mutation \in {gui.mutation, gui.rev + 1} /\ ~gui.busy
  /\ \/ /\ thread = "up"
        /\ queue' = Append(queue, [rev |-> gui.rev + 1, kind |-> k])
        /\ pending' = pending \cup {[rev |-> gui.rev + 1, kind |-> k]}
        /\ k # "query" => gui'.busy /\ gui'.mutation = gui.rev + 1
     \/ UNCHANGED <<queue, pending>> /\ ~Sound'

\* refresh and set_enabled are such requests.
LEMMA RequestAsks ==
  ASSUME ServiceTypes, MenuTypes, NEW k \in Kinds,
         \/ k = "query" /\ Refresh
         \/ k # "query" /\ SetEnabled(k)
  PROVE  Asks(k)
<1>1. CASE k = "query" /\ Refresh
  <2>0. PICK accepted \in BOOLEAN, recorded \in BOOLEAN :
         /\ Record(accepted /\ recorded)
         /\ IF accepted THEN Submit("query", recorded) ELSE UNCHANGED <<queue, pending>>
         /\ gui' = [gui EXCEPT !.rev = NewRevision, !.error = @ \/ ~accepted]
    BY <1>1 DEF Refresh
  <2>1. /\ UNCHANGED <<replies, bridge, entry, failing, svc, op, thread, foreign>>
        /\ gui.rev < MaxRevision
    BY <1>1 DEF Refresh, ServiceUntouched
  <2>2. /\ gui' \in Menus /\ gui'.rev = gui.rev + 1 /\ gui'.snap = gui.snap /\ gui'.applied = gui.applied
        /\ gui'.mutation = gui.mutation /\ gui'.busy = gui.busy
    <3>1. gui \in Menus /\ gui.rev + 1 \in Nat
      BY DEF MenuTypes, Menus
    <3>2. (gui.error \/ ~accepted) \in BOOLEAN
      OBVIOUS
    <3>3. gui' = [gui EXCEPT !.rev = gui.rev + 1, !.error = gui.error \/ ~accepted]
      BY <2>0 DEF NewRevision
    <3> QED BY <3>1, <3>2, <3>3, RefreshUpdates
  <2>3. /\ journal' \in {"off", "on", "failed"} /\ (journal = "failed" => journal' = "failed")
        /\ ~(accepted /\ recorded) => journal' = "failed"
    BY <2>0, RecordFacts DEF ServiceTypes
  <2>4. CASE accepted /\ recorded /\ thread = "up"
    BY <1>1, <2>0, <2>1, <2>2, <2>3, <2>4 DEF Asks, Submit, Command, NewRevision
  <2>5. CASE ~(accepted /\ recorded /\ thread = "up")
    <3>1. UNCHANGED <<queue, pending>>
      BY <2>0, <2>5 DEF Submit
    <3>2. ~Sound'
      BY <2>1, <2>3, <2>5 DEF Sound
    <3> QED BY <1>1, <2>1, <2>2, <2>3, <3>1, <3>2 DEF Asks
  <2> QED BY <2>4, <2>5
<1>2. CASE k # "query" /\ SetEnabled(k)
  <2>0. PICK accepted \in BOOLEAN, recorded \in BOOLEAN :
         /\ Record(accepted /\ recorded)
         /\ IF accepted THEN Submit(k, recorded) ELSE UNCHANGED <<queue, pending>>
         /\ LET submitted == accepted /\ recorded /\ thread = "up"
            IN gui' = [gui EXCEPT !.rev = NewRevision, !.busy = submitted, !.error = ~submitted,
                                  !.mutation = IF accepted THEN NewRevision ELSE @]
    BY <1>2 DEF SetEnabled
  <2>1. /\ UNCHANGED <<replies, bridge, entry, failing, svc, op, thread, foreign>>
        /\ gui.rev < MaxRevision /\ ~gui.busy
    BY <1>2 DEF SetEnabled, ServiceUntouched, ToggleAllowed
  <2>2. gui \in Menus /\ gui.rev + 1 \in Nat /\ gui.mutation \in Nat
    BY DEF MenuTypes, Menus
  <2>3. /\ journal' \in {"off", "on", "failed"} /\ (journal = "failed" => journal' = "failed")
        /\ ~(accepted /\ recorded) => journal' = "failed"
    BY <2>0, RecordFacts DEF ServiceTypes
  <2>4. CASE accepted /\ recorded /\ thread = "up"
    <3>1. gui' = [gui EXCEPT !.rev = gui.rev + 1, !.busy = TRUE, !.error = FALSE, !.mutation = gui.rev + 1]
      BY <2>0, <2>4 DEF NewRevision
    <3>2. /\ gui' \in Menus /\ gui'.rev = gui.rev + 1 /\ gui'.snap = gui.snap /\ gui'.applied = gui.applied
          /\ gui'.busy /\ gui'.mutation = gui.rev + 1
      BY <2>2, <3>1 DEF Menus
    <3> QED BY <1>2, <2>0, <2>1, <2>3, <2>4, <3>2 DEF Asks, Submit, Command, NewRevision
  <2>5. CASE ~(accepted /\ recorded /\ thread = "up")
    <3> DEFINE mutation == IF accepted THEN gui.rev + 1 ELSE gui.mutation
    <3>1. gui' = [gui EXCEPT !.rev = gui.rev + 1, !.busy = FALSE, !.error = TRUE, !.mutation = mutation]
      BY <2>0, <2>5 DEF NewRevision
    <3>2. mutation \in Nat /\ mutation \in {gui.mutation, gui.rev + 1}
      BY <2>2
    <3> HIDE DEF mutation
    <3>3. /\ gui' \in Menus /\ gui'.rev = gui.rev + 1 /\ gui'.snap = gui.snap /\ gui'.applied = gui.applied
          /\ gui'.mutation = mutation
      BY <2>2, <3>1, <3>2 DEF Menus
    <3>4. UNCHANGED <<queue, pending>>
      BY <2>0, <2>5 DEF Submit
    <3>5. ~Sound'
      BY <2>1, <2>3, <2>5 DEF Sound
    <3> QED BY <1>2, <2>1, <2>3, <3>2, <3>3, <3>4, <3>5 DEF Asks
  <2> QED BY <2>4, <2>5
<1> QED BY <1>1, <1>2

\* A request keeps the invariant.
LEMMA AskKeeps ==
  ASSUME AutostartAssumption, AutostartInv, NEW k \in Kinds, Asks(k)
  PROVE  AutostartInv'
<1> DEFINE c == [rev |-> gui.rev + 1, kind |-> k]
           n == Len(queue)
<1>1. /\ UNCHANGED <<replies, bridge, entry, failing, svc, op, thread, foreign>>
      /\ journal' \in {"off", "on", "failed"} /\ (journal = "failed" => journal' = "failed")
      /\ gui' \in Menus /\ gui.rev < MaxRevision
      /\ gui'.rev = gui.rev + 1 /\ gui'.snap = gui.snap /\ gui'.applied = gui.applied
      /\ \/ k = "query" /\ gui'.mutation = gui.mutation /\ gui'.busy = gui.busy
         \/ k # "query" /\ gui'.mutation \in {gui.mutation, gui.rev + 1} /\ ~gui.busy
  BY DEF Asks
<1>2. /\ gui.rev \in Nat /\ gui.applied \in Nat /\ gui.mutation \in Nat /\ gui'.mutation \in Nat
      /\ gui.applied <= gui.rev /\ gui.mutation <= gui.rev
  BY <1>1 DEF AutostartInv, MenuTypes, Menus
<1>3. ServiceTypes' /\ MenuTypes' /\ FinishedIsLast /\ Owned'
  <2>1. ServiceTypes'
    BY <1>1 DEF AutostartInv, ServiceTypes
  <2>2. MenuTypes'
    BY <1>1, <1>2 DEF AutostartInv, MenuTypes, AutostartAssumption
  <2> QED BY <1>1, <2>1, <2>2 DEF AutostartInv, Owned, EnabledIsOwned
<1>4. /\ Len(queue) \in Nat /\ Len(replies) \in Nat
      /\ \A i \in 1..Len(queue) : queue[i] \in Request /\ queue[i].rev \in Nat
      /\ \A i \in 1..Len(replies) : replies[i] \in Reply /\ replies[i].cmd \in Request /\ replies[i].cmd.rev \in Nat
      /\ op.rev \in Nat
  BY QueueFacts DEF AutostartInv
<1>5. c \in Request /\ c.rev = gui.rev + 1 /\ c.kind = k
  BY <1>2 DEF Request
<1> HIDE DEF c
<1>6. CASE UNCHANGED <<queue, pending>> /\ ~Sound'
  <2>1. QueueTypes' /\ UnansweredIsPending' /\ FinishedIsLast'
    BY <1>1, <1>6 DEF AutostartInv, QueueTypes, UnansweredIsPending, FinishedIsLast, Active, Cmd
  <2>2. QueueOrdered' /\ RepliesOrdered'
    BY <1>1, <1>2, <1>4, <1>6 DEF AutostartInv, QueueOrdered, RepliesOrdered, Active
  <2>3. OneToggle'
    BY <1>1, <1>6 DEF AutostartInv, OneToggle, Active
  <2> QED BY <1>3, <1>6, <2>1, <2>2, <2>3 DEF AutostartInv
<1>7. CASE /\ thread = "up" /\ queue' = Append(queue, c) /\ pending' = pending \cup {c}
           /\ k # "query" => gui'.busy /\ gui'.mutation = gui.rev + 1
  <2>1. /\ queue' \in Seq(Request) /\ Len(queue') = n + 1
        /\ \A i \in 1..n : queue'[i] = queue[i]
        /\ queue'[n + 1] = c
    BY <1>5, <1>7, AppendFacts DEF AutostartInv, QueueTypes
  <2>1a. \A i \in 1..(n + 1) : (i \in 1..n /\ queue'[i] = queue[i]) \/ (i = n + 1 /\ queue'[i] = c)
    BY <1>4, <2>1
  <2>2. QueueTypes'
    BY <1>1, <1>5, <1>7, <2>1 DEF AutostartInv, QueueTypes
  <2>3. UnansweredIsPending'
    BY <1>1, <1>4, <1>7, <2>1 DEF AutostartInv, UnansweredIsPending, Active, Cmd
  <2>4. FinishedIsLast'
    BY <1>1, <1>7 DEF AutostartInv, FinishedIsLast, Active
  <2>5. QueueOrdered'
    <3>0. QueueOrdered
      BY DEF AutostartInv
    <3>1. \A i, j \in 1..(n + 1) : i < j => queue'[i].rev < queue'[j].rev
      <4> TAKE i, j \in 1..(n + 1)
      <4> HAVE i < j
      <4>1. i \in 1..n /\ queue'[i] = queue[i] /\ queue[i].rev <= gui.rev /\ queue[i].rev \in Nat
        BY <1>4, <2>1, <3>0 DEF QueueOrdered
      <4>2. CASE queue'[j] = c
        BY <1>2, <1>5, <4>1, <4>2
      <4>3. CASE j \in 1..n /\ queue'[j] = queue[j]
        BY <3>0, <4>1, <4>3 DEF QueueOrdered
      <4> QED BY <2>1a, <4>2, <4>3
    <3>2. \A i \in 1..(n + 1) : gui.applied < queue'[i].rev /\ queue'[i].rev <= gui.rev + 1
      <4> TAKE i \in 1..(n + 1)
      <4>1. CASE i = n + 1
        BY <1>2, <1>5, <2>1, <4>1
      <4>2. CASE i # n + 1
        BY <1>2, <1>4, <2>1, <3>0, <4>2 DEF QueueOrdered
      <4> QED BY <4>1, <4>2
    <3>3. Active => /\ gui.applied < op.rev /\ op.rev <= gui.rev + 1
                    /\ \A i \in 1..(n + 1) : op.rev < queue'[i].rev
      <4> HAVE Active
      <4>1. gui.applied < op.rev /\ op.rev <= gui.rev /\ \A i \in 1..n : op.rev < queue[i].rev
        BY <3>0 DEF QueueOrdered
      <4>2. ASSUME NEW i \in 1..(n + 1) PROVE op.rev < queue'[i].rev
        <5>1. CASE i \in 1..n /\ queue'[i] = queue[i]
          BY <4>1, <5>1
        <5>2. CASE queue'[i] = c
          BY <1>2, <1>4, <1>5, <4>1, <5>2
        <5> QED BY <2>1a, <5>1, <5>2
      <4> QED BY <1>2, <1>4, <4>1, <4>2
    <3> QED BY <1>1, <2>1, <3>1, <3>2, <3>3 DEF QueueOrdered, Active
  <2>6. RepliesOrdered'
    <3>1. \A i \in 1..Len(replies) : replies[i].type # "finished" =>
            /\ replies[i].cmd.rev <= gui.rev + 1
            /\ \A j \in 1..(n + 1) : replies[i].cmd.rev < queue'[j].rev
      <4> SUFFICES ASSUME NEW i \in 1..Len(replies), replies[i].type # "finished"
                   PROVE  /\ replies[i].cmd.rev <= gui.rev + 1
                          /\ \A j \in 1..(n + 1) : replies[i].cmd.rev < queue'[j].rev
        OBVIOUS
      <4>1. replies[i].cmd.rev <= gui.rev /\ \A j \in 1..n : replies[i].cmd.rev < queue[j].rev
        BY DEF AutostartInv, RepliesOrdered
      <4>2. ASSUME NEW j \in 1..(n + 1) PROVE replies[i].cmd.rev < queue'[j].rev
        <5>1. CASE j \in 1..n /\ queue'[j] = queue[j]
          BY <4>1, <5>1
        <5>2. CASE queue'[j] = c
          BY <1>2, <1>4, <1>5, <4>1, <5>2
        <5> QED BY <2>1a, <5>1, <5>2
      <4> QED BY <1>2, <1>4, <4>1, <4>2
    <3> QED BY <1>1, <2>1, <3>1 DEF AutostartInv, RepliesOrdered, Active
  <2>7. OneToggle'
    BY <1>1, <1>4, <1>5, <1>7, <2>1 DEF AutostartInv, OneToggle, Active
  <2>8. Sound' => ToggleIsShown' /\ AnswersAreTrue'
    <3> SUFFICES ASSUME Sound' PROVE ToggleIsShown' /\ AnswersAreTrue'
      OBVIOUS
    <3>1. ToggleIsShown /\ AnswersAreTrue
      BY <1>1 DEF AutostartInv, Sound
    <3>2. ToggleIsShown'
      <4>1. CASE k = "query"
        BY <1>1, <1>2, <1>4, <2>1, <3>1, <4>1 DEF ToggleIsShown, Answering, Active
      <4>2. CASE k # "query"
        BY <1>1, <1>2, <1>4, <1>5, <1>7, <2>1, <4>2 DEF ToggleIsShown, Answering
      <4> QED BY <4>1, <4>2
    <3>3. AnswersAreTrue'
      BY <1>1, <1>2, <1>7, <3>1 DEF AnswersAreTrue, LastState, NoState
    <3> QED BY <3>2, <3>3
  <2> QED BY <1>3, <2>2, <2>3, <2>4, <2>5, <2>6, <2>7, <2>8 DEF AutostartInv
<1> QED BY <1>6, <1>7 DEF Asks, c

\* A step of the service keeps the invariant.
LEMMA ServiceKeeps ==
  ASSUME AutostartInv, ServiceMoves, Owned'
  PROVE  AutostartInv'
<1>1. /\ UNCHANGED <<failing, pending, gui, bridge, foreign, thread, queue, replies>>
      /\ Active /\ Active' /\ op'.rev = op.rev /\ op'.kind = op.kind
      /\ journal = "failed" => journal' = "failed"
      /\ op'.pc # "publish" => op.pc # "publish" /\ svc'.snap = svc.snap
      /\ op'.pc = "publish" /\ journal' # "failed" => op'.snap = svc'.snap
  BY DEF ServiceMoves
<1>2. ServiceTypes' /\ MenuTypes' /\ QueueTypes'
  BY DEF ServiceMoves, AutostartInv, ServiceTypes, MenuTypes, QueueTypes
<1>3. Cmd' = Cmd
  BY <1>1 DEF Cmd
<1>4. UnansweredIsPending' /\ FinishedIsLast'
  BY <1>1, <1>3 DEF AutostartInv, UnansweredIsPending, FinishedIsLast
<1>5. QueueOrdered' /\ RepliesOrdered'
  BY <1>1 DEF AutostartInv, QueueOrdered, RepliesOrdered
<1>6. OneToggle'
  BY <1>1 DEF AutostartInv, OneToggle
<1>7. ASSUME Sound' PROVE ToggleIsShown' /\ AnswersAreTrue'
  <2>1. ToggleIsShown /\ AnswersAreTrue
    BY <1>1, <1>7 DEF AutostartInv, Sound
  <2>2. ToggleIsShown'
    BY <1>1, <2>1 DEF ToggleIsShown, Answering
  <2>3. AnswersAreTrue'
    BY <1>1, <1>7, <2>1 DEF AnswersAreTrue, LastState, NoState, Sound
  <2> QED BY <2>2, <2>3
<1> QED BY <1>2, <1>4, <1>5, <1>6, <1>7 DEF AutostartInv

\* The thread takes the oldest command, which is then under way, or answers it
\* when the journal refuses it.
LEMMA TakeKeeps ==
  ASSUME AutostartInv, TakeCommand
  PROVE  AutostartInv'
<1> DEFINE c == Head(queue)
           n == Len(queue)
           m == Len(replies)
           r == Signal("result", c, FALSE, svc.snap)
<1>1. /\ UNCHANGED <<failing, pending, gui, bridge, foreign, thread, entry, svc>>
      /\ thread = "up" /\ ~Active /\ queue # <<>> /\ queue' = Tail(queue)
  BY DEF TakeCommand, GuiUntouched, Active
<1>2. PICK ok \in BOOLEAN :
        /\ Record(ok)
        /\ op' = IF ok THEN [NoOp EXCEPT !.pc = "enter", !.kind = c.kind, !.rev = c.rev, !.prev = svc.snap]
                       ELSE NoOp
        /\ replies' = IF ok THEN replies ELSE Append(replies, r)
  BY DEF TakeCommand
<1>3. /\ ServiceTypes /\ MenuTypes /\ QueueTypes /\ QueueOrdered /\ RepliesOrdered /\ FinishedIsLast
      /\ UnansweredIsPending /\ OneToggle /\ Owned
  BY DEF AutostartInv
<1>4. /\ n \in Nat /\ m \in Nat /\ n > 0 /\ Len(queue') = n - 1 /\ queue' \in Seq(Request)
      /\ c = queue[1] /\ 1 \in 1..n
      /\ \A i \in 1..(n - 1) : queue'[i] = queue[i + 1] /\ i + 1 \in 1..n
  <2>1. queue \in Seq(Request) /\ m \in Nat
    BY <1>3 DEF QueueTypes
  <2> QED BY <1>1, <2>1, TailFacts
<1>5. /\ \A i \in 1..n : queue[i] \in Request /\ queue[i].rev \in Nat
      /\ \A i \in 1..m : replies[i] \in Reply /\ replies[i].cmd \in Request /\ replies[i].cmd.rev \in Nat
  BY <1>3, QueueFacts
<1>6. /\ c \in Request /\ c.rev \in Nat /\ c.kind \in Kinds /\ c = [rev |-> c.rev, kind |-> c.kind]
      /\ gui.applied < c.rev /\ c.rev <= gui.rev /\ c \in pending
      /\ c.kind # "query" => gui.busy /\ c.rev = gui.mutation
  <2>1. c \in Request
    BY <1>4, <1>5
  <2>2. gui.applied < c.rev /\ c.rev <= gui.rev /\ c \in pending
    BY <1>3, <1>4 DEF QueueOrdered, UnansweredIsPending
  <2>3. c.kind # "query" => gui.busy /\ c.rev = gui.mutation
    BY <1>3, <1>4 DEF OneToggle
  <2> HIDE DEF c
  <2> QED BY <2>1, <2>2, <2>3 DEF Request
<1>7. \A i \in 1..(n - 1) : c.rev < queue'[i].rev
  BY <1>3, <1>4 DEF QueueOrdered
<1>8. \A i \in 1..m : replies[i].type # "finished" => replies[i].cmd.rev < c.rev
  BY <1>3, <1>4 DEF RepliesOrdered
<1>9. MenuTypes'
  BY <1>1, <1>3 DEF MenuTypes
<1>10. \A i \in 1..m : replies[i].type # "finished"
  BY <1>1, <1>3 DEF FinishedIsLast
<1>11. /\ \A i, j \in 1..(n - 1) : i < j => queue'[i].rev < queue'[j].rev
       /\ \A i \in 1..(n - 1) : /\ gui.applied < queue'[i].rev /\ queue'[i].rev <= gui.rev
                                /\ queue'[i] \in pending
                                /\ queue'[i].kind # "query" => gui.busy /\ queue'[i].rev = gui.mutation
  <2>1. ASSUME NEW i \in 1..(n - 1), NEW j \in 1..(n - 1), i < j PROVE queue'[i].rev < queue'[j].rev
    <3>1. i + 1 \in 1..n /\ j + 1 \in 1..n /\ i + 1 < j + 1 /\ queue'[i] = queue[i + 1] /\ queue'[j] = queue[j + 1]
      BY <1>4, <2>1
    <3> QED BY <1>3, <3>1 DEF QueueOrdered
  <2>2. ASSUME NEW i \in 1..(n - 1)
        PROVE  /\ gui.applied < queue'[i].rev /\ queue'[i].rev <= gui.rev
               /\ queue'[i] \in pending
               /\ queue'[i].kind # "query" => gui.busy /\ queue'[i].rev = gui.mutation
    BY <1>3, <1>4 DEF QueueOrdered, UnansweredIsPending, OneToggle
  <2> QED BY <2>1, <2>2
<1> HIDE DEF c, n, m
<1>12. CASE ok
  <2>1. /\ op' = [pc |-> "enter", kind |-> c.kind, rev |-> c.rev, prev |-> svc.snap, ok |-> FALSE,
                  snap |-> "unavailable"]
        /\ replies' = replies /\ journal' = journal
    BY <1>2, <1>3, <1>12, RecordFacts DEF NoOp, ServiceTypes
  <2>2. ServiceTypes'
    BY <1>1, <1>3, <1>6, <2>1 DEF ServiceTypes, Operation, Service, Statuses
  <2>3. QueueTypes'
    BY <1>1, <1>3, <1>4, <2>1 DEF QueueTypes
  <2>4. QueueOrdered'
    BY <1>1, <1>4, <1>6, <1>7, <1>11, <2>1 DEF QueueOrdered
  <2>5. RepliesOrdered'
    <3>1. \A i \in 1..m : replies[i].type # "finished" =>
            \A j \in 1..(n - 1) : replies[i].cmd.rev < queue'[j].rev
      BY <1>3, <1>4 DEF RepliesOrdered, n, m
    <3> QED BY <1>1, <1>3, <1>4, <1>8, <2>1, <3>1 DEF RepliesOrdered, m
  <2>6. FinishedIsLast'
    BY <1>1, <1>3, <2>1 DEF FinishedIsLast
  <2>7. UnansweredIsPending'
    <3>1. Cmd' = c
      BY <1>6, <2>1 DEF Cmd
    <3> QED BY <1>1, <1>3, <1>4, <1>6, <1>11, <2>1, <3>1 DEF UnansweredIsPending
  <2>8. OneToggle'
    BY <1>1, <1>3, <1>4, <1>6, <1>11, <2>1 DEF OneToggle
  <2>9. Owned'
    BY <1>1, <1>3, <2>1 DEF Owned, EnabledIsOwned
  <2>10. ASSUME Sound' PROVE ToggleIsShown' /\ AnswersAreTrue'
    <3>1. ToggleIsShown /\ AnswersAreTrue
      BY <1>1, <2>1, <2>10 DEF AutostartInv, Sound
    <3>2. ToggleIsShown'
      <4>1. CASE gui.mutation <= gui.applied
        BY <1>1, <4>1 DEF ToggleIsShown
      <4>2. CASE \E i \in 1..m : replies[i].type = "state" /\ replies[i].cmd.rev = gui.mutation
        BY <1>1, <2>1, <4>2 DEF ToggleIsShown, Answering, m
      <4>3. CASE \E i \in 1..n : queue[i].rev = gui.mutation
        <5> PICK i \in 1..n : queue[i].rev = gui.mutation
          BY <4>3
        <5>1. CASE i = 1
          BY <1>1, <1>4, <2>1, <5>1 DEF ToggleIsShown, Answering, Active
        <5>2. CASE i # 1
          <6>1. i - 1 \in 1..(n - 1) /\ queue'[i - 1] = queue[i]
            BY <1>4, <5>2
          <6> QED BY <1>1, <1>4, <6>1 DEF ToggleIsShown, Answering
        <5> QED BY <5>1, <5>2
      <4> QED BY <1>1, <3>1, <4>1, <4>2, <4>3 DEF ToggleIsShown, Answering, m, n
    <3>3. AnswersAreTrue'
      BY <1>1, <2>1, <3>1 DEF AnswersAreTrue, LastState, NoState, Active
    <3> QED BY <3>2, <3>3
  <2> QED BY <1>9, <2>2, <2>3, <2>4, <2>5, <2>6, <2>7, <2>8, <2>9, <2>10 DEF AutostartInv
<1>13. CASE ~ok
  <2>1. op' = NoOp /\ ~Active' /\ replies' = Append(replies, r) /\ journal' = "failed"
    BY <1>2, <1>3, <1>13, RecordFacts DEF NoOp, ServiceTypes, Active
  <2>2. /\ r \in Reply /\ r.type = "result" /\ r.cmd = c
    BY <1>3, <1>6 DEF Signal, Reply, ServiceTypes, Service
  <2> HIDE DEF r
  <2>3. /\ replies' \in Seq(Reply) /\ Len(replies') = m + 1
        /\ \A i \in 1..m : replies'[i] = replies[i]
        /\ \A i \in 1..(m + 1) : (i \in 1..m /\ replies'[i] = replies[i]) \/ (i = m + 1 /\ replies'[i] = r)
    BY <1>3, <1>4, <2>1, <2>2, AppendFacts DEF QueueTypes, m
  <2>4. ServiceTypes'
    BY <1>1, <1>3, <2>1 DEF ServiceTypes, Operation, NoOp, Statuses, Kinds
  <2>5. QueueTypes'
    BY <1>1, <1>3, <1>4, <2>3 DEF QueueTypes
  <2>6. QueueOrdered'
    BY <1>1, <1>4, <1>11, <2>1 DEF QueueOrdered
  <2>7. RepliesOrdered'
    <3> SUFFICES ASSUME NEW i \in 1..(m + 1)
                 PROVE  /\ replies'[i].cmd.rev <= gui.rev
                        /\ \A j \in 1..(n - 1) : replies'[i].cmd.rev < queue'[j].rev
                        /\ replies'[i].type = "state" => gui.applied < replies'[i].cmd.rev
                        /\ \A j \in 1..(m + 1) : i < j /\ replies'[j].type # "finished" =>
                             \/ replies'[i].cmd.rev < replies'[j].cmd.rev
                             \/ /\ replies'[i].type = "state" /\ replies'[j].type = "result"
                                /\ replies'[i].cmd = replies'[j].cmd
      BY <1>1, <1>4, <2>1, <2>3 DEF RepliesOrdered
    <3>1. CASE i = m + 1 /\ replies'[i] = r
      BY <1>4, <1>6, <1>7, <2>2, <3>1
    <3>2. CASE i \in 1..m /\ replies'[i] = replies[i]
      <4>1. /\ replies[i].cmd.rev <= gui.rev
            /\ \A j \in 1..(n - 1) : replies[i].cmd.rev < queue'[j].rev
            /\ replies[i].type = "state" => gui.applied < replies[i].cmd.rev
        BY <1>3, <1>4, <1>10, <3>2 DEF RepliesOrdered, n, m
      <4>2. ASSUME NEW j \in 1..(m + 1), i < j, replies'[j].type # "finished"
            PROVE  \/ replies[i].cmd.rev < replies'[j].cmd.rev
                   \/ /\ replies[i].type = "state" /\ replies'[j].type = "result"
                      /\ replies[i].cmd = replies'[j].cmd
        <5>1. CASE replies'[j] = r
          BY <1>8, <1>10, <2>2, <3>2, <5>1
        <5>2. CASE j \in 1..m /\ replies'[j] = replies[j]
          BY <1>3, <1>10, <3>2, <4>2, <5>2 DEF RepliesOrdered, m
        <5> QED BY <2>3, <5>1, <5>2
      <4> QED BY <3>2, <4>1, <4>2
    <3> QED BY <2>3, <3>1, <3>2
  <2>8. FinishedIsLast'
    BY <1>1, <1>10, <2>2, <2>3 DEF FinishedIsLast
  <2>9. UnansweredIsPending'
    BY <1>1, <1>3, <1>4, <1>11, <2>1, <2>2, <2>3 DEF UnansweredIsPending, m
  <2>10. OneToggle'
    <3>1. \A i \in 1..(m + 1) : replies'[i].type # "finished" /\ replies'[i].cmd.kind # "query" =>
             gui.busy /\ replies'[i].cmd.rev = gui.mutation
      BY <1>3, <1>6, <2>2, <2>3 DEF OneToggle, m
    <3> QED BY <1>1, <1>4, <1>11, <2>1, <2>3, <3>1 DEF OneToggle
  <2>11. Owned'
    BY <1>1, <1>3, <2>1 DEF Owned, EnabledIsOwned, NoOp
  <2>12. ~Sound'
    BY <2>1 DEF Sound
  <2> QED BY <1>9, <2>4, <2>5, <2>6, <2>7, <2>8, <2>9, <2>10, <2>11, <2>12 DEF AutostartInv
<1> QED BY <1>12, <1>13

\* The thread publishes what the service returned: a state, then a result.
LEMMA PublishKeeps ==
  ASSUME AutostartInv, Publish
  PROVE  AutostartInv'
<1> DEFINE n == Len(queue)
           m == Len(replies)
<1>1. /\ UNCHANGED <<failing, pending, gui, bridge, foreign, thread, entry, svc, queue>>
      /\ op.pc = "publish" /\ Active /\ op' = NoOp /\ ~Active'
  BY DEF Publish, GuiUntouched, Active, NoOp
<1>2. PICK recorded \in BOOLEAN :
        /\ Record(recorded)
        /\ replies' = replies \o <<Signal("state", Cmd, TRUE, op.snap),
                                   Signal("result", Cmd, recorded /\ (op.ok \/ op.kind = "query"), op.snap)>>
  BY DEF Publish
<1> DEFINE s == Signal("state", Cmd, TRUE, op.snap)
           r == Signal("result", Cmd, recorded /\ (op.ok \/ op.kind = "query"), op.snap)
<1>3. /\ ServiceTypes /\ MenuTypes /\ QueueTypes /\ QueueOrdered /\ RepliesOrdered /\ FinishedIsLast
      /\ UnansweredIsPending /\ OneToggle /\ Owned
  BY DEF AutostartInv
<1>4. journal' \in {"off", "on", "failed"} /\ (journal = "failed" => journal' = "failed")
  BY <1>2, <1>3, RecordFacts DEF ServiceTypes
<1>5. /\ n \in Nat /\ m \in Nat
      /\ \A i \in 1..n : queue[i].rev \in Nat
      /\ \A i \in 1..m : replies[i].cmd.rev \in Nat
      /\ op.rev \in Nat /\ Cmd \in Request
  BY <1>3, QueueFacts
<1>6. /\ s \in Reply /\ s.type = "state" /\ s.cmd = Cmd /\ s.snap = op.snap
      /\ r \in Reply /\ r.type = "result" /\ r.cmd = Cmd
  <2>1. op.snap \in Statuses /\ (recorded /\ (op.ok \/ op.kind = "query")) \in BOOLEAN
    BY <1>3 DEF ServiceTypes, Operation
  <2> QED BY <1>5, <2>1 DEF Signal, Reply
<1>7. /\ Cmd.rev = op.rev /\ Cmd.kind = op.kind /\ Cmd \in pending
      /\ gui.applied < op.rev /\ op.rev <= gui.rev
      /\ \A j \in 1..n : op.rev < queue[j].rev
      /\ op.kind # "query" => gui.busy /\ op.rev = gui.mutation
  BY <1>1, <1>3 DEF Cmd, UnansweredIsPending, QueueOrdered, OneToggle
<1>8. \A i \in 1..m : replies[i].type # "finished"
  <2>1. thread # "stopped"
    BY <1>1, <1>3 DEF FinishedIsLast
  <2> QED BY <2>1, <1>3 DEF FinishedIsLast
<1>8a. replies' = replies \o <<s, r>> /\ replies \in Seq(Reply)
  BY <1>2, <1>3 DEF QueueTypes
<1> HIDE DEF s, r, n, m
<1>9. /\ replies' \in Seq(Reply) /\ Len(replies') = m + 2
      /\ \A i \in 1..m : replies'[i] = replies[i]
      /\ replies'[m + 1] = s /\ replies'[m + 2] = r
  BY <1>6, <1>8a, ConcatTwo DEF m
<1>10. \A i \in 1..(m + 2) : \/ i \in 1..m /\ replies'[i] = replies[i]
                             \/ i = m + 1 /\ replies'[i] = s
                             \/ i = m + 2 /\ replies'[i] = r
  BY <1>5, <1>9
<1>11. ServiceTypes' /\ MenuTypes' /\ QueueTypes'
  BY <1>1, <1>3, <1>4, <1>9 DEF ServiceTypes, MenuTypes, QueueTypes, Operation, NoOp, Statuses, Kinds
<1>12. QueueOrdered'
  BY <1>1, <1>3 DEF QueueOrdered
<1>13. RepliesOrdered'
  <2> SUFFICES ASSUME NEW i \in 1..(m + 2)
               PROVE  /\ replies'[i].cmd.rev <= gui.rev
                      /\ \A j \in 1..n : replies'[i].cmd.rev < queue[j].rev
                      /\ replies'[i].type = "state" => gui.applied < replies'[i].cmd.rev
                      /\ \A j \in 1..(m + 2) : i < j /\ replies'[j].type # "finished" =>
                           \/ replies'[i].cmd.rev < replies'[j].cmd.rev
                           \/ /\ replies'[i].type = "state" /\ replies'[j].type = "result"
                              /\ replies'[i].cmd = replies'[j].cmd
    BY <1>1, <1>9 DEF RepliesOrdered, n
  <2>1. CASE i = m + 2 /\ replies'[i] = r
    BY <1>5, <1>6, <1>7, <2>1
  <2>2. CASE i = m + 1 /\ replies'[i] = s
    <3>1. ASSUME NEW j \in 1..(m + 2), i < j PROVE replies'[j] = r
      BY <1>5, <1>9, <2>2, <3>1
    <3> QED BY <1>5, <1>6, <1>7, <2>2, <3>1
  <2>3. CASE i \in 1..m /\ replies'[i] = replies[i]
    <3>1. /\ replies[i].cmd.rev <= gui.rev /\ replies[i].cmd.rev < op.rev
          /\ \A j \in 1..n : replies[i].cmd.rev < queue[j].rev
          /\ replies[i].type = "state" => gui.applied < replies[i].cmd.rev
      BY <1>1, <1>3, <1>8, <2>3 DEF RepliesOrdered, n, m
    <3>2. ASSUME NEW j \in 1..(m + 2), i < j, replies'[j].type # "finished"
          PROVE  \/ replies[i].cmd.rev < replies'[j].cmd.rev
                 \/ /\ replies[i].type = "state" /\ replies'[j].type = "result"
                    /\ replies[i].cmd = replies'[j].cmd
      <4>1. CASE replies'[j] = r \/ replies'[j] = s
        BY <1>6, <1>7, <3>1, <4>1
      <4>2. CASE j \in 1..m /\ replies'[j] = replies[j]
        BY <1>3, <1>8, <2>3, <3>2, <4>2 DEF RepliesOrdered, m
      <4> QED BY <1>10, <4>1, <4>2
    <3> QED BY <2>3, <3>1, <3>2
  <2> QED BY <1>10, <2>1, <2>2, <2>3
<1>14. FinishedIsLast'
  BY <1>1, <1>3, <1>6, <1>8, <1>9, <1>10 DEF FinishedIsLast
<1>15. UnansweredIsPending'
  BY <1>1, <1>3, <1>6, <1>7, <1>9, <1>10 DEF UnansweredIsPending, m
<1>16. OneToggle'
  <2>1. \A i \in 1..(m + 2) : replies'[i].type # "finished" /\ replies'[i].cmd.kind # "query" =>
           gui.busy /\ replies'[i].cmd.rev = gui.mutation
    BY <1>3, <1>6, <1>7, <1>10 DEF OneToggle, m
  <2> QED BY <1>1, <1>3, <1>9, <2>1 DEF OneToggle
<1>17. Owned'
  BY <1>1, <1>3 DEF Owned, EnabledIsOwned, NoOp
<1>18. ASSUME Sound' PROVE ToggleIsShown' /\ AnswersAreTrue'
  <2>1. ToggleIsShown /\ AnswersAreTrue
    BY <1>1, <1>4, <1>18 DEF AutostartInv, Sound
  <2>2. m + 1 \in 1..(m + 2)
    BY <1>5
  <2>3. ToggleIsShown'
    <3>1. CASE gui.mutation <= gui.applied
      BY <1>1, <3>1 DEF ToggleIsShown
    <3>2. CASE op.rev = gui.mutation
      BY <1>1, <1>6, <1>7, <1>9, <2>2, <3>2 DEF ToggleIsShown, Answering
    <3>3. CASE \E i \in 1..n : queue[i].rev = gui.mutation
      BY <1>1, <3>3 DEF ToggleIsShown, Answering, n
    <3>4. CASE \E i \in 1..m : replies[i].type = "state" /\ replies[i].cmd.rev = gui.mutation
      <4> PICK i \in 1..m : replies[i].type = "state" /\ replies[i].cmd.rev = gui.mutation
        BY <3>4
      <4>1. i \in 1..(m + 2) /\ replies'[i] = replies[i]
        BY <1>5, <1>9
      <4> QED BY <1>1, <1>9, <4>1 DEF ToggleIsShown, Answering
    <3> QED BY <2>1, <3>1, <3>2, <3>3, <3>4 DEF ToggleIsShown, Answering, n, m
  <2>4. AnswersAreTrue'
    <3>1. op.snap = svc.snap
      BY <1>1, <2>1 DEF AnswersAreTrue
    <3>2. ~NoState'
      BY <1>6, <1>9, <2>2 DEF NoState
    <3>3. ASSUME NEW i \in 1..(m + 2), LastState(i)' PROVE replies'[i] = s
      <4>1. replies'[i].type = "state" /\ (i < m + 1 => replies'[m + 1].type # "state")
        BY <1>9, <2>2, <3>3 DEF LastState
      <4>2. i = m + 1
        BY <1>5, <1>6, <1>9, <1>10, <4>1
      <4> QED BY <1>9, <4>2
    <3>4. \A i \in 1..Len(replies') : LastState(i)' => replies'[i].snap = svc.snap
      BY <1>6, <1>9, <3>1, <3>3
    <3> QED BY <1>1, <3>2, <3>4 DEF AnswersAreTrue, NoOp
  <2> QED BY <2>3, <2>4
<1> QED BY <1>11, <1>12, <1>13, <1>14, <1>15, <1>16, <1>17, <1>18 DEF AutostartInv

\* The thread ends: what it held is gone, and the finished signal comes last.
LEMMA StopKeeps ==
  ASSUME AutostartInv, ThreadStops
  PROVE  AutostartInv'
<1> DEFINE m == Len(replies)
           f == Signal("finished", Cmd, FALSE, svc.snap)
<1>1. /\ UNCHANGED <<failing, pending, gui, bridge, foreign, journal, entry, svc>>
      /\ thread = "up" /\ thread' = "stopped" /\ op' = NoOp /\ ~Active' /\ queue' = <<>>
      /\ replies' = Append(replies, f)
  BY DEF ThreadStops, Active, NoOp
<1>2. /\ ServiceTypes /\ MenuTypes /\ QueueTypes /\ QueueOrdered /\ RepliesOrdered /\ FinishedIsLast
      /\ UnansweredIsPending /\ OneToggle /\ Owned
  BY DEF AutostartInv
<1>3. m \in Nat /\ Cmd \in Request /\ f \in Reply /\ f.type = "finished"
  <2>1. m \in Nat /\ Cmd \in Request
    BY <1>2, QueueFacts
  <2> QED BY <1>2, <2>1 DEF Signal, Reply, ServiceTypes, Service
<1> HIDE DEF f, m
<1>4. /\ replies' \in Seq(Reply) /\ Len(replies') = m + 1
      /\ \A i \in 1..(m + 1) : (i \in 1..m /\ replies'[i] = replies[i]) \/ (i = m + 1 /\ replies'[i] = f)
  BY <1>1, <1>2, <1>3, AppendFacts DEF QueueTypes, m
<1>5. Len(queue') = 0 /\ queue' \in Seq(Request)
  BY <1>1
<1>6. ServiceTypes' /\ MenuTypes' /\ QueueTypes'
  BY <1>1, <1>2, <1>4, <1>5 DEF ServiceTypes, MenuTypes, QueueTypes, Operation, NoOp, Statuses, Kinds
<1>7. QueueOrdered'
  BY <1>1, <1>5 DEF QueueOrdered
<1>8. RepliesOrdered'
  BY <1>1, <1>2, <1>3, <1>4, <1>5 DEF RepliesOrdered, m
<1>9. FinishedIsLast'
  BY <1>1, <1>2, <1>4 DEF FinishedIsLast, m
<1>10. UnansweredIsPending'
  BY <1>1, <1>2, <1>3, <1>4, <1>5 DEF UnansweredIsPending, m
<1>11. OneToggle'
  BY <1>1, <1>2, <1>3, <1>4, <1>5 DEF OneToggle, m
<1>12. Owned' /\ ~Sound'
  BY <1>1, <1>2 DEF Owned, EnabledIsOwned, NoOp, Sound
<1> QED BY <1>6, <1>7, <1>8, <1>9, <1>10, <1>11, <1>12 DEF AutostartInv

\* What a delivered signal leaves of the answers.
Delivered ==
  /\ UNCHANGED <<queue, entry, failing, svc, op, thread, foreign>>
  /\ replies # <<>> /\ replies' = Tail(replies)
  /\ journal' \in {"off", "on", "failed"} /\ (journal = "failed" => journal' = "failed")

\* The facts about the signals that remain.
LEMMA DeliveredFacts ==
  ASSUME AutostartInv, Delivered
  PROVE  /\ Len(replies) \in Nat /\ Len(replies) > 0 /\ Len(replies') = Len(replies) - 1
         /\ replies' \in Seq(Reply) /\ Head(replies) = replies[1] /\ 1 \in 1..Len(replies)
         /\ \A i \in 1..Len(replies') : i + 1 \in 1..Len(replies) /\ replies'[i] = replies[i + 1]
         /\ \A i \in 1..Len(replies) : i # 1 => i - 1 \in 1..Len(replies') /\ replies'[i - 1] = replies[i]
         /\ ServiceTypes' /\ FinishedIsLast' /\ Owned' /\ Cmd' = Cmd /\ Active' = Active
         /\ Head(replies) \in Reply /\ Head(replies).cmd \in Request /\ Head(replies).cmd.rev \in Nat
<1>1. /\ UNCHANGED <<queue, entry, failing, svc, op, thread, foreign>>
      /\ replies # <<>> /\ replies' = Tail(replies)
      /\ journal' \in {"off", "on", "failed"}
  BY DEF Delivered
<1>2. replies \in Seq(Reply) /\ ServiceTypes /\ QueueTypes /\ FinishedIsLast /\ Owned
  BY DEF AutostartInv, QueueTypes
<1>3. /\ Len(replies) \in Nat /\ Len(replies) > 0 /\ Len(replies') = Len(replies) - 1
      /\ replies' \in Seq(Reply) /\ Head(replies) = replies[1]
      /\ \A i \in 1..(Len(replies) - 1) : replies'[i] = replies[i + 1]
  BY <1>1, <1>2, TailFacts
<1>4. /\ 1 \in 1..Len(replies)
      /\ \A i \in 1..Len(replies') : i + 1 \in 1..Len(replies) /\ replies'[i] = replies[i + 1]
  BY <1>3
<1>5. \A i \in 1..Len(replies) : i # 1 => i - 1 \in 1..Len(replies') /\ replies'[i - 1] = replies[i]
  <2> TAKE i \in 1..Len(replies)
  <2> HAVE i # 1
  <2>1. i - 1 \in 1..(Len(replies) - 1) /\ (i - 1) + 1 = i
    BY <1>3
  <2>2. replies'[i - 1] = replies[(i - 1) + 1]
    BY <1>3, <2>1
  <2> QED BY <1>3, <2>1, <2>2
<1>6. ServiceTypes' /\ Owned' /\ Cmd' = Cmd /\ Active' = Active
  BY <1>1, <1>2 DEF ServiceTypes, Owned, EnabledIsOwned, Cmd, Active
<1>7. FinishedIsLast'
  <2>1. \A i \in 1..Len(replies') : replies'[i].type = "finished" => thread' = "stopped" /\ i = Len(replies')
    <3> TAKE i \in 1..Len(replies')
    <3> HAVE replies'[i].type = "finished"
    <3>1. i + 1 \in 1..Len(replies) /\ replies[i + 1].type = "finished"
      BY <1>4
    <3>2. thread = "stopped" /\ i + 1 = Len(replies)
      BY <1>2, <3>1 DEF FinishedIsLast
    <3>3. i \in Nat /\ i = Len(replies) - 1
      BY <1>3, <3>2
    <3> QED BY <1>1, <1>3, <3>2, <3>3
  <2> QED BY <1>1, <1>2, <1>6, <2>1 DEF FinishedIsLast
<1>8. Head(replies) \in Reply /\ Head(replies).cmd \in Request /\ Head(replies).cmd.rev \in Nat
  BY <1>2, <1>3, <1>4, QueueFacts
<1> QED BY <1>3, <1>4, <1>5, <1>6, <1>7, <1>8

\* A state is applied, unless the user toggled since it was asked for.
LEMMA StateKeeps ==
  ASSUME AutostartInv, DeliverState
  PROVE  /\ AutostartInv'
         /\ gui'.snap # gui.snap => Head(replies).cmd.rev >= gui.mutation
<1> DEFINE r == Head(replies)
           n == Len(queue)
           m == Len(replies)
<1>1. /\ UNCHANGED <<queue, entry, failing, svc, op, thread, foreign, pending, bridge>>
      /\ replies # <<>> /\ replies' = Tail(replies) /\ r.type = "state"
  BY DEF DeliverState, ServiceUntouched
<1>2. /\ ServiceTypes /\ MenuTypes /\ QueueTypes /\ QueueOrdered /\ RepliesOrdered
      /\ UnansweredIsPending /\ OneToggle
  BY DEF AutostartInv
<1>3. r.cmd \in pending /\ gui.applied < r.cmd.rev /\ r.cmd.rev <= gui.rev
  <2>1. r = replies[1] /\ 1 \in 1..m
    BY <1>1, <1>2, TailFacts DEF QueueTypes
  <2> QED BY <1>1, <1>2, <2>1 DEF UnansweredIsPending, RepliesOrdered
<1>4. \/ Stale(r.cmd) /\ gui' = gui /\ \E ok \in BOOLEAN : Record(ok)
      \/ ~Stale(r.cmd) /\ gui' = [gui EXCEPT !.applied = r.cmd.rev, !.snap = r.snap] /\ journal' = journal
  BY <1>3 DEF DeliverState
<1>5. journal' \in {"off", "on", "failed"} /\ (journal = "failed" => journal' = "failed")
  BY <1>2, <1>4, RecordFacts DEF ServiceTypes
<1>6. Delivered
  BY <1>1, <1>5 DEF Delivered
<1>7. /\ m \in Nat /\ m > 0 /\ Len(replies') = m - 1
      /\ replies' \in Seq(Reply) /\ r = replies[1] /\ 1 \in 1..m
      /\ \A i \in 1..Len(replies') : i + 1 \in 1..m /\ replies'[i] = replies[i + 1]
      /\ \A i \in 1..m : i # 1 => i - 1 \in 1..Len(replies') /\ replies'[i - 1] = replies[i]
      /\ ServiceTypes' /\ FinishedIsLast' /\ Owned' /\ Cmd' = Cmd /\ Active' = Active
      /\ r \in Reply /\ r.cmd \in Request /\ r.cmd.rev \in Nat
  BY <1>6, DeliveredFacts
<1>8. /\ gui \in Menus /\ gui.rev \in Nat /\ gui.applied \in Nat /\ gui.mutation \in Nat
      /\ gui.applied <= gui.rev /\ gui.mutation <= gui.rev
  BY <1>2 DEF MenuTypes, Menus
<1>9. /\ \A j \in 1..n : r.cmd.rev < queue[j].rev
      /\ Active => r.cmd.rev < op.rev
      /\ \A i \in 1..Len(replies') : replies'[i].type = "state" => r.cmd.rev < replies'[i].cmd.rev
  <2>1. ASSUME NEW i \in 1..Len(replies'), replies'[i].type = "state" PROVE r.cmd.rev < replies'[i].cmd.rev
    <3>1. i + 1 \in 1..m /\ 1 < i + 1 /\ replies'[i] = replies[i + 1]
      BY <1>7
    <3> QED BY <1>1, <1>2, <1>7, <2>1, <3>1 DEF RepliesOrdered
  <2> QED BY <1>1, <1>2, <1>7, <2>1 DEF RepliesOrdered
<1>10. QueueTypes' /\ UnansweredIsPending'
  BY <1>1, <1>2, <1>7 DEF QueueTypes, UnansweredIsPending
<1>11. /\ gui'.rev = gui.rev /\ gui'.mutation = gui.mutation /\ gui'.busy = gui.busy /\ gui' \in Menus
       /\ \/ gui' = gui /\ r.cmd.rev < gui.mutation
          \/ gui'.applied = r.cmd.rev /\ gui'.snap = r.snap /\ r.cmd.rev >= gui.mutation
  <2>1. CASE Stale(r.cmd) /\ gui' = gui
    BY <1>3, <1>7, <1>8, <2>1 DEF Stale
  <2>2. CASE ~Stale(r.cmd) /\ gui' = [gui EXCEPT !.applied = r.cmd.rev, !.snap = r.snap]
    <3>1. r.snap \in Statuses
      BY <1>7 DEF Reply
    <3> HIDE DEF r
    <3>2. /\ gui'.rev = gui.rev /\ gui'.mutation = gui.mutation /\ gui'.busy = gui.busy /\ gui' \in Menus
          /\ gui'.applied = r.cmd.rev /\ gui'.snap = r.snap
      BY <1>7, <1>8, <2>2, <3>1 DEF Menus
    <3>3. r.cmd.rev >= gui.mutation
      <4>1. CASE r.cmd.kind = "query"
        BY <1>7, <1>8, <2>2, <4>1 DEF Stale
      <4>2. CASE r.cmd.kind # "query"
        <5>1. r.cmd.rev = gui.mutation
          BY <1>1, <1>2, <1>7, <4>2 DEF OneToggle, r
        <5> QED BY <1>8, <5>1
      <4> QED BY <4>1, <4>2
    <3> QED BY <3>2, <3>3
  <2> QED BY <1>4, <2>1, <2>2
<1>12. MenuTypes' /\ gui'.applied \in Nat
  BY <1>1, <1>2, <1>3, <1>7, <1>8, <1>11 DEF MenuTypes
<1>13. gui'.applied <= r.cmd.rev
  BY <1>3, <1>7, <1>8, <1>11
<1> HIDE DEF r, n, m
<1>14. QueueOrdered'
  <2>1. \A i \in 1..Len(queue) : gui'.applied < queue[i].rev /\ queue[i].rev <= gui'.rev
    BY <1>2, <1>7, <1>9, <1>11, <1>12, <1>13, QueueFacts DEF QueueOrdered, n
  <2>2. Active => gui'.applied < op.rev
    BY <1>2, <1>7, <1>9, <1>12, <1>13, QueueFacts
  <2> QED BY <1>1, <1>2, <1>7, <1>11, <2>1, <2>2 DEF QueueOrdered
<1>15. RepliesOrdered'
  <2>0. \A i \in 1..m : replies[i].cmd.rev \in Nat
    BY <1>2, QueueFacts DEF m
  <2> SUFFICES ASSUME NEW i \in 1..Len(replies'), replies'[i].type # "finished"
               PROVE  /\ replies'[i].cmd.rev <= gui.rev
                      /\ Active => replies'[i].cmd.rev < op.rev
                      /\ \A j \in 1..Len(queue) : replies'[i].cmd.rev < queue[j].rev
                      /\ replies'[i].type = "state" => gui'.applied < replies'[i].cmd.rev
                      /\ \A j \in 1..Len(replies') : i < j /\ replies'[j].type # "finished" =>
                           \/ replies'[i].cmd.rev < replies'[j].cmd.rev
                           \/ /\ replies'[i].type = "state" /\ replies'[j].type = "result"
                              /\ replies'[i].cmd = replies'[j].cmd
    BY <1>1, <1>7, <1>11 DEF RepliesOrdered
  <2>1. i + 1 \in 1..m /\ replies'[i] = replies[i + 1]
    BY <1>7
  <2>2. /\ replies'[i].cmd.rev <= gui.rev
        /\ Active => replies'[i].cmd.rev < op.rev
        /\ \A j \in 1..Len(queue) : replies'[i].cmd.rev < queue[j].rev
    BY <1>2, <2>1 DEF RepliesOrdered, m
  <2>3. ASSUME replies'[i].type = "state" PROVE gui'.applied < replies'[i].cmd.rev
    <3>1. r.cmd.rev < replies'[i].cmd.rev
      BY <1>9, <2>3
    <3>2. replies'[i].cmd.rev \in Nat /\ r.cmd.rev \in Nat /\ gui'.applied \in Nat /\ gui'.applied <= r.cmd.rev
      BY <1>7, <1>12, <1>13, <2>0, <2>1
    <3> QED BY <3>1, <3>2
  <2>4. ASSUME NEW j \in 1..Len(replies'), i < j, replies'[j].type # "finished"
        PROVE  \/ replies'[i].cmd.rev < replies'[j].cmd.rev
               \/ /\ replies'[i].type = "state" /\ replies'[j].type = "result"
                  /\ replies'[i].cmd = replies'[j].cmd
    <3>1. j + 1 \in 1..m /\ replies'[j] = replies[j + 1] /\ i + 1 < j + 1
      BY <1>7, <2>4
    <3> QED BY <1>2, <2>1, <2>4, <3>1 DEF RepliesOrdered, m
  <2> QED BY <2>2, <2>3, <2>4
<1>16. OneToggle'
  BY <1>1, <1>2, <1>7, <1>11 DEF OneToggle, m
<1>17. ASSUME Sound' PROVE ToggleIsShown' /\ AnswersAreTrue'
  <2>1. ToggleIsShown /\ AnswersAreTrue
    BY <1>1, <1>5, <1>17 DEF AutostartInv, Sound
  <2>2. ToggleIsShown'
    <3>1. CASE gui'.applied = r.cmd.rev /\ r.cmd.rev >= gui.mutation
      BY <1>8, <1>7, <1>11, <3>1 DEF ToggleIsShown
    <3>2. CASE gui' = gui /\ r.cmd.rev < gui.mutation
      <4>1. CASE gui.mutation <= gui.applied
        BY <3>2, <4>1 DEF ToggleIsShown
      <4>2. CASE Active /\ op.rev = gui.mutation
        BY <1>1, <1>7, <3>2, <4>2 DEF ToggleIsShown, Answering
      <4>3. CASE \E i \in 1..Len(queue) : queue[i].rev = gui.mutation
        BY <1>1, <3>2, <4>3 DEF ToggleIsShown, Answering
      <4>4. CASE \E i \in 1..m : replies[i].type = "state" /\ replies[i].cmd.rev = gui.mutation
        <5> PICK i \in 1..m : replies[i].type = "state" /\ replies[i].cmd.rev = gui.mutation
          BY <4>4
        <5>1. i # 1
          BY <1>7, <1>8, <3>2
        <5>2. i - 1 \in 1..Len(replies') /\ replies'[i - 1] = replies[i]
          BY <1>7, <5>1
        <5> QED BY <3>2, <5>2 DEF ToggleIsShown, Answering
      <4> QED BY <2>1, <4>1, <4>2, <4>3, <4>4 DEF ToggleIsShown, Answering, m
    <3> QED BY <1>11, <3>1, <3>2
  <2>3. AnswersAreTrue'
    <3>1. op.pc = "publish" => op.snap = svc.snap
      BY <2>1 DEF AnswersAreTrue
    <3>2. ASSUME op.pc # "publish", NEW i \in 1..Len(replies'), LastState(i)' PROVE replies'[i].snap = svc.snap
      <4>1. i + 1 \in 1..m /\ replies'[i] = replies[i + 1]
        BY <1>7
      <4>2. ASSUME NEW j \in 1..m, i + 1 < j PROVE replies[j].type # "state"
        <5>1. j # 1 /\ j - 1 \in 1..Len(replies') /\ replies'[j - 1] = replies[j] /\ i < j - 1
          BY <1>7, <4>2
        <5> QED BY <3>2, <5>1 DEF LastState
      <4>3. LastState(i + 1)
        BY <3>2, <4>1, <4>2 DEF LastState, m
      <4> QED BY <2>1, <3>2, <4>1, <4>3 DEF AnswersAreTrue, m
    <3>3. ASSUME op.pc # "publish", NoState' PROVE gui'.snap = svc.snap \/ gui'.applied < gui'.mutation
      <4>1. CASE gui' = gui /\ r.cmd.rev < gui.mutation
        BY <1>3, <1>7, <1>8, <4>1
      <4>2. CASE gui'.snap = r.snap
        <5>1. ASSUME NEW j \in 1..m, 1 < j PROVE replies[j].type # "state"
          <6>1. j # 1 /\ j - 1 \in 1..Len(replies') /\ replies'[j - 1] = replies[j]
            BY <1>7, <5>1
          <6> QED BY <3>3, <6>1 DEF NoState
        <5>2. LastState(1)
          BY <1>1, <1>7, <5>1 DEF LastState, m
        <5> QED BY <1>7, <2>1, <3>3, <4>2, <5>2 DEF AnswersAreTrue, m
      <4> QED BY <1>11, <4>1, <4>2
    <3> QED BY <1>1, <3>1, <3>2, <3>3 DEF AnswersAreTrue
  <2> QED BY <2>2, <2>3
<1>18. AutostartInv'
  BY <1>7, <1>10, <1>12, <1>14, <1>15, <1>16, <1>17 DEF AutostartInv
<1> QED BY <1>11, <1>18 DEF r

\* A toggle that ended lifts busy, and nothing else of the controller changes.
LEMMA ResolvedFacts ==
  ASSUME gui \in Menus, NEW cmds, Resolved(cmds, TRUE) \/ Resolved(cmds, FALSE)
  PROVE  /\ gui' \in Menus /\ gui'.rev = gui.rev /\ gui'.snap = gui.snap
         /\ gui'.applied = gui.applied /\ gui'.mutation = gui.mutation
         /\ (\A c \in cmds : c.kind = "query") => gui' = gui
<1>1. CASE \A c \in cmds : c.kind = "query"
  BY <1>1 DEF Resolved
<1>2. CASE ~(\A c \in cmds : c.kind = "query")
  <2>1. \/ gui' = [gui EXCEPT !.busy = FALSE, !.error = FALSE]
        \/ gui' = [gui EXCEPT !.busy = FALSE, !.error = TRUE]
    BY <1>2 DEF Resolved
  <2> QED BY <1>2, <2>1 DEF Menus
<1> QED BY <1>1, <1>2

\* The result of a command takes it off the pending ones; the toggle it ends
\* was the only one on its way.
LEMMA ResultKeeps ==
  ASSUME AutostartInv, DeliverResult
  PROVE  AutostartInv' /\ gui'.snap = gui.snap
<1> DEFINE r == Head(replies)
           n == Len(queue)
           m == Len(replies)
<1>1. /\ UNCHANGED <<queue, entry, failing, svc, op, thread, foreign, bridge>>
      /\ replies # <<>> /\ replies' = Tail(replies) /\ r.type = "result"
      /\ pending' = pending \ {r.cmd}
  BY DEF DeliverResult, ServiceUntouched
<1>2. /\ ServiceTypes /\ MenuTypes /\ QueueTypes /\ QueueOrdered /\ RepliesOrdered
      /\ UnansweredIsPending /\ OneToggle
  BY DEF AutostartInv
<1>3. PICK recorded \in BOOLEAN : Record(recorded) /\ Resolved({r.cmd}, r.ok /\ recorded)
  BY DEF DeliverResult
<1>4. journal' \in {"off", "on", "failed"} /\ (journal = "failed" => journal' = "failed")
  BY <1>2, <1>3, RecordFacts DEF ServiceTypes
<1>5. Delivered
  BY <1>1, <1>4 DEF Delivered
<1>6. /\ m \in Nat /\ m > 0 /\ Len(replies') = m - 1
      /\ replies' \in Seq(Reply) /\ r = replies[1] /\ 1 \in 1..m
      /\ \A i \in 1..Len(replies') : i + 1 \in 1..m /\ replies'[i] = replies[i + 1]
      /\ \A i \in 1..m : i # 1 => i - 1 \in 1..Len(replies') /\ replies'[i - 1] = replies[i]
      /\ ServiceTypes' /\ FinishedIsLast' /\ Owned' /\ Cmd' = Cmd /\ Active' = Active
      /\ r \in Reply /\ r.cmd \in Request /\ r.cmd.rev \in Nat
  BY <1>5, DeliveredFacts
<1>7. /\ gui' \in Menus /\ gui'.rev = gui.rev /\ gui'.snap = gui.snap
      /\ gui'.applied = gui.applied /\ gui'.mutation = gui.mutation
      /\ r.cmd.kind = "query" => gui' = gui
  <2>1. gui \in Menus
    BY <1>2 DEF MenuTypes
  <2>2. Resolved({r.cmd}, TRUE) \/ Resolved({r.cmd}, FALSE)
    <3> HIDE DEF r
    <3>1. CASE r.ok /\ recorded
      BY <1>3, <3>1 DEF Resolved
    <3>2. CASE ~(r.ok /\ recorded)
      BY <1>3, <3>2 DEF Resolved
    <3> QED BY <3>1, <3>2
  <2> DEFINE cmds == {r.cmd}
  <2>3. Resolved(cmds, TRUE) \/ Resolved(cmds, FALSE)
    BY <2>2
  <2>4. (\A c \in cmds : c.kind = "query") <=> r.cmd.kind = "query"
    OBVIOUS
  <2> HIDE DEF cmds
  <2>5. /\ gui' \in Menus /\ gui'.rev = gui.rev /\ gui'.snap = gui.snap
        /\ gui'.applied = gui.applied /\ gui'.mutation = gui.mutation
        /\ (\A c \in cmds : c.kind = "query") => gui' = gui
    BY <2>1, <2>3, ResolvedFacts
  <2> QED BY <2>4, <2>5
<1>8. MenuTypes'
  BY <1>1, <1>2, <1>7 DEF MenuTypes
<1>9. /\ \A j \in 1..n : r.cmd.rev < queue[j].rev /\ queue[j].rev \in Nat
      /\ Active => r.cmd.rev < op.rev /\ op.rev \in Nat
      /\ \A i \in 1..Len(replies') : replies'[i].type # "finished" =>
            r.cmd.rev < replies'[i].cmd.rev /\ replies'[i].cmd.rev \in Nat
  <2>1. ASSUME NEW i \in 1..Len(replies'), replies'[i].type # "finished"
        PROVE  r.cmd.rev < replies'[i].cmd.rev /\ replies'[i].cmd.rev \in Nat
    <3>1. i + 1 \in 1..m /\ 1 < i + 1 /\ replies'[i] = replies[i + 1]
      BY <1>6
    <3>2. replies[i + 1].cmd.rev \in Nat
      BY <1>2, <3>1, QueueFacts
    <3>3. r.cmd.rev < replies[i + 1].cmd.rev
      BY <1>1, <1>2, <1>6, <2>1, <3>1 DEF RepliesOrdered
    <3> QED BY <3>1, <3>2, <3>3
  <2>2. \A j \in 1..n : queue[j].rev \in Nat
    BY <1>2, QueueFacts
  <2>3. op.rev \in Nat
    BY <1>2, QueueFacts
  <2> QED BY <1>1, <1>2, <1>6, <2>1, <2>2, <2>3 DEF RepliesOrdered
<1> HIDE DEF r, n, m
<1>10. QueueTypes'
  BY <1>1, <1>2, <1>6 DEF QueueTypes
<1>11. QueueOrdered'
  BY <1>1, <1>2, <1>6, <1>7 DEF QueueOrdered
<1>12. RepliesOrdered'
  <2> SUFFICES ASSUME NEW i \in 1..Len(replies'), replies'[i].type # "finished"
               PROVE  /\ replies'[i].cmd.rev <= gui.rev
                      /\ Active => replies'[i].cmd.rev < op.rev
                      /\ \A j \in 1..Len(queue) : replies'[i].cmd.rev < queue[j].rev
                      /\ replies'[i].type = "state" => gui.applied < replies'[i].cmd.rev
                      /\ \A j \in 1..Len(replies') : i < j /\ replies'[j].type # "finished" =>
                           \/ replies'[i].cmd.rev < replies'[j].cmd.rev
                           \/ /\ replies'[i].type = "state" /\ replies'[j].type = "result"
                              /\ replies'[i].cmd = replies'[j].cmd
    BY <1>1, <1>6, <1>7 DEF RepliesOrdered
  <2>1. i + 1 \in 1..m /\ replies'[i] = replies[i + 1]
    BY <1>6
  <2>2. /\ replies'[i].cmd.rev <= gui.rev
        /\ Active => replies'[i].cmd.rev < op.rev
        /\ \A j \in 1..Len(queue) : replies'[i].cmd.rev < queue[j].rev
        /\ replies'[i].type = "state" => gui.applied < replies'[i].cmd.rev
    BY <1>2, <2>1 DEF RepliesOrdered, m
  <2>3. ASSUME NEW j \in 1..Len(replies'), i < j, replies'[j].type # "finished"
        PROVE  \/ replies'[i].cmd.rev < replies'[j].cmd.rev
               \/ /\ replies'[i].type = "state" /\ replies'[j].type = "result"
                  /\ replies'[i].cmd = replies'[j].cmd
    <3>1. j + 1 \in 1..m /\ replies'[j] = replies[j + 1]
      BY <1>6
    <3>2. i + 1 < j + 1
      BY <1>6, <2>3
    <3> QED BY <1>2, <2>1, <2>3, <3>1, <3>2 DEF RepliesOrdered, m
  <2> QED BY <2>2, <2>3
<1>13. UnansweredIsPending'
  <2>1. \A i \in 1..Len(queue) : queue[i] \in pending'
    <3> TAKE i \in 1..Len(queue)
    <3>1. queue[i] \in pending /\ r.cmd.rev < queue[i].rev /\ queue[i].rev \in Nat
      BY <1>2, <1>9 DEF UnansweredIsPending, n
    <3>2. queue[i] # r.cmd
      BY <1>6, <3>1
    <3> QED BY <1>1, <3>1, <3>2
  <2>2. ASSUME Active PROVE Cmd \in pending'
    <3>1. Cmd \in pending /\ Cmd.rev = op.rev /\ r.cmd.rev < op.rev /\ op.rev \in Nat
      BY <1>2, <1>9, <2>2 DEF UnansweredIsPending, Cmd
    <3>2. Cmd # r.cmd
      BY <1>6, <3>1
    <3> QED BY <1>1, <3>1, <3>2
  <2>3. \A i \in 1..Len(replies') : replies'[i].type = "state" => replies'[i].cmd \in pending'
    <3> TAKE i \in 1..Len(replies')
    <3> HAVE replies'[i].type = "state"
    <3>1. i + 1 \in 1..m /\ replies'[i] = replies[i + 1]
      BY <1>6
    <3>2. replies'[i].cmd \in pending
      BY <1>2, <3>1 DEF UnansweredIsPending, m
    <3>3. r.cmd.rev < replies'[i].cmd.rev /\ replies'[i].cmd.rev \in Nat
      BY <1>9
    <3>4. replies'[i].cmd # r.cmd
      BY <1>6, <3>3
    <3> QED BY <1>1, <3>2, <3>4
  <2> QED BY <1>1, <1>6, <2>1, <2>2, <2>3 DEF UnansweredIsPending
<1>14. OneToggle'
  <2>1. CASE r.cmd.kind = "query"
    <3>1. gui' = gui
      BY <1>7, <2>1
    <3>2. \A i \in 1..Len(replies') : replies'[i].type # "finished" /\ replies'[i].cmd.kind # "query" =>
             gui.busy /\ replies'[i].cmd.rev = gui.mutation
      <4> TAKE i \in 1..Len(replies')
      <4>1. i + 1 \in 1..m /\ replies'[i] = replies[i + 1]
        BY <1>6
      <4> QED BY <1>2, <4>1 DEF OneToggle, m
    <3> QED BY <1>1, <1>2, <1>6, <3>1, <3>2 DEF OneToggle
  <2>2. CASE r.cmd.kind # "query"
    <3>1. r.cmd.rev = gui.mutation
      BY <1>1, <1>2, <1>6, <2>2 DEF OneToggle, m
    <3>2. \A i \in 1..Len(queue) : queue[i].kind = "query"
      <4> TAKE i \in 1..Len(queue)
      <4>1. r.cmd.rev < queue[i].rev /\ queue[i].rev \in Nat
        BY <1>9 DEF n
      <4>2. queue[i].kind # "query" => queue[i].rev = gui.mutation
        BY <1>2 DEF OneToggle
      <4> QED BY <1>6, <3>1, <4>1, <4>2
    <3>3. Active => op.kind = "query"
      <4>1. Active => r.cmd.rev < op.rev /\ op.rev \in Nat
        BY <1>9
      <4>2. Active /\ op.kind # "query" => op.rev = gui.mutation
        BY <1>2 DEF OneToggle
      <4> QED BY <1>6, <3>1, <4>1, <4>2
    <3>4. \A i \in 1..Len(replies') : replies'[i].type # "finished" => replies'[i].cmd.kind = "query"
      <4> TAKE i \in 1..Len(replies')
      <4> HAVE replies'[i].type # "finished"
      <4>1. i + 1 \in 1..m /\ replies'[i] = replies[i + 1]
        BY <1>6
      <4>2. r.cmd.rev < replies'[i].cmd.rev /\ replies'[i].cmd.rev \in Nat
        BY <1>9
      <4>3. replies'[i].cmd.kind # "query" => replies'[i].cmd.rev = gui.mutation
        BY <1>2, <4>1 DEF OneToggle, m
      <4> QED BY <1>6, <3>1, <4>2, <4>3
    <3> QED BY <1>1, <1>6, <3>2, <3>3, <3>4 DEF OneToggle
  <2> QED BY <2>1, <2>2
<1>15. ASSUME Sound' PROVE ToggleIsShown' /\ AnswersAreTrue'
  <2>1. ToggleIsShown /\ AnswersAreTrue
    BY <1>1, <1>4, <1>15 DEF AutostartInv, Sound
  <2>2. ToggleIsShown'
    <3>1. CASE gui.mutation <= gui.applied
      BY <1>7, <3>1 DEF ToggleIsShown
    <3>2. CASE Active /\ op.rev = gui.mutation
      BY <1>1, <1>6, <1>7, <3>2 DEF ToggleIsShown, Answering
    <3>3. CASE \E i \in 1..Len(queue) : queue[i].rev = gui.mutation
      BY <1>1, <1>7, <3>3 DEF ToggleIsShown, Answering
    <3>4. CASE \E i \in 1..m : replies[i].type = "state" /\ replies[i].cmd.rev = gui.mutation
      <4>1. PICK i \in 1..m : replies[i].type = "state" /\ replies[i].cmd.rev = gui.mutation
        BY <3>4
      <4>2. i # 1
        BY <1>1, <1>6, <4>1
      <4>3. i - 1 \in 1..Len(replies') /\ replies'[i - 1] = replies[i]
        BY <1>6, <4>2
      <4> QED BY <1>7, <4>1, <4>3 DEF ToggleIsShown, Answering
    <3> QED BY <2>1, <3>1, <3>2, <3>3, <3>4 DEF ToggleIsShown, Answering, m
  <2>3. AnswersAreTrue'
    <3>1. op.pc = "publish" => op.snap = svc.snap
      BY <2>1 DEF AnswersAreTrue
    <3>2. ASSUME op.pc # "publish", NEW i \in 1..Len(replies'), LastState(i)' PROVE replies'[i].snap = svc.snap
      <4>1. i + 1 \in 1..m /\ replies'[i] = replies[i + 1]
        BY <1>6
      <4>2. ASSUME NEW j \in 1..m, i + 1 < j PROVE replies[j].type # "state"
        <5>1. j # 1 /\ j - 1 \in 1..Len(replies') /\ replies'[j - 1] = replies[j] /\ i < j - 1
          BY <1>6, <4>2
        <5> QED BY <3>2, <5>1 DEF LastState
      <4>3. LastState(i + 1)
        BY <3>2, <4>1, <4>2 DEF LastState, m
      <4> QED BY <2>1, <3>2, <4>1, <4>3 DEF AnswersAreTrue, m
    <3>3. ASSUME op.pc # "publish", NoState' PROVE gui'.snap = svc.snap \/ gui'.applied < gui'.mutation
      <4>1. ASSUME NEW j \in 1..m PROVE replies[j].type # "state"
        <5>1. CASE j = 1
          BY <1>1, <1>6, <5>1
        <5>2. CASE j # 1
          <6>1. j - 1 \in 1..Len(replies') /\ replies'[j - 1] = replies[j]
            BY <1>6, <5>2
          <6> QED BY <3>3, <6>1 DEF NoState
        <5> QED BY <5>1, <5>2
      <4>2. NoState
        BY <4>1 DEF NoState, m
      <4> QED BY <1>7, <2>1, <3>3, <4>2 DEF AnswersAreTrue
    <3> QED BY <1>1, <3>1, <3>2, <3>3 DEF AnswersAreTrue
  <2> QED BY <2>2, <2>3
<1>16. AutostartInv'
  BY <1>6, <1>8, <1>10, <1>11, <1>12, <1>13, <1>14, <1>15 DEF AutostartInv
<1> QED BY <1>7, <1>16

\* The end of the thread fails what is pending; nothing follows it.
LEMMA FinishedKeeps ==
  ASSUME AutostartInv, DeliverFinished
  PROVE  AutostartInv' /\ gui'.snap = gui.snap
<1>1. /\ UNCHANGED <<queue, entry, failing, svc, op, thread, foreign>>
      /\ replies # <<>> /\ replies' = Tail(replies) /\ Head(replies).type = "finished"
      /\ pending' = {} /\ bridge' = "down" /\ Resolved(pending, FALSE)
  BY DEF DeliverFinished, ServiceUntouched
<1>2. ServiceTypes /\ MenuTypes /\ FinishedIsLast
  BY DEF AutostartInv
<1>3. journal' \in {"off", "on", "failed"} /\ (journal = "failed" => journal' = "failed")
  <2>1. CASE UNCHANGED journal
    BY <1>2, <2>1 DEF ServiceTypes
  <2>2. CASE \E ok \in BOOLEAN : Record(ok)
    BY <1>2, <2>2, RecordFacts DEF ServiceTypes
  <2> QED BY <2>1, <2>2 DEF DeliverFinished
<1>4. Delivered
  BY <1>1, <1>3 DEF Delivered
<1>5. /\ Len(replies) \in Nat /\ Len(replies') = Len(replies) - 1 /\ replies' \in Seq(Reply)
      /\ Head(replies) = replies[1] /\ 1 \in 1..Len(replies)
      /\ ServiceTypes' /\ FinishedIsLast' /\ Owned' /\ Active' = Active
  BY <1>4, DeliveredFacts
<1>6. thread = "stopped" /\ Len(replies) = 1
  BY <1>1, <1>2, <1>5 DEF FinishedIsLast
<1>7. ~Active /\ queue = <<>> /\ Len(replies') = 0 /\ Len(queue) = 0
  BY <1>2, <1>5, <1>6 DEF FinishedIsLast
<1>8. /\ gui' \in Menus /\ gui'.rev = gui.rev /\ gui'.snap = gui.snap
      /\ gui'.applied = gui.applied /\ gui'.mutation = gui.mutation
  BY <1>1, <1>2, ResolvedFacts DEF MenuTypes
<1>9. MenuTypes' /\ QueueTypes'
  BY <1>1, <1>2, <1>5, <1>7, <1>8 DEF MenuTypes, QueueTypes
<1>10. QueueOrdered' /\ RepliesOrdered' /\ UnansweredIsPending' /\ OneToggle'
  BY <1>1, <1>5, <1>7 DEF QueueOrdered, RepliesOrdered, UnansweredIsPending, OneToggle
<1>11. ~Sound'
  BY <1>1, <1>6 DEF Sound
<1> QED BY <1>5, <1>8, <1>9, <1>10, <1>11 DEF AutostartInv

\* The initial states satisfy the invariant.
LEMMA AutostartInvInit ==
  ASSUME AutostartAssumption, AutostartInit
  PROVE  AutostartInv
<1>1. /\ queue = <<>> /\ replies = <<>> /\ Len(queue) = 0 /\ Len(replies) = 0 /\ ~Active
      /\ queue \in Seq(Request) /\ replies \in Seq(Reply) /\ pending = {}
  BY DEF AutostartInit, NoOp, Active
<1>2. /\ op = NoOp /\ thread = "up" /\ bridge = "ready"
      /\ svc = [snap |-> "unavailable", confirmed |-> FALSE, lost |-> FALSE]
      /\ gui = [snap |-> "unavailable", busy |-> FALSE, closing |-> FALSE, error |-> FALSE,
                rev |-> 0, mutation |-> 0, applied |-> 0]
  BY DEF AutostartInit
<1>3. ServiceTypes
  BY DEF AutostartInit, ServiceTypes, Values, Service, Operation, NoOp, Statuses, Kinds
<1>4. MenuTypes /\ QueueTypes
  BY <1>1, <1>2 DEF MenuTypes, QueueTypes, Menus, Statuses, AutostartAssumption
<1>5. QueueOrdered /\ RepliesOrdered /\ FinishedIsLast /\ UnansweredIsPending /\ OneToggle
  BY <1>1, <1>2 DEF QueueOrdered, RepliesOrdered, FinishedIsLast, UnansweredIsPending, OneToggle
<1>6. Owned
  BY <1>2 DEF Owned, EnabledIsOwned, NoOp
<1>7. ToggleIsShown /\ AnswersAreTrue
  BY <1>1, <1>2 DEF ToggleIsShown, AnswersAreTrue, NoOp
<1> QED BY <1>3, <1>4, <1>5, <1>6, <1>7 DEF AutostartInv

\* Every step keeps it, and what is shown changes only by an answer that is
\* not older than the toggle.
LEMMA AutostartInvStep ==
  ASSUME AutostartAssumption, AutostartInv, [AutostartNext]_autostartVars
  PROVE  AutostartInv' /\ ShownIsNotOlderThanToggle
<1> USE DEF ShownIsNotOlderThanToggle
<1>1. ServiceTypes /\ MenuTypes /\ Owned
  BY DEF AutostartInv
<1>2. CASE \/ OthersChangeValue \/ ExecutableChanges \/ RejectRequest \/ BeginClosing
           \/ UNCHANGED autostartVars
  <2>1. gui'.snap = gui.snap
    BY <1>1, <1>2 DEF OthersChangeValue, ExecutableChanges, RejectRequest, BeginClosing, autostartVars,
                      MenuTypes, Menus
  <2> QED BY <1>2, <2>1, EnvironmentKeeps
<1>3. ASSUME NEW k \in Kinds, Asks(k) PROVE AutostartInv' /\ gui'.snap = gui.snap
  BY <1>3, AskKeeps DEF Asks
<1>4. CASE Refresh
  <2>1. "query" \in Kinds /\ Asks("query")
    BY <1>1, <1>4, RequestAsks DEF Kinds
  <2> QED BY <1>3, <2>1
<1>5. CASE SetEnabled("enable")
  <2>1. "enable" \in Kinds /\ Asks("enable")
    BY <1>1, <1>5, RequestAsks DEF Kinds
  <2> QED BY <1>3, <2>1
<1>6. CASE SetEnabled("disable")
  <2>1. "disable" \in Kinds /\ Asks("disable")
    BY <1>1, <1>6, RequestAsks DEF Kinds
  <2> QED BY <1>3, <2>1
<1>7. CASE Deliver
  BY <1>7, StateKeeps, ResultKeeps, FinishedKeeps DEF Deliver
<1>8. CASE Enter \/ ReadValue \/ WriteValue \/ Written \/ Verify
  <2>1. ServiceMoves /\ Owned'
    BY <1>1, <1>8, ServiceSteps
  <2> QED BY <2>1, ServiceKeeps DEF ServiceMoves
<1>9. CASE TakeCommand \/ Publish \/ ThreadStops
  <2>1. gui' = gui
    BY <1>9 DEF TakeCommand, Publish, ThreadStops, GuiUntouched
  <2> QED BY <1>9, <2>1, TakeKeeps, PublishKeeps, StopKeeps
<1> QED BY <1>2, <1>4, <1>5, <1>6, <1>7, <1>8, <1>9 DEF AutostartNext, Execute

\* What the invariant says when nothing is under way.
LEMMA TruthfulMeans ==
  ASSUME AutostartInv
  PROVE  AutostartIsTruthful
<1>1. /\ ServiceTypes /\ MenuTypes /\ QueueTypes /\ UnansweredIsPending /\ Owned
      /\ Sound => ToggleIsShown /\ AnswersAreTrue
  BY DEF AutostartInv
<1>2. AutostartTypeOK
  <2>1. /\ svc.snap \in Statuses /\ gui.snap \in Statuses /\ op.snap \in Statuses /\ gui.rev \in Nat
    BY <1>1 DEF ServiceTypes, MenuTypes, Service, Menus, Operation
  <2>2. gui.rev \in 0..(MaxRevision + 1)
    BY <1>1, <2>1 DEF MenuTypes
  <2> QED BY <1>1, <2>1, <2>2 DEF AutostartTypeOK, ServiceTypes, MenuTypes, Values, UnansweredIsPending
<1>3. ASSUME pending = {}, journal # "failed", thread = "up" PROVE gui.snap = svc.snap
  <2>1. ToggleIsShown /\ AnswersAreTrue
    BY <1>1, <1>3 DEF Sound
  <2>2. ~Active /\ NoState /\ \A i \in 1..Len(queue) : FALSE
    BY <1>1, <1>3 DEF UnansweredIsPending, NoState
  <2>3. gui.mutation <= gui.applied
    BY <2>1, <2>2 DEF ToggleIsShown, Answering, NoState
  <2>4. gui.snap = svc.snap \/ gui.applied < gui.mutation
    BY <2>1, <2>2 DEF AnswersAreTrue, Active
  <2>5. gui.mutation \in Nat /\ gui.applied \in Nat
    BY <1>1 DEF MenuTypes, Menus
  <2> QED BY <2>3, <2>4, <2>5
<1> QED BY <1>1, <1>2, <1>3 DEF AutostartIsTruthful, QuietUiAgrees, Owned

\* A step of the service on an entry that was lost.
LEMMA LostStays ==
  ASSUME ServiceTypes, Owned, svc.lost, Enter \/ ReadValue \/ WriteValue \/ Written \/ Verify
  PROVE  svc'.lost /\ entry' = entry
<1>1. svc \in Service /\ op \in Operation /\ entry \in Values
  BY DEF ServiceTypes
<1>2. JournalFails \/ BackendFails => svc'.lost
  BY <1>1 DEF JournalFails, BackendFails, Service
<1>3. op.pc \notin {"write", "written", "verify"} /\ (op.pc = "read" => op.kind = "query")
  BY DEF Owned
<1>4. CASE Enter
  BY <1>1, <1>2, <1>4 DEF Enter, Publishes, Service
<1>5. CASE ReadValue
  <2>1. op.kind = "query" /\ entry' = entry
    BY <1>3, <1>5 DEF ReadValue
  <2>2. CASE ReadStep(entry)
    <3>1. svc' = Classified(entry)
      BY <2>1, <2>2 DEF ReadStep, Publishes
    <3> QED BY <1>1, <2>1, <3>1, ClassifiedFacts
  <2> QED BY <1>2, <1>5, <2>1, <2>2 DEF ReadValue
<1> QED BY <1>3, <1>4, <1>5 DEF WriteValue, Written, Verify

\* Every step leaves a lost entry alone.
LEMMA LostStep ==
  ASSUME ServiceTypes, Owned, [AutostartNext]_autostartVars
  PROVE  LostEntryIsLeftAlone
<1>1. CASE OthersChangeValue
  BY <1>1 DEF OthersChangeValue, LostEntryIsLeftAlone, ServiceTypes
<1>2. CASE Enter \/ ReadValue \/ WriteValue \/ Written \/ Verify
  BY <1>2, LostStays DEF LostEntryIsLeftAlone
<1>3. CASE \/ ExecutableChanges \/ Refresh \/ SetEnabled("enable") \/ SetEnabled("disable") \/ RejectRequest
           \/ BeginClosing \/ Deliver \/ TakeCommand \/ Publish \/ ThreadStops \/ UNCHANGED autostartVars
  <2>1. UNCHANGED <<svc, entry>>
    BY <1>3 DEF ExecutableChanges, Refresh, SetEnabled, RejectRequest, BeginClosing, Deliver, DeliverState,
                DeliverResult, DeliverFinished, TakeCommand, Publish, ThreadStops, ServiceUntouched, autostartVars
  <2> QED BY <2>1 DEF LostEntryIsLeftAlone
<1> QED BY <1>1, <1>2, <1>3 DEF AutostartNext, Execute

-----------------------------------------------------------------------------
(* Theorems.                                                               *)

\* The invariant holds in every reachable state.
THEOREM AutostartInvariant ==
  ASSUME AutostartAssumption
  PROVE  AutostartSpec => []AutostartInv
<1>1. AutostartInit => AutostartInv
  BY AutostartInvInit
<1>2. AutostartInv /\ [AutostartNext]_autostartVars => AutostartInv'
  BY AutostartInvStep
<1> QED BY <1>1, <1>2, PTL DEF AutostartSpec

\* Once nothing is under way the menus show what the service last said, and what
\* it calls enabled it also owns, in every behaviour: however requests, refreshes,
\* failures of the registry and foreign changes interleave.
THEOREM AutostartTruthful ==
  ASSUME AutostartAssumption
  PROVE  AutostartSpec => []AutostartIsTruthful
<1>1. AutostartInv => AutostartIsTruthful
  BY TruthfulMeans
<1> QED BY <1>1, AutostartInvariant, PTL

\* What is shown never goes back to an answer asked for before the user's toggle
\* (_on_state_changed drops it), and a lost entry is neither written nor deleted.
THEOREM AutostartStepsTruthful ==
  ASSUME AutostartAssumption
  PROVE  AutostartSpec => [][ShownIsNotOlderThanToggle /\ LostEntryIsLeftAlone]_autostartVars
<1>1. AutostartInv /\ [AutostartNext]_autostartVars
        => [ShownIsNotOlderThanToggle /\ LostEntryIsLeftAlone]_autostartVars
  BY AutostartInvStep, LostStep DEF AutostartInv
<1> QED BY <1>1, AutostartInvariant, PTL DEF AutostartSpec
=============================================================================
