------------------------------ MODULE Autostart ------------------------------
(***************************************************************************)
(* Optional autostart: AutostartUiController in the GUI thread, the        *)
(* commands that QtRuntimeBridge and RuntimeThread carry for it, and       *)
(* AutostartService over the one registry value of the user, which other   *)
(* programs change too.  Every access of the service to the registry is a  *)
(* step of its own, every record of the optional journal may fail, and the *)
(* runtime thread may stop between any two steps.                          *)
(*                                                                         *)
(* A command is known by the controller revision it was issued with.  The  *)
(* controller's journal record and bridge.submit run in one GUI callback.  *)
(***************************************************************************)
EXTENDS Naturals, Sequences

CONSTANTS
    Facts,       \* what the executable and the runtime must satisfy
    MaxRevision, \* bound: requests of one behaviour
    MaxForeign   \* bound: changes by other programs or of the executable

\* What the constants must satisfy.
AutostartAssumption == MaxRevision \in Nat /\ MaxForeign \in Nat

VARIABLES
    entry,   \* the registry value: absent, ours, or another command
    failing, \* the facts that do not hold now
    journal, \* off, on, or failed for good
    svc,     \* AutostartService
    op,      \* the command the runtime thread is executing
    queue,   \* its queued commands
    thread,  \* up or stopped
    replies, \* queued signals to the GUI thread
    pending, \* the bridge's and the controller's pending commands
    gui,     \* AutostartUiController
    bridge,  \* ready, closing or down
    foreign  \* changes made so far by others

autostartVars ==
    <<entry, failing, journal, svc, op, queue, thread, replies, pending, gui, bridge, foreign>>

Kinds == {"query", "enable", "disable"}

Statuses == {"unavailable", "disabled", "enabled", "occupied", "ownership_lost",
             "invalid_executable", "error"}

NoOp == [pc |-> "idle", kind |-> "query", rev |-> 0, prev |-> "unavailable", ok |-> FALSE,
         snap |-> "unavailable"]

AutostartInit ==
    /\ entry \in {"absent", "ours", "other"}
    /\ failing = {} /\ journal \in {"off", "on"}
    /\ svc = [snap |-> "unavailable", confirmed |-> FALSE, lost |-> FALSE]
    /\ op = NoOp /\ queue = <<>> /\ thread = "up" /\ replies = <<>> /\ pending = {}
    /\ gui = [snap |-> "unavailable", busy |-> FALSE, closing |-> FALSE, error |-> FALSE,
              rev |-> 0, mutation |-> 0, applied |-> 0]
    /\ bridge = "ready" /\ foreign = 0

\* record: the journal takes the event, or it fails and never works again.
Record(ok) ==
    IF ok THEN journal # "failed" /\ UNCHANGED journal
          ELSE journal # "off" /\ journal' = "failed"

\* evaluate_nuitka_runtime, evaluate_executable: every fact must hold.
Eligible == failing = {}

(***************************************************************************)
(* The environment.                                                        *)
(***************************************************************************)
OthersChangeValue ==
    /\ foreign < MaxForeign
    /\ entry' \in {"absent", "ours", "other"} \ {entry}
    /\ foreign' = foreign + 1
    /\ UNCHANGED <<failing, journal, svc, op, queue, thread, replies, pending, gui, bridge>>

ExecutableChanges ==
    /\ foreign < MaxForeign
    /\ failing' \in SUBSET Facts \ {failing}
    /\ foreign' = foreign + 1
    /\ UNCHANGED <<entry, journal, svc, op, queue, thread, replies, pending, gui, bridge>>

(***************************************************************************)
(* The controller: one callback of the GUI thread per action.              *)
(***************************************************************************)
ServiceUntouched == UNCHANGED <<entry, failing, svc, op, thread, foreign>>

\* user_toggle_allowed
ToggleAllowed == gui.snap \in {"disabled", "enabled"} /\ ~gui.busy /\ ~gui.closing /\ bridge = "ready"

NewRevision == gui.rev + 1

Command(kind) == [rev |-> NewRevision, kind |-> kind]

\* bridge._submit: it is journalled and queued, or failed at once.
Submit(kind, recorded) ==
    IF recorded /\ thread = "up"
    THEN queue' = Append(queue, Command(kind)) /\ pending' = pending \cup {Command(kind)}
    ELSE UNCHANGED <<queue, pending>>

\* refresh; a failing journal stops it before or in the bridge.
Refresh ==
    /\ gui.rev < MaxRevision /\ ~gui.closing /\ bridge = "ready"
    /\ \E accepted, recorded \in BOOLEAN :
         /\ Record(accepted /\ recorded)
         /\ IF accepted THEN Submit("query", recorded) ELSE UNCHANGED <<queue, pending>>
         /\ gui' = [gui EXCEPT !.rev = NewRevision, !.error = @ \/ ~accepted]
    /\ UNCHANGED <<replies, bridge>> /\ ServiceUntouched

\* set_enabled.  Only an accepted request marks the controller busy.
SetEnabled(kind) ==
    /\ gui.rev < MaxRevision
    /\ ToggleAllowed /\ (kind = "enable") # (gui.snap = "enabled")
    /\ \E accepted, recorded \in BOOLEAN :
         /\ Record(accepted /\ recorded)
         /\ IF accepted THEN Submit(kind, recorded) ELSE UNCHANGED <<queue, pending>>
         /\ LET submitted == accepted /\ recorded /\ thread = "up"
            IN gui' = [gui EXCEPT !.rev = NewRevision, !.busy = submitted, !.error = ~submitted,
                                  !.mutation = IF accepted THEN NewRevision ELSE @]
    /\ UNCHANGED <<replies, bridge>> /\ ServiceUntouched

\* _record_rejection: a request that is refused, or asks for what is shown,
\* is journalled under a revision of its own.
RejectRequest ==
    /\ gui.rev < MaxRevision /\ journal # "off"
    /\ \E ok \in BOOLEAN : Record(ok)
    /\ gui' = [gui EXCEPT !.rev = NewRevision]
    /\ UNCHANGED <<queue, pending, replies, bridge>> /\ ServiceUntouched

\* begin_closing, on runtime_closing: the shutdown command is queued behind.
BeginClosing ==
    /\ bridge = "ready"
    /\ bridge' = "closing"
    /\ gui' = [gui EXCEPT !.closing = TRUE, !.rev = NewRevision]
    /\ \E ok \in BOOLEAN : Record(ok)
    /\ UNCHANGED <<queue, pending, replies>> /\ ServiceUntouched

\* Seeded fault: a query that was issued before the toggle is applied.
StaleNever(cmd) == cmd.rev < gui.applied

Stale(cmd) == cmd.rev < gui.applied \/ (cmd.kind = "query" /\ cmd.rev < gui.mutation)

\* _relay_autostart_state, _on_state_changed
DeliverState ==
    /\ replies # <<>> /\ Head(replies).type = "state"
    /\ LET r == Head(replies) IN
         IF r.cmd \notin pending THEN UNCHANGED <<gui, journal>>
         ELSE IF Stale(r.cmd) THEN UNCHANGED gui /\ \E ok \in BOOLEAN : Record(ok)
         ELSE gui' = [gui EXCEPT !.applied = r.cmd.rev, !.snap = r.snap] /\ UNCHANGED journal
    /\ replies' = Tail(replies)
    /\ UNCHANGED <<queue, pending, bridge>> /\ ServiceUntouched

\* Seeded fault: a failed command leaves the controller busy.
ResolvedWhenOk(cmds, ok) ==
    LET mutations == {c \in cmds : c.kind # "query"}
    IN gui' = IF mutations = {} \/ ~ok THEN gui ELSE [gui EXCEPT !.busy = FALSE, !.error = ~ok]

\* _on_command_completed, _on_command_failed
Resolved(cmds, ok) ==
    LET mutations == {c \in cmds : c.kind # "query"}
    IN gui' = IF mutations = {} THEN gui ELSE [gui EXCEPT !.busy = FALSE, !.error = ~ok]

\* _complete_command, _fail_command: completing may fail in the journal too.
DeliverResult ==
    /\ replies # <<>> /\ Head(replies).type = "result"
    /\ LET r == Head(replies) IN
         /\ r.cmd \in pending
         /\ \E recorded \in BOOLEAN :
              /\ Record(recorded)
              /\ Resolved({r.cmd}, r.ok /\ recorded)
         /\ pending' = pending \ {r.cmd}
    /\ replies' = Tail(replies)
    /\ UNCHANGED <<queue, bridge>> /\ ServiceUntouched

\* The thread has finished: _fail_all_pending.
DeliverFinished ==
    /\ replies # <<>> /\ Head(replies).type = "finished"
    /\ Resolved(pending, FALSE)
    /\ IF pending = {} THEN UNCHANGED journal ELSE \E ok \in BOOLEAN : Record(ok)
    /\ pending' = {} /\ bridge' = "down" /\ replies' = Tail(replies)
    /\ UNCHANGED queue /\ ServiceUntouched

(***************************************************************************)
(* The runtime thread and AutostartService.                                *)
(***************************************************************************)
GuiUntouched == UNCHANGED <<failing, pending, gui, bridge, foreign, thread>>

Cmd == [rev |-> op.rev, kind |-> op.kind]

Signal(type, cmd, ok, snap) == [type |-> type, cmd |-> cmd, ok |-> ok, snap |-> snap]

\* RUNTIME_COMMAND_ACCEPTED, then the service is called.
TakeCommand ==
    /\ thread = "up" /\ op.pc = "idle" /\ queue # <<>>
    /\ queue' = Tail(queue)
    /\ LET c == Head(queue) IN
       \E ok \in BOOLEAN :
         /\ Record(ok)
         /\ op' = IF ok THEN [NoOp EXCEPT !.pc = "enter", !.kind = c.kind, !.rev = c.rev, !.prev = svc.snap]
                        ELSE NoOp
         /\ replies' = IF ok THEN replies ELSE Append(replies, Signal("result", c, FALSE, svc.snap))
    /\ UNCHANGED <<entry, svc>> /\ GuiUntouched

\* The service returns: a result and the snapshot that goes with it.
Return(ok, snap) == op' = [op EXCEPT !.pc = "publish", !.ok = ok, !.snap = snap]

Goto(pc) == op' = [op EXCEPT !.pc = pc]

\* _journal_failure: the snapshot becomes an error, the caller gets the last one.
JournalFails ==
    /\ Record(FALSE)
    /\ svc' = [svc EXCEPT !.snap = "error"]
    /\ Return(FALSE, IF op.kind = "query" THEN "error" ELSE op.prev)

\* A failing registry access: a mutation restores the last snapshot.
BackendFails ==
    /\ Record(TRUE)
    /\ LET snap == IF op.kind = "query" THEN "error" ELSE op.prev
       IN svc' = [svc EXCEPT !.snap = snap] /\ Return(FALSE, snap)

Publishes(s, ok) == svc' = s /\ Return(ok, s.snap)

\* _classify
Classified(stored) ==
    LET status == CASE svc.lost -> "ownership_lost"
                    [] ~svc.lost /\ stored = "ours" -> "enabled"
                    [] ~svc.lost /\ stored # "ours" /\ svc.confirmed -> "ownership_lost"
                    [] OTHER -> IF stored = "absent" THEN "disabled" ELSE "occupied"
    IN [snap |-> status, confirmed |-> svc.confirmed \/ status = "enabled",
        lost |-> svc.lost \/ status = "ownership_lost"]

MayProceed == Eligible /\ (op.kind = "query" \/ ~svc.lost)

\* Only a mutation is journalled when it enters the service.
Entered == IF op.kind = "query" THEN UNCHANGED journal ELSE Record(TRUE)

\* query, set_enabled up to the first read.
Enter ==
    /\ op.pc = "enter"
    /\ \/ op.kind # "query" /\ JournalFails
       \/ Entered /\ MayProceed /\ Goto("read") /\ UNCHANGED svc
       \/ /\ Entered /\ ~MayProceed
          /\ Publishes([svc EXCEPT !.snap = IF ~Eligible THEN "invalid_executable" ELSE "ownership_lost"],
                       op.kind = "query")
    /\ UNCHANGED <<entry, queue, replies>> /\ GuiUntouched

\* What the value that was read calls for (_classify, _enable, _disable).
ReadStep(stored) ==
    CASE op.kind = "query" -> Publishes(Classified(stored), TRUE)
      [] op.kind = "enable" ->
            IF stored = "absent" THEN Goto("write") /\ UNCHANGED svc
            ELSE Publishes(Classified(stored), Classified(stored).snap = "enabled")
      [] OTHER ->
            CASE stored = "absent" -> Publishes(Classified(stored), Classified(stored).snap # "ownership_lost")
              [] stored = "ours" -> Goto("write") /\ UNCHANGED svc
              [] OTHER -> Publishes([svc EXCEPT !.snap = "ownership_lost", !.lost = TRUE], FALSE)

ReadValue ==
    /\ op.pc = "read"
    /\ JournalFails \/ BackendFails \/ (Record(TRUE) /\ ReadStep(entry))
    /\ UNCHANGED <<entry, queue, replies>> /\ GuiUntouched

\* write_value or delete_value, journalled before it and after it.  Deleting
\* fails when the value has gone in between.
WriteValue ==
    /\ op.pc = "write"
    /\ \/ JournalFails /\ UNCHANGED entry
       \/ BackendFails /\ UNCHANGED entry
       \/ /\ op.kind = "enable" \/ entry # "absent"
          /\ entry' = IF op.kind = "enable" THEN "ours" ELSE "absent"
          /\ Record(TRUE) /\ Goto("written") /\ UNCHANGED svc
    /\ UNCHANGED <<queue, replies>> /\ GuiUntouched

\* Seeded fault: ownership is given up before the deletion is verified.
WrittenGivesUp ==
    /\ op.pc = "written"
    /\ \/ JournalFails
       \/ /\ Record(TRUE) /\ Goto("verify")
          /\ svc' = [svc EXCEPT !.confirmed = op.kind = "enable"]
    /\ UNCHANGED <<entry, queue, replies>> /\ GuiUntouched

Written ==
    /\ op.pc = "written"
    /\ \/ JournalFails
       \/ /\ Record(TRUE) /\ Goto("verify")
          /\ svc' = [svc EXCEPT !.confirmed = @ \/ op.kind = "enable"]
    /\ UNCHANGED <<entry, queue, replies>> /\ GuiUntouched

\* The read-back and what it proves.
VerifyStep(stored) ==
    CASE op.kind = "enable" -> Publishes(Classified(stored), Classified(stored).snap = "enabled")
      [] op.kind # "enable" /\ stored # "absent" ->
            Publishes([svc EXCEPT !.snap = "ownership_lost", !.lost = TRUE], FALSE)
      [] OTHER -> Publishes([snap |-> "disabled", confirmed |-> FALSE, lost |-> FALSE], TRUE)

Verify ==
    /\ op.pc = "verify"
    /\ JournalFails \/ BackendFails \/ (Record(TRUE) /\ VerifyStep(entry))
    /\ UNCHANGED <<entry, queue, replies>> /\ GuiUntouched

\* autostart_state_emitted, SNAPSHOT_PUBLISHED, the command's result.
Publish ==
    /\ op.pc = "publish"
    /\ \E recorded \in BOOLEAN :
         /\ Record(recorded)
         /\ replies' = replies \o <<Signal("state", Cmd, TRUE, op.snap),
                                    Signal("result", Cmd, recorded /\ (op.ok \/ op.kind = "query"), op.snap)>>
    /\ op' = NoOp
    /\ UNCHANGED <<entry, svc, queue>> /\ GuiUntouched

\* The thread ends: after the queued shutdown, or at any moment by a failure.
ThreadStops ==
    /\ thread = "up"
    /\ thread' = "stopped" /\ op' = NoOp /\ queue' = <<>>
    /\ replies' = Append(replies, Signal("finished", Cmd, FALSE, svc.snap))
    /\ UNCHANGED <<entry, failing, journal, svc, pending, gui, bridge, foreign>>

Execute == TakeCommand \/ Enter \/ ReadValue \/ WriteValue \/ Written \/ Verify \/ Publish

Deliver == DeliverState \/ DeliverResult \/ DeliverFinished

AutostartNext ==
    \/ OthersChangeValue \/ ExecutableChanges
    \/ Refresh \/ SetEnabled("enable") \/ SetEnabled("disable") \/ RejectRequest \/ BeginClosing
    \/ Deliver \/ Execute \/ ThreadStops

\* Registry access is short and synchronous; both threads run their loops.
Fairness == WF_autostartVars(Execute) /\ WF_autostartVars(Deliver)

AutostartSpec == AutostartInit /\ [][AutostartNext]_autostartVars

AutostartFairSpec == AutostartSpec /\ Fairness

(***************************************************************************)
(* Properties.                                                             *)
(***************************************************************************)
\* Every variable keeps its type.
AutostartTypeOK ==
    /\ entry \in {"absent", "ours", "other"} /\ failing \subseteq Facts
    /\ journal \in {"off", "on", "failed"} /\ thread \in {"up", "stopped"}
    /\ svc.snap \in Statuses /\ gui.snap \in Statuses /\ op.snap \in Statuses
    /\ gui.rev \in 0..(MaxRevision + 1) /\ gui.mutation <= gui.rev /\ gui.applied <= gui.rev
    /\ \A i \in 1..Len(queue) : queue[i] \in pending

\* When nothing is under way, all three menus show what the service last
\* said, unless the journal failed and took a command with it.
QuietUiAgrees ==
    pending = {} /\ journal # "failed" /\ bridge = "ready" /\ thread = "up" => gui.snap = svc.snap

\* What is shown never goes back to an answer to a question that was asked
\* before the user's toggle: the answer may have been read before the write.
ShownIsNotOlderThanToggle ==
    gui'.snap # gui.snap => Head(replies).cmd.rev >= gui.mutation

\* An entry once lost is left alone until the process ends: it stays lost,
\* and the service writes and deletes nothing any more.
LostEntryIsLeftAlone ==
    svc.lost => svc'.lost /\ (foreign' = foreign => entry' = entry)

\* What the service calls enabled it also owns, so that a later change by
\* another program is noticed, however many failed operations came between.
EnabledIsOwned == svc.snap = "enabled" => svc.confirmed /\ ~svc.lost

\* Once nothing is under way the menus show what the service last said, and
\* what it calls enabled it also owns.
AutostartIsTruthful == AutostartTypeOK /\ QuietUiAgrees /\ EnabledIsOwned

\* A toggle the user made comes to an end, whatever fails: busy is lifted.
BusyEnds == gui.busy ~> ~gui.busy

\* What the documents say and the code does not do (README, disagreements):
\* a different value is never overwritten (docs/pet/windows_autostart.md).
OtherValueIsNeverOverwritten == [][entry = "other" /\ entry' = "ours" => foreign' # foreign]_autostartVars

\* Likewise in docs/pet/windows_autostart.md: ownership_lost says that an owned value was
\* changed by someone else during this process.
LostMeansOthersChangedIt == svc.lost => foreign > 0
=============================================================================
