--------------------------- MODULE TimelineProbe ----------------------------
(***************************************************************************)
(* The observer of the packaged autostart test                             *)
(* (packaging/autostart_run_timeline_probe.py).  One observer process      *)
(* polls a control file, the state of the Owner process and the Run value; *)
(* operators move it through the phases T0..T9 by replacing the control    *)
(* file.  At the end it says whether the value survived the Owner's        *)
(* shutdown.                                                               *)
(*                                                                         *)
(* Everything the observer reads may change between two of its reads: a    *)
(* poll is four steps.  Time is abstract: a timeout that applies may have  *)
(* expired at any poll, and the total one expires eventually.              *)
(***************************************************************************)
EXTENDS Naturals, FiniteSets

CONSTANTS
    RuntimePhases,  \* phases from T3-after-enable to T6; 4 in the code
    MaxCommands, \* operator -> bound on the control commands it runs
    MaxAhead,    \* bound on how far the control file is ahead of the observer when a command reads it
    MaxToggles,  \* bound on the changes of the Run value
    Releases,    \* whether the supervisor may let go of the ended Owner
    Expires,     \* whether the total time may run out
    Aborts       \* whether the operators may abort the observation

\* What the constants must satisfy.
ProbeAssumption ==
    /\ RuntimePhases \in Nat \ {0} /\ {Expires, Aborts, Releases} \subseteq BOOLEAN
    /\ {MaxToggles, MaxAhead} \subseteq Nat
    /\ IsFiniteSet(DOMAIN MaxCommands) /\ \A o \in DOMAIN MaxCommands : MaxCommands[o] \in Nat

\* The processes that run the control commands.
Callers == DOMAIN MaxCommands

\* PHASES, by index: T0, T1, T2-before-enable, the runtime phases from T3-after-enable on,
\* T7-before-shutdown, T8-after-process-exit and T9-final.
BeforeShutdown == 3 + RuntimePhases
FinalPhase == BeforeShutdown + 2
Phases == 0..FinalPhase
Required == 3..FinalPhase

VARIABLES
    pc,          \* step of the observer's poll
    life,        \* lifecycle_state, also what the checkpoint file says
    phase,       \* current_phase
    rev,         \* revision
    code,        \* safe_code
    registered,  \* owner_registration is set
    ownerState,  \* owner_terminal_state
    fallback,    \* owner_terminal_fallback_verified
    status,      \* owner_process_status
    tr,          \* TimelineTracker
    lost,        \* an observation after the first owned one did not find it owned
    late,        \* the total time is over
    control,     \* control.json
    ownerFile,   \* owner-pid.json exists
    op,          \* operator -> the message it checked and is about to write
    aborted,     \* an abort stands: see WriteControl
    proc,        \* the Owner: [object, code, ui]
    value,       \* the Run value
    toggles

observer == <<pc, life, phase, rev, code, registered, ownerState, fallback, status, tr, lost>>
files == <<control, ownerFile, op, aborted>>
vars == <<observer, late, files, proc, value, toggles>>

Message(r, previous, p, abort, terminal) ==
    [revision |-> r, previous |-> previous, phase |-> p, stop |-> p = FinalPhase /\ ~abort,
     abort |-> abort, terminal |-> terminal]

Nothing == Message(0, 0, 0, FALSE, FALSE)
NoStatus == [state |-> "none", code |-> "none"]

NewTracker ==
    [last |-> <<>>, phase |-> 0, running |-> FALSE, owned |-> FALSE, exited |-> FALSE, error |-> FALSE,
     foreign |-> FALSE, removal |-> "none", states |-> [p \in Phases |-> "none"]]

Init ==
    /\ pc = "new" /\ life = "initializing" /\ phase = 0 /\ rev = 0 /\ code = "none"
    /\ registered = FALSE /\ ownerState = "not_registered" /\ fallback = FALSE
    /\ status = NoStatus /\ tr = NewTracker /\ lost = FALSE /\ late = FALSE
    /\ control = Nothing /\ ownerFile = FALSE
    /\ op = [o \in Callers |-> [pending |-> FALSE, message |-> Nothing, commands |-> 0]] /\ aborted = FALSE
    /\ proc = [object |-> "none", code |-> "none", ui |-> "none"]
    /\ value \in {"absent", "owned", "occupied"} /\ toggles = 0

(***************************************************************************)
(* Querying the Owner's process: what Windows may answer, and how the      *)
(* answer is classified.                                                   *)
(***************************************************************************)
Answer(opened, times, matches, exitTime, exitCode) ==
    [opened |-> opened, times |-> times, matches |-> matches, exitTime |-> exitTime, code |-> exitCode]

\* A supervisor may keep the process object of an exited Owner; a call may fail.
Answers ==
    {Answer("denied", FALSE, FALSE, FALSE, "none"), Answer("error", FALSE, FALSE, FALSE, "none"),
     Answer("ok", FALSE, FALSE, FALSE, "none")}
    \cup CASE proc.object = "live" ->
                {Answer("ok", TRUE, TRUE, FALSE, "active"), Answer("ok", TRUE, TRUE, FALSE, "none")}
           [] proc.object = "kept" ->
                {Answer("ok", TRUE, TRUE, TRUE, c) : c \in {proc.code, "active", "none"}}
                \cup {Answer("ok", TRUE, TRUE, FALSE, c) : c \in {proc.code, "none"}}
           [] proc.object = "reused" -> {Answer("ok", TRUE, FALSE, FALSE, "active")}
           [] OTHER -> {Answer("missing", FALSE, FALSE, FALSE, "none")}

\* Seeded fault: a process that cannot be opened counts as gone.
ClassifyDeniedAsGone(a) ==
    CASE a.opened # "ok" -> [state |-> "not_found", code |-> "none"]
      [] a.opened = "ok" /\ ~a.times -> [state |-> "query_failed", code |-> "none"]
      [] a.opened = "ok" /\ a.times /\ ~a.matches -> [state |-> "pid_reused", code |-> "none"]
      [] OTHER -> [state |-> IF a.exitTime \/ a.code \notin {"none", "active"} THEN "exited"
                             ELSE IF a.code = "none" THEN "query_failed" ELSE "running",
                   code |-> a.code]

\* _query_windows_process_state.
Classify(a) ==
    CASE a.opened = "missing" -> [state |-> "not_found", code |-> "none"]
      [] a.opened = "denied" -> [state |-> "inaccessible", code |-> "none"]
      [] a.opened # "ok" \/ ~a.times -> [state |-> "query_failed", code |-> "none"]
      [] ~a.matches -> [state |-> "pid_reused", code |-> "none"]
      [] a.exitTime -> [state |-> "exited", code |-> a.code]
      [] a.code = "none" -> [state |-> "query_failed", code |-> "none"]
      [] a.code # "active" -> [state |-> "exited", code |-> a.code]
      [] OTHER -> [state |-> "running", code |-> a.code]

Statuses == {Classify(a) : a \in Answers}

(***************************************************************************)
(* TimelineTracker.                                                        *)
(***************************************************************************)
\* _removal_safe_code, for the record of the first absence after ownership.
RemovalCode(p, running, exited) ==
    CASE exited -> "removed_after_process_exit"
      [] ~exited /\ p = BeforeShutdown /\ running -> "removed_during_shutdown"
      [] ~exited /\ p \in 3..(BeforeShutdown - 1) /\ running -> "removed_during_runtime"
      [] OTHER -> "probe_incomplete"

\* observe: a record for every change of the phase, of the value or of the Owner's life.
Observe(t, p, running, v) ==
    LET exited == t.exited \/ (t.running /\ ~running) IN
    IF t.last = <<v>> /\ p = t.phase /\ running = t.running THEN t
    ELSE [t EXCEPT !.last = <<v>>, !.phase = p, !.running = running, !.exited = exited,
              !.owned = @ \/ v = "owned", !.error = @ \/ v = "read_error", !.foreign = @ \/ v = "occupied",
              !.removal = IF t.owned /\ v \in {"absent", "read_error"} /\ @ = "none"
                          THEN RemovalCode(p, running, exited) ELSE @,
              !.states[p] = v]

\* summarize.
Summary(t) ==
    CASE t.error -> "read_failed"
      [] ~t.error /\ t.foreign -> "ownership_lost"
      [] ~t.error /\ ~t.foreign /\ ~t.owned -> "never_persisted"
      [] ~t.error /\ ~t.foreign /\ t.owned /\ t.removal # "none" -> t.removal
      [] OTHER -> IF \A p \in Required : t.states[p] = "owned" THEN "verified" ELSE "probe_incomplete"

(***************************************************************************)
(* The observer.                                                           *)
(***************************************************************************)
\* The coordinator fails; the checkpoint and the terminal summary are written.
Failed(c) == pc' = "done" /\ life' = "failed" /\ code' = c

Reads == {value, "read_error"}

\* _run_real_observer up to its loop: it starts only over an absent value.
Start ==
    /\ pc = "new"
    /\ \E v \in Reads :
        /\ tr' = Observe(tr, 0, FALSE, v)
        /\ IF v = "absent" THEN pc' = "top" /\ life' = "ready_unarmed" /\ UNCHANGED code
           ELSE Failed(IF v = "read_error" THEN "read_failed" ELSE "target_occupied")
    /\ UNCHANGED <<phase, rev, registered, ownerState, fallback, status, lost, late, proc, value, toggles>>
    /\ UNCHANGED files

\* Seeded fault: the total time is not looked at while no Owner has armed the observer.
TimeoutCodesUnarmed ==
    (IF late /\ life # "ready_unarmed" THEN {"total_timeout"} ELSE {})
    \cup (IF life \in {"armed", "observing"} THEN {"active_timeout", "stage_timeout"} ELSE {})

\* timeout_code: the timeouts that may have expired.
TimeoutCodes ==
    (IF late THEN {"total_timeout"} ELSE {})
    \cup (IF life = "ready_unarmed" THEN {"ready_timeout"} ELSE {})
    \cup (IF life \in {"armed", "observing"} THEN {"active_timeout", "stage_timeout"} ELSE {})

CheckTimeout ==
    /\ pc = "top"
    /\ \/ /\ \E c \in TimeoutCodes : Failed(c)
       \/ /\ "total_timeout" \notin TimeoutCodes /\ pc' = "control" /\ UNCHANGED <<life, code>>
    /\ UNCHANGED <<phase, rev, registered, ownerState, fallback, status, tr, lost, late, proc, value, toggles>>
    /\ UNCHANGED files

\* register_owner: once, and only before the observer is armed.
Registration(own) == own = (registered \/ ownerFile) /\ (own /\ ~registered => life = "ready_unarmed")

\* The checks of accept_control on revision and sequence.
SequenceOk(m) ==
    /\ m.revision = rev + 1 /\ m.previous = phase
    /\ IF m.abort THEN m.phase = phase /\ ~m.stop /\ ~m.terminal
       ELSE m.phase = phase + 1 /\ m.stop = (m.phase = FinalPhase) /\ (m.terminal => m.phase = FinalPhase)

\* T9: the process exited with 0, or is gone and the supervisor vouches for its exit.
TerminalOk(m, s) ==
    /\ m.terminal
    /\ \/ s.state = "exited" /\ s.code = "zero"
       \/ s.state = "not_found"

\* accept_control, and begin_observing after T1.
AcceptControl(m, own, s) ==
    LET start == ~m.abort /\ m.phase = 1
        end == ~m.abort /\ m.phase = FinalPhase IN
    IF \/ ~SequenceOk(m)
       \/ start /\ (~own \/ s.state # "running")
       \/ end /\ ~TerminalOk(m, s)
    THEN /\ Failed(IF ~SequenceOk(m) THEN "sequence_invalid"
                   ELSE IF start THEN "owner_not_running" ELSE "terminal_unverified")
         /\ ownerState' = CASE SequenceOk(m) /\ start /\ own /\ s.state = "not_found" -> "exited"
                            [] SequenceOk(m) /\ start /\ own /\ s.state = "pid_reused" -> "identity_lost"
                            [] own /\ ~registered /\ ~(SequenceOk(m) /\ start /\ s.state \in {"not_found", "pid_reused"})
                                 -> "running"
                            [] OTHER -> ownerState
         /\ UNCHANGED <<phase, rev, fallback>>
    ELSE /\ rev' = m.revision /\ pc' = "status"
         /\ phase' = m.phase
         /\ life' = IF m.abort \/ end THEN "finalizing" ELSE "observing"
         /\ code' = IF m.abort THEN "aborted" ELSE code
         /\ fallback' = (fallback \/ (end /\ s.state = "not_found"))
         /\ ownerState' = IF end THEN "exited" ELSE IF own /\ ~registered THEN "running" ELSE ownerState

ReadControl ==
    /\ pc = "control"
    /\ \/ \* A registration that comes too late fails the observer.
          /\ ownerFile /\ ~registered /\ life # "ready_unarmed" /\ Failed("registration_invalid")
          /\ UNCHANGED <<phase, rev, registered, ownerState, fallback>>
       \/ \E own \in BOOLEAN : \E s \in Statuses :
            /\ Registration(own) /\ registered' = own
            /\ IF control.revision = rev
               THEN /\ pc' = "status" /\ UNCHANGED <<life, code, phase, rev, fallback>>
                    /\ ownerState' = IF own /\ ~registered THEN "running" ELSE ownerState
               ELSE AcceptControl(control, own, s)
    /\ UNCHANGED <<status, tr, lost, late, proc, value, toggles>> /\ UNCHANGED files

\* observe_owner_status: the error it returns, "none" for none.
OwnerError(s) ==
    CASE s.state = "running" -> "none"
      [] s.state \in {"exited", "not_found"} -> IF phase < BeforeShutdown THEN "owner_exited_early" ELSE "none"
      [] s.state = "pid_reused" -> "owner_identity_lost"
      [] s.state = "inaccessible" -> "owner_inaccessible"
      [] OTHER -> "owner_query_failed"

OwnerAfter(s) ==
    CASE s.state = "running" -> "running"
      [] s.state = "pid_reused" -> "identity_lost"
      [] s.state = "exited" -> "exited"
      [] s.state = "not_found" /\ phase >= BeforeShutdown -> IF fallback THEN "exited" ELSE "terminal_unverified"
      [] OTHER -> ownerState

QueryOwner ==
    /\ pc = "status"
    /\ \/ ~registered /\ pc' = "value" /\ UNCHANGED <<life, code, ownerState, status>>
       \/ /\ registered
          /\ \E s \in Statuses :
                /\ status' = s /\ ownerState' = OwnerAfter(s)
                /\ IF OwnerError(s) = "none" THEN pc' = "value" /\ UNCHANGED <<life, code>>
                   ELSE Failed(OwnerError(s))
    /\ UNCHANGED <<phase, rev, registered, fallback, tr, lost, late, proc, value, toggles>> /\ UNCHANGED files

\* The value is read and recorded, and the observer ends if it is finalizing.
ReadValue ==
    /\ pc = "value"
    /\ \E v \in Reads :
        /\ tr' = Observe(tr, phase, ownerState = "running", v)
        /\ lost' = (lost \/ (tr.owned /\ v # "owned"))
        /\ CASE v = "occupied" -> Failed("ownership_lost")
             [] v = "read_error" -> Failed("read_failed")
             [] v \in {"absent", "owned"} /\ life = "finalizing" /\ code = "aborted" -> Failed("aborted")
             [] v \in {"absent", "owned"} /\ life = "finalizing" /\ code # "aborted" ->
                  IF Summary(tr') = "verified" THEN pc' = "done" /\ life' = "completed" /\ code' = "verified"
                  ELSE Failed(Summary(tr'))
             [] OTHER -> pc' = "top" /\ UNCHANGED <<life, code>>
    /\ UNCHANGED <<phase, rev, registered, ownerState, fallback, status, late, proc, value, toggles>>
    /\ UNCHANGED files

ExpireTotal ==
    /\ Expires /\ pc # "done" /\ ~late /\ late' = TRUE
    /\ UNCHANGED <<proc, value, toggles>> /\ UNCHANGED observer /\ UNCHANGED files

(***************************************************************************)
(* The control commands: each reads the files, checks, and then replaces   *)
(* one of them.                                                            *)
(***************************************************************************)
\* _read_ready_session_nonce
ObserverReady == life \in {"ready_unarmed", "armed", "observing"}

SetOwnerPid ==
    /\ ObserverReady /\ control.phase = 0 /\ control.revision = 0 /\ ~ownerFile
    /\ proc.object = "live"
    /\ ownerFile' = TRUE
    /\ UNCHANGED <<control, op, aborted, late, proc, value, toggles>> /\ UNCHANGED observer

\* A command has checked what it read and is about to write m.
Checked(o, m) ==
    /\ ~op[o].pending /\ op[o].commands < MaxCommands[o] /\ control.revision < rev + MaxAhead
    /\ op' = [op EXCEPT ![o] = [pending |-> TRUE, message |-> m, commands |-> @.commands + 1]]

\* _set_phase up to the write: T1 needs a ready user interface and an absent value, T9 the
\* supervisor's conditions and a closed checkpoint.
CheckPhase(o) ==
    /\ ObserverReady /\ control.phase < FinalPhase
    /\ LET p == control.phase + 1 IN
       /\ p = 1 => proc.ui = "ready" /\ value = "absent"
       /\ p = FinalPhase => proc.ui = "closed"
       /\ Checked(o, Message(control.revision + 1, control.phase, p, FALSE, p = FinalPhase))
    /\ UNCHANGED <<control, ownerFile, aborted, late, proc, value, toggles>> /\ UNCHANGED observer

\* _abort_probe up to the write.
CheckAbort(o) ==
    /\ Aborts /\ ObserverReady
    /\ Checked(o, Message(control.revision + 1, control.phase, control.phase, TRUE, FALSE))
    /\ UNCHANGED <<control, ownerFile, aborted, late, proc, value, toggles>> /\ UNCHANGED observer

\* The command's atomic replacement of the control file, which nothing ties to the check: what
\* another command wrote in between is lost.  An abort stands from when it follows the message
\* it replaces, before the final phase is accepted, until it is overwritten unread.
WriteControl(o) ==
    /\ pc # "done" /\ op[o].pending
    /\ control' = op[o].message /\ op' = [op EXCEPT ![o].pending = FALSE, ![o].message = Nothing]
    /\ aborted' = (\/ code = "aborted"
                   \/ op[o].message.abort /\ op[o].message.revision = control.revision + 1 /\ phase # FinalPhase)
    /\ UNCHANGED <<ownerFile, late, proc, value, toggles>> /\ UNCHANGED observer

(***************************************************************************)
(* The Owner, the system and the registry.                                 *)
(***************************************************************************)
\* What happens after the observer ended is of no interest.
Watched == pc # "done"

OwnerStarts ==
    /\ Watched /\ proc.object = "none" /\ proc' = [proc EXCEPT !.object = "live"]
    /\ UNCHANGED <<late, value, toggles>> /\ UNCHANGED observer /\ UNCHANGED files

OwnerUi ==
    /\ Watched /\ proc.object = "live" /\ proc.ui \in {"none", "ready"}
    /\ proc' = [proc EXCEPT !.ui = IF @ = "none" THEN "ready" ELSE "closed"]
    /\ UNCHANGED <<late, value, toggles>> /\ UNCHANGED observer /\ UNCHANGED files

OwnerExits ==
    /\ Watched /\ proc.object = "live"
    /\ \E c \in {"zero", "nonzero"} : proc' = [proc EXCEPT !.object = "kept", !.code = c]
    /\ UNCHANGED <<late, value, toggles>> /\ UNCHANGED observer /\ UNCHANGED files

ObjectReleased ==
    /\ Watched /\ Releases
    /\ \/ proc.object = "kept" /\ proc' = [proc EXCEPT !.object = "gone"]
       \/ proc.object = "gone" /\ proc' = [proc EXCEPT !.object = "reused"]
    /\ UNCHANGED <<late, value, toggles>> /\ UNCHANGED observer /\ UNCHANGED files

ValueChanges ==
    /\ Watched /\ toggles < MaxToggles /\ toggles' = toggles + 1
    /\ value' \in {"absent", "owned", "occupied"} \ {value}
    /\ UNCHANGED <<late, proc>> /\ UNCHANGED observer /\ UNCHANGED files

Poll == Start \/ CheckTimeout \/ ReadControl \/ QueryOwner \/ ReadValue

Next ==
    \/ Poll \/ ExpireTotal \/ SetOwnerPid
    \/ \E o \in Callers : CheckPhase(o) \/ CheckAbort(o) \/ WriteControl(o)
    \/ OwnerStarts \/ OwnerUi \/ OwnerExits \/ ObjectReleased \/ ValueChanges

\* The observer's loop runs, and time passes.
Spec == Init /\ [][Next]_vars /\ WF_vars(Poll) /\ WF_vars(ExpireTotal)

TypeOK ==
    /\ pc \in {"new", "top", "control", "status", "value", "done"}
    /\ life \in {"initializing", "ready_unarmed", "observing", "finalizing", "completed", "failed"}
    /\ phase \in Phases /\ {rev, control.revision} \subseteq Nat /\ control.phase \in Phases
    /\ {registered, fallback, late, ownerFile, aborted} \subseteq BOOLEAN
    /\ ownerState \in {"not_registered", "running", "exited", "identity_lost", "terminal_unverified"}
    /\ tr.states \in [Phases -> {"none", "absent", "owned", "occupied", "read_error"}]

\* A verified timeline: the Owner really ended, with code 0 unless its process object was gone
\* and the supervisor vouched for it, and the closed user interface was seen first.
VerifiedOwnerEnded ==
    life = "completed" =>
        /\ proc.object \in {"kept", "gone", "reused"} /\ proc.ui = "closed"
        /\ proc.code = "zero" \/ fallback

\* A verified timeline has a record for every phase in turn, and after the value was first
\* owned no observation found it missing or changed.
VerifiedIsEarned ==
    life = "completed" =>
        /\ \A p \in Phases : tr.states[p] # "none"
        /\ \A p \in Required : tr.states[p] = "owned"
        /\ ~lost

\* A process is said to have ended, or to be gone, only after it really did.
EndIsNeverGuessed ==
    status.state \in {"exited", "not_found"} => proc.object # "live"

\* An abort that follows the message it replaces, is written before the final phase was accepted
\* and is not overwritten by another command before the observer reads it is never followed by
\* success, in whatever order the commands check and write.
AbortIsFinal == aborted => life # "completed"

\* The observer always ends.
ObserverEnds == <>(pc = "done")

\* What the documents say and the code does not do (README, disagreements): a verified
\* timeline's Owner is recorded as exited.
VerifiedOwnerRecordedExited == life = "completed" => ownerState = "exited"

=============================================================================
