--------------------------- MODULE AtomicJsonFile ---------------------------
(***************************************************************************)
(* The pet's settings file: PetSettingsController (load once, save once),  *)
(* JsonPetSettingsRepository and the replacement of the file through a     *)
(* temporary one, which json_provider_profile_repository.py does in the    *)
(* same way, with the process dying between any two steps.                 *)
(*                                                                         *)
(* The application loads at start, may fail to restore what it loaded or   *)
(* to read back the window's state, and saves when it quits                *)
(* (pet_application.py).                                                   *)
(***************************************************************************)
EXTENDS Naturals

CONSTANTS
    Settings,    \* settings the window may have
    MaxProcesses \* bound: processes one after the other

VARIABLES
    target,    \* what is stored under the file's name
    temp,      \* the temporary file of the save under way
    left,      \* temporary files that were left behind
    step,      \* where the process is
    value,     \* the settings being saved
    ctl,       \* the controller's fields
    processes  \* processes so far

jsonVars == <<target, temp, left, step, value, ctl, processes>>

Absent == "absent"

\* Files that load() does not accept: not this schema, damaged, not readable.
Refused == {"corrupted", "schema_unsupported", "unreadable"}

Documents == Settings \cup {Absent}

None == "none"

\* What the constants must satisfy.
JsonAssumption ==
    /\ Settings \cap {None, "nothing"} = {}
    /\ MaxProcesses \in Nat \ {0}

NotLoaded == [loaded |-> FALSE, allowed |-> FALSE, blocked |-> FALSE, attempted |-> FALSE,
              code |-> None]

JsonInit ==
    /\ target \in Documents \cup Refused
    /\ temp = None /\ left = 0 /\ step = "start" /\ value = None
    /\ ctl = NotLoaded /\ processes = 1

\* load: what the controller is told of each file.
LoadCode(file) ==
    CASE file \in Documents -> None
      [] file = "unreadable" -> "initialization_failed"
      [] OTHER -> file

\* load_once and the restoring of what it returned, which may fail.
Load ==
    /\ step = "start"
    /\ step' = "running"
    /\ \E restored \in BOOLEAN :
         ctl' = [loaded |-> TRUE, allowed |-> target \in Documents,
                 blocked |-> ~restored, attempted |-> FALSE,
                 code |-> IF restored THEN LoadCode(target) ELSE "restore_failed"]
    /\ UNCHANGED <<target, temp, left, value, processes>>

\* record_snapshot_failure: the window's state could not be read back.
SnapshotFails ==
    /\ step = "running" /\ ~ctl.attempted
    /\ ctl' = [ctl EXCEPT !.blocked = TRUE, !.attempted = TRUE, !.code = "snapshot_failed"]
    /\ UNCHANGED <<target, temp, left, step, value, processes>>

\* Seeded fault: save_once does not look at what load_once found.
MaySaveAlways == ~ctl.attempted

MaySave == ctl.allowed /\ ~ctl.blocked

\* save_once: only the first call saves, and only over a document that was
\* read.  A call that may not save changes nothing but the attempt.
SaveOnce ==
    /\ step = "running" /\ ~ctl.attempted
    /\ ctl' = [ctl EXCEPT !.attempted = TRUE]
    /\ IF MaySave THEN value' \in Settings /\ step' = "mkstemp" ELSE UNCHANGED <<value, step>>
    /\ UNCHANGED <<target, temp, left, processes>>

(***************************************************************************)
(* save: mkstemp, write and fsync, os.replace.  Any of them may raise.     *)
(***************************************************************************)
MakeTemporary ==
    /\ step = "mkstemp"
    /\ temp' = "empty" /\ step' = "write"
    /\ UNCHANGED <<target, left, value, ctl, processes>>

\* The text is partly, then wholly in the file; fsync comes last.
WriteTemporary ==
    /\ step = "write"
    /\ \/ temp = "empty" /\ temp' = "partial" /\ UNCHANGED step
       \/ temp = "partial" /\ temp' = value /\ step' = "replace"
    /\ UNCHANGED <<target, left, value, ctl, processes>>

Replace ==
    /\ step = "replace"
    /\ target' = temp /\ temp' = None /\ step' = "running" /\ value' = None
    /\ ctl' = [ctl EXCEPT !.code = None]
    /\ UNCHANGED <<left, processes>>

\* An exception: the temporary file is unlinked, which may fail as well.
SaveFails ==
    /\ step \in {"mkstemp", "write", "replace"}
    /\ \/ temp # None /\ left' = left + 1
       \/ UNCHANGED left
    /\ temp' = None /\ step' = "running" /\ value' = None
    /\ ctl' = [ctl EXCEPT !.code = "write_failed"]
    /\ UNCHANGED <<target, processes>>

\* The process ends, in order or not, and another one is started.
Restart ==
    /\ step # "start" /\ processes < MaxProcesses
    /\ processes' = processes + 1 /\ step' = "start"
    /\ left' = IF temp = None THEN left ELSE left + 1
    /\ temp' = None /\ value' = None /\ ctl' = NotLoaded
    /\ UNCHANGED target

JsonNext ==
    \/ Load \/ SnapshotFails \/ SaveOnce
    \/ MakeTemporary \/ WriteTemporary \/ Replace \/ SaveFails \/ Restart

JsonSpec == JsonInit /\ [][JsonNext]_jsonVars

(***************************************************************************)
(* Properties.                                                             *)
(***************************************************************************)
\* Every variable keeps its type.
JsonTypeOK ==
    /\ target \in Documents \cup Refused
    /\ temp \in Settings \cup {None, "empty", "partial"}
    /\ processes \in 1..MaxProcesses
    /\ step \in {"start", "running", "mkstemp", "write", "replace"}

\* However saves fail and processes die, each process leaves at most one
\* temporary file behind.
OneTemporaryEach == left \in 0..processes

\* A save that is under way.
Saving == step \in {"mkstemp", "write", "replace"}

\* A process saves at most once, and the code it reports tells whether the
\* file holds what was saved: a failure is never reported as success.
ReportIsTruthful ==
    (Saving /\ step' = "running")
       => target' = (IF ctl'.code = "write_failed" THEN target ELSE value)

Store == INSTANCE DocumentStore WITH
    Foreign <- Refused, stored <- target,
    saving <- IF value = None THEN "nothing" ELSE value

\* The settings file implements a document store: whole documents, one save at
\* a time, nothing foreign replaced, whatever raises or dies when.
FileImplementsStore == Store!Spec
=============================================================================
