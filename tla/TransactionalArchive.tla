------------------------ MODULE TransactionalArchive ------------------------
(***************************************************************************)
(* Archiving build outputs by same-volume renames.  Four archivers of      *)
(* packaging/ share one shape: snapshot the sources, move them into a      *)
(* staging directory, verify it, publish it by one rename, verify again,   *)
(* and roll back on any failure.  They differ in the sources they take, in *)
(* what they check and in how they roll back (transactional_archive.py     *)
(* with archive_autostart_rebuild.py, and the three archivers of           *)
(* archive_standalone_attempt.py).                                         *)
(*                                                                         *)
(* A directory's content is a version; a rename moves it whole.  A build   *)
(* may write to a source, or to a moved directory it still holds open,     *)
(* another process may create a target, every call may fail, and an        *)
(* archiver may die between any two calls.                                 *)
(***************************************************************************)
EXTENDS Naturals, FiniteSets, Sequences, SequencesExt

CONSTANTS
    Programs,    \* the archivers that run: a subset of AllPrograms
    MaxRuns,     \* bound on their runs
    MaxVersion,  \* bound on the contents another process writes to a source
    Intruder     \* whether another process may create an archive's target

AllPrograms == {"rebuild", "unpruned", "degraded", "attempt"}

\* What the constants must satisfy.
ArchiveAssumption ==
    /\ Programs \subseteq AllPrograms
    /\ MaxRuns \in Nat /\ MaxVersion \in Nat \ {0} /\ Intruder \in BOOLEAN

Names == {"build", "deployment", "dist"}

\* The sources of each archiver, in the order of their renames.
Order(p) ==
    CASE p \in {"rebuild", "unpruned"} -> <<"build", "deployment", "dist">>
      [] p = "degraded" -> <<"dist", "build">>
      [] p = "attempt" -> <<"build", "deployment">>

Taken(p) == Range(Order(p))

\* The archivers whose archives and staging directories share one parent.
Siblings == {"rebuild", "unpruned", "degraded"}

VARIABLES
    pc,       \* stage of the run
    prog,     \* the archiver that runs, or ran last
    runs,
    source,   \* name -> the version at its place, 0 for none
    partial,  \* name -> the version in the staging directory
    archive,  \* program -> name -> the version in its published archive
    old,      \* name -> versions left in the staging directories of earlier runs
    staging,  \* the staging directory of the run exists
    stale,    \* programs that left one
    target,   \* program -> "absent" | "ours" | "foreign"
    incident, \* the recorded dry-run incident: name -> version, or 0
    snap,     \* the snapshot of the run
    moved,    \* so many sources of Order(prog) were moved
    root,     \* where the rollback looks
    back,     \* sources still to be rolled back, counting down
    hit,      \* whether a rename of the rollback failed
    report,   \* outcome of the last run
    live      \* name -> versions that must be somewhere

vars == <<pc, prog, runs, source, partial, archive, old, staging, stale, target, incident,
          snap, moved, root, back, hit, report, live>>

Disk == <<source, partial, archive, old, stale, target, incident, live>>

None == [s \in Names |-> 0]
NoReport == [done |-> FALSE, completed |-> FALSE, attempted |-> FALSE, restored |-> FALSE, preserved |-> FALSE]

Init ==
    /\ pc = "idle" /\ prog = "rebuild" /\ runs = 0
    /\ \E absent \in SUBSET Names : source = [s \in Names |-> IF s \in absent THEN 0 ELSE 1]
    /\ partial = None /\ archive = [p \in AllPrograms |-> None]
    /\ old = [s \in Names |-> {}] /\ staging = FALSE /\ stale = {}
    /\ target = [p \in AllPrograms |-> "absent"] /\ incident = None
    /\ snap = None /\ moved = 0 /\ root = "part" /\ back = 0 /\ hit = FALSE /\ report = NoReport
    /\ live = [s \in Names |-> IF source[s] = 0 THEN {} ELSE {1}]

Present(names) == \A s \in names : source[s] # 0
Absent(names) == \A s \in names : source[s] = 0

(***************************************************************************)
(* What each archiver requires before it moves anything.                   *)
(***************************************************************************)
\* transactional_archive: plain directories, no target, no staging directory left over.
TransactionalPreflight ==
    Present(Taken("rebuild")) /\ target["rebuild"] = "absent" /\ stale \cap Siblings = {}

\* archive_autostart_rebuild: the raw and the final distribution are equal.
RebuildPreflight == source["deployment"] = source["dist"] /\ TransactionalPreflight

UnprunedPreflight ==
    /\ target["unpruned"] = "absent" /\ Present(Taken("unpruned"))
    /\ source["deployment"] = source["dist"]

\* The raw distribution is gone, and the incident recorded exactly what survives.
DegradedPreflight ==
    /\ target["degraded"] = "absent" /\ Absent({"deployment"}) /\ Present(Taken("degraded"))
    /\ \A s \in Taken("degraded") : incident[s] = source[s]

AttemptPreflight ==
    /\ target["attempt"] = "absent" /\ Absent({"dist"}) /\ Present(Taken("attempt"))

Preflight(p) ==
    CASE p = "rebuild" -> RebuildPreflight
      [] p = "unpruned" -> UnprunedPreflight
      [] p = "degraded" -> DegradedPreflight
      [] p = "attempt" -> AttemptPreflight

\* The run ends without having moved anything; a call may have failed.
Refuse(p) ==
    /\ pc = "idle" /\ runs < MaxRuns
    /\ runs' = runs + 1 /\ prog' = p
    /\ report' = [NoReport EXCEPT !.done = TRUE, !.restored = p = "rebuild" /\ Present(Taken(p)),
                !.preserved = p = "rebuild" /\ (stale \cap Siblings # {} \/ target[p] # "absent")]
    /\ UNCHANGED <<pc, staging, snap, moved, root, back, hit>> /\ UNCHANGED Disk

\* record_dry_run_incident: once, when the raw distribution is gone.
RecordIncident ==
    /\ pc = "idle" /\ "degraded" \in Programs /\ incident = None
    /\ Absent({"deployment"}) /\ Present({"dist", "build"})
    /\ incident' = source
    /\ UNCHANGED <<pc, prog, runs, source, partial, archive, old, staging, stale, target, snap, moved, root, back, hit, report, live>>

\* The snapshot of the sources, then the staging directory with its manifest.
Begin(p) ==
    /\ pc = "idle" /\ runs < MaxRuns /\ Preflight(p)
    /\ runs' = runs + 1 /\ prog' = p /\ pc' = "move"
    /\ snap' = [s \in Names |-> IF s \in Taken(p) THEN source[s] ELSE 0]
    /\ staging' = TRUE /\ moved' = 0 /\ hit' = FALSE /\ report' = NoReport
    /\ UNCHANGED <<root, back>> /\ UNCHANGED Disk

MoveSource ==
    /\ pc = "move" /\ moved < Len(Order(prog))
    /\ LET s == Order(prog)[moved + 1] IN
       /\ source[s] # 0
       /\ source' = [source EXCEPT ![s] = 0]
       /\ partial' = [partial EXCEPT ![s] = source[s]]
    /\ moved' = moved + 1
    /\ UNCHANGED <<pc, prog, runs, archive, old, staging, stale, target, incident, snap, root, back, hit, report, live>>

(***************************************************************************)
(* The checks on what was moved, before and after it is published: the     *)
(* same content as the snapshot, and no source that came back.             *)
(***************************************************************************)
TransactionalStaged == partial = snap
UnprunedStaged == partial = snap /\ Absent(Taken("unpruned"))
DegradedStaged == partial = snap /\ Absent(Names)
AttemptStaged == partial = snap /\ Absent(Names)

TransactionalPublished == archive["rebuild"] = snap /\ Absent(Taken("rebuild"))
UnprunedPublished == archive["unpruned"] = snap /\ Absent(Taken("unpruned"))
DegradedPublished == archive["degraded"] = snap /\ Absent(Names) /\ stale \cap Siblings = {}
AttemptPublished == archive["attempt"] = snap /\ Absent(Names)

VerifyPart ==
    /\ pc = "move" /\ moved = Len(Order(prog))
    /\ CASE prog = "rebuild" -> TransactionalStaged
         [] prog = "unpruned" -> UnprunedStaged
         [] prog = "degraded" -> DegradedStaged
         [] prog = "attempt" -> AttemptStaged
    /\ pc' = "publish"
    /\ UNCHANGED <<prog, runs, staging, snap, moved, root, back, hit, report>> /\ UNCHANGED Disk

Publish ==
    /\ pc = "publish" /\ target[prog] = "absent"
    /\ archive' = [archive EXCEPT ![prog] = partial] /\ partial' = None
    /\ target' = [target EXCEPT ![prog] = "ours"] /\ staging' = FALSE
    /\ pc' = "verify"
    /\ UNCHANGED <<prog, runs, source, old, stale, incident, snap, moved, root, back, hit, report, live>>

Complete ==
    /\ pc = "verify"
    /\ CASE prog = "rebuild" -> TransactionalPublished
         [] prog = "unpruned" -> UnprunedPublished
         [] prog = "degraded" -> DegradedPublished
         [] prog = "attempt" -> AttemptPublished
    /\ report' = [NoReport EXCEPT !.done = TRUE, !.completed = TRUE]
    /\ pc' = "idle" /\ moved' = 0
    /\ UNCHANGED <<prog, runs, staging, snap, root, back, hit>> /\ UNCHANGED Disk

(***************************************************************************)
(* Failure and rollback.                                                   *)
(***************************************************************************)
\* Where the rollback looks for what was moved, decided once.
RollbackRoot ==
    IF prog = "attempt"
    THEN IF staging THEN "part" ELSE "archive"
    ELSE IF target[prog] # "absent" THEN "archive" ELSE "part"

\* An OSError at any stage, a mismatch included, starts the rollback.
Fail ==
    /\ pc \in {"move", "publish", "verify"}
    /\ pc' = "rollback" /\ root' = RollbackRoot /\ back' = moved
    /\ UNCHANGED <<prog, runs, staging, snap, moved, hit, report>> /\ UNCHANGED Disk

Archived(s) ==
    CASE root = "part" -> partial[s]
      [] root = "archive" /\ target[prog] = "ours" -> archive[prog][s]
      [] OTHER -> 0

\* The rename of source s back to its place.
PutBack(s) ==
    /\ source' = [source EXCEPT ![s] = Archived(s)]
    /\ IF root = "part" THEN partial' = [partial EXCEPT ![s] = 0] /\ UNCHANGED archive
       ELSE archive' = [archive EXCEPT ![prog][s] = 0] /\ UNCHANGED partial

\* Seeded fault: the rollback replaces whatever is at the original place.
RollbackOver ==
    /\ pc = "rollback" /\ back > 0
    /\ back' = back - 1
    /\ LET s == Order(prog)[back] IN
       IF Archived(s) = 0 THEN UNCHANGED <<source, partial, archive>> ELSE PutBack(s)
    /\ UNCHANGED <<pc, prog, runs, old, staging, stale, target, incident, snap, moved, root, hit, report, live>>

\* archived.exists() and not original.exists(): one rename, in reverse order.
Rollback ==
    /\ pc = "rollback" /\ back > 0
    /\ back' = back - 1
    /\ LET s == Order(prog)[back] IN
       IF Archived(s) = 0 \/ source[s] # 0 THEN UNCHANGED <<source, partial, archive>> ELSE PutBack(s)
    /\ UNCHANGED <<pc, prog, runs, old, staging, stale, target, incident, snap, moved, root, hit, report, live>>

\* A rename of the rollback fails: transactional_archive gives up, the others go on.
RollbackFails ==
    /\ pc = "rollback" /\ back > 0
    /\ LET s == Order(prog)[back] IN Archived(s) # 0 /\ source[s] = 0
    /\ back' = IF prog = "rebuild" THEN 0 ELSE back - 1
    /\ hit' = TRUE
    /\ UNCHANGED <<pc, prog, runs, staging, snap, moved, root, report>> /\ UNCHANGED Disk

\* What the run leaves in its staging directory.
Abandon ==
    /\ old' = [s \in Names |-> old[s] \cup ({partial[s]} \ {0})]
    /\ partial' = None /\ stale' = stale \cup (IF staging THEN {prog} ELSE {}) /\ staging' = FALSE

\* Seeded fault: the rollback is reported complete because every rename was tried.
ReportFailureTried ==
    /\ pc = "rollback" /\ back = 0
    /\ report' = [done |-> TRUE, completed |-> FALSE, attempted |-> moved > 0,
                  restored |-> prog = "rebuild" /\ ~hit,
                  preserved |-> prog = "rebuild" /\ (staging \/ (target[prog] # "absent" /\ hit))]
    /\ Abandon /\ pc' = "idle" /\ moved' = 0
    /\ UNCHANGED <<prog, runs, source, archive, target, incident, snap, root, back, hit, live>>

\* transactional_archive's diagnostic says restored only when every source was read back equal
\* to its snapshot; the other archivers only say that they failed.
ReportFailure ==
    /\ pc = "rollback" /\ back = 0
    /\ LET diagnosed == prog = "rebuild"
           equal == ~hit /\ IF moved > 0 THEN \A s \in Taken(prog) : source[s] = snap[s]
                            ELSE Present(Taken(prog)) IN
       report' = [done |-> TRUE, completed |-> FALSE, attempted |-> moved > 0, restored |-> diagnosed /\ equal,
                  preserved |-> diagnosed /\ (staging \/ (target[prog] # "absent" /\ ~(equal /\ moved > 0)))]
    /\ Abandon /\ pc' = "idle" /\ moved' = 0
    /\ UNCHANGED <<prog, runs, source, archive, target, incident, snap, root, back, hit, live>>

\* The archiver's process dies.
Crash ==
    /\ pc # "idle" /\ pc' = "idle"
    /\ Abandon /\ moved' = 0 /\ back' = 0 /\ report' = NoReport
    /\ UNCHANGED <<prog, runs, source, archive, target, incident, snap, root, hit, live>>

(***************************************************************************)
(* Other processes.                                                        *)
(***************************************************************************)
\* A build writes to a source, makes it again, or writes to a moved directory it holds open.
Write(s) ==
    /\ \E v \in 1..MaxVersion :
         /\ \A u \in live[s] : u < v
         /\ \/ /\ source' = [source EXCEPT ![s] = v]
               /\ live' = [live EXCEPT ![s] = (@ \ {source[s]}) \cup {v}]
               /\ UNCHANGED partial
            \/ /\ partial[s] # 0 /\ partial' = [partial EXCEPT ![s] = v]
               /\ live' = [live EXCEPT ![s] = (@ \ {partial[s]}) \cup {v}]
               /\ UNCHANGED source
    /\ UNCHANGED <<pc, prog, runs, archive, old, staging, stale, target, incident, snap, moved, root, back, hit, report>>

Intrude(p) ==
    /\ Intruder /\ target[p] = "absent" /\ target' = [target EXCEPT ![p] = "foreign"]
    /\ UNCHANGED <<pc, prog, runs, source, partial, archive, old, staging, stale, incident, snap, moved, root, back, hit, report, live>>

Next ==
    \/ \E p \in Programs : Refuse(p) \/ Begin(p) \/ Intrude(p)
    \/ RecordIncident \/ MoveSource \/ VerifyPart \/ Publish \/ Complete
    \/ Fail \/ Rollback \/ RollbackFails \/ ReportFailure \/ Crash
    \/ \E s \in Names : Write(s)

Spec == Init /\ [][Next]_vars

Versions == 0..MaxVersion

TypeOK ==
    /\ pc \in {"idle", "move", "publish", "verify", "rollback"} /\ prog \in AllPrograms
    /\ source \in [Names -> Versions] /\ partial \in [Names -> Versions]
    /\ snap \in [Names -> Versions] /\ incident \in [Names -> Versions]
    /\ archive \in [AllPrograms -> [Names -> Versions]]
    /\ old \in [Names -> SUBSET Versions] /\ live \in [Names -> SUBSET Versions]
    /\ staging \in BOOLEAN /\ hit \in BOOLEAN /\ stale \subseteq AllPrograms
    /\ target \in [AllPrograms -> {"absent", "ours", "foreign"}]
    /\ root \in {"part", "archive"} /\ runs \in 0..MaxRuns /\ back \in 0..moved

Places == AllPrograms \cup {"source", "staging", "left"}

\* Content v of source s is at place x.
At(s, x, v) ==
    \/ x = "source" /\ source[s] = v
    \/ x = "staging" /\ partial[s] = v
    \/ x = "left" /\ v \in old[s]
    \/ x \in AllPrograms /\ archive[x][s] = v

\* Whatever fails or dies, and whatever others write, every content that was ever a source is
\* at exactly one place: its own, a staging directory or an archive.
NothingLost ==
    \A s \in Names : \A v \in live[s] :
        \E x \in Places : At(s, x, v) /\ \A y \in Places : At(s, y, v) => y = x

\* A run that says it completed left exactly the content of its snapshot in its archive.
CompletedIsExact == report.completed => target[prog] = "ours" /\ archive[prog] = snap

\* transactional_archive moves nothing while the leftovers of an interrupted run are unresolved.
NoRunOverLeftovers == prog = "rebuild" /\ pc # "idle" => stale \cap Siblings = {}

\* No content is lost or doubled, a run that reports completion archived exactly
\* its snapshot, and transactional_archive moves nothing over the leftovers of
\* another run.
ArchiveSafety == TypeOK /\ NothingLost /\ CompletedIsExact /\ NoRunOverLeftovers

\* A failed run that says its sources are restored had them back, with the content of its
\* snapshot if any had been moved.
RestoredIsTrue ==
    report'.restored /\ report' # report =>
     \A s \in Taken(prog') : source'[s] # 0 /\ (report'.attempted => source'[s] = snap'[s])

\* A failed run of transactional_archive says so when anything it moved is left outside its place.
LeftoverIsReported ==
    pc = "rollback" /\ prog = "rebuild" /\ report'.done /\ (\E s \in Names : partial[s] # 0 \/ archive[prog][s] # 0)
     => report'.preserved

\* Partial moves are rolled back: a failed run in which no rename of the rollback failed, and
\* whose sources nobody wrote to, leaves every source at its place.
RollbackRestores ==
    pc = "rollback" /\ report'.done /\ ~hit /\ (\A s \in Taken(prog) : live[s] = {1})
     => \A s \in Taken(prog) : source'[s] = snap[s]

=============================================================================
