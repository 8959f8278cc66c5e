-------------------------- MODULE DryRunWorkspace --------------------------
(***************************************************************************)
(* The private workspace of a dry run (packaging/standalone_build.py,      *)
(* prepare_dry_run_workspace and finalize_dry_run_workspace).  A session   *)
(* prepares it, runs the deployment tool in it, and finalizes it: nothing  *)
(* that must not change may have changed, and only the entries the session *)
(* owns are removed.  Sessions may overlap and may die at any point.       *)
(***************************************************************************)
EXTENDS Naturals, Sequences, Functions

CONSTANTS Sessions,    \* operator sessions
          MaxRuns,     \* how often each is started
          MaxChanges   \* bound: changes made to the protected artefacts

\* What the constants must satisfy.
DryRunAssumption == MaxRuns \in Nat \ {0} /\ MaxChanges \in Nat

VARIABLES ws,         \* entry of the workspace -> the session that made it
          protected,  \* version of the protected artefacts, spec and entry
          snapshot,   \* the version the snapshot file records
          pc, seen, todo, runs, code,
          start       \* ghost: the version when the session took its snapshot

vars == <<ws, protected, snapshot, pc, seen, todo, runs, code, start>>

\* Directories are made first, the snapshot file last.
Making == <<"input", "deployment", "dist", "entry", "spec", "snapshot">>

AllowedFiles == {"entry", "spec", "stdout", "stderr", "snapshot"}
AllowedDirectories == {"input", "deployment", "dist"}

\* Files the deployment tool may leave that are on no list.
Foreign == "foreign"
Entries == AllowedFiles \cup AllowedDirectories \cup {Foreign, "."}

\* Whether the workspace exists, and what it holds.
Exists == "." \in DOMAIN ws
With(e, s) == [x \in DOMAIN ws \cup {e, "."} |->
                  IF x = e \/ x \notin DOMAIN ws THEN s ELSE ws[x]]
Without(e) == [x \in DOMAIN ws \ {e} |-> ws[x]]

Init == /\ ws = [x \in {} |-> ""] /\ protected = 0 /\ snapshot = 0
        /\ pc = [s \in Sessions |-> "idle"] /\ seen = [s \in Sessions |-> 0]
        /\ todo = [s \in Sessions |-> <<>>] /\ runs = [s \in Sessions |-> 0]
        /\ code = [s \in Sessions |-> "none"] /\ start = [s \in Sessions |-> 0]

Goto(s, l) == pc' = [pc EXCEPT ![s] = l]
End(s, c) == Goto(s, "ended") /\ code' = [code EXCEPT ![s] = c]

-----------------------------------------------------------------------------
(* prepare_dry_run_workspace.                                              *)

\* The workspace must not exist; the protected artefacts are then read.
PrepareBegin(s) ==
    /\ pc[s] \in {"idle", "ended", "dead"} /\ runs[s] < MaxRuns
    /\ runs' = [runs EXCEPT ![s] = @ + 1]
    /\ IF Exists
         THEN End(s, "occupied") /\ UNCHANGED <<seen, todo, start>>
         ELSE /\ Goto(s, "making") /\ code' = [code EXCEPT ![s] = "none"]
              /\ seen' = [seen EXCEPT ![s] = protected]
              /\ start' = [start EXCEPT ![s] = protected]
              /\ todo' = [todo EXCEPT ![s] = Making]
    /\ UNCHANGED <<ws, protected, snapshot>>

\* mkdir and open("xb") refuse an entry that exists; below a directory that is
\* gone nothing can be made.  Only the snapshot is written with os.replace.
MayMake(e) ==
    /\ e # "snapshot" => e \notin DOMAIN ws
    /\ e \in {"deployment", "entry"} => "input" \in DOMAIN ws
    /\ e \in {"spec", "snapshot"} => Exists

\* The next directory or file; any failure ends the session with what it made
\* left in place.
MakeNext(s) ==
    /\ pc[s] = "making"
    /\ LET e == Head(todo[s]) IN
       \/ /\ MayMake(e)
          /\ ws' = With(e, s)
          /\ todo' = [todo EXCEPT ![s] = Tail(@)]
          /\ snapshot' = IF e = "snapshot" THEN seen[s] ELSE snapshot
          /\ IF e = "snapshot" THEN Goto(s, "deploy") ELSE UNCHANGED pc
          /\ UNCHANGED code
       \/ /\ End(s, "materialization_failed")
          /\ UNCHANGED <<ws, todo, snapshot>>
    /\ UNCHANGED <<protected, seen, runs, start>>

-----------------------------------------------------------------------------
(* The deployment tool, run between the two commands.                      *)

\* The tool writes its output where it should, or leaves a file nobody knows,
\* or changes what it must not touch (as it once did); it then ends.
Deploy(s) ==
    /\ pc[s] = "deploy"
    /\ \/ /\ "input" \in DOMAIN ws /\ Foreign \notin DOMAIN ws
          /\ ws' = With(Foreign, s)
          /\ UNCHANGED <<protected, pc>>
       \/ /\ protected < MaxChanges
          /\ protected' = protected + 1
          /\ UNCHANGED <<ws, pc>>
       \/ /\ Exists
          /\ ws' = [x \in DOMAIN ws \cup {"stdout", "stderr"} |->
                       IF x \in DOMAIN ws THEN ws[x] ELSE s]
          /\ Goto(s, "finalize")
          /\ UNCHANGED protected
       \/ /\ Goto(s, "finalize")
          /\ UNCHANGED <<ws, protected>>
    /\ UNCHANGED <<snapshot, seen, todo, runs, code, start>>

\* Somebody else changes the protected artefacts.
OthersChange ==
    /\ protected < MaxChanges /\ \E s \in Sessions : pc[s] \notin {"idle", "ended", "dead"}
    /\ protected' = protected + 1
    /\ UNCHANGED <<ws, snapshot, pc, seen, todo, runs, code, start>>

-----------------------------------------------------------------------------
(* finalize_dry_run_workspace.                                             *)

\* The version the snapshot file is compared with.
Compared(s) == protected

\* The snapshot file is read, and compared with what is there now; a
\* difference ends the session before anything is removed.
Compare(s) ==
    /\ pc[s] = "finalize"
    /\ CASE "snapshot" \notin DOMAIN ws -> End(s, "cleanup_failed")
         [] "snapshot" \in DOMAIN ws /\ snapshot # Compared(s) -> End(s, "side_effect_detected")
         [] OTHER -> Goto(s, "listing") /\ UNCHANGED code
    /\ UNCHANGED <<ws, protected, snapshot, seen, todo, runs, start>>

\* The entries on no list.
Unknown == DOMAIN ws \ (AllowedFiles \cup AllowedDirectories \cup {"."})

\* The deepest file goes first, the others in the order of a Python set.
FileOrders == {q \in [1..4 -> AllowedFiles \ {"entry"}] : IsInjective(q)}

\* Every entry must be on the fixed lists; an unknown one preserves all.
List(s) ==
    /\ pc[s] = "listing"
    /\ IF Unknown # {} THEN End(s, "cleanup_failed") /\ UNCHANGED todo
       ELSE /\ Goto(s, "removing") /\ UNCHANGED code
            /\ \E files \in FileOrders :
                  todo' = [todo EXCEPT ![s] = <<"entry">> \o files \o
                                              <<"deployment", "dist", "input", ".">>]
    /\ UNCHANGED <<ws, protected, snapshot, seen, runs, start>>

\* A directory is only removed when it is empty; whether a foreign file lies
\* in the workspace or in its input directory is not told apart.
Removable(e) ==
    CASE e = "." -> DOMAIN ws = {"."}
      [] e = "input" -> {"entry", "deployment", Foreign} \cap DOMAIN ws = {}
      [] OTHER -> TRUE

\* The next file or directory is removed if it is there.  Between two
\* removals another session may begin.
RemoveNext(s) ==
    /\ pc[s] = "removing" /\ todo[s] # <<>>
    /\ LET e == Head(todo[s]) IN
       \/ /\ e \in DOMAIN ws => Removable(e)
          /\ ws' = Without(e)
          /\ todo' = [todo EXCEPT ![s] = Tail(@)]
          /\ UNCHANGED <<pc, code>>
       \/ /\ e \in DOMAIN ws
          /\ End(s, "cleanup_failed")
          /\ UNCHANGED <<ws, todo>>
    /\ UNCHANGED <<protected, snapshot, seen, runs, start>>

\* The workspace must be gone at the end.
Finish(s) ==
    /\ pc[s] = "removing" /\ todo[s] = <<>>
    /\ End(s, IF Exists THEN "cleanup_failed" ELSE "clean")
    /\ UNCHANGED <<ws, protected, snapshot, seen, todo, runs, start>>

Crash(s) ==
    /\ pc[s] \notin {"idle", "ended", "dead"}
    /\ Goto(s, "dead")
    /\ UNCHANGED <<ws, protected, snapshot, seen, todo, runs, code, start>>

Next == \/ OthersChange
        \/ \E s \in Sessions :
              PrepareBegin(s) \/ MakeNext(s) \/ Deploy(s) \/ Compare(s) \/ List(s)
              \/ RemoveNext(s) \/ Finish(s) \/ Crash(s)

Spec == Init /\ [][Next]_vars

-----------------------------------------------------------------------------
(* Properties.                                                             *)

TypeOK ==
    /\ DOMAIN ws \subseteq Entries /\ protected \in 0..MaxChanges
    /\ DOMAIN ws # {} => Exists
    /\ \A s \in Sessions : runs[s] <= MaxRuns

\* While the tool runs, the entry and the spec it reads are the ones its own
\* session made: an overlapping session can neither take them over nor remove
\* them.
DeployReadsItsOwn ==
    \A s \in Sessions : pc[s] = "deploy" =>
        \A e \in {"input", "entry", "spec"} : e \in DOMAIN ws /\ ws[e] = s

\* "Any difference fails closed before cleanup": what a session removes it
\* removes only if nothing protected had changed when it compared, so a
\* workspace whose run changed something stays as evidence.
ChangeIsEvidence ==
    \A s \in Sessions :
       pc[s] = "finalize" /\ pc'[s] = "listing" => protected = start[s]

\* "An unknown entry preserves the workspace as evidence": no step removes a
\* file no list names, and as long as one lies there, a session that has still
\* to look at the entries removes nothing.
UnknownIsPreserved ==
    /\ (Foreign \in DOMAIN ws) => (Foreign \in DOMAIN ws')
    /\ \A s \in Sessions :
          ~(Foreign \in DOMAIN ws /\ pc[s] = "listing" /\ pc'[s] = "removing")
=============================================================================
