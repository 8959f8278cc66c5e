--------------------------- MODULE ControlledRun ---------------------------
(***************************************************************************)
(* The two harnesses that run a foreign program once, under control:       *)
(* packaging/dependency_walker_smoke.py (kind = "smoke") runs depends.exe, *)
(* packaging/standalone_build.py (kind = "build") runs pyside6-deploy.exe. *)
(* Both check the disk, create marker files no second attempt can create   *)
(* again, start the program suspended inside a Windows Job Object, wait    *)
(* for it with a deadline, and judge the outcome.                          *)
(*                                                                         *)
(* An operator may start several harness processes, at once or one after   *)
(* the other, and any of them may die at any point.  Each harness h has    *)
(* a program tree: its root process and `kids` further processes.          *)
(***************************************************************************)
EXTENDS Naturals, FiniteSets, Sequences

CONSTANTS Kinds,        \* which harnesses run: a subset of {"smoke", "build"}
          Harnesses,    \* harness processes
          BuildLimit,   \* the active-process limit of the build's Job Object
          MaxStarts,    \* how often each harness is started
          MaxTotal      \* bound: processes one tree ever creates

\* What the constants must satisfy.
ControlledRunAssumption ==
    /\ Kinds \subseteq {"smoke", "build"}
    /\ BuildLimit \in Nat \ {0} /\ MaxStarts \in Nat \ {0} /\ MaxTotal \in Nat \ {0}

VARIABLES kind,     \* which of the two: the harnesses are of one kind
          disk,     \* the files of the attempt that exist
          product,  \* what the program has written: the raw output of the
                    \* tool and, by a build, the final copy of it
          cache,    \* the cached tool is valid
          at, run,  \* each harness's place in the code and its locals
          tree,     \* each harness's program tree
          starts,   \* how often each harness was started
          resumed,  \* ghost: programs whose main thread was ever resumed
          cut       \* ghost: trees of which a live process was killed

\* The Job Object's limit on active processes; the smoke's is one.
Limit(k) == IF k = "smoke" THEN 1 ELSE BuildLimit

NoProduct == [raw |-> "none", final |-> "none"]

harnessVars == <<kind, disk, product, cache, at, run, tree, starts, resumed, cut>>

-----------------------------------------------------------------------------
(* Files and locals.                                                       *)

\* What a harness creates, in order, before it starts the program.  Each must
\* be new.  The smoke writes its .dwp file and the guard, the build makes its
\* output directory and writes the guard and the private spec.
SmokeMarkers == <<"dwp", "guard">>
BuildMarkers == <<"directory", "guard", "spec">>
Markers == IF kind = "smoke" THEN SmokeMarkers ELSE BuildMarkers

Files == {"directory", "dwp", "guard", "spec", "streams", "report"}

\* What ends a run before it creates anything: traces of an earlier one.
SmokeOccupied == product.raw # "none" \/ {"report", "guard", "dwp", "streams"} \cap disk # {}
BuildOccupied == product # NoProduct \/ "directory" \in disk

NoRun == [started |-> FALSE, timedOut |-> FALSE, remaining |-> FALSE,
          limitHit |-> FALSE, rootSeen |-> FALSE, exitOk |-> FALSE,
          childSeen |-> FALSE, outcome |-> "none"]

NoTree == [root |-> "none", inJob |-> FALSE, kids |-> 0, total |-> 0,
           limitMsg |-> FALSE, exitOk |-> FALSE, job |-> FALSE,
           killed |-> FALSE]

RootActive(h) == IF tree[h].root \in {"suspended", "running"} THEN 1 ELSE 0
Active(h)     == IF tree[h].inJob THEN RootActive(h) + tree[h].kids ELSE 0
Executing(h)  == tree[h].root = "running" \/ tree[h].kids > 0

HarnessInit ==
        /\ kind \in Kinds /\ disk = {} /\ product = NoProduct /\ cache = TRUE
        /\ at = [h \in Harnesses |-> "idle"]
        /\ run = [h \in Harnesses |-> NoRun]
        /\ tree = [h \in Harnesses |-> NoTree]
        /\ starts = [h \in Harnesses |-> 0]
        /\ resumed = {} /\ cut = {}

Goto(h, l)    == at' = [at EXCEPT ![h] = l]
SetRun(h, r)  == run' = [run EXCEPT ![h] = r]
SetTree(h, t) == tree' = [tree EXCEPT ![h] = t]

\* The run ends unsuccessfully before anything was judged.
Refused(h) == Goto(h, "done") /\ SetRun(h, [run[h] EXCEPT !.outcome = "refused"])

-----------------------------------------------------------------------------
(* The harness up to the start of the program.                             *)

\* Starting the harness: the environment, the cached tool and the occupied
\* paths are checked; nothing is written yet.  A new start has forgotten the
\* earlier one.
BeginHarness(h, occupied) ==
    /\ at[h] \in {"idle", "done", "dead"} /\ starts[h] < MaxStarts
    /\ ~Executing(h) /\ tree[h].root # "suspended"
    /\ starts' = [starts EXCEPT ![h] = @ + 1]
    /\ tree' = [tree EXCEPT ![h] = NoTree]
    /\ \E valid \in BOOLEAN :
          IF valid /\ cache /\ ~occupied
            THEN Goto(h, "mark1") /\ SetRun(h, NoRun)
            ELSE Goto(h, "done") /\ SetRun(h, [NoRun EXCEPT !.outcome = "refused"])
    /\ UNCHANGED <<kind, disk, product, cache, resumed, cut>>

CheckSmoke(h) == kind = "smoke" /\ BeginHarness(h, SmokeOccupied)
CheckBuild(h) == kind = "build" /\ BeginHarness(h, BuildOccupied)

\* Seeded fault: the marker replaces one that is already there.
CreatesReplacing(f) == TRUE

\* Creating a file that must be new: open("xb"), mkdir, CREATE_NEW, or the
\* rename of a temporary file, which Windows refuses when the target exists.
Creates(f) == f \notin disk

\* The k-th marker.  Taking the snapshot the outcome is compared with falls
\* between the markers (smoke) or after them (build) and may fail.
Mark(h, k) ==
    /\ at[h] = (IF k = 1 THEN "mark1" ELSE IF k = 2 THEN "mark2" ELSE "mark3")
    /\ LET f == Markers[k] IN
       \/ /\ Creates(f)
          /\ disk' = disk \cup {f}
          /\ Goto(h, CASE k = Len(Markers) -> "job" [] k = 1 -> "mark2" [] OTHER -> "mark3")
          /\ UNCHANGED run
       \/ /\ Creates(f) /\ disk' = disk \cup {f} /\ Refused(h)
       \/ /\ Refused(h) /\ UNCHANGED disk
    /\ UNCHANGED <<kind, product, cache, tree, starts, resumed, cut>>

\* The Job Object with kill-on-close and the active-process limit, its
\* completion port and the standard streams; CREATE_NEW makes the stream
\* files exclusive too.  Any failure ends in the `finally`, to be judged.
CreateJob(h) ==
    /\ at[h] = "job"
    /\ \/ /\ Creates("streams")
          /\ disk' = disk \cup {"streams"}
          /\ SetTree(h, [tree[h] EXCEPT !.job = TRUE])
          /\ Goto(h, "create")
       \/ /\ Goto(h, "finally") /\ UNCHANGED <<disk, tree>>
    /\ UNCHANGED <<kind, product, cache, run, starts, resumed, cut>>

\* CreateProcessW with CREATE_SUSPENDED.
CreateProcess(h) ==
    /\ at[h] = "create"
    /\ \/ SetTree(h, [tree[h] EXCEPT !.root = "suspended"]) /\ Goto(h, "assign")
       \/ Goto(h, "finally") /\ UNCHANGED tree
    /\ UNCHANGED <<kind, disk, product, cache, run, starts, resumed, cut>>

\* AssignProcessToJobObject; a process that cannot be assigned is terminated.
Assign(h) ==
    /\ at[h] = "assign"
    /\ \/ /\ SetTree(h, [tree[h] EXCEPT !.inJob = TRUE, !.total = 1])
          /\ Goto(h, "resume")
       \/ /\ SetTree(h, [tree[h] EXCEPT !.root = "exited"])
          /\ Goto(h, "finally")
    /\ UNCHANGED <<kind, disk, product, cache, run, starts, resumed, cut>>

\* ResumeThread; when it fails the `finally` terminates the job.
Resume(h) ==
    /\ at[h] = "resume"
    /\ \/ /\ SetTree(h, [tree[h] EXCEPT !.root = "running"])
          /\ SetRun(h, [run[h] EXCEPT !.started = TRUE])
          /\ resumed' = resumed \cup {<<h, starts[h]>>}
          /\ Goto(h, "wait")
       \/ Goto(h, "finally") /\ UNCHANGED <<tree, run, resumed>>
    /\ UNCHANGED <<kind, disk, product, cache, starts, cut>>

-----------------------------------------------------------------------------
(* Waiting for the program.                                                *)

\* One wait of the smoke: it ends with the root process.
WaitSmoke(h) ==
    /\ kind = "smoke" /\ at[h] = "wait" /\ tree[h].root = "exited"
    /\ Goto(h, "collect")
    /\ UNCHANGED <<kind, disk, product, cache, run, tree, starts, resumed, cut>>

\* What draining the completion port leaves: a limit message, once read, is
\* remembered.
Drained(h) == [run[h] EXCEPT !.limitHit = @ \/ tree[h].limitMsg]

\* One wait of the build: the root's handle is signalled or not, and the port
\* is drained.  The accounting query is a step of its own: the tree runs on
\* between the two.
WaitBuild(h) ==
    /\ kind = "build" /\ at[h] = "wait"
    /\ SetRun(h, [Drained(h) EXCEPT !.rootSeen = @ \/ tree[h].root = "exited"])
    /\ SetTree(h, [tree[h] EXCEPT !.limitMsg = FALSE])
    /\ Goto(h, "account")
    /\ UNCHANGED <<kind, disk, product, cache, starts, resumed, cut>>

\* The number of active processes as the accounting query tells it; a query
\* that fails answers the limit, so the wait goes on.
Accounted(h) == {Active(h), Limit(kind)}

\* The build's wait ends when the root has exited and no process is active.
Account(h) ==
    /\ at[h] = "account"
    /\ \E active \in Accounted(h) :
          Goto(h, CASE run[h].rootSeen /\ active = 0 /\ run[h].limitHit -> "terminate"
                    [] run[h].rootSeen /\ active = 0 -> "collect"
                    [] OTHER -> "wait")
    /\ UNCHANGED <<kind, disk, product, cache, run, tree, starts, resumed, cut>>

\* The deadline passes, or the wait itself fails.
Timeout(h) ==
    /\ at[h] = "wait"
    /\ SetRun(h, [run[h] EXCEPT !.timedOut = TRUE])
    /\ Goto(h, "terminate")
    /\ UNCHANGED <<kind, disk, product, cache, tree, starts, resumed, cut>>

\* TerminateJobObject: every process of the job is told to end.
Killed(h) == IF tree[h].job /\ tree[h].inJob
               THEN [tree[h] EXCEPT !.killed = TRUE] ELSE tree[h]
Cuts(h) == IF tree[h].job /\ tree[h].inJob /\ Executing(h)
             THEN cut \cup {<<h, starts[h]>>} ELSE cut

\* After a timeout or a hit limit the job is terminated; the harness then
\* waits, for a while, until nothing is left of it.
Terminate(h) ==
    /\ at[h] = "terminate"
    /\ SetTree(h, Killed(h)) /\ cut' = Cuts(h)
    /\ Goto(h, "collect")
    /\ UNCHANGED <<kind, disk, product, cache, run, starts, resumed>>

\* The exit code, and what tells of a child or of an attempt to start one:
\* the messages, drained now, and the accounting.
CollectSmoke(h) ==
    /\ kind = "smoke" /\ at[h] = "collect"
    /\ SetRun(h, [run[h] EXCEPT
          !.remaining = run[h].timedOut /\ RootActive(h) = 1,
          !.exitOk = tree[h].root = "exited" /\ tree[h].exitOk,
          !.childSeen = tree[h].limitMsg \/ tree[h].total > 1])
    /\ Goto(h, "finally")
    /\ UNCHANGED <<kind, disk, product, cache, tree, starts, resumed, cut>>

\* The exit code, and what the accounting says is left of the tree.
CollectBuild(h) ==
    /\ kind = "build" /\ at[h] = "collect"
    /\ \E active \in Accounted(h) :
          SetRun(h, [run[h] EXCEPT
              !.remaining = active # 0,
              !.exitOk = tree[h].root = "exited" /\ tree[h].exitOk])
    /\ Goto(h, "finally")
    /\ UNCHANGED <<kind, disk, product, cache, tree, starts, resumed, cut>>

\* The `finally` of the runner: the job is terminated and every handle closed.
Finally(h) ==
    /\ at[h] = "finally"
    /\ SetTree(h, [Killed(h) EXCEPT !.job = FALSE]) /\ cut' = Cuts(h)
    /\ Goto(h, "judge")
    /\ UNCHANGED <<kind, disk, product, cache, run, starts, resumed>>

-----------------------------------------------------------------------------
(* The judgement and the report.                                           *)

\* The smoke succeeds only if the program started, ended by itself, neither
\* started nor tried to start another one, wrote an output that parses, and
\* changed nothing else: the snapshots of before and after agree (clean).
SmokeVerdict(h, clean) ==
    /\ run[h].started /\ ~run[h].timedOut /\ ~run[h].remaining /\ ~run[h].childSeen
    /\ product.raw = "whole" /\ clean /\ cache

\* The manifests of the raw output and of the final copy are equal.
SameManifest == product.final = product.raw

\* The build's postconditions: the preserved raw output and the final copy are
\* there and equal; the report, the executable and the spec are as they must
\* be (clean).
Postconditions(clean) == product.raw # "none" /\ SameManifest /\ clean

BuildVerdict(h, clean) ==
    /\ run[h].started /\ ~run[h].timedOut /\ ~run[h].remaining
    /\ ~run[h].limitHit /\ run[h].exitOk
    /\ Postconditions(clean) /\ cache

Judge(h) ==
    /\ at[h] = "judge"
    /\ \E clean \in BOOLEAN :
          LET good == IF kind = "smoke" THEN SmokeVerdict(h, clean) ELSE BuildVerdict(h, clean)
          IN  SetRun(h, [run[h] EXCEPT !.outcome = IF good THEN "success" ELSE "failure"])
    /\ Goto(h, "report")
    /\ UNCHANGED <<kind, disk, product, cache, tree, starts, resumed, cut>>

\* The report: the smoke's must be new, the build's replaces.  A report that
\* cannot be written turns the outcome into a failure.
Published(h, possible) ==
    /\ at[h] = "report"
    /\ \/ possible /\ disk' = disk \cup {"report"} /\ UNCHANGED run
       \/ SetRun(h, [run[h] EXCEPT !.outcome = "failure"]) /\ UNCHANGED disk
    /\ Goto(h, "done")
    /\ UNCHANGED <<kind, product, cache, tree, starts, resumed, cut>>

ReportSmoke(h) == kind = "smoke" /\ Published(h, Creates("report"))
ReportBuild(h) == kind = "build" /\ Published(h, TRUE)

HarnessStep(h) ==
    \/ \E k \in 1..Len(Markers) : Mark(h, k)
    \/ CreateJob(h) \/ CreateProcess(h) \/ Assign(h) \/ Resume(h)
    \/ WaitSmoke(h) \/ WaitBuild(h) \/ Account(h) \/ Timeout(h) \/ Terminate(h)
    \/ CollectSmoke(h) \/ CollectBuild(h) \/ Finally(h) \/ Judge(h)
    \/ ReportSmoke(h) \/ ReportBuild(h)

-----------------------------------------------------------------------------
(* The environment.                                                        *)

Busy(h) == at[h] \notin {"idle", "done", "dead"}

\* The harness process dies: its handles close, and kill-on-close ends every
\* process of the job.  A process that was never assigned is not touched.
HarnessDies(h) ==
    /\ Busy(h)
    /\ Goto(h, "dead")
    /\ SetTree(h, [Killed(h) EXCEPT !.job = FALSE]) /\ cut' = Cuts(h)
    /\ UNCHANGED <<kind, disk, product, cache, run, starts, resumed>>

\* A process of the tree starts another one.  Beyond the limit Windows refuses
\* and posts a message to the completion port.
Spawn(h) ==
    /\ Executing(h) /\ ~tree[h].killed /\ tree[h].total < MaxTotal
    /\ SetTree(h, IF RootActive(h) + tree[h].kids < Limit(kind) \/ ~tree[h].inJob
                    THEN [tree[h] EXCEPT !.kids = @ + 1, !.total = @ + 1]
                    ELSE [tree[h] EXCEPT !.limitMsg = TRUE])
    /\ UNCHANGED <<kind, disk, product, cache, at, run, starts, resumed, cut>>

\* The program writes its product.
Produce(h) ==
    /\ Executing(h) /\ ~tree[h].killed
    /\ \/ product' = [product EXCEPT !.raw = IF @ = "none" THEN "part" ELSE "whole"]
       \/ kind = "build" /\ product' = [product EXCEPT !.final = product.raw]
    /\ UNCHANGED <<kind, disk, cache, at, run, tree, starts, resumed, cut>>

\* The root, or another process of the tree, ends, by itself or killed.
RootExits(h) ==
    /\ tree[h].root = "running" \/ (tree[h].root = "suspended" /\ tree[h].killed)
    /\ \E ok \in BOOLEAN :
          /\ tree[h].killed => ~ok
          /\ SetTree(h, [tree[h] EXCEPT !.root = "exited", !.exitOk = ok])
    /\ UNCHANGED <<kind, disk, product, cache, at, run, starts, resumed, cut>>

KidExits(h) ==
    /\ tree[h].kids > 0
    /\ SetTree(h, [tree[h] EXCEPT !.kids = @ - 1])
    /\ UNCHANGED <<kind, disk, product, cache, at, run, starts, resumed, cut>>

\* Somebody else changes the cached tool.
CacheChanges ==
    /\ cache /\ \E h \in Harnesses : Busy(h)
    /\ cache' = FALSE
    /\ UNCHANGED <<kind, disk, product, at, run, tree, starts, resumed, cut>>

HarnessNext ==
        \/ CacheChanges
        \/ \E h \in Harnesses :
              CheckSmoke(h) \/ CheckBuild(h) \/ HarnessStep(h) \/ HarnessDies(h) \/ Spawn(h) \/ Produce(h)
              \/ RootExits(h) \/ KidExits(h)

\* A harness that runs goes on; its clock does, too.
HarnessFairness == \A h \in Harnesses :
               /\ WF_harnessVars(HarnessStep(h))
               /\ SF_harnessVars(Timeout(h) \/ WaitSmoke(h))

HarnessSpec     == HarnessInit /\ [][HarnessNext]_harnessVars
HarnessFairSpec == HarnessSpec /\ HarnessFairness

-----------------------------------------------------------------------------
(* Properties.                                                             *)

Labels == {"idle", "mark1", "mark2", "mark3", "job", "create", "assign",
           "resume", "wait", "account", "terminate", "collect", "finally",
           "judge", "report", "done", "dead"}

\* A tree never holds more processes than the job allows, whatever the
\* program and the harness do; the rest is typing.
HarnessTypeOK ==
    /\ kind \in Kinds /\ disk \subseteq Files /\ product \in [{"raw", "final"} -> {"none", "part", "whole"}]
    /\ cache \in BOOLEAN /\ at \in [Harnesses -> Labels]
    /\ \A h \in Harnesses :
          /\ tree[h].root \in {"none", "suspended", "running", "exited"}
          /\ RootActive(h) + tree[h].kids <= Limit(kind)
          /\ tree[h].total <= MaxTotal /\ starts[h] <= MaxStarts
          /\ run[h].outcome \in {"none", "refused", "success", "failure"}

\* The foreign program runs at most once, ever: whatever number of harnesses
\* the operator starts, together or after a crash, the exclusive markers let
\* one attempt through ("creates its attempt marker before process start and
\* never retries automatically").
RunsOnce == Cardinality(resumed) <= 1

\* No process of the program runs unless a live harness holds the job it is
\* in, or has already been told to end: nothing survives the harness.
Contained ==
    \A h \in Harnesses :
        Executing(h) => tree[h].killed \/ (Busy(h) /\ tree[h].job /\ tree[h].inJob)

\* Success means that the program ended by itself and whole: no process was
\* cut off in the middle, none is left to change what was judged, and the
\* smoke's program never even tried to start another one.
SuccessIsSound ==
    \A h \in Harnesses :
        run[h].outcome = "success" =>
            /\ ~Executing(h) /\ <<h, starts[h]>> \notin cut
            /\ kind = "build" => tree[h].exitOk /\ product.final = product.raw
            /\ kind = "smoke" => /\ product.raw = "whole"
                                /\ tree[h].total = 1 /\ ~tree[h].limitMsg

\* The controlled build and smoke: the foreign program runs at most once,
\* never outside a job that a live harness holds, and success is reported
\* only for a program that ended whole.
HarnessSafety == HarnessTypeOK /\ RunsOnce /\ Contained /\ SuccessIsSound

\* Every harness that is started ends, even when the program never does.
HarnessEnds == \A h \in Harnesses : Busy(h) ~> ~Busy(h)
=============================================================================
