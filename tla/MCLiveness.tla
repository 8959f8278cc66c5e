----------------------------- MODULE MCLiveness -----------------------------
(***************************************************************************)
(* What must come to an end, for TLC: the tasks of a Provider adapter, a   *)
(* turn with tools of every risk, a toggle of autostart, a second start of *)
(* the application, an exit, a press beside the palette, the observer of   *)
(* the timeline and a controlled run. A behaviour is about one of them,    *)
(* chosen in the initial state; the variables of the others are not used.  *)
(* Fairness and properties are those of the components' fair               *)
(* specifications, stated for the part a behaviour is about.               *)
(***************************************************************************)
EXTENDS Naturals, Sequences

VARIABLES
  part,  \* the component this behaviour is about
  \* ProviderResources
  tasksKind, key, closed, client, active, tasksPending, tasksClosing, open,
  keyOf, user, task, tasksLock, changes,
  \* AgentLoop
  turnPc, token, stream, seen, toolExecuted, blank, cause, agentState,
  terminals, committed,
  \* Autostart
  entry, failing, journal, svc, autoOp, autoQueue, thread, replies,
  autoPending, gui, bridge, foreign,
  \* SingleInstance
  instancePc, instanceLock, server, conn, instanceSent, reply, instanceCode,
  queued, shown,
  \* ApplicationShell
  main, runtimeBridge, win, pet, tray, rec, obs, saves, dash, exits,
  \* Palette
  snap, host, timer, fresh, recent, cursor, down, paletteQueue, outside,
  paletteClosing, available, paletteSent, passed,
  \* TimelineProbe
  probePc, life, phase, rev, probeCode, registered, ownerState, fallback,
  status, tr, lost, late, control, ownerFile, probeOp, aborted, proc, value,
  toggles,
  \* ControlledRun
  harnessKind, disk, product, cache, at, run, tree, starts, resumed, cut

Tasks == INSTANCE ProviderResources WITH
  NumRequests <- 1, NumCloses <- 2, Keys <- {"k1"}, MaxChanges <- 1,
  kind <- tasksKind, pending <- tasksPending, closing <- tasksClosing,
  lock <- tasksLock

Turn == INSTANCE AgentLoop WITH
  Registry <- {"safe", "sensitive_read", "side_effect", "destructive"},
  pc <- turnPc

Auto == INSTANCE Autostart WITH
  Facts <- {"marker"}, MaxRevision <- 2, MaxForeign <- 1, op <- autoOp,
  queue <- autoQueue, pending <- autoPending

Instances == INSTANCE SingleInstance WITH
  Procs <- {"p1", "p2"}, MaxClients <- 1, CleanupFails <- FALSE,
  pc <- instancePc, lock <- instanceLock, sent <- instanceSent,
  code <- instanceCode

Shell == INSTANCE ApplicationShell WITH
  HasMainWindow <- FALSE, Diagnosed <- TRUE, TrayFails <- TRUE,
  WriteFails <- FALSE, MaxExits <- 1

Menu == INSTANCE Palette WITH
  RootCommands <- {}, Actions <- {"sit"}, queue <- paletteQueue,
  closing <- paletteClosing, sent <- paletteSent

Probe == INSTANCE TimelineProbe WITH
  MaxCommands <- [o \in {"o1"} |-> 2], RuntimePhases <- 1, MaxAhead <- 2,
  MaxToggles <- 0, Releases <- TRUE, Expires <- TRUE, Aborts <- TRUE,
  pc <- probePc, code <- probeCode, op <- probeOp

Harness == INSTANCE ControlledRun WITH
  Kinds <- {"build"}, Harnesses <- {"h1"}, BuildLimit <- 2, MaxStarts <- 1,
  MaxTotal <- 3, kind <- harnessKind

\* What each component assumes of its constants.
ASSUME LivenessAssumption ==
  /\ Tasks!ResourcesAssumption
  /\ Auto!AutostartAssumption
  /\ Instances!InstanceAssumption
  /\ Shell!ShellAssumption
  /\ Probe!ProbeAssumption
  /\ Harness!ControlledRunAssumption

\* The value of the variables of the components a behaviour is not about.
Unused == "unused"

TasksUnused ==
  /\ tasksKind = Unused /\ key = Unused /\ closed = Unused /\ client = Unused
  /\ active = Unused /\ tasksPending = Unused /\ tasksClosing = Unused
  /\ open = Unused /\ keyOf = Unused /\ user = Unused /\ task = Unused
  /\ tasksLock = Unused /\ changes = Unused

TurnUnused ==
  /\ turnPc = Unused /\ token = Unused /\ stream = Unused /\ seen = Unused
  /\ toolExecuted = Unused /\ blank = Unused /\ cause = Unused
  /\ agentState = Unused /\ terminals = Unused /\ committed = Unused

AutoUnused ==
  /\ entry = Unused /\ failing = Unused /\ journal = Unused /\ svc = Unused
  /\ autoOp = Unused /\ autoQueue = Unused /\ thread = Unused
  /\ replies = Unused /\ autoPending = Unused /\ gui = Unused
  /\ bridge = Unused /\ foreign = Unused

InstanceUnused ==
  /\ instancePc = Unused /\ instanceLock = Unused /\ server = Unused
  /\ conn = Unused /\ instanceSent = Unused /\ reply = Unused
  /\ instanceCode = Unused /\ queued = Unused /\ shown = Unused

ShellUnused ==
  /\ main = Unused /\ runtimeBridge = Unused /\ win = Unused /\ pet = Unused
  /\ tray = Unused /\ rec = Unused /\ obs = Unused /\ saves = Unused
  /\ dash = Unused /\ exits = Unused

PaletteUnused ==
  /\ snap = Unused /\ host = Unused /\ timer = Unused /\ fresh = Unused
  /\ recent = Unused /\ cursor = Unused /\ down = Unused
  /\ paletteQueue = Unused /\ outside = Unused /\ paletteClosing = Unused
  /\ available = Unused /\ paletteSent = Unused /\ passed = Unused

ProbeUnused ==
  /\ probePc = Unused /\ life = Unused /\ phase = Unused /\ rev = Unused
  /\ probeCode = Unused /\ registered = Unused /\ ownerState = Unused
  /\ fallback = Unused /\ status = Unused /\ tr = Unused /\ lost = Unused
  /\ late = Unused /\ control = Unused /\ ownerFile = Unused
  /\ probeOp = Unused /\ aborted = Unused /\ proc = Unused /\ value = Unused
  /\ toggles = Unused

HarnessUnused ==
  /\ harnessKind = Unused /\ disk = Unused /\ product = Unused
  /\ cache = Unused /\ at = Unused /\ run = Unused /\ tree = Unused
  /\ starts = Unused /\ resumed = Unused /\ cut = Unused

tasksVars ==
  <<tasksKind, key, closed, client, active, tasksPending, tasksClosing, open,
    keyOf, user, task, tasksLock, changes>>

turnVars ==
  <<turnPc, token, stream, seen, toolExecuted, blank, cause, agentState,
    terminals, committed>>

autoVars ==
  <<entry, failing, journal, svc, autoOp, autoQueue, thread, replies,
    autoPending, gui, bridge, foreign>>

instanceVars ==
  <<instancePc, instanceLock, server, conn, instanceSent, reply, instanceCode,
    queued, shown>>

shellVars ==
  <<main, runtimeBridge, win, pet, tray, rec, obs, saves, dash, exits>>

paletteVars ==
  <<snap, host, timer, fresh, recent, cursor, down, paletteQueue, outside,
    paletteClosing, available, paletteSent, passed>>

probeVars ==
  <<probePc, life, phase, rev, probeCode, registered, ownerState, fallback,
    status, tr, lost, late, control, ownerFile, probeOp, aborted, proc, value,
    toggles>>

harnessVars ==
  <<harnessKind, disk, product, cache, at, run, tree, starts, resumed, cut>>

Init ==
  \/ part = "tasks" /\ Tasks!Init
     /\ TurnUnused /\ AutoUnused /\ InstanceUnused /\ ShellUnused
     /\ PaletteUnused /\ ProbeUnused /\ HarnessUnused
  \/ part = "turn" /\ Turn!Init
     /\ TasksUnused /\ AutoUnused /\ InstanceUnused /\ ShellUnused
     /\ PaletteUnused /\ ProbeUnused /\ HarnessUnused
  \/ part = "autostart" /\ Auto!AutostartInit
     /\ TasksUnused /\ TurnUnused /\ InstanceUnused /\ ShellUnused
     /\ PaletteUnused /\ ProbeUnused /\ HarnessUnused
  \/ part = "instance" /\ Instances!Init
     /\ TasksUnused /\ TurnUnused /\ AutoUnused /\ ShellUnused
     /\ PaletteUnused /\ ProbeUnused /\ HarnessUnused
  \/ part = "shell" /\ Shell!ShellInit
     /\ TasksUnused /\ TurnUnused /\ AutoUnused /\ InstanceUnused
     /\ PaletteUnused /\ ProbeUnused /\ HarnessUnused
  \/ part = "palette" /\ Menu!Init
     /\ TasksUnused /\ TurnUnused /\ AutoUnused /\ InstanceUnused
     /\ ShellUnused /\ ProbeUnused /\ HarnessUnused
  \/ part = "probe" /\ Probe!Init
     /\ TasksUnused /\ TurnUnused /\ AutoUnused /\ InstanceUnused
     /\ ShellUnused /\ PaletteUnused /\ HarnessUnused
  \/ part = "harness" /\ Harness!HarnessInit
     /\ TasksUnused /\ TurnUnused /\ AutoUnused /\ InstanceUnused
     /\ ShellUnused /\ PaletteUnused /\ ProbeUnused

TasksNext ==
  /\ part = "tasks" /\ Tasks!Next
  /\ UNCHANGED <<part, turnVars, autoVars, instanceVars, shellVars,
                paletteVars, probeVars, harnessVars>>

TurnNext ==
  /\ part = "turn" /\ Turn!Next
  /\ UNCHANGED <<part, tasksVars, autoVars, instanceVars, shellVars,
                paletteVars, probeVars, harnessVars>>

AutoNext ==
  /\ part = "autostart" /\ Auto!AutostartNext
  /\ UNCHANGED <<part, tasksVars, turnVars, instanceVars, shellVars,
                paletteVars, probeVars, harnessVars>>

InstancesNext ==
  /\ part = "instance" /\ Instances!Next
  /\ UNCHANGED <<part, tasksVars, turnVars, autoVars, shellVars, paletteVars,
                probeVars, harnessVars>>

ShellNext ==
  /\ part = "shell" /\ Shell!ShellNext
  /\ UNCHANGED <<part, tasksVars, turnVars, autoVars, instanceVars,
                paletteVars, probeVars, harnessVars>>

MenuNext ==
  /\ part = "palette" /\ Menu!Next
  /\ UNCHANGED <<part, tasksVars, turnVars, autoVars, instanceVars, shellVars,
                probeVars, harnessVars>>

ProbeNext ==
  /\ part = "probe" /\ Probe!Next
  /\ UNCHANGED <<part, tasksVars, turnVars, autoVars, instanceVars, shellVars,
                paletteVars, harnessVars>>

HarnessNext ==
  /\ part = "harness" /\ Harness!HarnessNext
  /\ UNCHANGED <<part, tasksVars, turnVars, autoVars, instanceVars, shellVars,
                paletteVars, probeVars>>

Next ==
  \/ TasksNext \/ TurnNext \/ AutoNext \/ InstancesNext \/ ShellNext
  \/ MenuNext \/ ProbeNext \/ HarnessNext

vars == <<part, tasksVars, turnVars, autoVars, instanceVars, shellVars,
           paletteVars, probeVars, harnessVars>>

Spec == Init /\ [][Next]_vars

\* The event loop runs every task that can run and hands the lock on in turn;
\* a turn is scheduled, its deadline passes and its stream is closed.
ProvidersFairness ==
  /\ \A t \in Tasks!Tasks : /\ WF_tasksVars(part = "tasks" /\ Tasks!Step(t))
                            /\ SF_tasksVars(part = "tasks" /\ Tasks!Acquire(t))
  /\ WF_turnVars(part = "turn" /\ Turn!Begin)
  /\ WF_turnVars(part = "turn" /\ Turn!Timeout)
  /\ WF_turnVars(part = "turn" /\ Turn!Close)

\* Event loops handle what is queued in them, start() is bounded by its
\* deadlines, and timers fire; nothing is promised of users and clients.
DesktopFairness ==
  /\ WF_autoVars(part = "autostart" /\ Auto!Execute)
  /\ WF_autoVars(part = "autostart" /\ Auto!Deliver)
  /\ \A p \in {"p1", "p2"} :
       /\ WF_instanceVars(part = "instance" /\ Instances!Start(p))
       /\ WF_instanceVars(part = "instance" /\ Instances!EventLoopStarts(p))
       /\ WF_instanceVars(part = "instance" /\ Instances!Activate(p))
       /\ \A c \in {"p1", "p2"} :
            /\ WF_instanceVars(part = "instance" /\ Instances!Accept(p, c))
            /\ WF_instanceVars(part = "instance" /\ (Instances!ReadClient(p, c) \/ Instances!Expire(p, c)))
            /\ WF_instanceVars(part = "instance" /\ Instances!FinishExpired(p, c))
            /\ WF_instanceVars(part = "instance" /\ Instances!Drop(p, c))
  /\ WF_shellVars(part = "shell" /\ \E fails \in Shell!FailingWrites :
       \/ Shell!ParseArguments(fails) \/ Shell!BecomeOwner(fails)
       \/ Shell!MakePet(fails) \/ Shell!MakeTray("held", fails))
  /\ WF_shellVars(part = "shell" /\ runtimeBridge.shutting /\ \E ok \in BOOLEAN : Shell!Settle(ok))
  /\ WF_shellVars(part = "shell" /\ \E fails \in Shell!FailingWrites : Shell!QuitRequested(fails))
  /\ WF_paletteVars(part = "palette" /\ Menu!FilterPress)
  /\ WF_paletteVars(part = "palette" /\ Menu!PollOutsidePress)

\* The observer's loop runs and its clock does; so do a harness and its clock.
PackagingFairness ==
  /\ WF_probeVars(part = "probe" /\ Probe!Poll)
  /\ WF_probeVars(part = "probe" /\ Probe!ExpireTotal)
  /\ WF_harnessVars(part = "harness" /\ Harness!HarnessStep("h1"))
  /\ SF_harnessVars(part = "harness" /\ (Harness!Timeout("h1") \/ Harness!WaitSmoke("h1")))

FairSpec == Spec /\ ProvidersFairness /\ DesktopFairness /\ PackagingFairness

-----------------------------------------------------------------------------
(* Properties.                                                             *)

Underway ==
  \/ part = "tasks" /\ \E t \in Tasks!Tasks : task[t].pc \notin {"new", "done"}
  \/ part = "turn" /\ turnPc # "over"

\* Every request and every aclose of an adapter gets the lifecycle lock and
\* ends (they are finitely many), and so does a turn with tools of every risk.
ProvidersEnd == Underway ~> ~Underway

Waiting ==
  \/ part = "autostart" /\ gui.busy
  \/ part = "instance" /\ instancePc["p1"] \in {"locked", "connecting", "waiting"}
  \/ part = "shell" /\ pet.exitEmitted /\ main # "ended"
  \/ part = "palette" /\ Menu!Open /\ down /\ cursor = "desktop"

Acknowledged == part = "instance" /\ "p1" \in queued
ActedUpon ==
  part = "instance" /\ ("p1" \in shown \/ server = Instances!Nobody
                          \/ instancePc[server] # "running")

Occupying ==
  part = "instance" /\ "p1" \in Instances!Clients
    /\ \E p \in {"p1", "p2"} : Instances!Serves(p)

\* Whatever fails, a toggle of autostart ends its busy state, a start decides
\* and an acknowledged one is shown, a silent client gives its place back, an
\* exit quits or can be asked for again, and a lasting press beside the
\* palette closes it.  (Processes are interchangeable: one is followed.)
DesktopSettles ==
  (Waiting ~> ~Waiting) /\ (Acknowledged ~> ActedUpon) /\ (Occupying ~> ~Occupying)

Running ==
  \/ part = "probe" /\ probePc # "done"
  \/ part = "harness" /\ Harness!Busy("h1")

\* The probe's observer ends, and so does a harness whose program never does.
PackagingEnds == Running ~> ~Running
=============================================================================
