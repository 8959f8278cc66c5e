--------------------------- MODULE ApplicationShell ---------------------------
(***************************************************************************)
(* The shell of the pet application: main's start-up, the coordinator      *)
(* between pet window, system tray, settings and runtime bridge, the safe  *)
(* exit with its failures, and the start-up observer that writes the       *)
(* owner-readiness checkpoint (pet_application.py, system_tray.py,         *)
(* owner_ui_readiness.py, main_window.py).                                 *)
(*                                                                         *)
(* The bridge is reduced to its states and to the results it reports; its  *)
(* own protocol is RuntimeBridge.  A slot runs to its end in the GUI       *)
(* thread, so each event is one action with all the slots it reaches.      *)
(***************************************************************************)
EXTENDS Naturals, Sequences

CONSTANTS
    HasMainWindow, \* the coordinator was given a MainWindow; main gives None
    Diagnosed,     \* --diagnose-owner-ui-readiness was asked for
    TrayFails,     \* the tray view may raise from show, update_state and close
    WriteFails,    \* a checkpoint or the final settings may fail to be written
    MaxExits       \* bound on the exit requests of a behaviour

\* What the constants must satisfy.
ShellAssumption ==
    /\ {HasMainWindow, Diagnosed, TrayFails, WriteFails} \subseteq BOOLEAN
    /\ MaxExits \in Nat \ {0}

VARIABLES
    main,    \* where main is
    runtimeBridge,  \* the bridge's state and whether a shutdown is under way
    win,     \* MainWindow
    pet,     \* PetWindow
    tray,    \* SystemTrayController and what its view shows
    rec,     \* OwnerUiCheckpointRecorder
    obs,     \* _OwnerUiStartupObserver
    saves,   \* attempts to save the pet settings
    dash,    \* the Dashboard is open
    exits    \* exit requests so far

applicationVars == <<main, runtimeBridge, win, pet, tray, rec, obs, saves, dash, exits>>

(***************************************************************************)
(* The checkpoint: strictly forward stages, a terminal one, and a write    *)
(* failure that ends the evidence.                                         *)
(***************************************************************************)
Started == 1
ArgumentsValidated == 2
Owner == 3
CompositionRoot == 4
RuntimeStarting == 5
PetCreated == 6
SettingsLoaded == 7
PetVisible == 8
TrayCreated == 9
TrayVisible == 10
RuntimeReadyStage == 11
ApplicationReady == 12
Closing == 13
Closed == 14
FailedSafe == 15

\* record: the order is consumed even when the write fails; nothing is recorded unless asked for.
Recorded(r, stage, ok) ==
    LET order == IF stage = FailedSafe THEN r.order ELSE stage
    IN  IF ~Diagnosed \/ r.terminal \/ r.failed \/ (stage # FailedSafe /\ stage <= r.order) THEN r
        ELSE IF ~ok THEN [r EXCEPT !.failed = TRUE, !.order = order]
        ELSE [r EXCEPT !.events = Append(@, stage), !.order = order,
                       !.terminal = stage \in {Closed, FailedSafe}]

\* Which write of an event fails; 0 is none.
FailingWrites == IF WriteFails THEN 0..3 ELSE {0}

\* One, two and three stages within one event.
RecordedOne(r, stage, fails) == Recorded(r, stage, fails # 1)

RecordedTwo(r, first, second, fails) == Recorded(RecordedOne(r, first, fails), second, fails # 2)

RecordedThree(r, first, second, third, fails) ==
    Recorded(RecordedTwo(r, first, second, fails), third, fails # 3)

\* The stage is in the evidence.
InEvidence(stage, r) == \E i \in DOMAIN r.events : r.events[i] = stage

(***************************************************************************)
(* The tray.                                                               *)
(***************************************************************************)
Shown(p) == [visible |-> p.visible, paused |-> p.life = "paused", closing |-> p.life = "closing"]

\* Whether the calls of the tray view in an event succeed.
TrayCalls == IF TrayFails THEN BOOLEAN ELSE {TRUE}

\* refresh: the first exception disables every later one.
Refreshed(t, p, ok) ==
    IF t.closed \/ t.refreshOff \/ t.view # "held" THEN t
    ELSE IF ok THEN [t EXCEPT !.shows = Shown(p)] ELSE [t EXCEPT !.refreshOff = TRUE]

\* The constructor: no view, a view, or one whose first update or show raised.
TrayMade(view) ==
    [view |-> IF view = "raised" THEN "pending" ELSE view, shows |-> Shown(pet), exitReq |-> FALSE,
     shutStarted |-> FALSE, refreshOff |-> FALSE, closed |-> FALSE]

\* _exit_requested or _shutdown_started or _closed
TrayRefuses == tray.exitReq \/ tray.shutStarted \/ tray.closed

\* A menu entry can be clicked: the tray holds a view whose last update found the pet open.
TrayOffers == tray.view = "held" /\ ~tray.shows.closing /\ ~TrayRefuses

\* recover_failed_shutdown
TrayRecovered(t, p, ok) ==
    IF t.closed \/ t.shutStarted THEN t
    ELSE Refreshed([t EXCEPT !.exitReq = FALSE, !.refreshOff = FALSE], p, ok)

\* complete_shutdown and _try_close_pending_view: a close that raises keeps the view.
TrayCompleted(t, ok) ==
    IF t.closed THEN t
    ELSE [t EXCEPT !.shutStarted = TRUE, !.exitReq = TRUE,
                   !.closed = t.view = "none" \/ ok,
                   !.view = IF t.view = "none" \/ ok THEN "none" ELSE "pending"]

(***************************************************************************)
(* The pet window, reduced to what the shell sees of it.                   *)
(***************************************************************************)
\* recover_from_failed_close: paused, its timer runs again.
PetRecovered(p) ==
    IF p.life # "closing" THEN p
    ELSE [p EXCEPT !.life = "paused", !.exitEmitted = FALSE, !.timer = TRUE]

\* complete_safe_close, which closes the window and its renderer.
PetCompleted(p) ==
    [p EXCEPT !.final = TRUE, !.timer = FALSE, !.renderer = FALSE, !.visible = FALSE]

NoTray == [view |-> "none", shows |-> [visible |-> FALSE, paused |-> FALSE, closing |-> FALSE],
           exitReq |-> FALSE, shutStarted |-> FALSE, refreshOff |-> FALSE, closed |-> FALSE]

ShellInit ==
    /\ main = "arguments"
    /\ runtimeBridge = [state |-> "none", shutting |-> FALSE]
    /\ win = [closing |-> FALSE, safe |-> FALSE, final |-> FALSE]
    /\ pet = [life |-> "none", exitEmitted |-> FALSE, visible |-> FALSE, final |-> FALSE,
              timer |-> FALSE, renderer |-> FALSE]
    /\ tray = NoTray
    /\ rec = [events |-> <<>>, order |-> 0, terminal |-> FALSE, failed |-> FALSE]
    /\ obs = [made |-> FALSE, runtime |-> FALSE, ready |-> FALSE, closing |-> FALSE]
    /\ saves = 0 /\ dash = FALSE /\ exits = 0

Rest == <<win, obs, saves, dash, exits>>

(***************************************************************************)
(* main, up to its event loop.                                             *)
(***************************************************************************)
\* Every early return of main: invalid arguments, not the owner, no role pack, no window.
ReturnEarly(fails) ==
    /\ main \in {"arguments", "instance", "compose"}
    /\ rec' = IF main = "arguments" THEN RecordedTwo(rec, Started, FailedSafe, fails)
              ELSE RecordedOne(rec, FailedSafe, fails)
    /\ main' = "ended"
    /\ UNCHANGED <<runtimeBridge, pet, tray>> /\ UNCHANGED Rest

ParseArguments(fails) ==
    /\ main = "arguments" /\ main' = "instance"
    /\ rec' = RecordedTwo(rec, Started, ArgumentsValidated, fails)
    /\ UNCHANGED <<runtimeBridge, pet, tray>> /\ UNCHANGED Rest

\* The owner composes; MainWindow, where there is one, starts the runtime.
BecomeOwner(fails) ==
    /\ main = "instance" /\ main' = "compose"
    /\ runtimeBridge' = [runtimeBridge EXCEPT !.state = IF HasMainWindow THEN "starting" ELSE "new"]
    /\ rec' = RecordedThree(rec, Owner, CompositionRoot, RuntimeStarting, fails)
    /\ UNCHANGED <<pet, tray>> /\ UNCHANGED Rest

\* The pet window, the restored settings, show.
MakePet(fails) ==
    /\ main = "compose" /\ main' = "tray"
    /\ pet' = [pet EXCEPT !.life = "running", !.visible = TRUE, !.timer = TRUE, !.renderer = TRUE]
    /\ rec' = RecordedTwo(rec, PetCreated, SettingsLoaded, fails)
    /\ UNCHANGED <<runtimeBridge, tray>> /\ UNCHANGED Rest

\* The tray and the observer; app.exec follows.
MakeTray(view, fails) ==
    /\ main = "tray" /\ main' = "loop"
    /\ tray' = TrayMade(view)
    /\ obs' = [obs EXCEPT !.made = Diagnosed]
    /\ rec' = IF view = "held" THEN RecordedThree(rec, PetVisible, TrayCreated, TrayVisible, fails)
              ELSE RecordedTwo(rec, PetVisible, TrayCreated, fails)
    /\ UNCHANGED <<runtimeBridge, win, pet, saves, dash, exits>>

InLoop == main = "loop"

(***************************************************************************)
(* The start-up observer.                                                  *)
(***************************************************************************)
\* classify_owner_ui_readiness of the owner's snapshot with a ready runtime is NONE; the pet's
\* window may lie on any screen or on none.
UiReady(inWorkspace) == pet.visible /\ inWorkspace /\ tray.view = "held"

\* runtime_ready reaches _on_runtime_ready, which publishes application_ready or fails safe.
RuntimeReady(fails) ==
    /\ InLoop /\ runtimeBridge.state = "starting"
    /\ runtimeBridge' = [runtimeBridge EXCEPT !.state = "ready"]
    /\ IF obs.made /\ ~obs.closing
       THEN \E inWorkspace \in BOOLEAN : LET ready == UiReady(inWorkspace) IN
            /\ obs' = [obs EXCEPT !.runtime = TRUE, !.ready = ready]
            /\ rec' = RecordedTwo(rec, RuntimeReadyStage, IF ready THEN ApplicationReady ELSE FailedSafe, fails)
       ELSE UNCHANGED <<obs, rec>>
    /\ UNCHANGED <<main, win, pet, tray, saves, dash, exits>>

(***************************************************************************)
(* Commands of the user, from the tray and from the pet.                   *)
(***************************************************************************)
\* toggle_pet_visibility: show_pet and hide_pet ignore a closing pet.
Toggle(fromTray, ok) ==
    /\ InLoop /\ pet.life # "closing" /\ ~pet.final
    /\ fromTray => TrayOffers
    /\ pet' = [pet EXCEPT !.visible = ~@]
    /\ tray' = Refreshed(tray, pet', ok)
    /\ UNCHANGED <<main, runtimeBridge, win, rec, obs, saves, dash, exits>>

\* toggle_paused
Pause(fromTray, ok) ==
    /\ InLoop /\ pet.life \in {"running", "paused"}
    /\ fromTray => TrayOffers
    /\ pet' = [pet EXCEPT !.life = IF @ = "paused" THEN "running" ELSE "paused"]
    /\ tray' = Refreshed(tray, pet', ok)
    /\ UNCHANGED <<main, runtimeBridge, win, rec, obs, saves, dash, exits>>

\* open_dashboard has no guard of its own; open_agent_window, from the pet, has.
OpenDashboard(fromTray, ok) ==
    /\ InLoop /\ ~dash
    /\ IF fromTray THEN TrayOffers ELSE pet.life # "closing"
    /\ dash' = TRUE
    /\ tray' = IF fromTray THEN Refreshed(tray, pet, ok) ELSE tray
    /\ UNCHANGED <<main, runtimeBridge, win, pet, rec, obs, saves, exits>>

CloseDashboard ==
    /\ dash /\ dash' = FALSE
    /\ UNCHANGED <<main, runtimeBridge, win, pet, tray, rec, obs, saves, exits>>

\* aboutToShow of the tray's menu
RefreshMenu(ok) ==
    /\ InLoop /\ tray.view = "held"
    /\ tray' = Refreshed(tray, pet, ok)
    /\ UNCHANGED <<main, runtimeBridge, win, pet, rec, obs, saves, dash, exits>>

(***************************************************************************)
(* The safe exit.                                                          *)
(***************************************************************************)
ThreadRuns == runtimeBridge.state \in {"starting", "ready", "closing"}

\* MainWindow.request_safe_close -> closeEvent: a thread that does not run lets the window
\* close and sends nothing to the bridge.
BeginShutdown ==
    IF ThreadRuns /\ ~win.closing
    THEN /\ win' = [win EXCEPT !.safe = TRUE, !.closing = TRUE]
         /\ runtimeBridge' = [state |-> "closing", shutting |-> TRUE]
    ELSE win' = [win EXCEPT !.safe = TRUE] /\ UNCHANGED runtimeBridge

\* request_safe_exit of the tray, the pet's menu or its closeEvent: the pet stops its timer,
\* tells the tray and asks the coordinator to shut the runtime down.
ExitAsked(fromTray) ==
    /\ InLoop /\ exits < MaxExits /\ ~pet.exitEmitted /\ ~pet.final
    /\ fromTray => TrayOffers
    /\ exits' = exits + 1

PetClosing == [pet EXCEPT !.life = "closing", !.exitEmitted = TRUE, !.timer = FALSE]

TrayAsked(fromTray, ok) == Refreshed([tray EXCEPT !.exitReq = @ \/ fromTray], PetClosing, ok)

\* With a MainWindow: the worker answers later.
RequestExit(fromTray, ok) ==
    /\ HasMainWindow /\ ExitAsked(fromTray)
    /\ pet' = PetClosing /\ tray' = TrayAsked(fromTray, ok)
    /\ BeginShutdown
    /\ UNCHANGED <<main, rec, obs, saves, dash>>

\* MainWindow._on_shutdown_finished, connected before the coordinator's slot.
WindowTold(success) ==
    win' = IF ~win.closing THEN win
           ELSE IF success THEN [win EXCEPT !.final = TRUE]
           ELSE [win EXCEPT !.closing = FALSE, !.safe = FALSE]

\* Seeded fault: only the pet recovers, the tray still believes an exit is under way.
FinishedFailureForgetsTray(ok) ==
    /\ WindowTold(FALSE)
    /\ pet' = PetRecovered(pet)
    /\ tray' = Refreshed(tray, pet', ok)
    /\ UNCHANGED <<main, saves>>

\* _on_shutdown_finished(False): the pet recovers, its signal refreshes the tray, the tray recovers.
FinishedFailure(ok) ==
    /\ WindowTold(FALSE)
    /\ pet' = PetRecovered(pet)
    /\ tray' = TrayRecovered(Refreshed(tray, pet', ok), pet', ok)
    /\ UNCHANGED <<main, saves>>

\* _save_pet_settings: one attempt; that the snapshot or the write fails is only recorded.
SavePetSettings == saves' = saves + 1

\* _on_shutdown_finished(True): save (a failure is only recorded), close tray, pet and window,
\* and quit from a later event.
FinishedSuccess(t, p, ok) ==
    /\ WindowTold(TRUE)
    /\ SavePetSettings
    /\ tray' = TrayCompleted(t, ok)
    /\ pet' = PetCompleted(p)
    /\ main' = "quitting"

\* Without a MainWindow nothing ever started the runtime: bridge.shutdown reports success at
\* once, within the exit request.
RequestExitNew(fromTray, ok) ==
    /\ ~HasMainWindow /\ ExitAsked(fromTray)
    /\ runtimeBridge' = [state |-> "closed", shutting |-> FALSE]
    /\ FinishedSuccess(TrayAsked(fromTray, ok), PetClosing, ok)
    /\ UNCHANGED <<rec, obs, dash>>

\* The thread has ended and the shutdown outcome is success.
RuntimeShutdownSucceeds(ok) ==
    /\ InLoop /\ runtimeBridge.shutting
    /\ runtimeBridge' = [state |-> "closed", shutting |-> FALSE]
    /\ FinishedSuccess(tray, pet, ok)
    /\ UNCHANGED <<rec, obs, dash, exits>>

\* Provider cleanup failed: the worker stays alive in closing, a later shutdown may be sent.
RuntimeShutdownFails(ok) ==
    /\ InLoop /\ runtimeBridge.shutting
    /\ runtimeBridge' = [state |-> "closing", shutting |-> FALSE]
    /\ FinishedFailure(ok)
    /\ UNCHANGED <<rec, obs, dash, exits>>

\* The thread ends without a successful outcome: bootstrap failed, cancelled, or died.
ThreadEnds(ok) ==
    /\ InLoop /\ ThreadRuns
    /\ runtimeBridge' = [state |-> "failed", shutting |-> FALSE]
    /\ FinishedFailure(ok)
    /\ UNCHANGED <<rec, obs, dash, exits>>

\* quit_requested: aboutToQuit reaches begin_closing, app.exec returns, complete_close.
QuitRequested(fails) ==
    /\ main = "quitting" /\ main' = "ended"
    /\ obs' = [obs EXCEPT !.closing = @ \/ obs.made]
    /\ rec' = IF ~obs.made \/ obs.closing THEN rec
              ELSE IF obs.ready THEN RecordedTwo(rec, Closing, Closed, fails)
              ELSE RecordedOne(rec, FailedSafe, fails)
    /\ UNCHANGED <<runtimeBridge, win, pet, tray, saves, dash, exits>>

Users(ok) ==
    \/ \E fromTray \in BOOLEAN :
           \/ Toggle(fromTray, ok) \/ Pause(fromTray, ok) \/ OpenDashboard(fromTray, ok) 
           \/ RequestExit(fromTray, ok) \/ RequestExitNew(fromTray, ok)
    \/ RefreshMenu(ok)

Settle(ok) == RuntimeShutdownSucceeds(ok) \/ RuntimeShutdownFails(ok) \/ ThreadEnds(ok)

ShellNext ==
    \/ \E fails \in FailingWrites :
           \/ ReturnEarly(fails) \/ ParseArguments(fails) \/ BecomeOwner(fails) \/ MakePet(fails) \/ RuntimeReady(fails) \/ QuitRequested(fails)
           \/ \E view \in IF TrayFails THEN {"held", "none", "raised"} ELSE {"held"} : MakeTray(view, fails)
    \/ \E ok \in TrayCalls : Users(ok) \/ Settle(ok)
    \/ CloseDashboard

ShellSpec == ShellInit /\ [][ShellNext]_applicationVars

\* main's steps run, the bridge reports the end of a shutdown it began and the queued quit runs.
ShellFairness ==
    /\ WF_applicationVars(\E fails \in FailingWrites : ParseArguments(fails) \/ BecomeOwner(fails) \/ MakePet(fails) \/ MakeTray("held", fails))
    /\ WF_applicationVars(runtimeBridge.shutting /\ \E ok \in BOOLEAN : Settle(ok))
    /\ WF_applicationVars(\E fails \in FailingWrites : QuitRequested(fails))

FairShellSpec == ShellSpec /\ ShellFairness

ShellTypeOK ==
    /\ main \in {"arguments", "instance", "compose", "tray", "loop", "quitting", "ended"}
    /\ runtimeBridge \in [state : {"none", "new", "starting", "ready", "closing", "closed", "failed"}, shutting : BOOLEAN]
    /\ win \in [closing : BOOLEAN, safe : BOOLEAN, final : BOOLEAN]
    /\ pet \in [life : {"none", "running", "paused", "closing"}, exitEmitted : BOOLEAN,
                visible : BOOLEAN, final : BOOLEAN, timer : BOOLEAN, renderer : BOOLEAN]
    /\ tray \in [view : {"none", "held", "pending"}, exitReq : BOOLEAN, shutStarted : BOOLEAN,
                 shows : [visible : BOOLEAN, paused : BOOLEAN, closing : BOOLEAN],
                 refreshOff : BOOLEAN, closed : BOOLEAN]
    /\ rec \in [events : Seq(Started..FailedSafe), order : 0..Closed,
                terminal : BOOLEAN, failed : BOOLEAN]
    /\ obs \in [made : BOOLEAN, runtime : BOOLEAN, ready : BOOLEAN, closing : BOOLEAN]
    /\ saves \in 0..1 /\ dash \in BOOLEAN /\ exits \in 0..MaxExits

\* The process quits only after the runtime reported a successful shutdown, with the settings
\* saved once, the renderer closed and the tray closed or kept for a retry.
QuitAfterCleanup ==
    main = "quitting" =>
        /\ runtimeBridge.state = "closed" /\ saves = 1
        /\ pet.final /\ ~pet.renderer /\ ~pet.timer
        /\ tray.closed \/ tray.view = "pending"

\* Pet, tray, main window and bridge agree on whether an exit is under way: after a failed
\* shutdown the pet's timer runs and the tray can ask again.
ExitIsAgreed ==
    main = "loop" =>
        /\ pet.life = "closing" <=> pet.exitEmitted
        /\ pet.life = "closing" <=> ~pet.timer
        /\ tray.exitReq => pet.exitEmitted
        /\ win.closing => pet.exitEmitted /\ runtimeBridge.shutting

\* As long as the tray refreshes, its menu shows the pet as it is: every change of the pet
\* reaches it in the same event.
TrayShowsThePet ==
    main = "loop" /\ tray.view = "held" /\ ~tray.refreshOff => tray.shows = Shown(pet)

\* The checkpoint is evidence without a gap: it begins with the start, and each stage follows
\* the one before it; only the visible tray may be missing, and a failure ends it.
TimelineHasNoGap ==
    \A i \in DOMAIN rec.events :
        LET before == IF i = 1 THEN 0 ELSE rec.events[i - 1] IN
        \/ rec.events[i] = before + 1
        \/ rec.events[i] = RuntimeReadyStage /\ before = TrayCreated
        \/ rec.events[i] = FailedSafe /\ i = Len(rec.events)

\* Pet, tray, window and bridge agree on an exit, the process quits only after the clean-up,
\* the tray shows the pet, and the checkpoint has no gap.
ExitIsOrderly ==
    /\ ShellTypeOK /\ TimelineHasNoGap /\ QuitAfterCleanup
    /\ ExitIsAgreed /\ TrayShowsThePet

\* The Dashboard opens from the tray of a closing pet only if the tray's menu is stale.
NoWindowOpensOnExit ==
    dash' /\ ~dash /\ pet.life = "closing" => tray.refreshOff

\* Ready is recorded only in a state that is ready, and a closed timeline passed through it.
ReadyIsTruthful ==
    /\ InEvidence(ApplicationReady, rec') /\ ~InEvidence(ApplicationReady, rec)
         => runtimeBridge'.state = "ready" /\ pet.visible /\ tray.view = "held"
    /\ InEvidence(Closed, rec') => InEvidence(ApplicationReady, rec')

\* An exit that was asked for quits the process or can be asked for again.
ExitSettles == pet.exitEmitted ~> (main = "ended" \/ ~pet.exitEmitted)

\* What the documents say and main, which builds no main window, does not do
\* (README, disagreements): the owner's event loop starts the runtime.
RuntimeStarts == InLoop ~> (runtimeBridge.state # "new")

=============================================================================
