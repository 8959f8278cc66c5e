----------------------------- MODULE PetWindow -----------------------------
(***************************************************************************)
(* The window of the pet (presentation/qt/pet/pet_window.py) as the driver *)
(* of PetEngine: its Qt event handlers, its requests and its timer, each   *)
(* as the whole handler.  A tick runs through its playback events and its  *)
(* layout before anything else happens.                                    *)
(*                                                                         *)
(* Qt delivers a move before a release at a new place, so a release never  *)
(* crosses the drag threshold by itself; a press finds the gesture idle.   *)
(***************************************************************************)
EXTENDS PetEngine

\* The player's answers to the commands of one handler.
Answers == [clear : BOOLEAN, play : BOOLEAN, contain : BOOLEAN]

Fresh ==
    [s |-> InitialState, mode |-> "AUTONOMOUS", pending |-> NoIntent, action |-> "none",
     resume |-> "none", sched |-> NoSchedule, drag |-> FALSE, player |-> T0!NoEpoch,
     t |-> [active |-> T0!NoRequest, seq |-> "none", index |-> 0, pendingExit |-> FALSE,
            epoch |-> T0!NoEpoch, desired |-> "none", confirmed |-> T0!NoEpoch,
            health |-> "HEALTHY", generation |-> 0, watchdog |-> FALSE]]

\* The window starts the autonomous relax as it is built.
Init ==
    /\ \E ans \in Answers :
         \E a \in {StartAutonomous(Fresh, ans)} :
             pet = a.p /\ call = [op |-> "start", outcome |-> a.outcome]
    /\ gesture = "IDLE"
    /\ source = TRUE
    /\ tick = NoTick

Called(op, a) == pet' = a.p /\ call' = [op |-> op, outcome |-> a.outcome]

Between == ~tick.running /\ pet.t.generation < MaxGeneration

NotClosing == pet.s.life # "CLOSING"

\* _request_pet_action; without a playback source the actions are withdrawn.
RequestAction ==
    /\ Between /\ NotClosing /\ source
    /\ \E action \in Requested, src \in Sources, ans \in Answers :
         Called("request", SubmitIntent(pet, Intent(pet, action, "EXPLICIT", src), ans))
    /\ UNCHANGED <<gesture, source, tick>>

\* _resume_pet_autonomous
RequestResume ==
    /\ Between /\ NotClosing /\ source
    /\ \E ans \in Answers : Called("resume_autonomous", ResumeAutonomous(pet, ans))
    /\ UNCHANGED <<gesture, source, tick>>

\* request_reminder_animation, request_thinking_animation, request_walk
RequestLegacy ==
    /\ Between
    /\ \E event \in {"START_REMINDING", "START_THINKING", "START_WALKING_LEFT"}, ans \in Answers :
         Called("legacy", HandleEvent(pet, event, ans))
    /\ UNCHANGED <<gesture, source, tick>>

\* mousePressEvent with the left button.
Press ==
    /\ Between /\ NotClosing
    /\ gesture = "IDLE"
    /\ gesture' = "PENDING"
    /\ call' = [op |-> "press", outcome |-> "none"]
    /\ UNCHANGED <<pet, source, tick>>

\* mouseMoveEvent that crosses the threshold; a refusal ends the gesture.
BeginDrag ==
    /\ Between /\ gesture = "PENDING"
    /\ \E ans \in Answers :
         \E a \in {EngineStartDragging(pet, ans)} :
             /\ Called("begin_drag", a)
             /\ gesture' = IF a.outcome = "ACCEPTED" THEN "DRAGGING" ELSE "IDLE"
    /\ UNCHANGED <<source, tick>>

\* mouseMoveEvent in a drag: drag_to raises when the pet is not dragged.
Drag ==
    /\ Between /\ gesture = "DRAGGING"
    /\ Called("drag", Answer(pet, IF pet.s.motion = "DRAGGING" THEN "DRAGGED" ELSE "ILLEGAL"))
    /\ UNCHANGED <<gesture, source, tick>>

\* mouseReleaseEvent: a drag is released, anything shorter is a click.
Release ==
    /\ Between
    /\ \/ /\ gesture = "DRAGGING"
          /\ \E grounded \in BOOLEAN : Called("release", EngineReleaseDrag(pet, grounded))
       \/ /\ gesture = "PENDING" /\ NotClosing /\ source
          /\ \E ans \in Answers :
               Called("click", SubmitIntent(pet, Intent(pet, "INTERACT", "EXPLICIT", "USER"), ans))
       \/ /\ gesture = "PENDING" /\ ~(NotClosing /\ source)
          /\ Called("click", Answer(pet, "INVALID_SEQUENCE"))
    /\ gesture' = "IDLE"
    /\ UNCHANGED <<source, tick>>

\* _cancel_pointer_gesture: a running drag is aborted as a failure.
Cancelled(p, ans) ==
    IF gesture = "DRAGGING" THEN ContainFailure(p, ans).p ELSE p

\* hideEvent
Hide ==
    /\ Between
    /\ \E ans \in Answers : Called("hide", Answer(Cancelled(pet, ans), "HIDDEN"))
    /\ gesture' = "IDLE"
    /\ UNCHANGED <<source, tick>>

\* toggle_paused
TogglePaused ==
    /\ Between /\ NotClosing
    /\ \E ans \in Answers :
         LET event == IF pet.s.life = "PAUSED" THEN "RESUME" ELSE "PAUSE"
         IN  Called("toggle_paused", HandleEvent(Cancelled(pet, ans), event, ans))
    /\ gesture' = "IDLE"
    /\ UNCHANGED <<source, tick>>

\* request_safe_exit
RequestSafeExit ==
    /\ Between /\ NotClosing
    /\ \E ans \in Answers :
         Called("safe_exit", HandleEvent(Cancelled(pet, ans), "BEGIN_CLOSING", ans))
    /\ gesture' = "IDLE"
    /\ UNCHANGED <<source, tick>>

\* recover_from_failed_close
RecoverFromFailedClose ==
    /\ Between /\ ~NotClosing
    /\ Called("recover_close", Answer([pet EXCEPT !.s = RecoverFailedClose(@)], "RECOVERED"))
    /\ UNCHANGED <<gesture, source, tick>>

(***************************************************************************)
(* _advance_animation.  The timer is stopped while the pet is closing.     *)
(***************************************************************************)
\* An airborne pet starts nothing of its own, and its advance asks the player
\* for nothing.
RandomActions ==
    IF pet.s.motion = "IDLE"
      THEN {"none", "START_WALKING_LEFT", "START_WALKING_RIGHT", "START_THINKING"}
      ELSE {"none"}

TickAnswers ==
    IF pet.s.motion \in Airborne THEN {[clear |-> TRUE, play |-> TRUE, contain |-> TRUE]}
                                 ELSE Answers

\* The events of one update all carry the stamp the player had at its start.
TickWith(due) ==
    /\ ~tick.running /\ NotClosing
    /\ pet.t.generation < MaxGeneration \/ pet.s.motion \in Airborne
    /\ \E blink \in BOOLEAN, ans \in TickAnswers, random \in RandomActions :
         \E a \in {AdvanceEngine(pet, blink, random, due, ans)} :
             /\ Called("advance", a)
             /\ \E n \in 0..(IF source /\ a.p.player # T0!NoEpoch THEN MaxEvents ELSE 0) :
                  tick' = [left |-> n, running |-> TRUE, stamp |-> a.p.player]
    /\ UNCHANGED <<gesture, source>>

BeginTick == \E due \in BOOLEAN : TickWith(due)

StampedEvent ==
    [gen |-> tick.stamp.gen, action |-> tick.stamp.action,
     boundary |-> tick.stamp.action \notin {"wave", "happy"}]

Draws == IF pet.sched.state \in DOMAIN WEIGHTS THEN Choices(pet.sched) ELSE {"not_due"}

\* The window gives up on a renderer that failed.
Abandon(op, ans) ==
    /\ Called(op, ContainFailure(pet, ans))
    /\ source' = FALSE

\* One event of the update.  An exception gives the renderer up.
Deliver ==
    /\ tick.running /\ tick.left > 0
    /\ \E choice \in Draws, ans \in Answers :
         \E a \in {HandlePlaybackEvent(pet, StampedEvent, choice, ans)} :
             IF a.outcome = "RAISED"
               THEN Abandon("RAISED", ans) /\ tick' = [tick EXCEPT !.left = 0]
               ELSE /\ Called("event", a)
                    /\ tick' = [tick EXCEPT !.left = @ - 1]
                    /\ UNCHANGED source
    /\ UNCHANGED gesture

\* The player raises instead of reporting its events.
UpdateFails ==
    /\ tick.running /\ tick.left = MaxEvents /\ source
    /\ \E ans \in Answers : Abandon("update_fails", ans)
    /\ tick' = [tick EXCEPT !.left = 0]
    /\ UNCHANGED gesture

\* The layout is planned and the frame rendered; either may fail.  A layout
\* that fails contains the playback, a renderer that fails is given up, and a
\* one-shot whose workspace changed gives way to relax.
EndTick ==
    /\ tick.running /\ tick.left = 0
    /\ tick' = NoTick
    /\ \/ /\ call' = [op |-> "end_tick", outcome |-> "none"]
          /\ UNCHANGED <<pet, source>>
       \/ \E ans \in Answers :
            \/ Called("layout_fails", ContainFailure(pet, ans)) /\ UNCHANGED source
            \/ source /\ Abandon("renderer_fails", ans)
            \/ /\ pet.s.activity = "SPECIAL"
               /\ Called("workspace_changed",
                         StartAutonomous(ContainFailure(pet, ans).p, ans))
               /\ UNCHANGED source
    /\ UNCHANGED gesture

Next ==
    \/ RequestAction \/ RequestResume \/ RequestLegacy
    \/ Press \/ BeginDrag \/ Drag \/ Release \/ Hide
    \/ TogglePaused \/ RequestSafeExit \/ RecoverFromFailedClose
    \/ BeginTick \/ Deliver \/ UpdateFails \/ EndTick

Spec == Init /\ [][Next]_vars

\* The timer goes on ticking and time passes: a fall reaches the ground and a
\* landing pose ends.  Nothing is promised of the user or of the player.
TickOn(A) == pet.s.motion \in {"FALLING", "LANDING"} /\ A

LiveSpec ==
    Spec /\ SF_vars(TickOn(TickWith(TRUE))) /\ WF_vars(TickOn(Deliver)) /\ WF_vars(TickOn(EndTick))

(***************************************************************************)
(* Properties.                                                             *)
(***************************************************************************)
\* Every variable keeps its type.
TypeOK ==
    /\ pet.s \in Layered
    /\ pet.mode \in {"AUTONOMOUS", "EXPLICIT_HOLD", "SUSPENDED"}
    /\ pet.action \in ProductionAction \cup {"none"}
    /\ pet.resume \in ProductionAction \cup {"none"}
    /\ pet.sched.state \in ProductionAction \cup {"none"}
    /\ pet.drag \in BOOLEAN /\ source \in BOOLEAN
    /\ gesture \in {"IDLE", "PENDING", "DRAGGING"}
    /\ tick.left \in 0..MaxEvents

\* No transaction ends with a playback its semantic state does not allow: the
\* engine's closing assertion (_assert_transaction_compatible) never raises,
\* whatever fails in between, and the layers stay a legal combination.
TransactionsEndCompatible ==
    /\ call.outcome # "RAISED" /\ call.op # "RAISED"
    /\ ValidLayered(pet.s)

\* A pet that walks shows its walk, in its direction, as long as the renderer
\* answers: movement and playback start, turn and fail together.
WalkingShowsWalk ==
    pet.s.life = "ACTIVE" /\ pet.s.motion \in Walking =>
        \/ pet.t.confirmed.action \in Allowed(pet.s)
        \/ pet.t.health = "UNKNOWN"

\* The engine is autonomous only over a healthy, confirmed playback nobody
\* else asked for, and the scheduler's dwell is the one of that playback: no
\* boundary of another play can be taken for it.
AutonomousOwnsPlayback ==
    pet.mode = "AUTONOMOUS" =>
        /\ pet.t.health = "HEALTHY" /\ pet.t.confirmed # T0!NoEpoch
        /\ pet.sched.gen = pet.t.confirmed.gen
        /\ Track0Action(pet.sched.state) = pet.t.confirmed.action
        /\ pet.t.active.origin # "EXPLICIT"

\* A request waits only for a one-shot that is really playing, and an engine
\* with a waiting request is suspended: it can neither be lost behind a
\* cleared playback nor be overtaken by the scheduler.
PendingWaitsForOneShot ==
    pet.pending # NoIntent => Protected(pet) /\ pet.mode = "SUSPENDED"

\* While the pet is dragged, falls or lands, autonomy and explicit holds are
\* off and nothing but the fallback of the drag plays.
AirborneIsSuspended ==
    pet.s.life = "ACTIVE" /\ pet.s.motion \in Airborne =>
        /\ pet.mode = "SUSPENDED" /\ pet.action = "none"
        /\ pet.t.desired \in {"idle", "none"}

\* A paused or closing pet plays nothing and starts nothing.
InactiveIsSilent ==
    pet.s.life # "ACTIVE" => pet.t.active = T0!NoRequest /\ pet.mode = "SUSPENDED"

\* The controller's own consistency holds under the engine's calls.
Track0Consistent == T0!ConfirmedIsLastCommand /\ T0!RequestHasPlayback /\ T0!FailedPlaybackIsEmpty

\* State, playback, scheduler, waiting request and Track 0 stay consistent.
PetIsConsistent ==
    /\ TypeOK /\ TransactionsEndCompatible /\ WalkingShowsWalk /\ AutonomousOwnsPlayback
    /\ PendingWaitsForOneShot /\ AirborneIsSuspended /\ InactiveIsSilent /\ Track0Consistent

\* An event of a play that is no longer confirmed changes nothing, even when
\* it was reported before an earlier event of the same tick replaced the play.
StaleEventIsHarmless ==
    call'.op = "event" /\ tick.stamp # pet.t.confirmed => pet' = pet

\* A loop the user asked for is never replaced by the scheduler, and the
\* scheduler stays in one state at most twice in a row.
SchedulerYields ==
    call'.op = "event" /\ tick.left > tick'.left =>
       /\ pet.mode = "EXPLICIT_HOLD" => pet'.t = pet.t
       /\ pet'.sched.stays <= 2

\* A request that waited for a one-shot is what the engine turns to when the
\* one-shot ends: it is submitted, not forgotten.
PendingIsServed ==
    call'.op = "event" /\ pet.pending # NoIntent /\ pet'.pending = NoIntent =>
       \/ pet'.action = pet.pending.action
       \/ pet'.t.health # "HEALTHY"

\* What one playback event may do: nothing when it is stale, never over a loop
\* the user asked for, and a waiting request is served by the one-shot's end.
PlaybackEventsAreSafe == [][StaleEventIsHarmless /\ SchedulerYields /\ PendingIsServed]_vars

In(motion) == pet.s.life = "ACTIVE" /\ pet.s.motion = motion

\* A pet that falls or lands comes to rest unless it is paused or closed,
\* whatever the renderer fails at on the way.
FallEnds == (In("FALLING") ~> ~In("FALLING")) /\ (In("LANDING") ~> ~In("LANDING"))

(***************************************************************************)
(* What the design documents say and the code does not do.                 *)
(***************************************************************************)
\* A walk ends with its playback, a clear that failed included.
WalkStopsWithPlayback ==
    pet.s.life = "ACTIVE" /\ pet.s.motion \in Walking => pet.t.confirmed # T0!NoEpoch

\* Every way a drag gesture ends leaves the pet out of DRAGGING.
NoGestureNoDrag ==
    pet.s.motion = "DRAGGING" => gesture = "DRAGGING"

\* Dragging and falling outrank autonomous actions: only the drag's own end,
\* a failure, a pause or a close takes the pet out of them.
DraggingOutranksResume ==
    [][call'.op = "resume_autonomous" /\ pet.s.motion \in {"DRAGGING", "FALLING"}
          => pet'.s.motion = pet.s.motion]_vars

\* An engine whose renderer was given up stays suspended.
AbandonedStaysSuspended == ~source => pet.mode = "SUSPENDED"
=============================================================================
