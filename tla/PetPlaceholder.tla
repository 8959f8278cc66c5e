--------------------------- MODULE PetPlaceholder ---------------------------
(***************************************************************************)
(* The pet without a role pack: the drawn placeholder, whose player has no *)
(* capabilities, so that every operation of the engine takes its legacy    *)
(* path (pet_animation.py) straight to the layered state machine and the   *)
(* motion model (PetState).  One timer, _action_remaining, ends walks,     *)
(* thoughts and reminders; `timer' says that it runs.  `moving' is whether *)
(* the horizontal velocity is not zero.                                    *)
(***************************************************************************)
EXTENDS PetState

VARIABLES s, timer, moving, gesture, facing, right

vars == <<s, timer, moving, gesture, facing, right>>

Init ==
    /\ s = InitialState /\ timer = FALSE /\ moving = FALSE
    /\ gesture = "IDLE" /\ facing = "RIGHT" /\ right = FALSE

FacingOf(motion) == IF motion = "WALKING_LEFT" THEN "LEFT" ELSE "RIGHT"

NotClosing == s.life # "CLOSING"

\* request_walk: a raise of the state machine leaves everything as it was.
Walk(motion) ==
    /\ CanWalk(s)
    /\ s' = StartWalking(s, motion) /\ timer' = TRUE /\ moving' = TRUE
    /\ facing' = FacingOf(motion)
    /\ UNCHANGED <<gesture, right>>

\* request_thinking_animation: a walk is stopped first, and stays so if the pet, being paused, may
\* not think; the timer of the walk then runs on.
Think ==
    /\ LET still == IF s.motion \in Walking THEN StopWalking(s) ELSE s IN
       IF CanThink(still) THEN s' = Engage(still, "THINKING") /\ timer' = TRUE
       ELSE s' = still /\ UNCHANGED timer
    /\ moving' = (moving /\ s.motion \notin Walking)
    /\ UNCHANGED <<gesture, facing, right>>

\* Seeded fault: the reminder does not set the timer.
RemindUntimed ==
    /\ CanRemind(s)
    /\ s' = Engage(s, "REMINDING")
    /\ UNCHANGED <<timer, moving, gesture, facing, right>>

\* request_reminder_animation: the velocity of a walk it interrupts stays.
Remind ==
    /\ CanRemind(s)
    /\ s' = Engage(s, "REMINDING") /\ timer' = TRUE
    /\ UNCHANGED <<moving, gesture, facing, right>>

Press ==
    /\ NotClosing /\ gesture = "IDLE"
    /\ gesture' = "PENDING"
    /\ UNCHANGED <<s, timer, moving, facing, right>>

\* The right button: a press is remembered, its release opens the palette.
RightButton ==
    /\ right \/ NotClosing
    /\ right' = ~right
    /\ UNCHANGED <<s, timer, moving, gesture, facing>>

\* start_dragging; it is a PetStateTransitionError while closing, which ends
\* the gesture.
BeginDrag ==
    /\ gesture = "PENDING" /\ NotClosing
    /\ s' = StartDragging(s) /\ timer' = FALSE /\ moving' = FALSE
    /\ gesture' = "DRAGGING"
    /\ UNCHANGED <<facing, right>>

\* The release of a drag, or a click, which has no action without a role pack.
Release ==
    /\ gesture # "IDLE"
    /\ gesture' = "IDLE"
    /\ IF gesture = "DRAGGING" /\ CanReleaseDrag(s)
         THEN s' = ReleaseDrag(s, FALSE) /\ moving' = FALSE
         ELSE UNCHANGED <<s, moving>>
    /\ UNCHANGED <<timer, facing, right>>

\* _cancel_pointer_gesture: an aborted drag is contained.
AfterCancel == IF gesture = "DRAGGING" THEN Propose(s, "same", "IDLE", "NONE") ELSE s

Hide ==
    /\ s' = AfterCancel /\ gesture' = "IDLE" /\ right' = FALSE
    /\ moving' = (moving /\ gesture # "DRAGGING")
    /\ UNCHANGED <<timer, facing>>

\* toggle_paused: resuming does not give a walk its velocity back.
TogglePaused ==
    /\ NotClosing
    /\ s' = IF s.life = "PAUSED" THEN Resume(AfterCancel) ELSE Pause(AfterCancel)
    /\ moving' = FALSE
    /\ gesture' = "IDLE" /\ right' = FALSE
    /\ UNCHANGED <<timer, facing>>

RequestSafeExit ==
    /\ NotClosing
    /\ s' = BeginClosing(AfterCancel)
    /\ timer' = FALSE /\ moving' = FALSE /\ gesture' = "IDLE" /\ right' = FALSE
    /\ UNCHANGED facing

RecoverFromFailedClose ==
    /\ s.life = "CLOSING"
    /\ s' = RecoverFailedClose(s)
    /\ UNCHANGED <<timer, moving, gesture, facing, right>>

(***************************************************************************)
(* advance: the timer, a blink, a random action of an idle pet, the motion *)
(* and the turn at the edge, one after the other.                          *)
(***************************************************************************)
\* _advance_action when the timer runs out.
Expired(st) ==
    CASE st.motion \in Walking -> StopWalking(st)
      [] st.motion \notin Walking /\ st.behaviors \cap {"THINKING", "REMINDING"} # {} -> Default(st)
      [] OTHER -> st

\* _advance_random_action
Idle(st) == st.motion = "IDLE" /\ st.behaviors = {"BREATHING"}

Randomly(st, random) ==
    CASE random = "THINKING" -> Engage(st, "THINKING")
      [] OTHER -> StartWalking(st, random)

Tick(expires, blink, random, due) ==
    LET ended == IF timer /\ expires THEN Expired(s) ELSE s
        running == timer /\ ~expires
        blinked == IF blink THEN Blink(ended) ELSE ended
        acts == random # "none" /\ ~running /\ Idle(blinked)
        begun == IF acts THEN Randomly(blinked, random) ELSE blinked
        edge == due /\ begun.motion \in Walking /\ (moving \/ acts)
    IN  /\ s.life = "ACTIVE"
        /\ s' = IF edge THEN StartWalking(begun, TurnOf(begun.motion))
                        ELSE MotionUpdate(begun, due)
        /\ facing' = IF s'.motion \in Walking THEN FacingOf(s'.motion) ELSE facing
        /\ timer' = (running \/ acts)
        /\ moving' = (begun.motion \in Walking /\ (moving \/ acts))
        /\ UNCHANGED <<gesture, right>>

AnyTick ==
    \E expires, blink, due \in BOOLEAN, random \in Walking \cup {"THINKING", "none"} :
        Tick(expires, blink, random, due)

Next ==
    \/ \E motion \in Walking : Walk(motion)
    \/ Think \/ Remind \/ Press \/ RightButton \/ BeginDrag \/ Release
    \/ Hide \/ TogglePaused \/ RequestSafeExit \/ RecoverFromFailedClose \/ AnyTick

\* The GUI timer ticks, and time passes with it.
Spec == Init /\ [][Next]_vars /\ SF_vars(Tick(TRUE, FALSE, "none", TRUE))

(***************************************************************************)
(* Properties.                                                             *)
(***************************************************************************)
\* Every variable keeps its type.
TypeOK ==
    /\ s \in Layered /\ timer \in BOOLEAN /\ moving \in BOOLEAN
    /\ gesture \in {"IDLE", "PENDING", "DRAGGING"} /\ facing \in {"LEFT", "RIGHT"}
    /\ right \in BOOLEAN

\* Whatever is interrupted by what, the layers stay a combination that
\* validate_layered_state accepts.
LayersStayValid == ValidLayered(s)

\* A walk, a thought or a reminder of a running pet always has the timer that
\* will end it: no interruption leaves one behind without an end.
TimedStateHasTimer ==
    s.life = "ACTIVE" /\ (s.motion \in Walking \/ s.activity # "NONE") => timer

Busy == s.life = "ACTIVE" /\ (s.motion # "IDLE" \/ s.activity # "NONE") /\ gesture # "DRAGGING"

\* A running pet that nobody holds always comes back to rest.
ComesToRest == []<>~Busy
=============================================================================
