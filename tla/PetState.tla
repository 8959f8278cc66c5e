------------------------------ MODULE PetState ------------------------------
(***************************************************************************)
(* The layered state of the pet (application/pet/pet_state.py) and what    *)
(* the motion model (pet_motion.py) makes of it.  A state is a record; an  *)
(* operation of PetLayeredStateMachine is an operator from state to state, *)
(* with a guard of its own where the method may raise                      *)
(* PetStateTransitionError.                                                *)
(*                                                                         *)
(* Positions are abstracted to the two facts the state machine learns from *)
(* them: whether the pet touches the ground and whether a walking pet has  *)
(* reached the edge.  The semantic epoch is left out: proposals are        *)
(* committed in the call that made them, so none is ever stale.            *)
(***************************************************************************)
EXTENDS Naturals, FiniteSets

Lifecycle == {"ACTIVE", "PAUSED", "CLOSING"}

Walking == {"WALKING_LEFT", "WALKING_RIGHT"}

Airborne == {"DRAGGING", "FALLING", "LANDING"}

Motion == {"IDLE"} \cup Walking \cup Airborne

Activity == {"NONE", "SITTING", "SLEEPING", "SPECIAL", "INTERACT", "THINKING", "REMINDING"}

Behavior == {"BREATHING", "BLINKING", "THINKING", "REMINDING", "DRAG_STRUGGLE"}

Layered == [life : Lifecycle, motion : Motion, activity : Activity,
            behaviors : SUBSET Behavior]

\* validate_layered_state: which combinations the layers may form.
ValidLayered(s) ==
    IF s.life # "ACTIVE" THEN s.behaviors = {} /\ s.activity = "NONE"
    ELSE /\ s.motion # "IDLE" => s.activity = "NONE"
         /\ s.motion = "DRAGGING" <=> "DRAG_STRUGGLE" \in s.behaviors
         /\ CASE s.motion = "DRAGGING" -> s.behaviors = {"DRAG_STRUGGLE"}
              [] s.motion \in {"FALLING", "LANDING"} -> s.behaviors = {}
              [] s.motion \in Walking -> s.behaviors \subseteq {"BLINKING"}
              [] s.activity = "REMINDING" -> s.behaviors = {"REMINDING"}
              [] s.activity = "THINKING" ->
                    s.behaviors \in {{"THINKING"}, {"THINKING", "BLINKING"}}
              [] s.motion = "IDLE" /\ s.activity \notin {"NONE", "THINKING", "REMINDING"} ->
                    s.behaviors = {}
              [] OTHER -> s.behaviors \subseteq {"BREATHING", "BLINKING"}

\* STATE_ACTION_COMPATIBILITY, for the activities a running pet can have.
Allowed(s) ==
    CASE s.motion = "WALKING_LEFT" -> {"walk_left"}
      [] s.motion = "WALKING_RIGHT" -> {"walk_right"}
      [] s.motion = "DRAGGING" -> {"drag_start", "drag_loop", "idle"}
      [] s.motion = "FALLING" -> {"drag_end", "idle"}
      [] s.motion = "LANDING" -> {"landing", "idle"}
      [] s.activity = "SITTING" -> {"sit_down", "sit_idle"}
      [] s.activity = "SLEEPING" -> {"sleep_start", "sleep_loop", "sleep_end"}
      [] s.activity = "SPECIAL" -> {"wave"}
      [] s.activity = "INTERACT" -> {"happy"}
      [] s.activity = "THINKING" -> {"think"}
      [] s.activity = "REMINDING" -> {"remind"}
      [] OTHER -> {"idle", "return_idle"}

\* assert_animation_compatible does not raise.
Compatible(s, action, health) ==
    /\ ValidLayered(s)
    /\ IF health = "HEALTHY" /\ s.life = "ACTIVE" THEN action \in Allowed(s)
                                                  ELSE action = "none"

InitialState ==
    [life |-> "ACTIVE", motion |-> "IDLE", activity |-> "NONE",
     behaviors |-> {"BREATHING"}]

\* _behaviors_for_activity
BehaviorsFor(activity) ==
    CASE activity \in {"THINKING", "REMINDING"} -> {activity}
      [] activity = "NONE" -> {"BREATHING"}
      [] OTHER -> {}

(***************************************************************************)
(* propose: the caller names the layers it changes; "same" keeps one.      *)
(***************************************************************************)
Propose(s, life, motion, activity) ==
    LET l == IF life = "same" THEN s.life ELSE life
        m == IF motion = "same" THEN s.motion ELSE motion
        a == IF activity = "same" THEN s.activity ELSE activity
        To(act, behaviors) == [life |-> l, motion |-> m, activity |-> act,
                               behaviors |-> behaviors]
    IN  CASE l # "ACTIVE" -> To("NONE", {})
          [] l = "ACTIVE" /\ motion # "same" /\ m # "IDLE" ->
                To("NONE", IF m = "DRAGGING" THEN {"DRAG_STRUGGLE"} ELSE {})
          [] l = "ACTIVE" /\ ~(motion # "same" /\ m # "IDLE") /\ activity # "same" ->
                To(a, BehaviorsFor(a))
          [] l = "ACTIVE" /\ motion # "same" /\ m = "IDLE" /\ activity = "same" ->
                To("NONE", {"BREATHING"})
          [] OTHER -> To(a, s.behaviors)

(***************************************************************************)
(* The direct operations of the state machine.                             *)
(***************************************************************************)
\* _restore_default_behavior
Default(s) ==
    [s EXCEPT !.activity = "NONE",
              !.behaviors = IF s.life = "ACTIVE" /\ s.motion = "IDLE"
                              THEN {"BREATHING"} ELSE {}]

Still(s, motion) == [s EXCEPT !.motion = motion, !.activity = "NONE", !.behaviors = {}]

Pause(s) ==
    [Still(s, IF s.motion = "DRAGGING" THEN "IDLE" ELSE s.motion) EXCEPT !.life = "PAUSED"]

Resume(s) == Default([s EXCEPT !.life = "ACTIVE"])

BeginClosing(s) == [Still(s, "IDLE") EXCEPT !.life = "CLOSING"]

RecoverFailedClose(s) == [Still(s, "IDLE") EXCEPT !.life = "PAUSED"]

StartDragging(s) ==
    [Still(s, "DRAGGING") EXCEPT
        !.behaviors = IF s.life = "ACTIVE" THEN {"DRAG_STRUGGLE"} ELSE {}]

\* release_drag of the machine and of the motion model, which lands at once
\* a pet that is released on the ground.
ReleaseDrag(s, grounded) ==
    CASE s.life = "PAUSED" -> Still(s, "IDLE")
      [] OTHER -> Still(s, IF grounded THEN "LANDING" ELSE "FALLING")

CanReleaseDrag(s) == s.life \in {"ACTIVE", "PAUSED"} /\ s.motion = "DRAGGING"

Land(s) == Still(s, "LANDING")

FinishLanding(s) == Default([s EXCEPT !.motion = "IDLE"])

CanWalk(s) ==
    /\ s.life = "ACTIVE"
    /\ "REMINDING" \notin s.behaviors
    /\ s.motion \in Walking \cup {"IDLE"}

StartWalking(s, motion) ==
    [s EXCEPT !.motion = motion, !.activity = "NONE",
              !.behaviors = @ \ {"BREATHING", "THINKING", "REMINDING"}]

StopWalking(s) == Default([s EXCEPT !.motion = "IDLE"])

CanThink(s) == s.life = "ACTIVE" /\ s.motion = "IDLE" /\ s.activity # "REMINDING"

Engage(s, activity) ==
    [s EXCEPT !.motion = "IDLE", !.activity = activity, !.behaviors = {activity}]

CanRemind(s) == s.life = "ACTIVE" /\ s.motion \notin Airborne

\* start_blinking: which states a blink may be laid over.
MayBlink(s) ==
    s.life = "ACTIVE" /\ s.motion \notin Airborne /\ s.activity \in {"NONE", "THINKING"}

\* _advance_blink: a running blink ends, or the next one starts if it may.
Blink(s) ==
    CASE "BLINKING" \in s.behaviors -> [s EXCEPT !.behaviors = @ \ {"BLINKING"}]
      [] MayBlink(s) -> [s EXCEPT !.behaviors = @ \cup {"BLINKING"}]
      [] OTHER -> s

\* The walk an edge turns a walking pet into.
TurnOf(motion) == IF motion = "WALKING_LEFT" THEN "WALKING_RIGHT" ELSE "WALKING_LEFT"

\* Seeded fault: the fall is not told that it reached the ground.
MotionUpdateNeverLands(s, due) ==
    IF s.life = "ACTIVE" /\ s.motion = "LANDING" /\ due THEN FinishLanding(s) ELSE s

(***************************************************************************)
(* update of the motion model while the pet is not walking: `due' says     *)
(* that the fall has reached the ground or the landing pose is over.       *)
(***************************************************************************)
MotionUpdate(s, due) ==
    CASE s.life = "ACTIVE" /\ s.motion = "FALLING" /\ due -> Land(s)
      [] s.life = "ACTIVE" /\ s.motion = "LANDING" /\ due -> FinishLanding(s)
      [] OTHER -> s
=============================================================================
