----------------------------- MODULE PetEngine -----------------------------
(***************************************************************************)
(* The pet's animation engine (application/pet/pet_animation.py) with its  *)
(* layered state (PetState), Track 0 (PetTrack0), the autonomous scheduler *)
(* (pet_autonomous_scheduler.py), the Spine player (spine38_player.py) and *)
(* the window that drives it: pointer gestures, pause, close, requests and *)
(* the animation tick (pet_window.py, pet_pointer_gesture.py), in the      *)
(* production setting (a role pack with actions, the relax fallback for    *)
(* drags).  Everything runs on the GUI thread, so a handler is one step;   *)
(* the tick is cut into its advance, each playback event and its layout,   *)
(* and nothing else runs in between.                                       *)
(*                                                                         *)
(* pet.s is the layered state, pet.t the Track 0 record, pet.player what   *)
(* the player would stamp its next callbacks with.  Times are abstracted:  *)
(* a dwell, a blink, a fall or a landing may be over at any tick.  The     *)
(* player's answers are `ans': whether the handler's first clear, its play *)
(* and the clear that contains a failed play return or raise.  Sequences   *)
(* with several steps fail preflight in production (their actions have no  *)
(* duration), so the engine's branches for them are left out, and so is    *)
(* `facing', which no branch looks at.                                     *)
(***************************************************************************)
EXTENDS PetState, Sequences

CONSTANTS
    Timed,          \* the actions of the role pack that have a duration
    Offered,        \* the production sequences, for PetTrack0
    Sessions,       \* unused by the engine, a parameter of PetTrack0
    MaxGeneration,  \* bound: the pet is left alone from this generation on
    Requested,      \* the production actions the user asks for
    Sources,        \* who asks: USER, TRAY, AGENT
    MaxEvents       \* bound: playback events one tick may deliver

VARIABLES
    pet,            \* the engine
    gesture,        \* PetPointerGesture: IDLE, PENDING or DRAGGING
    source,         \* whether the window still has its playback event source
    tick,           \* what is left of the running tick
    call            \* the last operation: its name and outcome

vars == <<pet, gesture, source, tick, call>>

T0 == INSTANCE PetTrack0 WITH track0 <- pet.t, call <- call

NoIntent == [action |-> "none", origin |-> "none", source |-> "none", token |-> 0]

NoSchedule == [state |-> "none", gen |-> 0, stays |-> 0]

NoTick == [left |-> 0, running |-> FALSE, stamp |-> T0!NoEpoch]

ProductionAction == {"RELAX", "MOVE_LEFT", "MOVE_RIGHT", "SIT", "SLEEP", "SPECIAL", "INTERACT"}

Moves == {"MOVE_LEFT", "MOVE_RIGHT"}

ProtectedActions == {"SPECIAL", "INTERACT"}

\* _PRODUCTION_SEQUENCE_BY_ACTION
SequenceOf(action) ==
    CASE action = "RELAX" -> "production_relax"
      [] action = "MOVE_LEFT" -> "production_move_left"
      [] action = "MOVE_RIGHT" -> "production_move_right"
      [] action = "SIT" -> "production_sit"
      [] action = "SLEEP" -> "production_sleep"
      [] action = "SPECIAL" -> "production_special"
      [] action = "INTERACT" -> "production_interact"

Track0Action(action) == T0!SEQUENCE_CATALOG[SequenceOf(action)].steps[1].action

\* _SEMANTIC_TARGETS: the state an action stands for.
Target(s, action) ==
    CASE action = "MOVE_LEFT" -> Propose(s, "same", "WALKING_LEFT", "NONE")
      [] action = "MOVE_RIGHT" -> Propose(s, "same", "WALKING_RIGHT", "NONE")
      [] action = "SIT" -> Propose(s, "same", "IDLE", "SITTING")
      [] action = "SLEEP" -> Propose(s, "same", "IDLE", "SLEEPING")
      [] action = "SPECIAL" -> Propose(s, "same", "IDLE", "SPECIAL")
      [] action = "INTERACT" -> Propose(s, "same", "IDLE", "INTERACT")
      [] OTHER -> Propose(s, "same", "IDLE", "NONE")

Answer(p, outcome) == [p |-> p, outcome |-> outcome]

\* Every request carries a token of its own.
Intent(p, action, origin, src) ==
    [action |-> action, origin |-> origin, source |-> src, token |-> p.t.generation + 1]

\* What the player holds after a command: Spine38AnimationPlayer keeps the
\* old playback when a command raises, and none after a clear.
Command(p, r) ==
    Answer([p EXCEPT !.t = r.t,
                     !.player = CASE r.t.confirmed # p.t.confirmed
                                        /\ r.t.confirmed # T0!NoEpoch -> r.t.confirmed
                                  [] r.outcome \in {"CLEARED", "PLAYBACK_DEGRADED"} -> T0!NoEpoch
                                  [] OTHER -> @],
           r.outcome)

\* _assert_transaction_compatible at the end of a transaction.
Checked(a) ==
    IF Compatible(a.p.s, a.p.t.desired, a.p.t.health) THEN a ELSE Answer(a.p, "RAISED")

Protected(p) == p.t.active # T0!NoRequest /\ T0!ProtectedRequest(p.t.active)

\* Seeded fault: the waiting request outlives the one-shot it waited for.
ClearContinuationNever(p) == p

ClearContinuation(p) == [p EXCEPT !.pending = NoIntent]

Suspended(p) == [p EXCEPT !.mode = "SUSPENDED"]

\* What a mandatory interruption does before anything else.
Interrupted(p) == [ClearContinuation(Suspended(p)) EXCEPT !.action = "none"]

Context(p) ==
    [health |-> p.t.health, confirmedEpoch |-> 0,
     compatible |-> Compatible(p.s, p.t.desired, p.t.health)]

Request(seq, origin, token) ==
    [seq |-> seq, origin |-> origin, session |-> token, epoch |-> 0, token |-> token]

(***************************************************************************)
(* _submit_production_intent.                                              *)
(***************************************************************************)
\* A direct request of the user outranks a running one-shot.
HumanOverride(p, i) ==
    Protected(p) /\ i.origin = "EXPLICIT" /\ i.source \in {"USER", "TRAY"}

\* Why the intent is turned down before anything is committed, or "none".
Refusal(p, i) ==
    LET seq == SequenceOf(i.action)
        Unless(outcome) == IF outcome = "ACCEPTED" THEN "none" ELSE outcome
        Arbitrated(outcome) ==
            IF outcome = "ACCEPTED" /\ ~HumanOverride(p, i)
              THEN T0!Decide(Request(seq, i.origin, i.token), p.t.active, Context(p)).outcome
              ELSE outcome
    IN  IF Compatible(Target(p.s, i.action), Track0Action(i.action), p.t.health)
          THEN Unless(Arbitrated(T0!Preflight(seq)))
          ELSE "REJECTED_INCOMPATIBLE_STATE"

\* A play that failed ends the action, and a walk with it.
FailedSubmit(p, i) ==
    [Suspended(p) EXCEPT !.action = "none",
                         !.s = IF i.action \in Moves THEN Target(@, "RELAX") ELSE @]

\* Who owns Track 0 once the play is confirmed.
Accepted(p, i) ==
    LET one_shot == i.action \in ProtectedActions
        mode == CASE one_shot -> "SUSPENDED"
                  [] ~one_shot /\ i.origin = "EXPLICIT" -> "EXPLICIT_HOLD"
                  [] OTHER -> "AUTONOMOUS"
    IN  [p EXCEPT !.action = i.action, !.mode = mode,
                  !.resume = IF mode = "AUTONOMOUS" THEN i.action ELSE @]

\* Track 0 is asked to play, or to replace what it plays.
Asked(p, request, ans) ==
    Command(p, IF p.t.active = T0!NoRequest
                 THEN T0!Play(p.t, request, ans.play, ans.contain)
                 ELSE T0!Replace(p.t, request, ans.play, ans.contain))

\* The state is committed before the player is asked.
Perform(p, i, ans) ==
    LET request == Request(SequenceOf(i.action), i.origin, i.token)
        owner == IF i.origin = "EXPLICIT" THEN ClearContinuation(p) ELSE p
        committed == [owner EXCEPT !.s = Target(@, i.action)]
        After(asked) ==
            Answer(IF asked.outcome = "ACCEPTED" THEN Accepted(asked.p, i)
                                                 ELSE FailedSubmit(asked.p, i),
                   asked.outcome)
    IN  Checked(After(Asked(committed, request, ans)))

\* While a one-shot runs, an explicit request of the agent waits for it.
QueueIntent(p, i) ==
    IF i.origin = "EXPLICIT" THEN Answer([Suspended(p) EXCEPT !.pending = i], "ACCEPTED")
                             ELSE Answer(p, "REJECTED_PRIORITY")

SubmitIntent(p, i, ans) ==
    LET Unless(refusal) == IF refusal = "none" THEN Perform(p, i, ans) ELSE Answer(p, refusal)
    IN  CASE HumanOverride(p, i) /\ p.action = i.action -> Answer(ClearContinuation(p), "ACCEPTED")
          [] Protected(p) /\ ~HumanOverride(p, i) -> QueueIntent(p, i)
          [] /\ ~Protected(p) /\ i.origin = "EXPLICIT" /\ i.action \notin ProtectedActions
             /\ p.mode = "EXPLICIT_HOLD" /\ p.action = i.action
             /\ p.t.confirmed # T0!NoEpoch -> Answer(p, "ACCEPTED")
          [] OTHER -> Unless(Refusal(p, i))

(***************************************************************************)
(* The scheduler.  WEIGHTS holds the destinations of positive weight; a    *)
(* state without a row (SPECIAL) has no dwell and proposes nothing.        *)
(***************************************************************************)
WEIGHTS ==
    [RELAX |-> {"RELAX", "SIT", "SLEEP", "MOVE_LEFT", "MOVE_RIGHT", "SPECIAL"},
     SIT |-> {"RELAX", "SIT", "SLEEP", "MOVE_LEFT", "MOVE_RIGHT"},
     SLEEP |-> {"RELAX", "SIT", "SLEEP"},
     MOVE_LEFT |-> {"RELAX", "SIT", "MOVE_LEFT", "MOVE_RIGHT"},
     MOVE_RIGHT |-> {"RELAX", "SIT", "MOVE_LEFT", "MOVE_RIGHT"}]

\* enter: a fresh dwell for the playback that was just confirmed.
Enter(action, gen) == [state |-> action, gen |-> gen, stays |-> 0]

\* evaluate: what it may propose; "not_due" while the dwell lasts.  After two
\* stays it is due at once and must leave.
Choices(sched) ==
    IF sched.stays >= 2 THEN WEIGHTS[sched.state] \ {sched.state}
                        ELSE WEIGHTS[sched.state] \cup {"not_due"}

\* evaluate looks at a boundary: autonomous, of the entered play, with a dwell.
Evaluates(p, event) ==
    /\ p.mode = "AUTONOMOUS"
    /\ p.sched.state \in DOMAIN WEIGHTS
    /\ p.sched.gen = event.gen

\* _activate_autonomous
ActivateAutonomous(p, action) ==
    IF p.t.confirmed = T0!NoEpoch
      THEN [Suspended(p) EXCEPT !.sched = NoSchedule]
      ELSE [p EXCEPT !.mode = "AUTONOMOUS",
                     !.resume = IF action \in ProtectedActions THEN @ ELSE action,
                     !.sched = Enter(action, p.t.confirmed.gen)]

\* An autonomous intent, and the mode after it.
Autonomously(p, action, ans) ==
    LET After(a) == Answer(IF a.outcome = "ACCEPTED" THEN ActivateAutonomous(a.p, action)
                                                     ELSE Suspended(a.p), a.outcome)
    IN  After(SubmitIntent(p, Intent(p, action, "AUTONOMOUS", "SCHEDULER"), ans))

\* _recover_autonomous_relax
RecoverRelax(p, ans) == Autonomously(p, "RELAX", ans)

StartAutonomous(p, ans) ==
    IF p.t.active # T0!NoRequest THEN Answer(p, "REJECTED_DUPLICATE") ELSE RecoverRelax(p, ans)

\* commit_accepted, or reject.
AfterProposal(choice, a) ==
    IF a.outcome = "ACCEPTED" /\ a.p.t.confirmed # T0!NoEpoch
      THEN [a EXCEPT !.p.sched = Enter(choice, a.p.t.confirmed.gen)]
      ELSE a

\* _handle_autonomous_boundary, with the draw of the scheduler.
HandleBoundary(p, event, choice, ans) ==
    CASE ~Evaluates(p, event) \/ choice = "not_due" -> Answer(p, "ACCEPTED")
      [] Evaluates(p, event) /\ choice = p.sched.state ->
            Answer([p EXCEPT !.sched.stays = @ + 1], "ACCEPTED")
      [] OTHER ->
            AfterProposal(choice, SubmitIntent(p, Intent(p, choice, "AUTONOMOUS", "SCHEDULER"), ans))

(***************************************************************************)
(* handle_playback_event.                                                  *)
(***************************************************************************)
\* The one-shot is over: the waiting request, or back to autonomous relax.
AfterOneShot(p, ans) ==
    LET over == [ClearContinuation(p) EXCEPT !.action = "none"]
    IN  IF p.pending # NoIntent THEN SubmitIntent(over, p.pending, ans)
                                ELSE RecoverRelax(over, ans)

\* Seeded fault: the identity of the callback is not compared.
HandlePlaybackUnchecked(p, event, choice, ans) ==
    IF event.boundary THEN Checked(HandleBoundary(p, [event EXCEPT !.gen = p.sched.gen], choice, ans))
                      ELSE Checked(AfterOneShot(p, ans))

HandlePlaybackEvent(p, event, choice, ans) ==
    LET over == Command(p, T0!HandleCompletion(p.t, event, p.t.active, ans.play, ans.contain))
    IN  CASE ~T0!EventMatches(p.t, event) -> Checked(over)
          [] T0!EventMatches(p.t, event) /\ event.boundary ->
                Checked(IF p.sched = NoSchedule THEN over ELSE HandleBoundary(p, event, choice, ans))
          [] OTHER ->
                IF Protected(p) /\ p.action \in ProtectedActions /\ over.outcome = "ACCEPTED"
                  THEN Checked(AfterOneShot(over.p, ans))
                  ELSE Checked(over)

(***************************************************************************)
(* handle_event: the semantic events with the state and the sequence each  *)
(* proposes (_propose_event).  Pause and closing have no sequence: they    *)
(* clear Track 0 instead.                                                  *)
(***************************************************************************)
Mandatory == {"START_DRAGGING", "PAUSE", "BEGIN_CLOSING"}

ProposedState(s, event) ==
    CASE event = "START_WALKING_LEFT" -> Propose(s, "same", "WALKING_LEFT", "same")
      [] event = "START_WALKING_RIGHT" -> Propose(s, "same", "WALKING_RIGHT", "same")
      [] event = "START_THINKING" -> Propose(s, "same", "IDLE", "THINKING")
      [] event = "START_REMINDING" -> Propose(s, "same", "IDLE", "REMINDING")
      [] event = "START_DRAGGING" -> Propose(s, "same", "DRAGGING", "same")
      [] event = "PAUSE" -> Propose(s, "PAUSED", "same", "same")
      [] event = "RESUME" -> Propose(s, "ACTIVE", "IDLE", "NONE")
      [] event = "BEGIN_CLOSING" -> Propose(s, "CLOSING", "same", "same")

ProposedSequence(event) ==
    CASE event = "START_WALKING_LEFT" -> "walk_left"
      [] event = "START_WALKING_RIGHT" -> "walk_right"
      [] event = "START_THINKING" -> "think"
      [] event = "START_REMINDING" -> "remind"
      [] event = "START_DRAGGING" -> "production_motion_fallback"
      [] event = "RESUME" -> "production_relax"
      [] OTHER -> "none"

EventRequest(p, event) ==
    Request(ProposedSequence(event), IF event = "RESUME" THEN "SYSTEM" ELSE "EXPLICIT",
            p.t.generation + 1)

EventRefusal(p, event) ==
    LET req == EventRequest(p, event)
        first == T0!SEQUENCE_CATALOG[req.seq].steps[1].action
        Unless(outcome) == IF outcome = "ACCEPTED" THEN "none" ELSE outcome
        Arbitrated(outcome) ==
            IF outcome = "ACCEPTED" THEN T0!Decide(req, p.t.active, Context(p)).outcome ELSE outcome
    IN  IF Compatible(ProposedState(p.s, event), first, p.t.health)
          THEN Unless(Arbitrated(T0!Preflight(req.seq)))
          ELSE "REJECTED_INCOMPATIBLE_STATE"

PerformEvent(p, event, ans) ==
    LET committed == [p EXCEPT !.s = ProposedState(@, event)]
        After(asked) ==
            CASE event # "RESUME" -> asked
              [] event = "RESUME" /\ asked.outcome = "ACCEPTED" ->
                    Answer(ActivateAutonomous([asked.p EXCEPT !.action = "RELAX"], "RELAX"), "ACCEPTED")
              [] OTHER -> Answer(Suspended(asked.p), asked.outcome)
    IN  Checked(After(Asked(committed, EventRequest(p, event), ans)))

ClearForEvent(p, event, ans) ==
    Checked(Command([p EXCEPT !.s = ProposedState(@, event)], T0!Clear(p.t, ans.clear)))

HandleEvent(p, event, ans) ==
    LET q == IF event \in Mandatory THEN Interrupted(p) ELSE p
        Unless(refusal) == IF refusal = "none" THEN PerformEvent(q, event, ans) ELSE Answer(q, refusal)
    IN  IF ProposedSequence(event) = "none" THEN ClearForEvent(q, event, ans)
                                            ELSE Unless(EventRefusal(q, event))

(***************************************************************************)
(* The engine's other operations.                                          *)
(***************************************************************************)
\* contain_renderer_failure
ContainFailure(p, ans) ==
    Command([Interrupted(p) EXCEPT !.s = Target(@, "RELAX")], T0!Clear(p.t, ans.clear))

\* resume_autonomous: nothing is active any more, so that start_autonomous
\* comes down to relax.
ResumeAutonomous(p, ans) ==
    LET q == Interrupted(p)
        cleared == IF p.t.active = T0!NoRequest THEN Answer(q, "CLEARED")
                                                ELSE Command(q, T0!Clear(q.t, ans.clear))
    IN  CASE cleared.outcome # "CLEARED" -> Checked(cleared)
          [] OTHER -> Autonomously(cleared.p, IF p.resume = "none" THEN "RELAX" ELSE p.resume, ans)

\* start_dragging: the session of the drag is kept only if it was accepted.
EngineStartDragging(p, ans) ==
    LET Kept(a) == IF a.outcome = "ACCEPTED" THEN [a EXCEPT !.p.drag = TRUE] ELSE a
    IN  Kept(HandleEvent(p, "START_DRAGGING", ans))

\* The playback of a drag goes on as the relax it already is.
RelaxPlays(p) ==
    p.t.health = "HEALTHY" /\ p.t.confirmed # T0!NoEpoch /\ p.t.desired = "idle"

\* release_drag; "ILLEGAL" is a PetStateTransitionError, which comes after
\* the drag's session was given up.
EngineReleaseDrag(p, grounded) ==
    LET q == [Suspended(p) EXCEPT !.drag = FALSE, !.action = "none"]
        r == [q EXCEPT !.s = ReleaseDrag(@, grounded)]
    IN  CASE ~p.drag -> Answer(p, "ILLEGAL")
          [] p.drag /\ ~CanReleaseDrag(p.s) -> Answer(q, "ILLEGAL")
          [] OTHER -> IF RelaxPlays(r) THEN Checked(Answer(r, "ACCEPTED"))
                                       ELSE Answer(r, "PLAYBACK_DEGRADED")

\* _finish_relax_motion_recovery: adopt the playback as autonomous relax.
FinishRecovery(p) ==
    LET adopted == T0!Adopt(p.t, Request("production_relax", "AUTONOMOUS", p.t.generation + 1))
    IN  IF RelaxPlays(p) /\ adopted.outcome = "ACCEPTED"
          THEN ActivateAutonomous([p EXCEPT !.t = adopted.t, !.action = "RELAX"], "RELAX")
          ELSE Suspended(p)

\* _recover_explicit_boundary: a walk the user asked for ends at the edge.
RecoverExplicitBoundary(p, ans) ==
    LET cleared == Command(Interrupted(p), T0!Clear(p.t, ans.clear))
    IN  IF cleared.outcome = "CLEARED" THEN RecoverRelax(cleared.p, ans) ELSE cleared

\* _commit_workspace_boundary_turn
BoundaryTurn(p, ans) ==
    LET back == IF p.s.motion = "WALKING_LEFT" THEN "MOVE_RIGHT" ELSE "MOVE_LEFT"
        q == ClearContinuation(Suspended(p))
        After(a) == IF a.outcome = "ACCEPTED" THEN [a EXCEPT !.p = ActivateAutonomous(@, back)] ELSE a
    IN  After(SubmitIntent(q, Intent(q, back, "SYSTEM", "MOTION"), ans))

\* The edge of the workspace, as advance deals with it.
AtEdge(p, ans) ==
    CASE p.action \in Moves /\ p.mode = "EXPLICIT_HOLD" -> RecoverExplicitBoundary(p, ans)
      [] p.action \in Moves /\ p.mode # "EXPLICIT_HOLD" -> BoundaryTurn(p, ans)
      [] OTHER -> IF CanWalk(p.s)
                    THEN Answer([p EXCEPT !.s = StartWalking(@, TurnOf(@.motion))], "ACCEPTED")
                    ELSE Answer(p, "ILLEGAL")

\* advance: a blink, an idle pet's random action (which preflight refuses in
\* production), the motion and what its end or the edge calls for.
RandomAction(p, random, ans) ==
    IF random # "none" /\ p.s.motion = "IDLE" /\ p.s.behaviors = {"BREATHING"}
      THEN HandleEvent(p, random, ans).p
      ELSE p

AdvanceEngine(p, blink, random, due, ans) ==
    LET Landed(q, moved) ==
            IF q.s.motion = "LANDING" /\ moved.s.motion = "IDLE"
              THEN Checked(Answer(FinishRecovery(moved), "ADVANCED"))
              ELSE Answer(moved, "ADVANCED")
        Moved(q) == IF q.s.motion \in Walking /\ due THEN AtEdge(q, ans)
                    ELSE Landed(q, [q EXCEPT !.s = MotionUpdate(@, due)])
    IN  IF p.s.life = "ACTIVE"
          THEN Moved(RandomAction([p EXCEPT !.s = IF blink THEN Blink(@) ELSE @], random, ans))
          ELSE Answer(p, "ADVANCED")
=============================================================================
