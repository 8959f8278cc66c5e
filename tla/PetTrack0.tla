----------------------------- MODULE PetTrack0 -----------------------------
(***************************************************************************)
(* Track 0 of the pet's animation (application/pet/pet_track0.py): the     *)
(* arbiter that decides between requests, the runner that walks through    *)
(* the steps of a sequence, and the controller that turns both into player *)
(* commands, counts generations, contains failures and arms the watchdog.  *)
(*                                                                         *)
(* The controller's fields are one record.  An operation is an operator    *)
(* from the record, its arguments and the player's answers to the new      *)
(* record and the outcome, so that the engine (PetEngine) can make several *)
(* calls in one step as the code does.  The player is external: `played'   *)
(* and `cleared' say whether its play and its clear return or raise.  Its  *)
(* callbacks arrive in any order, late or twice, stamped with the          *)
(* generation of the play they report.                                     *)
(*                                                                         *)
(* The playback token is a fresh object per play and stands and falls with *)
(* the generation; the watchdog's deadline is a flag, since the clock may  *)
(* pass it at any time after it was set.  Requests carry the class and the *)
(* protection of their catalog entry, which preflight insists on, and the  *)
(* player has all four capabilities: without them every request is refused *)
(* before it changes anything.  No catalog entry has the shutdown class,   *)
(* so the arbiter's rules for it are left out.                             *)
(***************************************************************************)
EXTENDS PetActionSequence

CONSTANTS
    Offered,        \* the sequences a run requests
    Sessions,       \* input sessions of drags
    MaxGeneration   \* bound: no new request is made from this generation on

\* What the constants must satisfy.
Track0Assumption == Offered \subseteq SequenceName /\ MaxGeneration \in Nat

VARIABLES
    track0,         \* the controller with its runner
    call            \* the last operation: its name, event and outcome

vars == <<track0, call>>

Origin == {"SYSTEM", "EXPLICIT", "AUTONOMOUS"}

Health == {"HEALTHY", "DEGRADED", "UNKNOWN"}

NoRequest == [seq |-> "none", origin |-> "none", session |-> 0,
              epoch |-> 0, token |-> 0]

NoEpoch == [gen |-> 0, action |-> "none"]

ClassOf(req) == SEQUENCE_CATALOG[req.seq].class

ProtectedRequest(req) == SEQUENCE_CATALOG[req.seq].protected

(***************************************************************************)
(* PetActionArbiter.decide and the equal-class rules under it.  ctx holds  *)
(* what the caller tells the arbiter of the playback.                      *)
(***************************************************************************)
Decision(outcome, mode) == [outcome |-> outcome, mode |-> mode]

Accept(mode) == Decision("ACCEPTED", mode)

DecideMotionSafety(incoming, active, ctx) ==
    IF \/ ctx.health # "HEALTHY"
       \/ ctx.confirmedEpoch # active.epoch
       \/ ~ctx.compatible
       \/ incoming.epoch # active.epoch
      THEN Accept("REPLACE")
      ELSE Decision("REJECTED_DUPLICATE", "none")

DecideUserInteraction(incoming, active) ==
    IF incoming.session # active.session THEN Accept("REPLACE")
    ELSE IF incoming.seq = active.seq THEN Decision("REJECTED_DUPLICATE", "none")
    ELSE IF active.seq = "drag_hold" /\ incoming.seq = "drag_release" THEN Accept("REPLACE")
    ELSE Decision("REJECTED_PRIORITY", "none")

DecideNormalAction(incoming, active) ==
    IF incoming.origin = "EXPLICIT" /\ active.origin = "AUTONOMOUS" THEN Accept("REPLACE")
    ELSE IF incoming.origin = "AUTONOMOUS" /\ active.origin = "EXPLICIT"
      THEN Decision("REJECTED_PRIORITY", "none")
    ELSE IF incoming.seq # active.seq /\ ~ProtectedRequest(active) THEN Accept("REPLACE")
    ELSE Decision("REJECTED_PRIORITY", "none")

DecideEqualClass(incoming, active, ctx) ==
    CASE ClassOf(incoming) = MOTION_SAFETY -> DecideMotionSafety(incoming, active, ctx)
      [] ClassOf(incoming) = USER_INTERACTION -> DecideUserInteraction(incoming, active)
      [] ClassOf(incoming) = STRICT_ACTION -> Decision("REJECTED_PRIORITY", "none")
      [] ClassOf(incoming) = NORMAL_ACTION -> DecideNormalAction(incoming, active)
      [] ClassOf(incoming) = IDLE -> Decision("REJECTED_DUPLICATE", "none")

Decide(incoming, active, ctx) ==
    IF active = NoRequest THEN Accept("none")
    ELSE IF ClassOf(incoming) > ClassOf(active) THEN Accept("REPLACE")
    ELSE IF ClassOf(incoming) < ClassOf(active) THEN Decision("REJECTED_PRIORITY", "none")
    ELSE IF incoming.seq = active.seq /\ incoming.token = active.token
      THEN Decision("REJECTED_DUPLICATE", "none")
    ELSE DecideEqualClass(incoming, active, ctx)

(***************************************************************************)
(* PetSequenceRunner.  seq, index, pendingExit and epoch are its fields;   *)
(* epoch is the play the player confirmed for the current step.            *)
(***************************************************************************)
ResetRunner(t) ==
    [t EXCEPT !.seq = "none", !.index = 0, !.pendingExit = FALSE, !.epoch = NoEpoch]

StartRunner(t, seq) ==
    [t EXCEPT !.seq = seq, !.index = 1, !.pendingExit = FALSE, !.epoch = NoEpoch]

Sequence(t) == SEQUENCE_CATALOG[t.seq]

CurrentStep(t) == Sequence(t).steps[t.index]

\* Seeded fault: a callback is recognised by the name of its action.
EventMatchesByName(t, event) ==
    t.epoch # NoEpoch /\ t.seq # "none" /\ event.action = CurrentStep(t).action

\* _event_matches_current_epoch: every identity field must match.
EventMatches(t, event) ==
    /\ t.epoch # NoEpoch
    /\ t.seq # "none"
    /\ event.gen = t.epoch.gen
    /\ event.action = t.epoch.action
    /\ event.action = CurrentStep(t).action

\* request_graceful_exit: what it answers, and whether the exit is armed.
GracefulExitOutcome(t) ==
    IF t.seq = "none" THEN "INVALID_SEQUENCE"
    ELSE IF Sequence(t).exitIndex = 0 \/ t.index > Sequence(t).loopIndex THEN "INVALID_SEQUENCE"
    ELSE IF t.pendingExit THEN "REJECTED_DUPLICATE" ELSE "ACCEPTED"

(***************************************************************************)
(* The controller.                                                         *)
(***************************************************************************)
Preflight(seq) ==
    IF SEQUENCE_CATALOG[seq].track # 0 THEN "INVALID_SEQUENCE"
    ELSE IF ~ValidSequence(SEQUENCE_CATALOG[seq]) THEN "REGISTRY_MISMATCH"
    ELSE "ACCEPTED"

Result(t, outcome) == [t |-> t, outcome |-> outcome]

\* No request, no playback, no watchdog: what every containment ends in.
Emptied(t, health) ==
    [ResetRunner(t) EXCEPT !.active = NoRequest, !.desired = "none",
                           !.confirmed = NoEpoch, !.health = health,
                           !.watchdog = FALSE]

Allocate(t) == [t EXCEPT !.generation = @ + 1]

\* contain_preflight_failure, _contain_failed_play: clear, never healthy.
Contain(t, cleared) ==
    IF cleared THEN Result(Emptied(Allocate(t), "DEGRADED"), "PLAYBACK_DEGRADED")
               ELSE Result(Emptied(Allocate(t), "UNKNOWN"), "RENDERER_STATE_UNKNOWN")

\* Seeded fault: a clear that raised leaves the old playback in place.
ClearFailureKeepsPlayback(t, cleared) ==
    IF cleared THEN Result(Emptied(Allocate(t), t.health), "CLEARED")
               ELSE Result(Allocate(t), "RENDERER_STATE_UNKNOWN")

Clear(t, cleared) ==
    IF cleared THEN Result(Emptied(Allocate(t), t.health), "CLEARED")
               ELSE Result(Emptied(Allocate(t), "UNKNOWN"), "RENDERER_STATE_UNKNOWN")

\* _arm_after_successful_play
ArmAfterPlay(t) == [t EXCEPT !.watchdog = ~CurrentStep(t).loop]

\* _arm_current_loop_boundary_watchdog
ArmLoopBoundary(t) == [t EXCEPT !.watchdog = CurrentStep(t).loop]

\* _play_directive for the step the runner has selected.
PlayStep(t, req, played, cleared) ==
    LET asked == Allocate(t)
        e == [gen |-> asked.generation, action |-> CurrentStep(t).action]
    IN  IF played
          THEN Result(ArmAfterPlay([asked EXCEPT !.epoch = e, !.confirmed = e,
                                                 !.active = req, !.desired = e.action,
                                                 !.health = "HEALTHY"]),
                      "ACCEPTED")
          ELSE Contain(asked, cleared)

Play(t, req, played, cleared) ==
    LET Unless(outcome) ==
            IF outcome = "ACCEPTED" THEN PlayStep(StartRunner(t, req.seq), req, played, cleared)
                                    ELSE Result(t, outcome)
    IN  IF t.active # NoRequest THEN Result(t, "REJECTED_PRIORITY") ELSE Unless(Preflight(req.seq))

\* cancel with mode REPLACE: forget the old playback, play the replacement.
Replace(t, req, played, cleared) ==
    LET Unless(outcome) ==
            IF outcome = "ACCEPTED" THEN Play(Emptied(t, t.health), req, played, cleared)
                                    ELSE Result(t, outcome)
    IN  Unless(Preflight(req.seq))

\* cancel with mode GRACEFUL_EXIT
GracefulExit(t) ==
    IF GracefulExitOutcome(t) = "ACCEPTED"
      THEN Result(ArmLoopBoundary([t EXCEPT !.pendingExit = TRUE]), "ACCEPTED")
      ELSE Result(t, GracefulExitOutcome(t))

\* How the engine asks: arbitrate, then play or replace.
Submit(t, req, ctx, played, cleared) ==
    LET d == Decide(req, t.active, ctx)
    IN  IF Preflight(req.seq) # "ACCEPTED" THEN Result(t, Preflight(req.seq))
        ELSE IF d.outcome # "ACCEPTED" THEN Result(t, d.outcome)
        ELSE IF t.active = NoRequest THEN Play(t, req, played, cleared)
        ELSE Replace(t, req, played, cleared)

\* adopt_active_playback: a one-step sequence takes over the same playback.
Adopt(t, req) ==
    LET entry == SEQUENCE_CATALOG[req.seq]
        takesOver == /\ t.active # NoRequest /\ t.confirmed # NoEpoch /\ t.seq # "none"
                     /\ Len(entry.steps) = 1 /\ CurrentStep(t) = entry.steps[1]
                     /\ t.confirmed.action = entry.steps[1].action
    IN  IF Preflight(req.seq) # "ACCEPTED" THEN Result(t, Preflight(req.seq))
        ELSE IF takesOver THEN Result([t EXCEPT !.active = req], "ACCEPTED")
        ELSE Result(t, "REJECTED_INCOMPATIBLE_STATE")

\* The runner moves to step i and the controller plays it for `req'.
Advance(t, i, req, played, cleared) ==
    PlayStep([t EXCEPT !.index = i, !.epoch = NoEpoch,
                       !.pendingExit = @ /\ ~CurrentStep(t).loop],
             req, played, cleared)

\* The last step is over: HOLD keeps the request and its pose.
Finish(t) ==
    IF Sequence(t).terminal = "HOLD"
      THEN [ResetRunner(t) EXCEPT !.watchdog = FALSE]
      ELSE Emptied(t, "HEALTHY")

\* handle_completion of the controller and of the runner.  `req' is the
\* request that goes on: the active one or the continuation given for it.
HandleCompletion(t, event, req, played, cleared) ==
    CASE ~EventMatches(t, event) -> Result(t, "STALE_COMPLETION")
      [] OTHER ->
           IF event.boundary # CurrentStep(t).loop THEN Result(t, "STALE_COMPLETION")
           ELSE IF event.boundary
             THEN CASE ~t.pendingExit -> Result(t, "ACCEPTED")
                    [] OTHER -> Advance(t, Sequence(t).exitIndex, req, played, cleared)
             ELSE CASE t.index < Len(Sequence(t).steps) ->
                          Advance(t, t.index + 1, req, played, cleared)
                    [] OTHER -> Result(Finish(t), "ACCEPTED")

\* poll_watchdog once the deadline has passed.
WatchdogExpired(t, cleared) == Result(Contain(t, cleared).t, "CALLBACK_TIMEOUT")

(***************************************************************************)
(* The controller under an arbitrary caller.                               *)
(***************************************************************************)
\* What the engine asks for: only a drag has an input session, and only for a
\* safety request does the arbiter look at the semantic epoch.
Requests ==
    UNION {[seq : {s},
            origin : CASE SEQUENCE_CATALOG[s].class = USER_INTERACTION -> {"EXPLICIT"}
                       [] SEQUENCE_CATALOG[s].class \in {MOTION_SAFETY, IDLE} -> {"SYSTEM"}
                       [] OTHER -> Origin,
            session : IF SEQUENCE_CATALOG[s].class = USER_INTERACTION
                        THEN Sessions ELSE {0},
            epoch : IF SEQUENCE_CATALOG[s].class = MOTION_SAFETY THEN {0, 1} ELSE {0},
            token : {1, 2}] : s \in Offered}

Init ==
    /\ track0 = [active |-> NoRequest, seq |-> "none", index |-> 0,
                 pendingExit |-> FALSE, epoch |-> NoEpoch, desired |-> "none",
                 confirmed |-> NoEpoch, health |-> "HEALTHY",
                 generation |-> 0, watchdog |-> FALSE]
    /\ call = [op |-> "init", gen |-> 0, outcome |-> "none"]

Called(op, gen, r) ==
    /\ track0' = r.t
    /\ call' = [op |-> op, gen |-> gen, outcome |-> r.outcome]

\* The clear that contains a failed play is made only if the play failed.
Answers(played, cleared) == played => cleared

Asking == track0.generation < MaxGeneration

\* The engine offers a request; what it knows of the playback goes with it.
DoSubmit ==
    /\ Asking
    /\ \E req \in Requests, compatible, played, cleared \in BOOLEAN :
         /\ Answers(played, cleared)
         /\ LET ctx == [health |-> track0.health, compatible |-> compatible,
                        confirmedEpoch |-> IF track0.confirmed = NoEpoch
                                             THEN 2 ELSE track0.active.epoch]
            IN  Called("submit", 0, Submit(track0, req, ctx, played, cleared))

DoAdopt == \E req \in Requests : Called("adopt", 0, Adopt(track0, req))

DoGracefulExit == Called("graceful_exit", 0, GracefulExit(track0))

DoClear == Asking /\ \E cleared \in BOOLEAN : Called("clear", 0, Clear(track0, cleared))

DoContain ==
    Asking /\ \E cleared \in BOOLEAN : Called("contain", 0, Contain(track0, cleared))

\* A callback of any play so far, under its own action's name or another's.
DoCompletion ==
    \E gen \in 1..track0.generation, action \in {track0.desired, "other"},
       boundary, played, cleared \in BOOLEAN :
        /\ Answers(played, cleared)
        /\ Called("completion", gen,
                  HandleCompletion(track0, [gen |-> gen, action |-> action,
                                            boundary |-> boundary],
                                   track0.active, played, cleared))

DoPollWatchdog ==
    /\ track0.watchdog
    /\ \E cleared \in BOOLEAN :
         Called("watchdog", 0, WatchdogExpired(track0, cleared))

Next ==
    \/ DoSubmit \/ DoAdopt \/ DoGracefulExit \/ DoClear \/ DoContain
    \/ DoCompletion \/ DoPollWatchdog

Spec == Init /\ [][Next]_vars

\* The clock goes on and the watchdog is polled; nothing else is promised:
\* a player may keep its callbacks to itself.
LiveSpec == Spec /\ WF_vars(DoPollWatchdog)

(***************************************************************************)
(* Properties.                                                             *)
(***************************************************************************)
RequestOrNone == Requests \cup {NoRequest}

Epoch == [gen : Nat \ {0}, action : PetActionName] \cup {NoEpoch}

Controller ==
    [active : RequestOrNone, seq : SequenceName \cup {"none"}, index : Nat,
     pendingExit : BOOLEAN, epoch : Epoch, desired : PetActionName \cup {"none"},
     confirmed : Epoch, health : Health, generation : Nat, watchdog : BOOLEAN]

\* Every field of the controller keeps its type, and the runner's step
\* number stays inside the sequence it walks through.
TypeOK ==
    /\ track0 \in Controller
    /\ IF track0.seq = "none" THEN track0.index = 0
         ELSE track0.index \in 1..Len(Sequence(track0).steps)

\* What the controller believes to be playing is what the last player command
\* started: no clear, failed play or replacement leaves an older play behind
\* as confirmed, and the runner waits for that same play or for none.
ConfirmedIsLastCommand ==
    /\ track0.confirmed # NoEpoch => track0.confirmed.gen = track0.generation
    /\ track0.epoch # NoEpoch =>
          /\ track0.epoch = track0.confirmed
          /\ track0.epoch.action = CurrentStep(track0).action

\* A request is active exactly while its playback is confirmed and desired,
\* and a walk through a sequence always serves an active request whose play
\* it waits for: no transaction ends half done.
RequestHasPlayback ==
    /\ track0.active # NoRequest <=> track0.confirmed # NoEpoch
    /\ track0.desired = track0.confirmed.action
    /\ track0.seq # "none" => track0.active # NoRequest /\ track0.epoch # NoEpoch

\* Once the renderer failed, nothing is active, desired, confirmed, walked
\* through or watched any more.
FailedPlaybackIsEmpty ==
    track0.health # "HEALTHY" =>
        track0 = Emptied(track0, track0.health)

\* The watchdog never fires at something nobody waits for: while it is armed
\* the runner waits for the end of a one-shot or the boundary of a loop that
\* is to be left.
WatchdogOnlyWhileAwaited ==
    track0.watchdog => /\ track0.epoch # NoEpoch
                       /\ ~CurrentStep(track0).loop \/ track0.pendingExit

\* The end of a one-shot is watched as long as no graceful exit was asked for.
OneShotIsWatched ==
    track0.seq # "none" /\ ~CurrentStep(track0).loop /\ ~track0.pendingExit
        => track0.watchdog

\* What the controller believes is what it last commanded, a failed playback
\* leaves nothing behind, and the watchdog watches what is awaited.
Track0IsConsistent ==
    /\ TypeOK /\ ConfirmedIsLastCommand /\ RequestHasPlayback
    /\ FailedPlaybackIsEmpty /\ WatchdogOnlyWhileAwaited /\ OneShotIsWatched

\* What the documents say and the code does not do (README, disagreements):
\* every one-shot, and every loop whose exit is pending, has a deadline.
AwaitedIsWatched ==
    track0.seq # "none" /\ (~CurrentStep(track0).loop \/ track0.pendingExit)
        => track0.watchdog

\* A callback of any play but the confirmed one changes nothing, whatever
\* action it names.
StaleCallbackIsHarmless ==
    call'.op = "completion" /\ call'.gen # track0.confirmed.gen
        => track0' = track0

\* A request gives way only to one of its own class or a higher one; to a
\* lower one only if it takes over the very same playback.  Among normal
\* actions, an autonomous one never displaces an explicit one, and nothing
\* of its class displaces a protected one.
NoPriorityInversion ==
    LET old == track0.active
        new == track0'.active
    IN  old # NoRequest /\ new # NoRequest /\ new # old
             /\ track0'.confirmed # track0.confirmed
          => /\ ClassOf(new) >= ClassOf(old)
             /\ ~(/\ ClassOf(new) = NORMAL_ACTION /\ ClassOf(old) = NORMAL_ACTION
                  /\ new.origin = "AUTONOMOUS" /\ old.origin = "EXPLICIT")
             /\ ProtectedRequest(old) => ClassOf(new) > ClassOf(old)

\* Failed health is never papered over: only a play the player confirmed
\* makes it healthy again.
OnlyPlayRestoresHealth ==
    track0.health # "HEALTHY" /\ track0'.health = "HEALTHY"
        => track0'.confirmed.gen > track0.generation

\* No step obeys a callback of another play, inverts a priority, or reports the
\* renderer as healthy before it confirmed a play.
Track0StepsAreSafe ==
    [][StaleCallbackIsHarmless /\ NoPriorityInversion /\ OnlyPlayRestoresHealth]_vars

\* A protected action ends even if its callbacks never come: the watchdog
\* bounds every step of it.
ProtectedEnds ==
    LET ProtectedActive == track0.active # NoRequest /\ ProtectedRequest(track0.active)
    IN  ProtectedActive ~> ~ProtectedActive
=============================================================================
