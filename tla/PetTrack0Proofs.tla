--------------------------- MODULE PetTrack0Proofs ---------------------------
(***************************************************************************)
(* Proofs about PetTrack0, for every registry of timed actions, choice of  *)
(* requests, input sessions and bound: the controller of Track 0 stays     *)
(* consistent and its steps are safe.                                      *)
(*                                                                         *)
(* The invariant says that the controller has one of three shapes: empty,  *)
(* holding the last pose of a finished sequence, or walking through one.   *)
(* The lemmas take each operation of the controller from shape to shape.   *)
(***************************************************************************)
EXTENDS PetTrack0, TLAPS

-----------------------------------------------------------------------------
(* The catalog.                                                            *)

Classes == {IDLE, NORMAL_ACTION, STRICT_ACTION, USER_INTERACTION, MOTION_SAFETY}

Step == [action : PetActionName, loop : BOOLEAN]

\* What the proofs use of an entry of the catalog.
EntryOK(e) ==
  /\ Len(e.steps) \in Nat \ {0}
  /\ \A i \in 1..Len(e.steps) : e.steps[i] \in Step
  /\ e.exitIndex \in 0..Len(e.steps)
  /\ e.class \in Classes
  /\ e.protected <=> e.class = STRICT_ACTION

\* The steps _step makes.
LEMMA StepMade == ASSUME NEW a \in PetActionName PROVE Once(a) \in Step /\ Loop(a) \in Step
  BY DEF Step, Once, Loop

\* An entry _entry makes of such steps, with an exit step among them.
LEMMA EntryMade ==
  ASSUME NEW track, NEW steps, NEW class \in Classes, NEW loopIndex, NEW exitIndex, NEW terminal,
         NEW n \in Nat \ {0}, Len(steps) = n, \A i \in 1..n : steps[i] \in Step, exitIndex \in 0..n
  PROVE  EntryOK(Entry(track, steps, class, loopIndex, exitIndex, terminal))
  BY DEF EntryOK, Entry

\* Entries of 1 step.
LEMMA EntryOfOne ==
  ASSUME NEW track, NEW s1 \in Step, NEW class \in Classes,
         NEW loopIndex, NEW exitIndex \in 0..1, NEW terminal
  PROVE  EntryOK(Entry(track, <<s1>>, class, loopIndex, exitIndex, terminal))
<1> DEFINE steps == <<s1>>
<1>1. Len(steps) = 1 /\ \A i \in 1..1 : steps[i] \in Step OBVIOUS
<1>2. 1 \in Nat \ {0} OBVIOUS
<1> HIDE DEF steps
<1>3. EntryOK(Entry(track, steps, class, loopIndex, exitIndex, terminal)) BY <1>1, <1>2, EntryMade
<1> QED BY <1>3 DEF steps

\* Entries of 2 steps.
LEMMA EntryOfTwo ==
  ASSUME NEW track, NEW s1 \in Step, NEW s2 \in Step, NEW class \in Classes,
         NEW loopIndex, NEW exitIndex \in 0..2, NEW terminal
  PROVE  EntryOK(Entry(track, <<s1, s2>>, class, loopIndex, exitIndex, terminal))
<1> DEFINE steps == <<s1, s2>>
<1>1. Len(steps) = 2 /\ \A i \in 1..2 : steps[i] \in Step OBVIOUS
<1>2. 2 \in Nat \ {0} OBVIOUS
<1> HIDE DEF steps
<1>3. EntryOK(Entry(track, steps, class, loopIndex, exitIndex, terminal)) BY <1>1, <1>2, EntryMade
<1> QED BY <1>3 DEF steps

\* Entries of 3 steps.
LEMMA EntryOfThree ==
  ASSUME NEW track, NEW s1 \in Step, NEW s2 \in Step, NEW s3 \in Step, NEW class \in Classes,
         NEW loopIndex, NEW exitIndex \in 0..3, NEW terminal
  PROVE  EntryOK(Entry(track, <<s1, s2, s3>>, class, loopIndex, exitIndex, terminal))
<1> DEFINE steps == <<s1, s2, s3>>
<1>1. Len(steps) = 3 /\ \A i \in 1..3 : steps[i] \in Step OBVIOUS
<1>2. 3 \in Nat \ {0} OBVIOUS
<1> HIDE DEF steps
<1>3. EntryOK(Entry(track, steps, class, loopIndex, exitIndex, terminal)) BY <1>1, <1>2, EntryMade
<1> QED BY <1>3 DEF steps

\* Entries of 4 steps.
LEMMA EntryOfFour ==
  ASSUME NEW track, NEW s1 \in Step, NEW s2 \in Step, NEW s3 \in Step, NEW s4 \in Step, NEW class \in Classes,
         NEW loopIndex, NEW exitIndex \in 0..4, NEW terminal
  PROVE  EntryOK(Entry(track, <<s1, s2, s3, s4>>, class, loopIndex, exitIndex, terminal))
<1> DEFINE steps == <<s1, s2, s3, s4>>
<1>1. Len(steps) = 4 /\ \A i \in 1..4 : steps[i] \in Step OBVIOUS
<1>2. 4 \in Nat \ {0} OBVIOUS
<1> HIDE DEF steps
<1>3. EntryOK(Entry(track, steps, class, loopIndex, exitIndex, terminal)) BY <1>1, <1>2, EntryMade
<1> QED BY <1>3 DEF steps

\* The three constructors of common entries.
LEMMA CommonEntries ==
  ASSUME NEW a \in PetActionName, NEW class \in Classes
  PROVE  EntryOK(LoopThenIdle(a)) /\ EntryOK(OnceThenIdle(a, class)) /\ EntryOK(HeldLoop(a, class))
<1>1. Once(a) \in Step /\ Loop(a) \in Step /\ Once("return_idle") \in Step
  BY StepMade DEF PetActionName
<1>2. NORMAL_ACTION \in Classes BY DEF Classes
<1>3. 0 \in 0..1 /\ 0 \in 0..2 /\ 2 \in 0..2 OBVIOUS
<1>4. EntryOK(LoopThenIdle(a)) BY <1>1, <1>2, <1>3, EntryOfTwo DEF LoopThenIdle
<1>5. EntryOK(OnceThenIdle(a, class)) BY <1>1, <1>3, EntryOfTwo DEF OnceThenIdle
<1>6. EntryOK(HeldLoop(a, class)) BY <1>1, <1>3, EntryOfOne DEF HeldLoop
<1> QED BY <1>4, <1>5, <1>6

\* Every entry of the catalog, by the way it is made.
LEMMA CatalogOK == \A s \in SequenceName : EntryOK(SEQUENCE_CATALOG[s])
<1> DEFINE ok(s) == EntryOK(SEQUENCE_CATALOG[s])
<1>1. IDLE \in Classes /\ NORMAL_ACTION \in Classes /\ STRICT_ACTION \in Classes
      /\ USER_INTERACTION \in Classes /\ MOTION_SAFETY \in Classes
  BY DEF Classes
<1>2. \A s \in {"walk_left", "walk_right", "run_left", "run_right", "read", "type"} :
        SEQUENCE_CATALOG[s] = LoopThenIdle(s) /\ s \in PetActionName
  BY DEF SEQUENCE_CATALOG, PetActionName
<1>3. \A s \in {"wave", "happy", "confused", "angry"} :
        SEQUENCE_CATALOG[s] = OnceThenIdle(s, STRICT_ACTION) /\ s \in PetActionName
  BY DEF SEQUENCE_CATALOG, PetActionName
<1>4. \A s \in {"think", "remind"} :
        SEQUENCE_CATALOG[s] = OnceThenIdle(s, NORMAL_ACTION) /\ s \in PetActionName
  BY DEF SEQUENCE_CATALOG, PetActionName
<1>5. SEQUENCE_CATALOG["landing"] = OnceThenIdle("landing", MOTION_SAFETY) /\ "landing" \in PetActionName
  BY DEF SEQUENCE_CATALOG, PetActionName
<1>6. /\ SEQUENCE_CATALOG["idle"] = HeldLoop("idle", IDLE)
      /\ SEQUENCE_CATALOG["production_relax"] = HeldLoop("idle", NORMAL_ACTION)
      /\ SEQUENCE_CATALOG["production_motion_fallback"] = HeldLoop("idle", USER_INTERACTION)
      /\ SEQUENCE_CATALOG["production_move_left"] = HeldLoop("walk_left", NORMAL_ACTION)
      /\ SEQUENCE_CATALOG["production_move_right"] = HeldLoop("walk_right", NORMAL_ACTION)
      /\ SEQUENCE_CATALOG["production_sit"] = HeldLoop("sit_idle", NORMAL_ACTION)
      /\ SEQUENCE_CATALOG["production_sleep"] = HeldLoop("sleep_loop", NORMAL_ACTION)
      /\ {"idle", "walk_left", "walk_right", "sit_idle", "sleep_loop"} \subseteq PetActionName
  BY DEF SEQUENCE_CATALOG, PetActionName
<1>7. \A s \in {"walk_left", "walk_right", "run_left", "run_right", "read", "type", "wave", "happy",
                "confused", "angry", "think", "remind", "landing", "idle", "production_relax",
                "production_motion_fallback", "production_move_left", "production_move_right",
                "production_sit", "production_sleep"} : ok(s)
  BY <1>1, <1>2, <1>3, <1>4, <1>5, <1>6, CommonEntries
<1>8. \A s \in {"breathing", "blink", "drag_release", "fall_recovery", "production_special",
                "production_interact"} : ok(s)
  <2>1. /\ SEQUENCE_CATALOG["breathing"] = Entry(1, <<Loop("breathing")>>, NORMAL_ACTION, 1, 0, "HOLD")
        /\ SEQUENCE_CATALOG["blink"] = Entry(2, <<Once("blink")>>, NORMAL_ACTION, 0, 0, "COMPLETE")
        /\ SEQUENCE_CATALOG["drag_release"] = Entry(0, <<Once("drag_end")>>, USER_INTERACTION, 0, 0, "HOLD")
        /\ SEQUENCE_CATALOG["fall_recovery"] = Entry(0, <<Once("drag_end")>>, MOTION_SAFETY, 0, 0, "HOLD")
        /\ SEQUENCE_CATALOG["production_special"] = Entry(0, <<Once("wave")>>, STRICT_ACTION, 0, 0, "COMPLETE")
        /\ SEQUENCE_CATALOG["production_interact"] = Entry(0, <<Once("happy")>>, STRICT_ACTION, 0, 0, "COMPLETE")
    BY DEF SEQUENCE_CATALOG
  <2>2. \A a \in {"breathing", "blink", "drag_end", "wave", "happy"} : Once(a) \in Step /\ Loop(a) \in Step
    BY StepMade DEF PetActionName
  <2>3. 0 \in 0..1 OBVIOUS
  <2>4. ok("breathing") /\ ok("blink") BY <1>1, <2>1, <2>2, <2>3, EntryOfOne, ZenonT(40)
  <2>5. ok("drag_release") /\ ok("fall_recovery") BY <1>1, <2>1, <2>2, <2>3, EntryOfOne
  <2>6. ok("production_special") /\ ok("production_interact") BY <1>1, <2>1, <2>2, <2>3, EntryOfOne
  <2> QED BY <2>4, <2>5, <2>6
<1>9. \A s \in {"drag_hold", "sit", "sleep"} : ok(s)
  <2>1. /\ SEQUENCE_CATALOG["drag_hold"] = Entry(0, <<Once("drag_start"), Loop("drag_loop")>>,
                                                 USER_INTERACTION, 2, 0, "HOLD")
        /\ SEQUENCE_CATALOG["sit"] = Entry(0, <<Once("sit_down"), Loop("sit_idle"), Once("return_idle")>>,
                                           NORMAL_ACTION, 2, 3, "IDLE")
        /\ SEQUENCE_CATALOG["sleep"] = Entry(0, <<Once("sleep_start"), Loop("sleep_loop"), Once("sleep_end"),
                                                  Once("return_idle")>>, NORMAL_ACTION, 2, 3, "IDLE")
    BY DEF SEQUENCE_CATALOG
  <2>2. \A a \in {"drag_start", "drag_loop", "sit_down", "sit_idle", "sleep_start", "sleep_loop",
                  "sleep_end", "return_idle"} : Once(a) \in Step /\ Loop(a) \in Step
    BY StepMade DEF PetActionName
  <2>3. 0 \in 0..2 /\ 3 \in 0..3 /\ 3 \in 0..4 OBVIOUS
  <2>4. ok("drag_hold") BY <1>1, <2>1, <2>2, <2>3, EntryOfTwo
  <2>5. ok("sit") BY <1>1, <2>1, <2>2, <2>3, EntryOfThree, SMTT(30)
  <2>6. ok("sleep") BY <1>1, <2>1, <2>2, <2>3, EntryOfFour
  <2> QED BY <2>4, <2>5, <2>6
<1>10. SequenceName \subseteq
         {"walk_left", "walk_right", "run_left", "run_right", "read", "type", "wave", "happy",
          "confused", "angry", "think", "remind", "landing", "idle", "production_relax",
          "production_motion_fallback", "production_move_left", "production_move_right",
          "production_sit", "production_sleep"}
           \cup {"breathing", "blink", "drag_release", "fall_recovery", "production_special",
                 "production_interact"} \cup {"drag_hold", "sit", "sleep"}
  BY DEF SequenceName, SEQUENCE_CATALOG
<1> QED BY <1>7, <1>8, <1>9, <1>10

\* No sequence is called none.
LEMMA NoneIsNoSequence == "none" \notin SequenceName
  BY DEF SequenceName, SEQUENCE_CATALOG

-----------------------------------------------------------------------------
(* The inductive invariant: the controller has one of three shapes.        *)

\* Nothing is active, desired, confirmed, walked through or watched.
Empty(t) ==
  /\ t.seq = "none" /\ t.index = 0 /\ t.pendingExit = FALSE /\ t.epoch = NoEpoch
  /\ t.active = NoRequest /\ t.desired = "none" /\ t.confirmed = NoEpoch /\ t.watchdog = FALSE

\* A request and its confirmed playback, the last command the player obeyed.
Playing(t) ==
  /\ t.active # NoRequest /\ t.confirmed # NoEpoch
  /\ t.confirmed.gen = t.generation /\ t.desired = t.confirmed.action
  /\ t.health = "HEALTHY"

\* A sequence is over and the request keeps its last pose.
Held(t) ==
  /\ Playing(t)
  /\ t.seq = "none" /\ t.index = 0 /\ t.pendingExit = FALSE /\ t.epoch = NoEpoch
  /\ t.watchdog = FALSE

InStep(t) == t.seq \in SequenceName /\ t.index \in 1..Len(Sequence(t).steps)

\* A sequence is walked through and waits for the play of its current step.
Walking(t) ==
  /\ Playing(t) /\ InStep(t)
  /\ t.epoch = t.confirmed /\ t.epoch.action = CurrentStep(t).action
  /\ t.pendingExit => Sequence(t).exitIndex # 0
  /\ t.watchdog => ~CurrentStep(t).loop \/ t.pendingExit
  /\ ~CurrentStep(t).loop /\ ~t.pendingExit => t.watchdog

Good(t) == t \in Controller /\ (Empty(t) \/ Held(t) \/ Walking(t))

-----------------------------------------------------------------------------
(* Lemmas about the operations.                                            *)

\* What the proofs use of a request.
LEMMA RequestFacts ==
  ASSUME Track0Assumption, NEW req \in Requests
  PROVE  req.seq \in SequenceName /\ req # NoRequest /\ req \in RequestOrNone
<1>1. PICK s \in Offered : req.seq = s
  BY DEF Requests
<1>2. req.seq \in SequenceName BY <1>1 DEF Track0Assumption
<1> QED BY <1>2, NoneIsNoSequence DEF NoRequest, RequestOrNone

\* The step of a walk.
LEMMA StepFacts ==
  ASSUME NEW t, InStep(t)
  PROVE  CurrentStep(t).action \in PetActionName /\ CurrentStep(t).loop \in BOOLEAN
  BY CatalogOK DEF InStep, CurrentStep, Sequence, EntryOK, Step

\* Emptying any controller.
LEMMA EmptiedGood ==
  ASSUME NEW t \in Controller, NEW h \in Health
  PROVE  /\ Emptied(t, h) \in Controller /\ Empty(Emptied(t, h))
         /\ Emptied(t, h).health = h /\ Emptied(t, h).generation = t.generation
  BY DEF Controller, Emptied, ResetRunner, Empty, RequestOrNone, Epoch

\* A new generation.
LEMMA AllocateFacts ==
  ASSUME NEW t \in Controller
  PROVE  Allocate(t) \in Controller /\ Allocate(t).generation = t.generation + 1
  BY DEF Controller, Allocate

\* Containment.
LEMMA ContainGood ==
  ASSUME NEW t \in Controller, NEW cleared \in BOOLEAN
  PROVE  LET u == Contain(t, cleared).t IN
           /\ u \in Controller /\ Empty(u) /\ u.health # "HEALTHY" /\ u.generation = t.generation + 1
  BY AllocateFacts, EmptiedGood DEF Contain, Result, Health

\* A play the player confirmed, and one that failed.
LEMMA PlayStepGood ==
  ASSUME NEW t \in Controller, InStep(t), t.pendingExit => Sequence(t).exitIndex # 0,
         NEW req \in RequestOrNone, req # NoRequest,
         NEW played \in BOOLEAN, NEW cleared \in BOOLEAN
  PROVE  LET u == PlayStep(t, req, played, cleared).t IN
           /\ Good(u) /\ u.generation > t.generation
           /\ u.health = "HEALTHY" => u.active = req /\ u.confirmed.gen > t.generation
           /\ u.health # "HEALTHY" => u.active = NoRequest
<1>1. CASE played = TRUE
  <2> DEFINE e == [gen |-> t.generation + 1, action |-> CurrentStep(t).action]
             v == [Allocate(t) EXCEPT !.epoch = e, !.confirmed = e, !.active = req,
                                      !.desired = e.action, !.health = "HEALTHY"]
             u == [v EXCEPT !.watchdog = ~CurrentStep(v).loop]
  <2>1. Allocate(t) \in Controller /\ Allocate(t).generation = t.generation + 1
        /\ Allocate(t).seq = t.seq /\ Allocate(t).index = t.index
        /\ Allocate(t).pendingExit = t.pendingExit
    BY DEF Allocate, Controller
  <2>2. PlayStep(t, req, played, cleared).t = u
    BY <1>1, <2>1 DEF PlayStep, Result, ArmAfterPlay
  <2>3. e \in Epoch /\ e # NoEpoch /\ e.gen = t.generation + 1 /\ e.action = CurrentStep(t).action
        /\ e.action \in PetActionName
    BY StepFacts DEF Controller, Epoch, NoEpoch
  <2> HIDE DEF e
  <2>4. v \in Controller /\ v.seq = t.seq /\ v.index = t.index /\ v.pendingExit = t.pendingExit
        /\ v.epoch = e /\ v.confirmed = e /\ v.active = req /\ v.desired = e.action
        /\ v.health = "HEALTHY" /\ v.generation = t.generation + 1
    BY <2>1, <2>3 DEF Controller, Health
  <2>5. CurrentStep(v) = CurrentStep(t) /\ Sequence(v) = Sequence(t)
    BY <2>4 DEF CurrentStep, Sequence
  <2> HIDE DEF v
  <2>6. u \in Controller /\ u.seq = t.seq /\ u.index = t.index /\ u.pendingExit = t.pendingExit
        /\ u.epoch = e /\ u.confirmed = e /\ u.active = req /\ u.desired = e.action
        /\ u.health = "HEALTHY" /\ u.generation = t.generation + 1
        /\ u.watchdog = ~CurrentStep(t).loop
    BY <2>4, <2>5 DEF Controller
  <2> HIDE DEF u
  <2>7. CurrentStep(u) = CurrentStep(t) /\ Sequence(u) = Sequence(t) /\ InStep(u)
    BY <2>6 DEF CurrentStep, Sequence, InStep
  <2>8. Walking(u)
    BY <2>3, <2>6, <2>7, StepFacts DEF Walking, Playing
  <2>9. t.generation \in Nat BY DEF Controller
  <2> QED BY <2>2, <2>3, <2>6, <2>8, <2>9 DEF Good
<1>2. CASE played = FALSE
  <2> DEFINE v == Allocate(t)
             u == Contain(v, cleared).t
  <2>1. PlayStep(t, req, played, cleared).t = u
    BY <1>2 DEF PlayStep
  <2>2. v \in Controller /\ v.generation = t.generation + 1 BY AllocateFacts
  <2> HIDE DEF v
  <2>3. u \in Controller /\ Empty(u) /\ u.health # "HEALTHY" /\ u.generation = v.generation + 1
    BY <2>2, ContainGood
  <2>4. t.generation \in Nat BY DEF Controller
  <2> HIDE DEF u
  <2> QED BY <2>1, <2>2, <2>3, <2>4 DEF Good, Empty
<1> QED BY <1>1, <1>2

\* A sequence the catalog has starts at its first step.
LEMMA StartRunnerFacts ==
  ASSUME NEW t \in Controller, NEW s \in SequenceName
  PROVE  LET u == StartRunner(t, s) IN
           u \in Controller /\ InStep(u) /\ u.pendingExit = FALSE /\ u.generation = t.generation
<1> DEFINE u == StartRunner(t, s)
<1>1. u \in Controller /\ u.seq = s /\ u.index = 1 /\ u.pendingExit = FALSE /\ u.generation = t.generation
  BY DEF StartRunner, Controller, Epoch
<1> HIDE DEF u
<1>2. InStep(u) BY <1>1, CatalogOK DEF InStep, Sequence, EntryOK
<1> QED BY <1>1, <1>2 DEF u

\* What a caller can see of an operation: the controller stays as it is, is
\* emptied, or plays for the request that was given.
Served(t, u, req) ==
  \/ u = t
  \/ Empty(u) /\ u.health = t.health
  \/ Empty(u) /\ u.health # "HEALTHY"
  \/ u.active = req /\ u.health = "HEALTHY" /\ u.confirmed.gen > t.generation

\* play
LEMMA PlayGood ==
  ASSUME NEW t \in Controller, Good(t), NEW req \in RequestOrNone, req # NoRequest,
         req.seq \in SequenceName, NEW played \in BOOLEAN, NEW cleared \in BOOLEAN
  PROVE  LET u == Play(t, req, played, cleared).t IN Good(u) /\ Served(t, u, req)
<1>1. CASE Play(t, req, played, cleared).t = t
  BY <1>1 DEF Served
<1>2. CASE Play(t, req, played, cleared) = PlayStep(StartRunner(t, req.seq), req, played, cleared)
  <2> DEFINE v == StartRunner(t, req.seq)
             u == PlayStep(v, req, played, cleared).t
  <2>1. v \in Controller /\ InStep(v) /\ v.pendingExit = FALSE /\ v.generation = t.generation
    BY StartRunnerFacts
  <2> HIDE DEF v
  <2>2. /\ Good(u) /\ u.generation > v.generation
        /\ u.health = "HEALTHY" => u.active = req /\ u.confirmed.gen > v.generation
        /\ u.health # "HEALTHY" => u.active = NoRequest
    BY <2>1, PlayStepGood
  <2>3. u.health # "HEALTHY" => Empty(u)
    BY <2>2 DEF Good, Held, Walking, Playing
  <2> QED BY <1>2, <2>1, <2>2, <2>3 DEF Served, v
<1> QED BY <1>1, <1>2 DEF Play, Result

\* cancel with mode REPLACE
LEMMA ReplaceGood ==
  ASSUME NEW t \in Controller, Good(t), NEW req \in RequestOrNone, req # NoRequest,
         req.seq \in SequenceName, NEW played \in BOOLEAN, NEW cleared \in BOOLEAN
  PROVE  LET u == Replace(t, req, played, cleared).t IN Good(u) /\ Served(t, u, req)
<1> DEFINE v == Emptied(t, t.health)
           u == Play(v, req, played, cleared).t
<1>1. CASE Replace(t, req, played, cleared).t = t
  BY <1>1 DEF Served
<1>2. CASE Replace(t, req, played, cleared) = Play(v, req, played, cleared)
  <2>1. v \in Controller /\ Empty(v) /\ v.health = t.health /\ v.generation = t.generation
    BY EmptiedGood DEF Controller
  <2> HIDE DEF v
  <2>2. Good(u) /\ Served(v, u, req) BY <2>1, PlayGood DEF Good
  <2>3. Served(t, u, req) BY <2>1, <2>2 DEF Served
  <2> QED BY <1>2, <2>2, <2>3
<1> QED BY <1>1, <1>2 DEF Replace, Result

\* How the engine asks.
LEMMA SubmitGood ==
  ASSUME NEW t \in Controller, Good(t), NEW req \in RequestOrNone, req # NoRequest,
         req.seq \in SequenceName, NEW ctx, NEW played \in BOOLEAN, NEW cleared \in BOOLEAN
  PROVE  LET u == Submit(t, req, ctx, played, cleared).t IN Good(u) /\ Served(t, u, req)
<1>1. CASE Submit(t, req, ctx, played, cleared).t = t
  BY <1>1 DEF Served
<1>2. CASE Submit(t, req, ctx, played, cleared) = Play(t, req, played, cleared)
  BY <1>2, PlayGood
<1>3. CASE Submit(t, req, ctx, played, cleared) = Replace(t, req, played, cleared)
  BY <1>3, ReplaceGood
<1> QED BY <1>1, <1>2, <1>3 DEF Submit, Result

\* adopt_active_playback: the request changes, its playback does not.
LEMMA AdoptGood ==
  ASSUME NEW t \in Controller, Good(t), NEW req \in RequestOrNone, req # NoRequest
  PROVE  LET u == Adopt(t, req).t IN
           Good(u) /\ u.health = t.health /\ u.confirmed = t.confirmed
<1>1. CASE Adopt(t, req).t = t BY <1>1
<1>2. CASE Adopt(t, req).t = [t EXCEPT !.active = req] /\ t.active # NoRequest
  <2> DEFINE u == [t EXCEPT !.active = req]
  <2>1. u \in Controller /\ u.active = req /\ u.seq = t.seq /\ u.index = t.index /\ u.epoch = t.epoch
        /\ u.confirmed = t.confirmed /\ u.desired = t.desired /\ u.pendingExit = t.pendingExit
        /\ u.health = t.health /\ u.generation = t.generation /\ u.watchdog = t.watchdog
    BY DEF Controller
  <2> HIDE DEF u
  <2>2. CurrentStep(u) = CurrentStep(t) /\ Sequence(u) = Sequence(t)
    BY <2>1 DEF CurrentStep, Sequence
  <2>3. Held(u) \/ Walking(u)
    BY <1>2, <2>1, <2>2 DEF Good, Empty, Held, Walking, Playing, InStep
  <2> QED BY <1>2, <2>1, <2>3 DEF Good, u
<1> QED BY <1>1, <1>2 DEF Adopt, Result

\* cancel with mode GRACEFUL_EXIT
LEMMA GracefulExitGood ==
  ASSUME NEW t \in Controller, Good(t)
  PROVE  LET u == GracefulExit(t).t IN
           Good(u) /\ u.health = t.health /\ u.active = t.active
<1>1. CASE GracefulExit(t).t = t BY <1>1
<1>2. CASE /\ GracefulExit(t).t = ArmLoopBoundary([t EXCEPT !.pendingExit = TRUE])
           /\ GracefulExitOutcome(t) = "ACCEPTED"
  <2>1. t.seq # "none" /\ Sequence(t).exitIndex # 0
    BY <1>2 DEF GracefulExitOutcome
  <2>2. Walking(t) BY <2>1 DEF Good, Empty, Held
  <2> DEFINE v == [t EXCEPT !.pendingExit = TRUE]
             u == [v EXCEPT !.watchdog = CurrentStep(v).loop]
  <2>3. v \in Controller /\ v.active = t.active /\ v.seq = t.seq /\ v.index = t.index /\ v.epoch = t.epoch
        /\ v.confirmed = t.confirmed /\ v.desired = t.desired /\ v.pendingExit = TRUE
        /\ v.health = t.health /\ v.generation = t.generation
    BY DEF Controller
  <2> HIDE DEF v
  <2>4. CurrentStep(v) = CurrentStep(t)
    BY <2>3 DEF CurrentStep, Sequence
  <2>5. CurrentStep(t).loop \in BOOLEAN BY <2>2, StepFacts DEF Walking
  <2>6. u \in Controller /\ u.active = t.active /\ u.seq = t.seq /\ u.index = t.index /\ u.epoch = t.epoch
        /\ u.confirmed = t.confirmed /\ u.desired = t.desired /\ u.pendingExit = TRUE
        /\ u.health = t.health /\ u.generation = t.generation
    BY <2>3, <2>4, <2>5 DEF Controller
  <2>7. GracefulExit(t).t = u BY <1>2 DEF ArmLoopBoundary, v
  <2> HIDE DEF u
  <2>8. CurrentStep(u) = CurrentStep(t) /\ Sequence(u) = Sequence(t)
    BY <2>6 DEF CurrentStep, Sequence
  <2>9. Walking(u)
    BY <2>1, <2>2, <2>6, <2>8 DEF Walking, Playing, InStep
  <2> QED BY <2>6, <2>7, <2>9 DEF Good
<1> QED BY <1>1, <1>2 DEF GracefulExit, Result

\* clear_track0
LEMMA ClearGood ==
  ASSUME NEW t \in Controller, NEW cleared \in BOOLEAN
  PROVE  LET u == Clear(t, cleared).t IN
           /\ Good(u) /\ Empty(u) /\ (u.health = t.health \/ u.health # "HEALTHY")
<1> DEFINE v == Allocate(t)
<1>1. v \in Controller BY AllocateFacts
<1>2. t.health \in Health BY DEF Controller
<1> HIDE DEF v
<1>3. CASE cleared = TRUE
  BY <1>1, <1>2, <1>3, EmptiedGood DEF Clear, Result, Good, v
<1>4. CASE cleared = FALSE
  <2>1. "UNKNOWN" \in Health BY DEF Health
  <2> QED BY <1>1, <1>4, <2>1, EmptiedGood DEF Clear, Result, Good, v
<1> QED BY <1>3, <1>4

\* The runner moves to another step of its sequence.
LEMMA AdvanceGood ==
  ASSUME NEW t \in Controller, Walking(t), NEW i \in 1..Len(Sequence(t).steps),
         NEW req \in RequestOrNone, req # NoRequest, NEW played \in BOOLEAN, NEW cleared \in BOOLEAN
  PROVE  LET u == Advance(t, i, req, played, cleared).t IN
           Good(u) /\ (u.active = req \/ u.active = NoRequest)
<1> DEFINE v == [t EXCEPT !.index = i, !.epoch = NoEpoch,
                          !.pendingExit = t.pendingExit /\ ~CurrentStep(t).loop]
           u == PlayStep(v, req, played, cleared).t
<1>1. i \in Nat BY CatalogOK DEF Walking, InStep, Sequence, EntryOK
<1>2. v \in Controller /\ v.seq = t.seq /\ v.index = i /\ (v.pendingExit => t.pendingExit)
  BY <1>1 DEF Controller, Epoch
<1>3. Advance(t, i, req, played, cleared).t = u BY DEF Advance
<1> HIDE DEF v
<1>4. InStep(v) /\ Sequence(v) = Sequence(t) BY <1>2 DEF Walking, InStep, Sequence
<1>5. v.pendingExit => Sequence(v).exitIndex # 0 BY <1>2, <1>4 DEF Walking
<1>6. Good(u) /\ (u.health = "HEALTHY" => u.active = req) /\ (u.health # "HEALTHY" => u.active = NoRequest)
  BY <1>2, <1>4, <1>5, PlayStepGood
<1> QED BY <1>3, <1>6

\* The last step is over.
LEMMA FinishGood ==
  ASSUME NEW t \in Controller, Walking(t)
  PROVE  Good(Finish(t)) /\ (Finish(t).active = t.active \/ Finish(t).active = NoRequest)
<1>1. CASE Sequence(t).terminal = "HOLD"
  <2> DEFINE u == [ResetRunner(t) EXCEPT !.watchdog = FALSE]
  <2>1. u \in Controller /\ u.seq = "none" /\ u.index = 0 /\ u.pendingExit = FALSE /\ u.epoch = NoEpoch
        /\ u.watchdog = FALSE /\ u.active = t.active /\ u.confirmed = t.confirmed
        /\ u.desired = t.desired /\ u.health = t.health /\ u.generation = t.generation
    BY DEF Controller, ResetRunner, Epoch
  <2> HIDE DEF u
  <2>2. Held(u) BY <2>1 DEF Walking, Playing, Held
  <2> QED BY <1>1, <2>1, <2>2 DEF Finish, Good, u
<1>2. CASE Sequence(t).terminal # "HOLD"
  <2>1. "HEALTHY" \in Health BY DEF Health
  <2> QED BY <1>2, <2>1, EmptiedGood DEF Finish, Good, Empty
<1> QED BY <1>1, <1>2

\* A completion of the play that is waited for, and of any other.
LEMMA CompletionGood ==
  ASSUME NEW t \in Controller, Good(t), NEW event, NEW played \in BOOLEAN, NEW cleared \in BOOLEAN
  PROVE  LET u == HandleCompletion(t, event, t.active, played, cleared).t IN
           /\ Good(u) /\ (u.active = t.active \/ u.active = NoRequest)
           /\ u = t \/ (event.gen = t.confirmed.gen /\ t.health = "HEALTHY")
<1> DEFINE r == HandleCompletion(t, event, t.active, played, cleared)
<1>1. CASE r.t = t BY <1>1
<1>2. CASE r.t # t
  <2>1. EventMatches(t, event) BY <1>2 DEF HandleCompletion, Result
  <2>2. Walking(t) BY <2>1 DEF EventMatches, Good, Empty, Held
  <2>3. event.gen = t.confirmed.gen /\ t.health = "HEALTHY" BY <2>1, <2>2 DEF EventMatches, Walking, Playing
  <2>4. t.active \in RequestOrNone /\ t.active # NoRequest BY <2>2 DEF Walking, Playing, Controller
  <2>5. EntryOK(Sequence(t)) BY <2>2, CatalogOK DEF Walking, InStep, Sequence
  <2>6. CASE r = Advance(t, Sequence(t).exitIndex, t.active, played, cleared) /\ t.pendingExit
    <3>1. Sequence(t).exitIndex \in 1..Len(Sequence(t).steps)
      BY <2>2, <2>5, <2>6 DEF Walking, EntryOK
    <3> QED BY <2>2, <2>3, <2>4, <2>6, <3>1, AdvanceGood
  <2>7. CASE r = Advance(t, t.index + 1, t.active, played, cleared) /\ t.index < Len(Sequence(t).steps)
    <3>1. t.index + 1 \in 1..Len(Sequence(t).steps)
      BY <2>2, <2>5, <2>7 DEF Walking, InStep, EntryOK
    <3> QED BY <2>2, <2>3, <2>4, <2>7, <3>1, AdvanceGood
  <2>8. CASE r.t = Finish(t)
    BY <2>2, <2>3, <2>8, FinishGood
  <2>9. t.pendingExit \in BOOLEAN BY DEF Controller
  <2> QED BY <1>2, <2>1, <2>6, <2>7, <2>8, <2>9 DEF HandleCompletion, Result
<1> QED BY <1>1, <1>2

-----------------------------------------------------------------------------
(* The controller under an arbitrary caller.                               *)

Track0Inv == Good(track0)

\* The first state satisfies the invariant.
LEMMA InvInit == Init => Track0Inv
<1> SUFFICES ASSUME Init PROVE Good(track0) BY DEF Track0Inv
<1>1. track0 \in Controller
  BY DEF Init, Controller, RequestOrNone, Epoch, Health
<1>2. Empty(track0) BY DEF Init, Empty
<1> QED BY <1>1, <1>2 DEF Good

\* The invariant says what Track0IsConsistent does.
LEMMA InvMeans == Track0Inv => Track0IsConsistent
<1> SUFFICES ASSUME Good(track0) PROVE Track0IsConsistent BY DEF Track0Inv
<1> USE DEF Good
<1>1. TypeOK
  BY NoneIsNoSequence DEF TypeOK, Empty, Held, Walking, InStep
<1>2. ConfirmedIsLastCommand
  BY DEF ConfirmedIsLastCommand, Empty, Held, Walking, Playing
<1>3. RequestHasPlayback
  BY DEF RequestHasPlayback, Empty, Held, Walking, Playing, NoEpoch
<1>4. FailedPlaybackIsEmpty
  <2> SUFFICES ASSUME track0.health # "HEALTHY" PROVE track0 = Emptied(track0, track0.health)
    BY DEF FailedPlaybackIsEmpty
  <2>1. Empty(track0) BY DEF Held, Walking, Playing
  <2> QED BY <2>1 DEF Empty, Emptied, ResetRunner, Controller
<1>5. WatchdogOnlyWhileAwaited
  BY DEF WatchdogOnlyWhileAwaited, Empty, Held, Walking, Playing
<1>6. OneShotIsWatched
  BY DEF OneShotIsWatched, Empty, Held, Walking, Playing
<1> QED BY <1>1, <1>2, <1>3, <1>4, <1>5, <1>6 DEF Track0IsConsistent

\* The engine's request, with what the arbiter is told.
LEMMA SubmitShape ==
  ASSUME DoSubmit
  PROVE  \E req \in Requests, played \in BOOLEAN, cleared \in BOOLEAN : \E ctx :
           track0' = Submit(track0, req, ctx, played, cleared).t /\ call'.op = "submit"
<1>1. PICK req \in Requests, compatible \in BOOLEAN, played \in BOOLEAN, cleared \in BOOLEAN :
        Called("submit", 0, Submit(track0, req,
               [health |-> track0.health, compatible |-> compatible,
                confirmedEpoch |-> IF track0.confirmed = NoEpoch THEN 2 ELSE track0.active.epoch],
               played, cleared))
  BY Zenon DEF DoSubmit
<1> DEFINE ctx == [health |-> track0.health, compatible |-> compatible,
                   confirmedEpoch |-> IF track0.confirmed = NoEpoch THEN 2 ELSE track0.active.epoch]
<1>2. Called("submit", 0, Submit(track0, req, ctx, played, cleared)) BY <1>1
<1> HIDE DEF ctx
<1>3. track0' = Submit(track0, req, ctx, played, cleared).t /\ call'.op = "submit"
  BY <1>2 DEF Called
<1> QED BY <1>3

\* A callback, stamped with its generation.
LEMMA CompletionShape ==
  ASSUME DoCompletion
  PROVE  \E played \in BOOLEAN, cleared \in BOOLEAN : \E event :
           /\ track0' = HandleCompletion(track0, event, track0.active, played, cleared).t
           /\ call'.gen = event.gen
<1>1. PICK gen \in 1..track0.generation, action \in {track0.desired, "other"},
           boundary \in BOOLEAN, played \in BOOLEAN, cleared \in BOOLEAN :
        Called("completion", gen,
               HandleCompletion(track0, [gen |-> gen, action |-> action, boundary |-> boundary],
                                track0.active, played, cleared))
  BY DEF DoCompletion
<1> DEFINE event == [gen |-> gen, action |-> action, boundary |-> boundary]
<1>2. event.gen = gen OBVIOUS
<1>3. Called("completion", gen, HandleCompletion(track0, event, track0.active, played, cleared)) BY <1>1
<1> HIDE DEF event
<1>4. track0' = HandleCompletion(track0, event, track0.active, played, cleared).t /\ call'.gen = event.gen
  BY <1>2, <1>3 DEF Called
<1> QED BY <1>4

\* Every step keeps the invariant.
LEMMA InvStep ==
  ASSUME Track0Assumption, Track0Inv, [Next]_vars PROVE Track0Inv'
<1> USE DEF Track0Inv
<1>0. track0 \in Controller BY DEF Good
<1>1. CASE DoSubmit
  <2>1. PICK req \in Requests, played \in BOOLEAN, cleared \in BOOLEAN : \E ctx :
          track0' = Submit(track0, req, ctx, played, cleared).t
    BY <1>1, SubmitShape
  <2> QED BY <1>0, <2>1, RequestFacts, SubmitGood
<1>2. CASE DoAdopt
  <2>1. PICK req \in Requests : track0' = Adopt(track0, req).t
    BY <1>2 DEF DoAdopt, Called
  <2> QED BY <1>0, <2>1, RequestFacts, AdoptGood
<1>3. CASE DoGracefulExit
  BY <1>0, <1>3, GracefulExitGood DEF DoGracefulExit, Called
<1>4. CASE DoClear
  BY <1>0, <1>4, ClearGood DEF DoClear, Called
<1>5. CASE DoContain
  BY <1>0, <1>5, ContainGood DEF DoContain, Called, Good
<1>6. CASE DoCompletion
  <2>1. PICK played \in BOOLEAN, cleared \in BOOLEAN : \E event :
          track0' = HandleCompletion(track0, event, track0.active, played, cleared).t
    BY <1>6, CompletionShape
  <2> QED BY <1>0, <2>1, CompletionGood
<1>7. CASE DoPollWatchdog
  <2>1. PICK cleared \in BOOLEAN : track0' = Contain(track0, cleared).t
    BY <1>7 DEF DoPollWatchdog, Called, WatchdogExpired, Result
  <2> QED BY <1>0, <2>1, ContainGood DEF Good
<1>8. CASE UNCHANGED vars BY <1>8 DEF vars
<1> QED BY <1>1, <1>2, <1>3, <1>4, <1>5, <1>6, <1>7, <1>8 DEF Next

\* For every registry, choice of requests and bound: what the controller
\* believes to be playing is what it last commanded, no transaction ends half
\* done, a failed playback leaves nothing behind, and the watchdog watches what
\* is awaited, in whatever order requests, clears and callbacks arrive.
THEOREM Track0Consistent == ASSUME Track0Assumption PROVE Spec => []Track0IsConsistent
<1>1. Init => Track0Inv BY InvInit
<1>2. Track0Inv /\ [Next]_vars => Track0Inv' BY InvStep
<1>3. Track0Inv => Track0IsConsistent BY InvMeans
<1> QED BY <1>1, <1>2, <1>3, PTL DEF Spec

-----------------------------------------------------------------------------
(* What a step may not do.                                                 *)

\* PetActionArbiter.decide lets no request displace a higher one.
LEMMA DecideRespects ==
  ASSUME NEW new, NEW old, NEW ctx, old # NoRequest, new.seq \in SequenceName, old.seq \in SequenceName,
         Decide(new, old, ctx).outcome = "ACCEPTED"
  PROVE  /\ ClassOf(new) >= ClassOf(old)
         /\ ~(/\ ClassOf(new) = NORMAL_ACTION /\ ClassOf(old) = NORMAL_ACTION
              /\ new.origin = "AUTONOMOUS" /\ old.origin = "EXPLICIT")
         /\ ProtectedRequest(old) => ClassOf(new) > ClassOf(old)
<1>1. /\ ClassOf(new) \in Classes /\ ClassOf(old) \in Classes
      /\ ProtectedRequest(old) <=> ClassOf(old) = STRICT_ACTION
  BY CatalogOK DEF ClassOf, ProtectedRequest, EntryOK
<1> USE DEF IDLE, NORMAL_ACTION, STRICT_ACTION, USER_INTERACTION, MOTION_SAFETY, Classes
<1>2. CASE ClassOf(new) > ClassOf(old)
  BY <1>1, <1>2
<1>3. CASE ClassOf(new) < ClassOf(old)
  BY <1>1, <1>3 DEF Decide, Decision
<1>4. CASE ClassOf(new) = ClassOf(old)
  <2>1. DecideEqualClass(new, old, ctx).outcome = "ACCEPTED"
    BY <1>1, <1>4 DEF Decide, Decision
  <2>2. ClassOf(new) # STRICT_ACTION
    BY <2>1, <1>1 DEF DecideEqualClass, Decision
  <2>3. ASSUME ClassOf(new) = NORMAL_ACTION, new.origin = "AUTONOMOUS", old.origin = "EXPLICIT" PROVE FALSE
    BY <2>1, <2>3 DEF DecideEqualClass, DecideNormalAction, Decision
  <2> QED BY <1>1, <1>4, <2>2, <2>3
<1> QED BY <1>1, <1>2, <1>3, <1>4

\* Whatever is active was asked for.
LEMMA ActiveFacts ==
  ASSUME Track0Assumption, NEW t \in Controller, t.active # NoRequest
  PROVE  t.active.seq \in SequenceName
  BY RequestFacts DEF Controller, RequestOrNone

\* No step obeys a callback of a play that is not the confirmed one, lets a
\* request displace a higher or a protected one, or reports a failed renderer
\* as healthy before it confirmed a new play.
THEOREM Track0StepsSafe == ASSUME Track0Assumption PROVE Spec => Track0StepsAreSafe
<1> DEFINE Safe == StaleCallbackIsHarmless /\ NoPriorityInversion /\ OnlyPlayRestoresHealth
<1>1. Init => Track0Inv BY InvInit
<1>2. Track0Inv /\ [Next]_vars => Track0Inv' BY InvStep
<1>3. ASSUME Track0Inv, Next PROVE Safe
  <2> USE DEF Track0Inv
  <2>0. track0 \in Controller /\ Good(track0)' BY <1>2, <1>3 DEF Good
  <2>1. CASE DoSubmit
    <3>0. PICK req \in Requests, played \in BOOLEAN, cleared \in BOOLEAN : \E ctx :
            track0' = Submit(track0, req, ctx, played, cleared).t /\ call'.op = "submit"
      BY <2>1, SubmitShape
    <3>1. PICK ctx : track0' = Submit(track0, req, ctx, played, cleared).t /\ call'.op = "submit"
      BY <3>0
    <3>2. req.seq \in SequenceName /\ req # NoRequest /\ req \in RequestOrNone BY RequestFacts
    <3>3. Served(track0, track0', req) BY <1>3, <2>0, <3>1, <3>2, SubmitGood
    <3>4. OnlyPlayRestoresHealth
      BY <3>3 DEF OnlyPlayRestoresHealth, Served
    <3>5. ASSUME track0.active # NoRequest, track0' # track0 PROVE Decide(req, track0.active, ctx).outcome = "ACCEPTED"
      BY <3>1, <3>5 DEF Submit, Result
    <3>6. NoPriorityInversion
      <4> SUFFICES ASSUME track0.active # NoRequest, track0'.active # NoRequest,
                          track0'.active # track0.active
                   PROVE  /\ ClassOf(track0'.active) >= ClassOf(track0.active)
                          /\ ~(/\ ClassOf(track0'.active) = NORMAL_ACTION /\ ClassOf(track0.active) = NORMAL_ACTION
                               /\ track0'.active.origin = "AUTONOMOUS" /\ track0.active.origin = "EXPLICIT")
                          /\ ProtectedRequest(track0.active) => ClassOf(track0'.active) > ClassOf(track0.active)
        BY DEF NoPriorityInversion
      <4>1. track0'.active = req BY <3>3 DEF Served, Empty
      <4>2. track0.active.seq \in SequenceName BY <2>0, ActiveFacts
      <4> QED BY <3>2, <3>5, <4>1, <4>2, DecideRespects
    <3> QED BY <3>1, <3>4, <3>6 DEF StaleCallbackIsHarmless
  <2>2. CASE DoAdopt
    <3>1. PICK req \in Requests : track0' = Adopt(track0, req).t /\ call'.op = "adopt"
      BY <2>2 DEF DoAdopt, Called
    <3>2. track0'.health = track0.health /\ track0'.confirmed = track0.confirmed
      BY <1>3, <2>0, <3>1, RequestFacts, AdoptGood
    <3> QED BY <3>1, <3>2 DEF StaleCallbackIsHarmless, NoPriorityInversion, OnlyPlayRestoresHealth
  <2>3. CASE DoGracefulExit
    <3>1. track0' = GracefulExit(track0).t /\ call'.op = "graceful_exit"
      BY <2>3 DEF DoGracefulExit, Called
    <3>2. track0'.health = track0.health /\ track0'.active = track0.active
      BY <1>3, <2>0, <3>1, GracefulExitGood
    <3> QED BY <3>1, <3>2 DEF StaleCallbackIsHarmless, NoPriorityInversion, OnlyPlayRestoresHealth
  <2>4. CASE DoClear \/ DoContain \/ DoPollWatchdog
    <3>1. /\ Empty(track0') /\ (track0'.health = track0.health \/ track0'.health # "HEALTHY")
          /\ call'.op # "completion"
      <4>1. CASE DoClear BY <2>0, <4>1, ClearGood DEF DoClear, Called
      <4>2. CASE DoContain BY <2>0, <4>2, ContainGood DEF DoContain, Called
      <4>3. CASE DoPollWatchdog
        <5>1. PICK cleared \in BOOLEAN : track0' = Contain(track0, cleared).t /\ call'.op = "watchdog"
          BY <4>3 DEF DoPollWatchdog, Called, WatchdogExpired, Result
        <5> QED BY <2>0, <5>1, ContainGood
      <4> QED BY <2>4, <4>1, <4>2, <4>3
    <3> QED BY <3>1 DEF Empty, StaleCallbackIsHarmless, NoPriorityInversion, OnlyPlayRestoresHealth
  <2>5. CASE DoCompletion
    <3>0. PICK played \in BOOLEAN, cleared \in BOOLEAN : \E event :
            /\ track0' = HandleCompletion(track0, event, track0.active, played, cleared).t
            /\ call'.gen = event.gen
      BY <2>5, CompletionShape
    <3>1. PICK event :
            /\ track0' = HandleCompletion(track0, event, track0.active, played, cleared).t
            /\ call'.gen = event.gen
      BY <3>0
    <3>2. /\ track0'.active = track0.active \/ track0'.active = NoRequest
          /\ track0' = track0 \/ (event.gen = track0.confirmed.gen /\ track0.health = "HEALTHY")
      BY <1>3, <2>0, <3>1, CompletionGood
    <3> QED BY <3>1, <3>2 DEF StaleCallbackIsHarmless, NoPriorityInversion, OnlyPlayRestoresHealth
  <2> QED BY <1>3, <2>1, <2>2, <2>3, <2>4, <2>5 DEF Next
<1>4. Track0Inv /\ [Next]_vars => [Safe]_vars BY <1>3
<1> QED BY <1>1, <1>2, <1>4, PTL DEF Spec, Track0StepsAreSafe
=============================================================================
