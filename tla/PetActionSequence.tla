------------------------- MODULE PetActionSequence -------------------------
(***************************************************************************)
(* The vocabulary of the pet's animations and the catalog of sequences     *)
(* (application/pet/pet_action_sequence.py).  A sequence is a list of      *)
(* steps; at most one of them loops until an exit is requested, and then   *)
(* the sequence goes on at its declared exit step.  Step numbers count     *)
(* from 1 here and from 0 in the code; 0 stands for the code's None.       *)
(*                                                                         *)
(* Left out of a step: speed and mixing time, which only the renderer      *)
(* reads.  Left out of a binding: the physical name, which the registry    *)
(* makes a function of the action.                                         *)
(***************************************************************************)
EXTENDS Naturals, Sequences

CONSTANT
    Timed       \* the actions whose binding knows its source duration

(***************************************************************************)
(* InterruptClass: the fixed priorities of requests.                       *)
(***************************************************************************)
IDLE == 0
NORMAL_ACTION == 100
STRICT_ACTION == 200
USER_INTERACTION == 300
MOTION_SAFETY == 400
SYSTEM_SHUTDOWN == 500

PetActionName ==
    {"idle", "breathing", "blink", "walk_left", "walk_right", "run_left",
     "run_right", "sit_down", "sit_idle", "sleep_start", "sleep_loop",
     "sleep_end", "wave", "happy", "think", "read", "type", "remind",
     "confused", "angry", "drag_start", "drag_loop", "drag_end", "landing",
     "return_idle"}

(***************************************************************************)
(* Steps and catalog entries, built as _step and _entry build them.        *)
(***************************************************************************)
Once(a) == [action |-> a, loop |-> FALSE]

Loop(a) == [action |-> a, loop |-> TRUE]

Entry(track, steps, class, loopIndex, exitIndex, terminal) ==
    [track |-> track, steps |-> steps, class |-> class,
     loopIndex |-> loopIndex, exitIndex |-> exitIndex,
     terminal |-> terminal, protected |-> class = STRICT_ACTION]

\* A loop that is left through return_idle, and a one-shot that ends there.
LoopThenIdle(a) ==
    Entry(0, <<Loop(a), Once("return_idle")>>, NORMAL_ACTION, 1, 2, "IDLE")

OnceThenIdle(a, class) ==
    Entry(0, <<Once(a), Once("return_idle")>>, class, 0, 0, "IDLE")

\* A loop that only another request can replace.
HeldLoop(a, class) == Entry(0, <<Loop(a)>>, class, 1, 0, "HOLD")

(***************************************************************************)
(* SEQUENCE_CATALOG.                                                       *)
(***************************************************************************)
SEQUENCE_CATALOG ==
    [idle |-> HeldLoop("idle", IDLE),
     breathing |-> Entry(1, <<Loop("breathing")>>, NORMAL_ACTION, 1, 0, "HOLD"),
     blink |-> Entry(2, <<Once("blink")>>, NORMAL_ACTION, 0, 0, "COMPLETE"),
     walk_left |-> LoopThenIdle("walk_left"),
     walk_right |-> LoopThenIdle("walk_right"),
     run_left |-> LoopThenIdle("run_left"),
     run_right |-> LoopThenIdle("run_right"),
     sit |-> Entry(0, <<Once("sit_down"), Loop("sit_idle"), Once("return_idle")>>,
                   NORMAL_ACTION, 2, 3, "IDLE"),
     sleep |-> Entry(0, <<Once("sleep_start"), Loop("sleep_loop"),
                          Once("sleep_end"), Once("return_idle")>>,
                     NORMAL_ACTION, 2, 3, "IDLE"),
     wave |-> OnceThenIdle("wave", STRICT_ACTION),
     happy |-> OnceThenIdle("happy", STRICT_ACTION),
     think |-> OnceThenIdle("think", NORMAL_ACTION),
     read |-> LoopThenIdle("read"),
     type |-> LoopThenIdle("type"),
     remind |-> OnceThenIdle("remind", NORMAL_ACTION),
     confused |-> OnceThenIdle("confused", STRICT_ACTION),
     angry |-> OnceThenIdle("angry", STRICT_ACTION),
     drag_hold |-> Entry(0, <<Once("drag_start"), Loop("drag_loop")>>,
                         USER_INTERACTION, 2, 0, "HOLD"),
     drag_release |-> Entry(0, <<Once("drag_end")>>, USER_INTERACTION, 0, 0, "HOLD"),
     fall_recovery |-> Entry(0, <<Once("drag_end")>>, MOTION_SAFETY, 0, 0, "HOLD"),
     landing |-> OnceThenIdle("landing", MOTION_SAFETY),
     production_relax |-> HeldLoop("idle", NORMAL_ACTION),
     production_motion_fallback |-> HeldLoop("idle", USER_INTERACTION),
     production_move_left |-> HeldLoop("walk_left", NORMAL_ACTION),
     production_move_right |-> HeldLoop("walk_right", NORMAL_ACTION),
     production_sit |-> HeldLoop("sit_idle", NORMAL_ACTION),
     production_sleep |-> HeldLoop("sleep_loop", NORMAL_ACTION),
     production_special |-> Entry(0, <<Once("wave")>>, STRICT_ACTION, 0, 0, "COMPLETE"),
     production_interact |-> Entry(0, <<Once("happy")>>, STRICT_ACTION, 0, 0, "COMPLETE")]

SequenceName == DOMAIN SEQUENCE_CATALOG

(***************************************************************************)
(* _expected_track: the track every binding of the action must name.       *)
(***************************************************************************)
ExpectedTrack(a) == CASE a = "breathing" -> 1
                      [] a = "blink" -> 2
                      [] OTHER -> 0

(***************************************************************************)
(* AnimationRegistry.validate_sequence with duration metadata required.    *)
(***************************************************************************)
ValidSequence(entry) ==
    \A i \in 1..Len(entry.steps) :
        /\ ExpectedTrack(entry.steps[i].action) = entry.track
        /\ entry.steps[i].action \in Timed

(***************************************************************************)
(* The checks PetActionSequence.__post_init__ makes of every entry.        *)
(***************************************************************************)
WellFormed(entry) ==
    /\ Len(entry.steps) > 0
    /\ IF entry.loopIndex = 0
         THEN entry.exitIndex = 0
         ELSE /\ entry.loopIndex \in 1..Len(entry.steps)
              /\ entry.steps[entry.loopIndex].loop
              /\ entry.exitIndex \in 0..Len(entry.steps)

\* What the constants must satisfy.
TimedAssumption == Timed \subseteq PetActionName

\* What the constants must satisfy.
CatalogAssumption ==
    \A s \in SequenceName : WellFormed(SEQUENCE_CATALOG[s])
=============================================================================
