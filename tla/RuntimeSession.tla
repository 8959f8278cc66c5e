---------------------------- MODULE RuntimeSession ----------------------------
(***************************************************************************)
(* The asyncio side of the runtime: RuntimeSessionController, the turn     *)
(* coordinator and the Provider lifecycle of ProviderProfileService.       *)
(*                                                                         *)
(* Everything runs on one event loop, so code between two awaits is one    *)
(* step.  Two tasks interleave at the awaits: the dispatcher, which        *)
(* executes one command at a time, and the task of the active turn, whose  *)
(* completion callback is a third, separate step.  A command suspends      *)
(* while a turn is quiesced and while a Provider is closed; the variable   *)
(* cmd says where.                                                         *)
(*                                                                         *)
(* A command that is refused before it touches any state is a stuttering   *)
(* step and has no action.  The inside of a turn is module AgentLoop; here *)
(* a turn requests, streams, reaches one terminal event and drains.  One   *)
(* conversation is modelled: session identifiers only key the two          *)
(* dictionaries of the controller and never meet.                          *)
(***************************************************************************)
EXTENDS Naturals, FiniteSets

CONSTANTS
  Profile,   \* Provider profiles
  Setup,     \* what activation compares: stored profile content and options
  Provider,  \* Provider instances that can be built (bounds the number built)
  MaxTurns,  \* bounds the number of turns
  None

ASSUME NoneAssumption == None \notin Profile \cup Setup \cup Provider
ASSUME TurnsAssumption == MaxTurns \in Nat

VARIABLES
  \* RuntimeThread
  thread,          \* "dispatching", then "cleanup" after a CancelledError, "over"
  cmd,             \* the command being executed and the await it is at
  \* RuntimeSessionController
  rstate,          \* _state (_accepting_commands is rstate = "ready")
  loop,            \* the Provider _agent_loop was made for
  conts,           \* _continuations: the profile the stored value names
  sent,            \* turns started; the latest is number sent
  committed,       \* turns whose messages are in _histories
  guiTurn,         \* active_turn_id of the last published snapshot, 0 for none
  \* DefaultActiveTurnCoordinator and the turn's task
  turn,            \* the latest turn task
  bound,           \* _record is that turn
  \* ProviderProfileService
  active,          \* _active_provider
  runtimeProfile,  \* _runtime_profile_id
  runtimeSetup,    \* _runtime_profile_snapshot and _runtime_activation_options
  retiring,        \* _retiring_providers
  candidates,      \* _candidate_cleanup_pending
  lifecycle,       \* _lifecycle_state
  svcClosed,       \* _closed
  persisted,       \* the repository's active profile identifier
  \* the Provider instances
  pstate,          \* "unbuilt", "open", "closed"
  accepting,       \* _ManagedProvider._accepting_requests
  profileOf        \* _ManagedProvider._profile_id

control   == <<thread, cmd, rstate, loop>>
talk      == <<conts, committed, sent>>
turns     == <<turn, bound>>
published == <<active, runtimeProfile, runtimeSetup, persisted>>
pool      == <<retiring, candidates>>
instances == <<pstate, accepting, profileOf>>
vars      == <<control, talk, guiTurn, turns, published, pool, lifecycle,
               svcClosed, instances>>

-----------------------------------------------------------------------------
(* Values.                                                                 *)

Handling == {"none", "wait", "cancel"}
Phase    == {"created", "requesting", "streaming", "draining", "done"}

Task ==
  [id : 0..MaxTurns, profile : Profile \cup {None},
   provider : Provider \cup {None}, phase : Phase,
   token : BOOLEAN,      \* CancellationToken.cancelled
   terminal : BOOLEAN,   \* mark_terminal was called
   cancelled : BOOLEAN]  \* the task ended with CancelledError

NoTask == [id |-> 0, profile |-> None, provider |-> None, phase |-> "done",
           token |-> FALSE, terminal |-> FALSE, cancelled |-> FALSE]

Command ==
  [op : {"none", "activate", "cancel", "shutdown"},
   at : {"idle", "retry", "quiesce", "closeOld", "closeCandidate"},
   profile : Profile \cup {None}, setup : Setup \cup {None},
   handling : Handling,
   old : Provider \cup {None}, oldProfile : Profile \cup {None},
   oldSetup : Setup \cup {None},
   closing : Provider \cup {None}]  \* the Provider whose aclose() is awaited

NoCmd == [op |-> "none", at |-> "idle", profile |-> None, setup |-> None,
          handling |-> "none", old |-> None, oldProfile |-> None,
          oldSetup |-> None, closing |-> None]

Idle    == cmd = NoCmd

\* _has_pending_cleanup
Pending == retiring \cup candidates

-----------------------------------------------------------------------------
(* How a command ends.  RuntimeThread publishes a snapshot after every     *)
(* command.  A CancelledError leaves the dispatcher, and the thread makes  *)
(* one last attempt to shut the controller down.                           *)

PublishSnapshot == guiTurn' = IF bound' THEN turn'.id ELSE 0

EndCommand ==
  /\ cmd' = NoCmd
  /\ thread' = IF thread = "cleanup" THEN "over" ELSE thread
  /\ PublishSnapshot

\* Seeded fault: the cleanup is attempted again for as long as it is cancelled.
RaiseCancelledAgain ==
  /\ cmd' = NoCmd /\ thread' = "cleanup"
  /\ UNCHANGED guiTurn

RaiseCancelled ==
  /\ cmd' = NoCmd
  /\ thread' = IF thread = "dispatching" THEN "cleanup" ELSE "over"
  /\ UNCHANGED guiTurn

Suspend(c) == cmd' = c /\ UNCHANGED <<thread, guiTurn>>

-----------------------------------------------------------------------------
(* prepare_for_provider_switch, up to its await.                           *)

\* What awaiting a finished turn task yields.
TaskVerdict ==
  IF turn.cancelled THEN "cancelled"
  ELSE IF turn.terminal THEN "quiet" ELSE "unsafe"

\* Seeded fault: the coordinator does not wait for the turn it cancelled.
PrepareVerdictNoWait(oldProfile) ==
  IF bound /\ turn.profile # oldProfile THEN "unsafe" ELSE "quiet"

PrepareVerdict(oldProfile) ==
  IF ~bound THEN "quiet"
  ELSE IF turn.profile # oldProfile THEN "unsafe"
  ELSE IF turn.phase = "done" THEN TaskVerdict
  ELSE "wait"

RequestCancellation(oldProfile, handling) ==
  turn' = IF bound /\ turn.profile = oldProfile /\ handling = "cancel"
          THEN [turn EXCEPT !.token = TRUE] ELSE turn

-----------------------------------------------------------------------------
(* activate_profile, from the point where no cleanup is pending.  ps and   *)
(* life are the Provider states and the lifecycle at that point.           *)

\* _agent_loop_factory(provider): both composition roots only wrap it.
NewAgentLoop(q) == loop' = q

Keep(ps, life) ==
  /\ pstate' = ps /\ lifecycle' = life
  /\ retiring' = {} /\ candidates' = {}
  /\ UNCHANGED <<published, accepting, profileOf>>

\* The profile is not in the repository (a settings command may delete one),
\* or it is the active one and its content or options have changed.
ActivationRefused(p, s, ps, life) ==
  /\ \/ active = None \/ runtimeProfile # p
     \/ runtimeSetup # s
  /\ Keep(ps, life)
  /\ UNCHANGED <<turn, loop>>
  /\ EndCommand

\* The same activation again: the active Provider gets a fresh AgentLoop.
ActivationReused(p, s, ps, life) ==
  /\ active # None /\ runtimeProfile = p /\ runtimeSetup = s
  /\ Keep(ps, life)
  /\ NewAgentLoop(active)
  /\ UNCHANGED turn
  /\ EndCommand

\* Seeded fault: the Provider is put back but still refuses requests.
RestoreOldRevoked ==
  /\ retiring' = retiring \ {cmd.old}
  /\ active' = cmd.old
  /\ runtimeProfile' = cmd.oldProfile /\ runtimeSetup' = cmd.oldSetup
  /\ lifecycle' = "active"
  /\ UNCHANGED accepting

\* The switch is given up: the old Provider is published again.
RestoreOld ==
  /\ retiring' = retiring \ {cmd.old}
  /\ accepting' = [accepting EXCEPT ![cmd.old] = TRUE]
  /\ active' = cmd.old
  /\ runtimeProfile' = cmd.oldProfile /\ runtimeSetup' = cmd.oldSetup
  /\ lifecycle' = "active"

ClearRuntime == active' = None /\ runtimeProfile' = None /\ runtimeSetup' = None

\* The old Provider is withdrawn and the turn that may use it is quiesced.
\* A failed or cancelled quiesce puts it back, resumed, in the same step.
SwitchAway(p, s, h) ==
  LET v == PrepareVerdict(runtimeProfile)
      saved == [NoCmd EXCEPT !.op = "activate", !.profile = p, !.setup = s,
                             !.handling = h, !.old = active,
                             !.oldProfile = runtimeProfile,
                             !.oldSetup = runtimeSetup]
  IN
  /\ active # None /\ runtimeProfile # p
  /\ RequestCancellation(runtimeProfile, h)
  /\ UNCHANGED <<candidates, persisted, pstate, profileOf, loop>>
  /\ \/ /\ v \in {"quiet", "wait"}
        /\ lifecycle' = "switching"
        /\ accepting' = [accepting EXCEPT ![active] = FALSE]
        /\ retiring' = {active}
        /\ ClearRuntime
        /\ Suspend(IF v = "wait" THEN [saved EXCEPT !.at = "quiesce"]
                   ELSE [saved EXCEPT !.at = "closeOld", !.closing = active])
     \/ /\ v \in {"unsafe", "cancelled"}
        /\ lifecycle' = "active"
        /\ UNCHANGED <<active, runtimeProfile, runtimeSetup, retiring, accepting>>
        /\ IF v = "cancelled" THEN RaiseCancelled ELSE EndCommand

\* Build the candidate, check its identity, persist the choice, publish it.
\* A candidate that fails after it was built is closed before the command ends.
Construct(p, s, ps) ==
  /\ retiring' = {}
  /\ UNCHANGED turn
  /\ \/ /\ pstate' = ps /\ lifecycle' = "inactive" /\ candidates' = {}
        /\ UNCHANGED <<published, accepting, profileOf, loop>>
        /\ EndCommand
     \/ \E n \in Provider :
        /\ pstate[n] = "unbuilt"
        /\ pstate' = [ps EXCEPT ![n] = "open"]
        /\ profileOf' = [profileOf EXCEPT ![n] = p]
        /\ \/ /\ candidates' = {n}
              /\ accepting' = [accepting EXCEPT ![n] = FALSE]
              /\ lifecycle' = "switching"
              /\ UNCHANGED <<published, loop>>
              /\ Suspend([NoCmd EXCEPT !.op = "activate",
                                       !.at = "closeCandidate", !.closing = n])
           \/ /\ candidates' = {}
              /\ accepting' = [accepting EXCEPT ![n] = TRUE]
              /\ persisted' = p
              /\ active' = n /\ runtimeProfile' = p /\ runtimeSetup' = s
              /\ lifecycle' = "active"
              /\ NewAgentLoop(n)
              /\ EndCommand

Activate(p, s, h, ps, life) ==
  \/ ActivationRefused(p, s, ps, life)
  \/ ActivationReused(p, s, ps, life)
  \/ SwitchAway(p, s, h)
  \/ active = None /\ Construct(p, s, ps)

-----------------------------------------------------------------------------
(* _retry_pending_cleanup_locked closes every retained Provider.  There is *)
(* never more than one: that is OneOpenProvider, which would fail in the   *)
(* state where a second one is retained, before any retry meets it.  So    *)
(* the loop over both dictionaries is one close.                           *)

StartRetry(c, pending) ==
  /\ \E q \in pending : Suspend([c EXCEPT !.at = "retry", !.closing = q])
  /\ lifecycle' = "switching"

\* Commands --------------------------------------------------------------

ActivateProfile(p, s, h) ==
  /\ thread = "dispatching" /\ Idle /\ rstate = "ready"
  /\ ~(bound /\ h = "none")    \* switch_requires_turn_decision
  /\ UNCHANGED <<rstate, talk, bound, svcClosed>>
  /\ LET eff == IF h = "none" /\ active # None THEN "wait" ELSE h IN
     \/ /\ Pending = {}
        /\ Activate(p, s, eff, pstate, lifecycle)
     \/ /\ Pending # {}
        /\ StartRetry([NoCmd EXCEPT !.op = "activate", !.profile = p,
                                    !.setup = s, !.handling = eff], Pending)
        /\ UNCHANGED <<turn, loop, published, pool, instances>>

StartTurn ==
  /\ thread = "dispatching" /\ Idle /\ rstate = "ready"
  /\ ~bound
  /\ lifecycle # "cleanup_pending"
  /\ runtimeProfile # None /\ loop # None /\ active # None
  /\ sent < MaxTurns
  /\ sent' = sent + 1
  /\ turn' = [NoTask EXCEPT !.id = sent + 1, !.profile = runtimeProfile,
                            !.provider = loop, !.phase = "created"]
  /\ bound' = TRUE
  /\ EndCommand
  /\ UNCHANGED <<rstate, loop, conts, committed, published, pool, lifecycle,
                 svcClosed, instances>>

CancelActiveTurn ==
  /\ thread = "dispatching" /\ Idle /\ rstate = "ready"
  /\ bound
  /\ RequestCancellation(turn.profile, "cancel") /\ UNCHANGED bound
  /\ CASE PrepareVerdict(turn.profile) = "wait"      ->
            Suspend([NoCmd EXCEPT !.op = "cancel", !.at = "quiesce"])
       [] PrepareVerdict(turn.profile) = "cancelled" -> RaiseCancelled
       [] OTHER                                      -> EndCommand
  /\ UNCHANGED <<rstate, loop, talk, published, pool, lifecycle, svcClosed,
                 instances>>

\* What aclose() has to close besides the candidates.
Withdrawn == retiring \cup (IF active = None THEN {} ELSE {active})

\* shutdown up to its first await: the provider service is closed once no turn
\* is active.  Without anything to close, all of it is one step.
CloseService ==
  LET mine == Withdrawn IN
  /\ svcClosed' = TRUE
  /\ accepting' = [q \in Provider |-> accepting[q] /\ q # active]
  /\ retiring' = mine
  /\ ClearRuntime
  /\ UNCHANGED <<candidates, persisted, pstate, profileOf>>
  /\ \/ /\ mine \cup candidates = {}
        /\ lifecycle' = "closed" /\ rstate' = "closed" /\ loop' = None
        /\ cmd' = NoCmd /\ thread' = "over" /\ PublishSnapshot
     \/ /\ mine \cup candidates # {}
        /\ StartRetry([NoCmd EXCEPT !.op = "shutdown"], mine \cup candidates)
        /\ rstate' = "closing"
        /\ UNCHANGED loop

\* The shutdown command, and the last attempt RuntimeThread makes by itself
\* (_attempt_controller_cleanup) after the dispatcher was cancelled.
Shutdown(cancelActive) ==
  /\ Idle /\ rstate # "closed"
  /\ thread = "dispatching" \/ (thread = "cleanup" /\ cancelActive)
  /\ RequestCancellation(turn.profile, IF cancelActive THEN "cancel" ELSE "wait")
  /\ UNCHANGED <<talk, bound>>
  /\ LET v == PrepareVerdict(turn.profile) IN
     \/ /\ v = "quiet"
        /\ CloseService
     \/ /\ v # "quiet"
        /\ rstate' = "closing"
        /\ CASE v = "wait"      -> Suspend([NoCmd EXCEPT !.op = "shutdown",
                                                         !.at = "quiesce"])
             [] v = "cancelled" -> RaiseCancelled
             [] OTHER           -> EndCommand
        /\ UNCHANGED <<loop, published, pool, lifecycle, svcClosed, instances>>

\* Awaits ----------------------------------------------------------------

\* The awaited turn task is over.  The task's own callback was registered
\* first, so the turn has been released when the command resumes.
QuiesceEnds ==
  /\ cmd.at = "quiesce"
  /\ turn.phase = "done" /\ ~bound
  /\ UNCHANGED <<turn, bound, talk>>
  /\ \/ /\ cmd.op = "cancel"
        /\ IF TaskVerdict = "cancelled" THEN RaiseCancelled ELSE EndCommand
        /\ UNCHANGED <<rstate, loop, published, pool, lifecycle, svcClosed,
                       instances>>
     \/ /\ cmd.op = "shutdown" /\ TaskVerdict = "quiet"
        /\ CloseService
     \/ /\ cmd.op = "shutdown" /\ TaskVerdict # "quiet"
        /\ IF TaskVerdict = "cancelled" THEN RaiseCancelled ELSE EndCommand
        /\ UNCHANGED <<rstate, loop, published, pool, lifecycle, svcClosed,
                       instances>>
     \/ /\ cmd.op = "activate" /\ TaskVerdict = "quiet"
        /\ Suspend([cmd EXCEPT !.at = "closeOld", !.closing = cmd.old])
        /\ UNCHANGED <<rstate, loop, published, pool, lifecycle, svcClosed,
                       instances>>
     \/ /\ cmd.op = "activate" /\ TaskVerdict # "quiet"
        /\ RestoreOld
        /\ IF TaskVerdict = "cancelled" THEN RaiseCancelled ELSE EndCommand
        /\ UNCHANGED <<rstate, loop, candidates, persisted, svcClosed, pstate,
                       profileOf>>

Closed(q) == [pstate EXCEPT ![q] = "closed"]

\* aclose() of cmd.closing raises CancelledError: it stays tracked.
CloseCancelled ==
  /\ cmd.closing # None
  /\ lifecycle' = "cleanup_pending"
  /\ RaiseCancelled
  /\ UNCHANGED <<rstate, loop, talk, turns, published, pool, svcClosed,
                 instances>>

\* The old Provider of a switch: closed, the switch goes on to construct the
\* new one; not closed, it is retained and the switch fails.
CloseOldEnds ==
  /\ cmd.at = "closeOld"
  /\ UNCHANGED <<rstate, talk, bound, svcClosed>>
  /\ \/ Construct(cmd.profile, cmd.setup, Closed(cmd.closing))
     \/ /\ lifecycle' = "cleanup_pending"
        /\ UNCHANGED <<loop, turn, published, pool, instances>>
        /\ EndCommand

CloseCandidateEnds ==
  /\ cmd.at = "closeCandidate"
  /\ \/ /\ pstate' = Closed(cmd.closing)
        /\ candidates' = candidates \ {cmd.closing}
        /\ lifecycle' = "inactive"
     \/ /\ UNCHANGED <<pstate, candidates>>
        /\ lifecycle' = "cleanup_pending"
  /\ UNCHANGED <<rstate, loop, talk, turns, published, retiring, svcClosed,
                 accepting, profileOf>>
  /\ EndCommand

\* The close of the retry fails: the Provider stays retained.
RetryFails ==
  /\ cmd.at = "retry"
  /\ lifecycle' = "cleanup_pending"
  /\ UNCHANGED <<rstate, loop, talk, turns, published, pool, svcClosed,
                 instances>>
  /\ EndCommand

RetrySucceeds ==
  /\ cmd.at = "retry"
  /\ UNCHANGED <<talk, bound, svcClosed>>
  /\ \/ /\ cmd.op = "activate"
        /\ Activate(cmd.profile, cmd.setup, cmd.handling, Closed(cmd.closing),
                    "inactive")
        /\ UNCHANGED rstate
     \/ /\ cmd.op = "shutdown"
        /\ pstate' = Closed(cmd.closing)
        /\ retiring' = {} /\ candidates' = {}
        /\ lifecycle' = "closed" /\ rstate' = "closed" /\ loop' = None
        /\ UNCHANGED <<turn, published, accepting, profileOf>>
        /\ cmd' = NoCmd /\ thread' = "over"
        /\ PublishSnapshot

-----------------------------------------------------------------------------
(* The turn's task: _run_turn and its completion callback.                 *)

Live == turn.phase # "done"

TurnStepFrame == UNCHANGED <<control, published, pool, lifecycle, svcClosed,
                             instances, bound, sent>>

Continues(q) == conts[turn.profile] \in {None, profileOf[q]}

\* AgentLoop.run up to its first await.
TurnBegins ==
  /\ turn.phase = "created" /\ ~turn.token /\ Continues(turn.provider)
  /\ turn' = [turn EXCEPT !.phase = "requesting"]
  /\ TurnStepFrame /\ UNCHANGED <<conts, committed>>
  /\ PublishSnapshot

\* _ManagedProvider.generate_stream looks at _accepting_requests when the
\* first event is asked for.
RequestStarts ==
  /\ turn.phase = "requesting" /\ accepting[turn.provider]
  /\ turn' = [turn EXCEPT !.phase = "streaming"]
  /\ TurnStepFrame /\ UNCHANGED <<conts, committed, guiTurn>>

Terminal == [turn EXCEPT !.phase = "draining", !.terminal = TRUE]

\* What generate_stream makes of the continuation a Provider returns: without
\* a profile it is stamped, of another profile the turn fails.
Stamp(q, returned) ==
  IF returned = "unstamped" THEN profileOf[q] ELSE returned

OwnContinuation(q, returned) ==
  Stamp(q, returned) \in {None, profileOf[q]}

TurnCompletes ==
  /\ turn.phase = "streaming" /\ ~turn.token
  /\ \E returned \in Profile \cup {None, "unstamped"} :
       /\ OwnContinuation(turn.provider, returned)
       /\ conts' = [conts EXCEPT ![turn.profile] = Stamp(turn.provider, returned)]
  /\ committed' = committed \cup {turn.id}
  /\ turn' = Terminal
  /\ TurnStepFrame
  /\ PublishSnapshot

\* TURN_CANCELLED, or TURN_FAILED for any of its reasons: the request was
\* refused, the stream failed or timed out, the answer was malformed.
TurnFails ==
  /\ turn.phase \in {"created", "requesting", "streaming"}
  /\ turn' = Terminal
  /\ TurnStepFrame /\ UNCHANGED <<conts, committed>>
  /\ PublishSnapshot

TurnEnds ==
  /\ turn.phase = "draining"
  /\ turn' = [turn EXCEPT !.phase = "done"]
  /\ TurnStepFrame /\ UNCHANGED <<conts, committed, guiTurn>>

\* A CancelledError raised below the turn leaves the task.
TurnAborts ==
  /\ Live
  /\ turn' = [turn EXCEPT !.phase = "done", !.cancelled = TRUE]
  /\ TurnStepFrame /\ UNCHANGED <<conts, committed, guiTurn>>

\* _on_turn_done: release the turn, then TURN_SETTLED and its snapshot.
OnTurnDone ==
  /\ turn.phase = "done" /\ bound
  /\ bound' = FALSE
  /\ UNCHANGED turn
  /\ PublishSnapshot
  /\ UNCHANGED <<control, talk, published, pool, lifecycle, svcClosed, instances>>

-----------------------------------------------------------------------------

Init ==
  /\ thread = "dispatching" /\ cmd = NoCmd /\ rstate = "ready" /\ loop = None
  /\ conts = [p \in Profile |-> None] /\ committed = {} /\ sent = 0
  /\ guiTurn = 0 /\ turn = NoTask /\ bound = FALSE
  /\ active = None /\ runtimeProfile = None /\ runtimeSetup = None
  /\ persisted \in Profile
  /\ retiring = {} /\ candidates = {} /\ lifecycle = "inactive"
  /\ svcClosed = FALSE
  /\ pstate = [q \in Provider |-> "unbuilt"]
  /\ accepting = [q \in Provider |-> FALSE]
  /\ profileOf = [q \in Provider |-> None]

CommandStarts ==
  \/ \E p \in Profile, s \in Setup, h \in Handling : ActivateProfile(p, s, h)
  \/ StartTurn
  \/ CancelActiveTurn
  \/ \E cancelActive \in BOOLEAN : Shutdown(cancelActive)

CommandResumes ==
  \/ QuiesceEnds
  \/ CloseOldEnds
  \/ CloseCandidateEnds
  \/ CloseCancelled
  \/ RetryFails
  \/ RetrySucceeds

TurnStep ==
  \/ TurnBegins
  \/ RequestStarts
  \/ TurnCompletes
  \/ TurnFails
  \/ TurnEnds
  \/ TurnAborts
  \/ OnTurnDone

Next == CommandStarts \/ CommandResumes \/ TurnStep

Spec == Init /\ [][Next]_vars

\* The event loop keeps running both tasks and the callback, and the thread
\* makes its last cleanup attempt.  A turn ends because AgentLoop bounds it by
\* max_turn_seconds; that a Provider's aclose() returns is assumed, as the
\* architecture notes say.  Commands need not come.
Fairness ==
  /\ WF_vars(CommandResumes)
  /\ WF_vars(TurnStep)
  /\ WF_vars(thread = "cleanup" /\ Shutdown(TRUE))

FairSpec == Spec /\ Fairness

-----------------------------------------------------------------------------
(* Properties.                                                             *)

Open == {q \in Provider : pstate[q] = "open"}

TypeOK ==
  /\ thread \in {"dispatching", "cleanup", "over"}
  /\ cmd \in Command
  /\ cmd.at \in {"retry", "closeOld", "closeCandidate"} => cmd.closing \in Provider
  /\ rstate \in {"ready", "closing", "closed"}
  /\ loop \in Provider \cup {None}
  /\ conts \in [Profile -> Profile \cup {None}]
  /\ sent \in 0..MaxTurns /\ committed \subseteq 1..MaxTurns
  /\ guiTurn \in 0..MaxTurns
  /\ turn \in Task /\ bound \in BOOLEAN
  /\ Live => turn.provider \in Provider /\ turn.profile \in Profile
  /\ active \in Provider \cup {None}
  /\ runtimeProfile \in Profile \cup {None} /\ runtimeSetup \in Setup \cup {None}
  /\ persisted \in Profile
  /\ retiring \subseteq Provider /\ candidates \subseteq Provider
  /\ lifecycle \in {"inactive", "active", "switching", "cleanup_pending", "closed"}
  /\ svcClosed \in BOOLEAN
  /\ pstate \in [Provider -> {"unbuilt", "open", "closed"}]
  /\ accepting \in [Provider -> BOOLEAN]
  /\ profileOf \in [Provider -> Profile \cup {None}]

\* A Provider is neither closed nor being closed while the task of a turn that
\* runs on it is alive: every switch, cancellation and shutdown, the thread's
\* own cleanup included, waits for the task first.
NoCloseUnderTurn ==
  Live => turn.provider \in Open /\ cmd.closing # turn.provider

\* "Close the old Provider before constructing and publishing the new": at no
\* time are two Provider instances open, retained and rejected ones included.
OneOpenProvider ==
  \A q, r \in Open : q = r

\* No Provider leaks: an open one is published, or retained to be closed.
OpenProviderIsOwned ==
  Open \subseteq {active} \cup Pending

\* Between commands the lifecycle the GUI is shown tells the truth, however the
\* last command ended: it never stays at "switching", and "cleanup_pending",
\* which blocks turns and settings, stands exactly when something is retained.
LifecycleTruthful ==
  Idle =>
    /\ lifecycle # "switching"
    /\ lifecycle = "active" <=> active # None
    /\ lifecycle = "cleanup_pending" <=> Pending # {}
    /\ lifecycle = "closed" => svcClosed

\* A shutdown that reports success has released everything: no Provider is
\* open and no turn is running.
ClosedReleasesAll ==
  rstate = "closed" => Open = {} /\ ~Live /\ lifecycle = "closed"

\* The thread never exits under a running turn, also after a CancelledError
\* took the dispatcher down: "Own and quiesce the single active turn without
\* orphan tasks".
ThreadLeavesNoTurn ==
  thread = "over" => ~Live

\* A turn talks to a Provider of the profile it is recorded under, the one its
\* continuation is stored for, whatever activations failed before it.
TurnUsesItsProfile ==
  Live => profileOf[turn.provider] = turn.profile

\* The published Provider is usable: open, accepting requests, the one the
\* AgentLoop wraps, of the profile the snapshot names and the repository has
\* persisted, also after a switch away from it was given up.
PublishedProviderServes ==
  active # None =>
    /\ active \in Open /\ accepting[active] /\ loop = active
    /\ profileOf[active] = runtimeProfile /\ persisted = runtimeProfile
    /\ active \notin Pending

\* The GUI is never left busy: when a turn is released the last snapshot shows
\* no active turn, and while one is bound it shows that turn.
SnapshotFollowsTurn ==
  guiTurn = IF bound THEN turn.id ELSE 0

\* Continuations are isolated by profile: what is stored for a profile was
\* produced for it, whatever a Provider returned.
ContinuationOfItsProfile ==
  \A p \in Profile : conts[p] \in {None, p}

\* However commands end, at most one Provider is open, somebody owns it, no
\* turn is orphaned or has its Provider closed under it, and a successful
\* shutdown has released everything.
ProvidersAreOwned ==
  /\ TypeOK /\ NoCloseUnderTurn /\ OneOpenProvider /\ OpenProviderIsOwned
  /\ ClosedReleasesAll /\ ThreadLeavesNoTurn

\* What is published is true and isolated by profile: the lifecycle, the
\* Provider, the turn of the last snapshot, and the continuations.
PublishedIsTruthful ==
  /\ LifecycleTruthful /\ TurnUsesItsProfile /\ PublishedProviderServes
  /\ SnapshotFollowsTurn /\ ContinuationOfItsProfile

\* Every command the dispatcher started comes to an end.
CommandFinishes == ~Idle ~> Idle

\* A turn whose cancellation was requested is released.
CancelledTurnIsReleased == (bound /\ turn.token) ~> ~bound

\* A cancelled dispatcher's cleanup does not go on forever.
CleanupFinishes == (thread = "cleanup") ~> (thread = "over")

\* Nothing that waits for a turn or for a close waits for ever: commands,
\* cancelled turns and the thread's cleanup end.
WaitsEnd == CommandFinishes /\ CancelledTurnIsReleased /\ CleanupFinishes
=============================================================================
