------------------------- MODULE RuntimeSessionProofs -------------------------
(***************************************************************************)
(* Proofs about RuntimeSession, for every set of profiles, activation      *)
(* setups and Provider instances and every number of turns: Providers are  *)
(* owned and what is published is true.                                    *)
(*                                                                         *)
(* Neither property is inductive.  The invariant SessionInv says where the *)
(* one open Provider is held at each await of the running command, and on  *)
(* which Provider a live turn can be.                                      *)
(***************************************************************************)
EXTENDS RuntimeSession, TLAPS

-----------------------------------------------------------------------------
(* The inductive invariant.                                                *)

\* A switch waits for the turn on the Provider it has withdrawn.
Switching == cmd.at = "quiesce" /\ cmd.op = "activate"

Closing == cmd.at \in {"retry", "closeOld", "closeCandidate"}

\* Every open Provider is held in one place, and there is one.
Pools ==
  /\ \A q \in Provider :
       pstate[q] = "open" <=> q = active \/ q \in retiring \/ q \in candidates
  /\ \A q, r \in Provider : pstate[q] = "open" /\ pstate[r] = "open" => q = r
  /\ active # None => retiring = {} /\ candidates = {}

\* What each await of a command implies.
Places ==
  /\ cmd.at = "idle" => Idle
  /\ cmd.at = "quiesce" => cmd.closing = None
  /\ cmd.op = "activate" /\ cmd.at \in {"retry", "quiesce", "closeOld"} =>
       cmd.profile \in Profile /\ cmd.setup \in Setup
  /\ cmd.at = "closeOld" => cmd.op = "activate"
  /\ cmd.at = "closeCandidate" => retiring = {}
  /\ cmd.at = "retry" /\ cmd.op = "shutdown" => svcClosed
  /\ Switching =>
       /\ active = None /\ candidates = {} /\ retiring = {cmd.old}
       /\ cmd.old \in Provider /\ loop = cmd.old
       /\ profileOf[cmd.old] = cmd.oldProfile /\ persisted = cmd.oldProfile
  /\ Closing => active = None /\ retiring \cup candidates = {cmd.closing} /\ ~Live

\* Where a live turn's Provider is: published, or withdrawn by the switch that
\* waits for the turn.
TurnHeld ==
  Live =>
    /\ bound /\ thread = "dispatching" /\ turn.id \in 1..MaxTurns
    /\ turn.provider = IF Switching THEN cmd.old ELSE active
    /\ profileOf[turn.provider] = turn.profile

\* The published Provider and the lifecycle, at the awaits too.
Published ==
  /\ active # None =>
       /\ accepting[active] /\ loop = active
       /\ profileOf[active] = runtimeProfile /\ persisted = runtimeProfile
  /\ lifecycle = "closed" => svcClosed
  /\ ~Switching /\ ~Closing =>
       /\ lifecycle # "switching"
       /\ lifecycle = "active" <=> active # None
       /\ lifecycle = "cleanup_pending" <=> retiring \cup candidates # {}

\* After a successful shutdown nothing is left to do.
ClosedIsFinal ==
  rstate = "closed" => Idle /\ (\A q \in Provider : pstate[q] # "open") /\ ~Live /\ lifecycle = "closed"

SessionInv ==
  /\ TypeOK /\ Pools /\ Places /\ TurnHeld /\ Published /\ ClosedIsFinal
  /\ SnapshotFollowsTurn /\ ContinuationOfItsProfile

-----------------------------------------------------------------------------
(* The type invariant, in four parts.                                      *)

CmdOK ==
  /\ thread \in {"dispatching", "cleanup", "over"}
  /\ cmd \in Command
  /\ Closing => cmd.closing \in Provider
  /\ rstate \in {"ready", "closing", "closed"}
  /\ loop \in Provider \cup {None}

TurnOK ==
  /\ conts \in [Profile -> Profile \cup {None}]
  /\ sent \in 0..MaxTurns /\ committed \subseteq 1..MaxTurns
  /\ guiTurn \in 0..MaxTurns
  /\ turn \in Task /\ bound \in BOOLEAN
  /\ Live => turn.provider \in Provider /\ turn.profile \in Profile

ServiceOK ==
  /\ active \in Provider \cup {None}
  /\ runtimeProfile \in Profile \cup {None} /\ runtimeSetup \in Setup \cup {None}
  /\ persisted \in Profile
  /\ retiring \subseteq Provider /\ candidates \subseteq Provider
  /\ lifecycle \in {"inactive", "active", "switching", "cleanup_pending", "closed"}
  /\ svcClosed \in BOOLEAN

InstancesOK ==
  /\ pstate \in [Provider -> {"unbuilt", "open", "closed"}]
  /\ accepting \in [Provider -> BOOLEAN]
  /\ profileOf \in [Provider -> Profile \cup {None}]

\* The type invariant is the conjunction of the four.
LEMMA TypeParts == TypeOK <=> CmdOK /\ TurnOK /\ ServiceOK /\ InstancesOK
BY DEF TypeOK, CmdOK, TurnOK, ServiceOK, InstancesOK, Closing


\* The three ways Construct ends.
NothingBuilt(ps) ==
  /\ pstate' = ps /\ lifecycle' = "inactive" /\ candidates' = {} /\ retiring' = {}
  /\ UNCHANGED <<turn, active, runtimeProfile, runtimeSetup, persisted, accepting, profileOf, loop>>
  /\ EndCommand

CandidateRejected(n, p, ps) ==
  /\ pstate[n] = "unbuilt" /\ pstate' = [ps EXCEPT ![n] = "open"]
  /\ profileOf' = [profileOf EXCEPT ![n] = p]
  /\ accepting' = [accepting EXCEPT ![n] = FALSE]
  /\ candidates' = {n} /\ retiring' = {} /\ lifecycle' = "switching"
  /\ UNCHANGED <<turn, active, runtimeProfile, runtimeSetup, persisted, loop, thread, guiTurn>>
  /\ cmd' = [NoCmd EXCEPT !.op = "activate", !.at = "closeCandidate", !.closing = n]

ProviderPublished(n, p, s, ps) ==
  /\ pstate[n] = "unbuilt" /\ pstate' = [ps EXCEPT ![n] = "open"]
  /\ profileOf' = [profileOf EXCEPT ![n] = p]
  /\ accepting' = [accepting EXCEPT ![n] = TRUE]
  /\ candidates' = {} /\ retiring' = {} /\ lifecycle' = "active"
  /\ persisted' = p /\ active' = n /\ runtimeProfile' = p /\ runtimeSetup' = s /\ loop' = n
  /\ UNCHANGED turn
  /\ EndCommand

\* Construct ends in one of these three ways.
LEMMA ConstructCases ==
  ASSUME NEW p, NEW s, NEW ps, Construct(p, s, ps)
  PROVE  \/ NothingBuilt(ps)
         \/ \E n \in Provider : CandidateRejected(n, p, ps)
         \/ \E n \in Provider : ProviderPublished(n, p, s, ps)
BY Zenon DEF Construct, NothingBuilt, CandidateRejected, ProviderPublished, published, Suspend, NewAgentLoop

-----------------------------------------------------------------------------
(* How a step leaves the command and the turn.                             *)

\* Whatever ends a command leaves the dispatcher idle.
LEMMA EndFacts ==
  ASSUME CmdOK, EndCommand \/ RaiseCancelled
  PROVE  /\ cmd' = NoCmd /\ cmd' \in Command /\ Idle' /\ ~Switching' /\ ~Closing'
         /\ cmd'.at = "idle" /\ cmd'.op = "none"
         /\ thread' \in {"dispatching", "cleanup", "over"}
         /\ EndCommand /\ thread = "dispatching" => thread' = "dispatching"
<1>1. cmd' = NoCmd
  BY DEF EndCommand, RaiseCancelled
<1>2. NoCmd \in Command /\ NoCmd.at = "idle" /\ NoCmd.op = "none"
  BY DEF NoCmd, Command, Handling
<1>3. /\ thread' \in {"dispatching", "cleanup", "over"}
      /\ EndCommand /\ thread = "dispatching" => thread' = "dispatching"
  BY DEF EndCommand, RaiseCancelled, CmdOK
<1> QED BY <1>1, <1>2, <1>3 DEF Idle, Switching, Closing

\* The snapshot shows the turn after a step that publishes one, and after one
\* that changes neither the snapshot nor the turn's identifier.
LEMMA SnapshotStep ==
  ASSUME SnapshotFollowsTurn,
         \/ PublishSnapshot
         \/ UNCHANGED <<guiTurn, bound>> /\ turn'.id = turn.id
  PROVE  SnapshotFollowsTurn'
BY DEF SnapshotFollowsTurn, PublishSnapshot

\* Requesting a cancellation changes nothing else of the turn.
SameTurn ==
  /\ turn' \in Task
  /\ turn'.id = turn.id /\ turn'.phase = turn.phase /\ turn'.profile = turn.profile
  /\ turn'.provider = turn.provider /\ turn'.terminal = turn.terminal
  /\ turn'.cancelled = turn.cancelled

\* A cancellation request only sets the token.
LEMMA RequestKeepsTurn ==
  ASSUME TurnOK, NEW p, NEW h, RequestCancellation(p, h) \/ UNCHANGED turn
  PROVE  SameTurn
BY DEF TurnOK, RequestCancellation, SameTurn, Task

\* The part of the invariant about turns, when the step is not the turn's.
LEMMA TurnTypes ==
  ASSUME TurnOK, SameTurn, UNCHANGED <<conts, committed, sent, bound>>,
         \/ PublishSnapshot
         \/ UNCHANGED guiTurn
  PROVE  TurnOK'
<1>1. turn'.id \in 0..MaxTurns
  BY DEF SameTurn, TurnOK, Task
<1>2. guiTurn' \in 0..MaxTurns
  BY <1>1, TurnsAssumption DEF TurnOK, PublishSnapshot
<1> QED BY <1>2 DEF TurnOK, SameTurn, Live

\* Construct, in a state without a published or a retained open Provider.
LEMMA ConstructKeeps ==
  ASSUME SessionInv, NEW p \in Profile, NEW s \in Setup,
         NEW ps \in [Provider -> {"unbuilt", "open", "closed"}],
         \A q \in Provider : ps[q] # "open",
         active = None, ~Live, rstate # "closed",
         Construct(p, s, ps), UNCHANGED <<rstate, conts, committed, sent, bound, svcClosed>>
  PROVE  SessionInv'
<1>0. CmdOK /\ TurnOK /\ ServiceOK /\ InstancesOK
  BY TypeParts DEF SessionInv
<1>1. UNCHANGED turn /\ ~Live'
  BY DEF Construct, Live
<1>2. SameTurn
  BY <1>0, <1>1, RequestKeepsTurn
<1>3. ContinuationOfItsProfile' /\ TurnHeld' /\ ClosedIsFinal'
  BY <1>1 DEF SessionInv, ContinuationOfItsProfile, TurnHeld, ClosedIsFinal
<1>4. CASE NothingBuilt(ps)
  <2>1. EndCommand
    BY <1>4 DEF NothingBuilt
  <2>2. TurnOK' /\ SnapshotFollowsTurn'
    BY <1>0, <1>2, <2>1, TurnTypes, SnapshotStep DEF SessionInv, EndCommand
  <2>3. CmdOK' /\ ServiceOK' /\ InstancesOK'
    BY <1>0, <1>4, <2>1, EndFacts DEF NothingBuilt, CmdOK, ServiceOK, InstancesOK
  <2>4. Pools'
    BY <1>4, NoneAssumption DEF NothingBuilt, Pools
  <2>5. Places' /\ Published'
    BY <1>0, <1>4, <2>1, EndFacts DEF NothingBuilt, Places, Published, SessionInv
  <2> QED BY <1>3, <2>2, <2>3, <2>4, <2>5, TypeParts, PTL DEF SessionInv
<1>5. ASSUME NEW n \in Provider, CandidateRejected(n, p, ps) PROVE SessionInv'
  <2>1. /\ cmd' \in Command /\ cmd'.op = "activate" /\ cmd'.at = "closeCandidate" /\ cmd'.closing = n
        /\ ~Switching' /\ Closing'
    BY <1>5, NoneAssumption DEF CandidateRejected, NoCmd, Command, Handling, Switching, Closing
  <2>2. TurnOK' /\ SnapshotFollowsTurn'
    BY <1>0, <1>2, <1>5, TurnTypes, SnapshotStep DEF SessionInv, CandidateRejected, SameTurn
  <2>3. CmdOK' /\ ServiceOK' /\ InstancesOK'
    BY <1>0, <1>5, <2>1 DEF CandidateRejected, CmdOK, ServiceOK, InstancesOK
  <2>4. Pools'
    BY <1>0, <1>5, NoneAssumption DEF CandidateRejected, Pools, InstancesOK
  <2>5. Places' /\ Published'
    BY <1>0, <1>1, <1>5, <2>1 DEF CandidateRejected, Places, Published, SessionInv
  <2> QED BY <1>3, <2>2, <2>3, <2>4, <2>5, TypeParts, PTL DEF SessionInv
<1>6. ASSUME NEW n \in Provider, ProviderPublished(n, p, s, ps) PROVE SessionInv'
  <2>1. EndCommand
    BY <1>6 DEF ProviderPublished
  <2>2. TurnOK' /\ SnapshotFollowsTurn'
    BY <1>0, <1>2, <2>1, TurnTypes, SnapshotStep DEF SessionInv, EndCommand
  <2>3. CmdOK' /\ ServiceOK' /\ InstancesOK'
    BY <1>0, <1>6, <2>1, EndFacts DEF ProviderPublished, CmdOK, ServiceOK, InstancesOK
  <2>4. Pools'
    BY <1>0, <1>6, NoneAssumption DEF ProviderPublished, Pools, InstancesOK
  <2>5. Places' /\ Published'
    BY <1>0, <1>6, <2>1, EndFacts, NoneAssumption
       DEF ProviderPublished, Places, Published, SessionInv, InstancesOK
  <2> QED BY <1>3, <2>2, <2>3, <2>4, <2>5, TypeParts, PTL DEF SessionInv
<1> QED BY <1>4, <1>5, <1>6, ConstructCases

\* What prepare_for_provider_switch can find.
LEMMA VerdictFacts ==
  ASSUME NEW p
  PROVE  /\ PrepareVerdict(p) \in {"quiet", "wait", "unsafe", "cancelled"}
         /\ PrepareVerdict(p) = "quiet" => ~bound \/ ~Live
         /\ PrepareVerdict(p) = "cancelled" => ~Live
BY DEF PrepareVerdict, TaskVerdict, Live

\* The switch withdraws the old Provider: it waits for the turn, or goes on to
\* close it; or it is given up at once.
SavedSwitch(p, s, h) ==
  [NoCmd EXCEPT !.op = "activate", !.profile = p, !.setup = s, !.handling = h, !.old = active,
                !.oldProfile = runtimeProfile, !.oldSetup = runtimeSetup]

WithdrawOld ==
  /\ lifecycle' = "switching"
  /\ accepting' = [accepting EXCEPT ![active] = FALSE]
  /\ retiring' = {active}
  /\ active' = None /\ runtimeProfile' = None /\ runtimeSetup' = None
  /\ UNCHANGED <<candidates, persisted, pstate, profileOf, loop, thread, guiTurn>>

GiveUp ==
  /\ lifecycle' = "active"
  /\ UNCHANGED <<active, runtimeProfile, runtimeSetup, retiring, accepting, candidates, persisted,
                 pstate, profileOf, loop>>

\* SwitchAway ends in one of these ways.
LEMMA SwitchCases ==
  ASSUME NEW p, NEW s, NEW h, SwitchAway(p, s, h)
  PROVE  /\ active # None /\ RequestCancellation(runtimeProfile, h)
         /\ \/ /\ WithdrawOld /\ PrepareVerdict(runtimeProfile) = "wait"
               /\ cmd' = [SavedSwitch(p, s, h) EXCEPT !.at = "quiesce"]
            \/ /\ WithdrawOld /\ PrepareVerdict(runtimeProfile) = "quiet"
               /\ cmd' = [SavedSwitch(p, s, h) EXCEPT !.at = "closeOld", !.closing = active]
            \/ GiveUp /\ PrepareVerdict(runtimeProfile) = "unsafe" /\ EndCommand
            \/ GiveUp /\ PrepareVerdict(runtimeProfile) = "cancelled" /\ RaiseCancelled
<1>1. "quiet" # "wait" /\ "unsafe" # "cancelled"
  OBVIOUS
<1> QED BY <1>1, Zenon DEF SwitchAway, WithdrawOld, GiveUp, SavedSwitch, Suspend, ClearRuntime

\* Withdrawing the old Provider, or giving the switch up, keeps the invariant.
LEMMA SwitchKeeps ==
  ASSUME SessionInv, NEW p \in Profile, NEW s \in Setup, NEW h \in Handling,
         ~Switching, rstate # "closed", SwitchAway(p, s, h),
         UNCHANGED <<rstate, conts, committed, sent, bound, svcClosed>>
  PROVE  SessionInv'
<1>0. CmdOK /\ TurnOK /\ ServiceOK /\ InstancesOK
  BY TypeParts DEF SessionInv
<1>1. active # None /\ active \in Provider /\ SameTurn
  BY <1>0, SwitchCases, RequestKeepsTurn DEF ServiceOK
<1>2. /\ retiring = {} /\ candidates = {} /\ accepting[active] /\ loop = active
      /\ profileOf[active] = runtimeProfile /\ persisted = runtimeProfile /\ pstate[active] = "open"
      /\ Live => turn.provider = active /\ bound /\ thread = "dispatching"
      /\ ~Closing
  BY <1>1, NoneAssumption DEF SessionInv, Pools, Published, TurnHeld, Places
<1>3. ContinuationOfItsProfile' /\ ClosedIsFinal' /\ (Live' <=> Live)
  BY <1>1 DEF SessionInv, ContinuationOfItsProfile, ClosedIsFinal, SameTurn, Live
<1>4. ASSUME WithdrawOld PROVE Pools' /\ TurnOK' /\ SnapshotFollowsTurn' /\ ServiceOK' /\ InstancesOK'
  <2>1. Pools'
    BY <1>1, <1>2, <1>4, NoneAssumption DEF SessionInv, Pools, WithdrawOld
  <2>2. TurnOK' /\ SnapshotFollowsTurn'
    BY <1>0, <1>1, <1>4, TurnTypes, SnapshotStep DEF SessionInv, WithdrawOld, SameTurn
  <2>3. ServiceOK' /\ InstancesOK'
    BY <1>0, <1>1, <1>4 DEF WithdrawOld, ServiceOK, InstancesOK
  <2> QED BY <2>1, <2>2, <2>3
<1>5. CASE /\ WithdrawOld /\ PrepareVerdict(runtimeProfile) = "wait"
           /\ cmd' = [SavedSwitch(p, s, h) EXCEPT !.at = "quiesce"]
  <2>1. /\ cmd' \in Command /\ cmd'.op = "activate" /\ cmd'.at = "quiesce" /\ cmd'.closing = None
        /\ cmd'.profile = p /\ cmd'.setup = s /\ cmd'.old = active /\ cmd'.oldProfile = runtimeProfile
    BY <1>0, <1>1, <1>5, NoneAssumption DEF SavedSwitch, NoCmd, Command, Handling, ServiceOK
  <2>2. Switching' /\ ~Closing'
    BY <2>1 DEF Switching, Closing
  <2>3. CmdOK'
    BY <1>0, <1>5, <2>1, <2>2 DEF CmdOK, WithdrawOld
  <2>4. Places'
    BY <1>0, <1>1, <1>2, <1>5, <2>1, <2>2 DEF Places, WithdrawOld
  <2>5. TurnHeld'
    BY <1>1, <1>2, <1>3, <1>5, <2>1, <2>2 DEF SessionInv, TurnHeld, WithdrawOld, SameTurn
  <2>6. Published'
    BY <1>5, <2>2 DEF Published, SessionInv, WithdrawOld
  <2> QED BY <1>3, <1>4, <1>5, <2>3, <2>4, <2>5, <2>6, TypeParts, PTL DEF SessionInv
<1>6. CASE /\ WithdrawOld /\ PrepareVerdict(runtimeProfile) = "quiet"
           /\ cmd' = [SavedSwitch(p, s, h) EXCEPT !.at = "closeOld", !.closing = active]
  <2>0. ~Live
    BY <1>2, <1>6, VerdictFacts
  <2>1. /\ cmd' \in Command /\ cmd'.op = "activate" /\ cmd'.at = "closeOld" /\ cmd'.closing = active
        /\ cmd'.profile = p /\ cmd'.setup = s
    BY <1>0, <1>1, <1>6, NoneAssumption DEF SavedSwitch, NoCmd, Command, Handling, ServiceOK
  <2>2. ~Switching' /\ Closing'
    BY <2>1 DEF Switching, Closing
  <2>3. CmdOK'
    BY <1>0, <1>1, <1>6, <2>1, <2>2 DEF CmdOK, WithdrawOld
  <2>4. Places'
    BY <1>0, <1>1, <1>2, <1>3, <1>6, <2>0, <2>1, <2>2 DEF Places, WithdrawOld
  <2>5. TurnHeld'
    BY <1>3, <2>0 DEF TurnHeld
  <2>6. Published'
    BY <1>6, <2>2 DEF Published, SessionInv, WithdrawOld
  <2> QED BY <1>3, <1>4, <1>6, <2>3, <2>4, <2>5, <2>6, TypeParts, PTL DEF SessionInv
<1>7. CASE GiveUp /\ (EndCommand \/ (RaiseCancelled /\ PrepareVerdict(runtimeProfile) = "cancelled"))
  <2>1. /\ cmd' \in Command /\ Idle' /\ ~Switching' /\ ~Closing' /\ cmd'.at = "idle"
        /\ cmd'.op = "none" /\ thread' \in {"dispatching", "cleanup", "over"}
        /\ EndCommand /\ thread = "dispatching" => thread' = "dispatching"
    BY <1>0, <1>7, EndFacts
  <2>2. TurnOK' /\ SnapshotFollowsTurn'
    <3>1. PublishSnapshot \/ UNCHANGED guiTurn
      BY <1>7 DEF EndCommand, RaiseCancelled
    <3> QED BY <1>0, <1>1, <3>1, TurnTypes, SnapshotStep DEF SessionInv, SameTurn
  <2>3. CmdOK' /\ ServiceOK' /\ InstancesOK'
    BY <1>0, <1>7, <2>1 DEF GiveUp, CmdOK, ServiceOK, InstancesOK
  <2>4. Pools'
    BY <1>7 DEF SessionInv, Pools, GiveUp
  <2>5. Places'
    BY <2>1 DEF Places
  <2>6. Published'
    BY <1>1, <1>2, <1>7, <2>1 DEF SessionInv, Published, GiveUp
  <2>7. TurnHeld'
    BY <1>1, <1>2, <1>3, <1>7, <2>1, VerdictFacts DEF SessionInv, TurnHeld, GiveUp, SameTurn
  <2> QED BY <1>3, <2>2, <2>3, <2>4, <2>5, <2>6, <2>7, TypeParts, PTL DEF SessionInv
<1> QED BY <1>5, <1>6, <1>7, SwitchCases

\* activate_profile once nothing is pending: ps and life are the states of the
\* Providers and the lifecycle at that point.
LEMMA ActivateKeeps ==
  ASSUME SessionInv, NEW p \in Profile, NEW s \in Setup, NEW h \in Handling,
         NEW ps \in [Provider -> {"unbuilt", "open", "closed"}],
         NEW life \in {"inactive", "active", "closed"},
         ~Switching, rstate # "closed",
         \A q \in Provider : ps[q] = "open" <=> q = active,
         life = "active" <=> active # None, life = "closed" => svcClosed,
         Activate(p, s, h, ps, life),
         UNCHANGED <<rstate, conts, committed, sent, bound, svcClosed>>
  PROVE  SessionInv'
<1>0. CmdOK /\ TurnOK /\ ServiceOK /\ InstancesOK
  BY TypeParts DEF SessionInv
<1>1. CASE ActivationRefused(p, s, ps, life) \/ ActivationReused(p, s, ps, life)
  <2>1. /\ EndCommand /\ UNCHANGED turn
        /\ pstate' = ps /\ lifecycle' = life /\ retiring' = {} /\ candidates' = {}
        /\ UNCHANGED <<active, runtimeProfile, runtimeSetup, persisted, accepting, profileOf>>
        /\ UNCHANGED loop \/ (active # None /\ loop' = active)
    BY <1>1, Zenon DEF ActivationRefused, ActivationReused, Keep, published, NewAgentLoop
  <2>2. /\ cmd' \in Command /\ Idle' /\ ~Switching' /\ ~Closing' /\ cmd'.at = "idle"
        /\ cmd'.op = "none" /\ thread' \in {"dispatching", "cleanup", "over"}
        /\ thread = "dispatching" => thread' = "dispatching"
    BY <1>0, <2>1, EndFacts
  <2>3. SameTurn /\ (Live' <=> Live)
    BY <1>0, <2>1, RequestKeepsTurn DEF SameTurn, Live
  <2>4. TurnOK' /\ SnapshotFollowsTurn'
    BY <1>0, <2>1, <2>3, TurnTypes, SnapshotStep DEF SessionInv, EndCommand
  <2>5. CmdOK' /\ ServiceOK' /\ InstancesOK'
    BY <1>0, <2>1, <2>2 DEF CmdOK, ServiceOK, InstancesOK
  <2>6. Pools'
    BY <2>1, NoneAssumption DEF Pools
  <2>7. Places' /\ ContinuationOfItsProfile' /\ ClosedIsFinal'
    BY <2>2 DEF SessionInv, Places, ContinuationOfItsProfile, ClosedIsFinal
  <2>8. Published'
    BY <2>1, <2>2 DEF SessionInv, Published
  <2>9. TurnHeld'
    BY <2>1, <2>2, <2>3 DEF SessionInv, TurnHeld
  <2> QED BY <2>4, <2>5, <2>6, <2>7, <2>8, <2>9, TypeParts, PTL DEF SessionInv
<1>2. CASE SwitchAway(p, s, h)
  BY <1>2, SwitchKeeps
<1>3. CASE active = None /\ Construct(p, s, ps)
  <2>1. ~Live
    BY <1>0, <1>3, NoneAssumption DEF SessionInv, TurnHeld, TurnOK
  <2>2. \A q \in Provider : ps[q] # "open"
    BY <1>3, NoneAssumption
  <2> QED BY <1>3, <2>1, <2>2, ConstructKeeps
<1> QED BY <1>1, <1>2, <1>3 DEF Activate

-----------------------------------------------------------------------------
(* Commands that start.                                                    *)

\* The await of a retry: every retained Provider is the one being closed.
LEMMA RetryStarts ==
  ASSUME SessionInv, Idle, NEW c \in Command, c.op \in {"activate", "shutdown"}, c.profile \in Profile \cup {None},
         c.op = "activate" => c.profile \in Profile /\ c.setup \in Setup,
         NEW q \in Provider,
         cmd' = [c EXCEPT !.at = "retry", !.closing = q]
  PROVE  /\ cmd' \in Command /\ cmd'.at = "retry" /\ cmd'.closing = q /\ cmd'.op = c.op
         /\ cmd'.profile = c.profile /\ cmd'.setup = c.setup
         /\ ~Switching' /\ Closing'
<1>1. /\ cmd' \in Command /\ cmd'.at = "retry" /\ cmd'.closing = q /\ cmd'.op = c.op
      /\ cmd'.profile = c.profile /\ cmd'.setup = c.setup
  BY DEF Command
<1> QED BY <1>1 DEF Switching, Closing

\* An idle dispatcher awaits nothing.
LEMMA IdleFacts ==
  ASSUME Idle
  PROVE  ~Switching /\ ~Closing /\ cmd.closing = None /\ cmd.at = "idle"
BY DEF Idle, NoCmd, Switching, Closing

\* The activate_profile command.
LEMMA ActivateProfileKeeps ==
  ASSUME SessionInv, NEW p \in Profile, NEW s \in Setup, NEW h \in Handling, ActivateProfile(p, s, h)
  PROVE  SessionInv'
<1>0. CmdOK /\ TurnOK /\ ServiceOK /\ InstancesOK
  BY TypeParts DEF SessionInv
<1>1. /\ Idle /\ rstate = "ready"
      /\ UNCHANGED <<rstate, conts, committed, sent, bound, svcClosed>>
  BY DEF ActivateProfile, talk
<1>2. ~Switching /\ ~Closing
  BY <1>1, IdleFacts
<1>3. PICK eff \in Handling :
        \/ Pending = {} /\ Activate(p, s, eff, pstate, lifecycle)
        \/ /\ Pending # {}
           /\ StartRetry([NoCmd EXCEPT !.op = "activate", !.profile = p,
                                       !.setup = s, !.handling = eff], Pending)
           /\ UNCHANGED <<turn, loop, published, pool, instances>>
  <2> DEFINE eff == IF h = "none" /\ active # None THEN "wait" ELSE h
  <2>1. eff \in Handling
    BY DEF Handling
  <2> QED BY <2>1 DEF ActivateProfile
<1>4. CASE Pending = {} /\ Activate(p, s, eff, pstate, lifecycle)
  <2>1. pstate \in [Provider -> {"unbuilt", "open", "closed"}]
    BY <1>0 DEF InstancesOK
  <2>2. retiring = {} /\ candidates = {}
    BY <1>4 DEF Pending
  <2>3. \A q \in Provider : pstate[q] = "open" <=> q = active
    BY <2>2 DEF SessionInv, Pools
  <2>4. /\ lifecycle \in {"inactive", "active", "closed"}
        /\ lifecycle = "active" <=> active # None
        /\ lifecycle = "closed" => svcClosed
    BY <1>0, <1>2, <2>2 DEF SessionInv, Published, ServiceOK
  <2> QED BY <1>1, <1>2, <1>4, <2>1, <2>3, <2>4, ActivateKeeps
<1>5. CASE /\ Pending # {}
           /\ StartRetry([NoCmd EXCEPT !.op = "activate", !.profile = p,
                                       !.setup = s, !.handling = eff], Pending)
           /\ UNCHANGED <<turn, loop, published, pool, instances>>
  <2> DEFINE c == [NoCmd EXCEPT !.op = "activate", !.profile = p, !.setup = s, !.handling = eff]
  <2>1. PICK q \in Pending : Suspend([c EXCEPT !.at = "retry", !.closing = q])
    BY <1>5 DEF StartRetry
  <2>2. /\ cmd' = [c EXCEPT !.at = "retry", !.closing = q] /\ UNCHANGED <<thread, guiTurn>>
        /\ lifecycle' = "switching"
        /\ UNCHANGED <<turn, loop, active, runtimeProfile, runtimeSetup, persisted, retiring,
                       candidates, pstate, accepting, profileOf>>
    BY <1>5, <2>1 DEF Suspend, StartRetry, published, pool, instances
  <2>3. q \in Provider /\ q \in retiring \cup candidates
    BY <1>0, <2>1 DEF Pending, ServiceOK
  <2>4. c \in Command /\ c.op = "activate" /\ c.profile = p /\ c.setup = s
    BY NoneAssumption DEF NoCmd, Command, Handling
  <2>5. /\ cmd' \in Command /\ cmd'.at = "retry" /\ cmd'.closing = q /\ cmd'.op = "activate"
        /\ cmd'.profile = p /\ cmd'.setup = s /\ ~Switching' /\ Closing'
    BY <1>1, <2>2, <2>3, <2>4, RetryStarts
  <2>6. active = None /\ retiring \cup candidates = {q} /\ ~Live
    <3>1. active = None
      BY <2>3 DEF SessionInv, Pools
    <3>2. retiring \cup candidates = {q}
      BY <1>0, <2>3 DEF SessionInv, Pools, ServiceOK
    <3>3. ~Live
      BY <1>0, <1>2, <3>1, NoneAssumption DEF SessionInv, TurnHeld, TurnOK
    <3> QED BY <3>1, <3>2, <3>3
  <2>7. SameTurn /\ ~Live'
    BY <1>0, <2>2, <2>6, RequestKeepsTurn DEF SameTurn, Live
  <2>8. TurnOK' /\ SnapshotFollowsTurn'
    BY <1>0, <1>1, <2>2, <2>7, TurnTypes, SnapshotStep DEF SessionInv, SameTurn
  <2>9. CmdOK' /\ ServiceOK' /\ InstancesOK'
    BY <1>0, <1>1, <2>2, <2>3, <2>5 DEF CmdOK, ServiceOK, InstancesOK
  <2>10. Pools' /\ ContinuationOfItsProfile' /\ ClosedIsFinal' /\ TurnHeld'
    BY <1>1, <2>2, <2>7 DEF SessionInv, Pools, ContinuationOfItsProfile, ClosedIsFinal, TurnHeld
  <2>11. Places'
    BY <2>2, <2>5, <2>6, <2>7 DEF Places
  <2>12. Published'
    BY <2>2, <2>5, <2>6 DEF SessionInv, Published
  <2> QED BY <2>8, <2>9, <2>10, <2>11, <2>12, TypeParts, PTL DEF SessionInv
<1> QED BY <1>3, <1>4, <1>5

\* A turn starts on the published Provider.
LEMMA StartTurnKeeps ==
  ASSUME SessionInv, StartTurn
  PROVE  SessionInv'
<1>0. CmdOK /\ TurnOK /\ ServiceOK /\ InstancesOK
  BY TypeParts DEF SessionInv
<1>1. /\ Idle /\ rstate = "ready" /\ thread = "dispatching" /\ EndCommand
      /\ active # None /\ runtimeProfile # None /\ sent < MaxTurns /\ sent' = sent + 1
      /\ turn' = [NoTask EXCEPT !.id = sent + 1, !.profile = runtimeProfile,
                                !.provider = loop, !.phase = "created"]
      /\ bound' = TRUE
      /\ UNCHANGED <<rstate, loop, conts, committed, active, runtimeProfile, runtimeSetup, persisted,
                     retiring, candidates, lifecycle, svcClosed, pstate, accepting, profileOf>>
  BY DEF StartTurn, published, pool, instances
<1>2. ~Switching /\ ~Closing
  BY <1>1, IdleFacts
<1>3. /\ cmd' \in Command /\ Idle' /\ ~Switching' /\ ~Closing' /\ cmd'.at = "idle"
      /\ cmd'.op = "none" /\ thread' = "dispatching"
  BY <1>0, <1>1, EndFacts
<1>4. /\ turn'.id = sent + 1 /\ turn'.profile = runtimeProfile /\ turn'.provider = active
      /\ active \in Provider /\ runtimeProfile \in Profile /\ profileOf[active] = runtimeProfile
  BY <1>0, <1>1 DEF NoTask, SessionInv, Published, ServiceOK
<1>5. TurnOK'
  <2>1. sent + 1 \in 0..MaxTurns
    BY <1>0, <1>1, TurnsAssumption DEF TurnOK
  <2>2. turn' \in Task
    BY <1>0, <1>1, <1>4, <2>1 DEF NoTask, Task, Phase, SessionInv, Published, ServiceOK
  <2>3. guiTurn' \in 0..MaxTurns
    BY <1>1, <1>4, <2>1 DEF EndCommand, PublishSnapshot
  <2> QED BY <1>0, <1>1, <1>4, <2>1, <2>2, <2>3 DEF TurnOK
<1>6. SnapshotFollowsTurn'
  BY <1>1, SnapshotStep DEF SessionInv, EndCommand
<1>7. CmdOK' /\ ServiceOK' /\ InstancesOK'
  BY <1>0, <1>1, <1>3 DEF CmdOK, ServiceOK, InstancesOK
<1>8. Pools' /\ ContinuationOfItsProfile' /\ ClosedIsFinal' /\ Places'
  BY <1>1, <1>3 DEF SessionInv, Pools, ContinuationOfItsProfile, ClosedIsFinal, Places
<1>9. Published'
  BY <1>1, <1>2, <1>3 DEF SessionInv, Published
<1>10. TurnHeld'
  <2>1. turn'.id \in 1..MaxTurns
    BY <1>0, <1>1, <1>4, TurnsAssumption DEF TurnOK
  <2> QED BY <1>1, <1>3, <1>4, <2>1 DEF TurnHeld
<1> QED BY <1>5, <1>6, <1>7, <1>8, <1>9, <1>10, TypeParts, PTL DEF SessionInv

\* A command that only waits for the turn, or ends, leaves the Providers alone.
ProvidersUnchanged ==
  UNCHANGED <<loop, active, runtimeProfile, runtimeSetup, persisted, retiring, candidates, lifecycle,
              svcClosed, pstate, accepting, profileOf>>

\* Such a command keeps the invariant.
LEMMA FrameKeeps ==
  ASSUME SessionInv, SameTurn, ProvidersUnchanged, UNCHANGED <<conts, committed, sent, bound>>,
         ~Switching, ~Closing, rstate' \in {"ready", "closing"},
         \/ EndCommand
         \/ RaiseCancelled /\ ~Live
         \/ /\ \E op \in {"cancel", "shutdown"} : cmd' = [NoCmd EXCEPT !.op = op, !.at = "quiesce"]
            /\ UNCHANGED <<thread, guiTurn>>
  PROVE  SessionInv'
<1>0. CmdOK /\ TurnOK /\ ServiceOK /\ InstancesOK
  BY TypeParts DEF SessionInv
<1> DEFINE Left ==
      /\ cmd' \in Command /\ ~Switching' /\ ~Closing'
      /\ cmd'.at = "idle" => Idle'
      /\ cmd'.at = "quiesce" => cmd'.closing = None
      /\ cmd'.op # "activate" /\ cmd'.at \in {"idle", "quiesce"}
      /\ thread' \in {"dispatching", "cleanup", "over"}
      /\ Live /\ thread = "dispatching" => thread' = "dispatching"
      /\ PublishSnapshot \/ UNCHANGED guiTurn
<1>1. Left
  <2>1. CASE EndCommand \/ (RaiseCancelled /\ ~Live)
    BY <1>0, <2>1, EndFacts DEF EndCommand, RaiseCancelled
  <2>2. ASSUME NEW op \in {"cancel", "shutdown"}, cmd' = [NoCmd EXCEPT !.op = op, !.at = "quiesce"],
               UNCHANGED <<thread, guiTurn>>
        PROVE  Left
    <3>1. cmd' \in Command /\ cmd'.op = op /\ cmd'.at = "quiesce" /\ cmd'.closing = None
      BY <2>2, NoneAssumption DEF NoCmd, Command, Handling
    <3> QED BY <1>0, <2>2, <3>1 DEF Switching, Closing, CmdOK
  <2> QED BY <2>1, <2>2
<1>2. Live' <=> Live
  BY DEF SameTurn, Live
<1>3. TurnOK' /\ SnapshotFollowsTurn'
  BY <1>0, <1>1, TurnTypes, SnapshotStep DEF SessionInv, SameTurn
<1>4. CmdOK' /\ ServiceOK' /\ InstancesOK'
  BY <1>0, <1>1 DEF CmdOK, ServiceOK, InstancesOK, ProvidersUnchanged
<1>5. Pools' /\ ContinuationOfItsProfile' /\ ClosedIsFinal' /\ Places'
  BY <1>1 DEF SessionInv, Pools, ContinuationOfItsProfile, ClosedIsFinal, Places, ProvidersUnchanged
<1>6. Published'
  BY <1>1 DEF SessionInv, Published, ProvidersUnchanged
<1>7. TurnHeld'
  BY <1>1, <1>2 DEF SessionInv, TurnHeld, ProvidersUnchanged, SameTurn
<1> QED BY <1>3, <1>4, <1>5, <1>6, <1>7, TypeParts, PTL DEF SessionInv

\* cancel_active_turn only waits for the turn.
LEMMA CancelKeeps ==
  ASSUME SessionInv, CancelActiveTurn
  PROVE  SessionInv'
<1>0. CmdOK /\ TurnOK
  BY TypeParts DEF SessionInv
<1>1. /\ Idle /\ rstate' \in {"ready", "closing"} /\ ProvidersUnchanged
      /\ UNCHANGED <<conts, committed, sent, bound>> /\ RequestCancellation(turn.profile, "cancel")
  BY DEF CancelActiveTurn, ProvidersUnchanged, talk, published, pool, instances
<1>2. SameTurn /\ ~Switching /\ ~Closing
  BY <1>0, <1>1, RequestKeepsTurn, IdleFacts
<1>3. \/ Suspend([NoCmd EXCEPT !.op = "cancel", !.at = "quiesce"])
      \/ PrepareVerdict(turn.profile) = "cancelled" /\ RaiseCancelled
      \/ EndCommand
  BY DEF CancelActiveTurn
<1> QED BY <1>1, <1>2, <1>3, VerdictFacts, FrameKeeps DEF Suspend

\* The service closes only when no turn is live: nothing is left, or the last
\* Provider is withdrawn and its close awaited.
LEMMA CloseServiceKeeps ==
  ASSUME SessionInv, CloseService, SameTurn, ~Live, ~Switching, ~Closing,
         UNCHANGED <<conts, committed, sent, bound>>
  PROVE  SessionInv'
<1>0. CmdOK /\ TurnOK /\ ServiceOK /\ InstancesOK
  BY TypeParts DEF SessionInv
<1>1. /\ svcClosed' = TRUE /\ retiring' = Withdrawn
      /\ accepting' = [q \in Provider |-> accepting[q] /\ q # active]
      /\ active' = None /\ runtimeProfile' = None /\ runtimeSetup' = None
      /\ UNCHANGED <<candidates, persisted, pstate, profileOf>>
  BY DEF CloseService, ClearRuntime
<1>2. ~Live'
  BY DEF SameTurn, Live
<1>3. Withdrawn \subseteq Provider /\ \A q \in Provider : q \in Withdrawn <=> q \in retiring \/ q = active
  BY <1>0, NoneAssumption DEF Withdrawn, ServiceOK
<1>4. InstancesOK' /\ Pools' /\ ContinuationOfItsProfile' /\ TurnHeld'
  <2>1. InstancesOK'
    BY <1>0, <1>1 DEF InstancesOK
  <2>2. Pools'
    BY <1>1, <1>3, NoneAssumption DEF SessionInv, Pools
  <2> QED BY <1>2, <2>1, <2>2 DEF SessionInv, ContinuationOfItsProfile, TurnHeld
<1>5. CASE /\ Withdrawn \cup candidates = {}
           /\ lifecycle' = "closed" /\ rstate' = "closed" /\ loop' = None
           /\ cmd' = NoCmd /\ thread' = "over" /\ PublishSnapshot
  <2>1. /\ cmd' \in Command /\ Idle' /\ ~Switching' /\ ~Closing' /\ cmd'.at = "idle" /\ cmd'.op = "none"
    BY <1>5 DEF NoCmd, Command, Handling, Idle, Switching, Closing
  <2>2. TurnOK' /\ SnapshotFollowsTurn'
    BY <1>0, <1>5, TurnTypes, SnapshotStep DEF SessionInv
  <2>3. CmdOK' /\ ServiceOK'
    BY <1>0, <1>1, <1>5, <2>1 DEF CmdOK, ServiceOK
  <2>4. Places' /\ Published' /\ ClosedIsFinal'
    <3>1. retiring' = {} /\ candidates' = {}
      BY <1>1, <1>5
    <3>2. Places' /\ Published'
      BY <1>1, <1>5, <2>1, <3>1 DEF Places, Published
    <3>3. \A q \in Provider : pstate'[q] # "open"
      BY <1>1, <1>4, <3>1, NoneAssumption DEF Pools
    <3> QED BY <1>2, <1>5, <2>1, <3>2, <3>3 DEF ClosedIsFinal
  <2> QED BY <1>4, <2>2, <2>3, <2>4, TypeParts, PTL DEF SessionInv
<1>6. CASE /\ StartRetry([NoCmd EXCEPT !.op = "shutdown"], Withdrawn \cup candidates)
           /\ rstate' = "closing" /\ UNCHANGED loop
  <2>1. PICK q \in Withdrawn \cup candidates :
          Suspend([[NoCmd EXCEPT !.op = "shutdown"] EXCEPT !.at = "retry", !.closing = q])
    BY <1>6 DEF StartRetry
  <2>2. q \in Provider
    BY <1>0, <1>3, <2>1 DEF ServiceOK
  <2>3. /\ cmd' = [[NoCmd EXCEPT !.op = "shutdown"] EXCEPT !.at = "retry", !.closing = q]
        /\ UNCHANGED <<thread, guiTurn>> /\ lifecycle' = "switching"
    BY <1>6, <2>1 DEF Suspend, StartRetry
  <2>4. /\ cmd' \in Command /\ cmd'.at = "retry" /\ cmd'.closing = q /\ cmd'.op = "shutdown"
        /\ ~Switching' /\ Closing'
    BY <2>2, <2>3, NoneAssumption DEF NoCmd, Command, Handling, Switching, Closing
  <2>5. TurnOK' /\ SnapshotFollowsTurn'
    BY <1>0, <2>3, TurnTypes, SnapshotStep DEF SessionInv, SameTurn
  <2>6. CmdOK' /\ ServiceOK'
    BY <1>0, <1>1, <1>3, <1>6, <2>2, <2>3, <2>4 DEF CmdOK, ServiceOK
  <2>7. retiring' \cup candidates' = {q}
    BY <1>0, <1>1, <1>3, <2>1, <2>2 DEF SessionInv, Pools, ServiceOK
  <2>8. Places'
    BY <1>1, <1>2, <2>4, <2>7 DEF Places
  <2>9. Published' /\ ClosedIsFinal'
    BY <1>1, <1>6, <2>3, <2>4 DEF Published, ClosedIsFinal
  <2> QED BY <1>4, <2>5, <2>6, <2>8, <2>9, TypeParts, PTL DEF SessionInv
<1> QED BY <1>5, <1>6 DEF CloseService

\* The shutdown command and the last cleanup of the thread.
LEMMA ShutdownKeeps ==
  ASSUME SessionInv, NEW cancelActive \in BOOLEAN, Shutdown(cancelActive)
  PROVE  SessionInv'
<1>0. CmdOK /\ TurnOK
  BY TypeParts DEF SessionInv
<1>1. /\ Idle /\ UNCHANGED <<conts, committed, sent, bound>>
      /\ RequestCancellation(turn.profile, IF cancelActive THEN "cancel" ELSE "wait")
  BY DEF Shutdown, talk
<1>2. SameTurn /\ ~Switching /\ ~Closing
  BY <1>0, <1>1, RequestKeepsTurn, IdleFacts
<1>3. CASE PrepareVerdict(turn.profile) = "quiet" /\ CloseService
  <2>1. ~Live
    BY <1>3, VerdictFacts DEF SessionInv, TurnHeld
  <2> QED BY <1>1, <1>2, <1>3, <2>1, CloseServiceKeeps
<1>4. CASE PrepareVerdict(turn.profile) # "quiet"
  <2>1. rstate' \in {"ready", "closing"} /\ ProvidersUnchanged
    BY <1>4 DEF Shutdown, ProvidersUnchanged, published, pool, instances
  <2>2. \/ Suspend([NoCmd EXCEPT !.op = "shutdown", !.at = "quiesce"])
        \/ PrepareVerdict(turn.profile) = "cancelled" /\ RaiseCancelled
        \/ EndCommand
    BY <1>4 DEF Shutdown
  <2> QED BY <1>1, <1>2, <2>1, <2>2, VerdictFacts, FrameKeeps DEF Suspend
<1> QED BY <1>3, <1>4 DEF Shutdown

-----------------------------------------------------------------------------
(* Commands that resume.                                                   *)

\* The awaited turn is over: the command ends, goes on, or puts the old Provider
\* back.
LEMMA QuiesceKeeps ==
  ASSUME SessionInv, QuiesceEnds
  PROVE  SessionInv'
<1>0. CmdOK /\ TurnOK /\ ServiceOK /\ InstancesOK
  BY TypeParts DEF SessionInv
<1>1. /\ cmd.at = "quiesce" /\ ~Live /\ ~bound /\ ~Closing
      /\ UNCHANGED <<turn, bound, conts, committed, sent>> /\ ~Live'
  BY DEF QuiesceEnds, Live, talk, Closing
<1>2. SameTurn /\ rstate # "closed"
  BY <1>0, <1>1, RequestKeepsTurn, IdleFacts DEF SessionInv, ClosedIsFinal
<1>3. CASE /\ cmd.op \in {"cancel", "shutdown"} /\ (EndCommand \/ RaiseCancelled)
           /\ UNCHANGED <<rstate, loop, published, pool, lifecycle, svcClosed, instances>>
  <2>1. ~Switching
    BY <1>3 DEF Switching
  <2>2. ProvidersUnchanged /\ UNCHANGED rstate /\ (EndCommand \/ RaiseCancelled)
    BY <1>3 DEF ProvidersUnchanged, published, pool, instances
  <2>3. rstate' \in {"ready", "closing"}
    BY <1>0, <1>2, <2>2 DEF CmdOK
  <2> QED BY <1>1, <1>2, <2>1, <2>2, <2>3, FrameKeeps
<1>4. CASE cmd.op = "shutdown" /\ CloseService
  <2>1. ~Switching
    BY <1>4 DEF Switching
  <2> QED BY <1>1, <1>2, <1>4, <2>1, CloseServiceKeeps
<1>5. ASSUME cmd.op = "activate"
      PROVE  /\ Switching /\ active = None /\ candidates = {} /\ retiring = {cmd.old}
             /\ cmd.old \in Provider /\ loop = cmd.old
             /\ profileOf[cmd.old] = cmd.oldProfile /\ persisted = cmd.oldProfile
             /\ cmd.profile \in Profile /\ cmd.setup \in Setup /\ cmd \in Command
             /\ pstate[cmd.old] = "open"
  <2>1. Switching
    BY <1>1, <1>5 DEF Switching
  <2>2. /\ active = None /\ candidates = {} /\ retiring = {cmd.old}
        /\ cmd.old \in Provider /\ loop = cmd.old
        /\ profileOf[cmd.old] = cmd.oldProfile /\ persisted = cmd.oldProfile
        /\ cmd.profile \in Profile /\ cmd.setup \in Setup
    BY <1>1, <1>5, <2>1 DEF SessionInv, Places
  <2> QED BY <1>0, <2>1, <2>2 DEF SessionInv, Pools, CmdOK
<1>6. CASE cmd.op = "activate" /\ TaskVerdict = "quiet"
  <2>1. /\ cmd' = [cmd EXCEPT !.at = "closeOld", !.closing = cmd.old]
        /\ UNCHANGED <<thread, guiTurn, rstate, loop, active, runtimeProfile, runtimeSetup, persisted,
                       retiring, candidates, lifecycle, svcClosed, pstate, accepting, profileOf>>
    BY <1>6 DEF QuiesceEnds, Suspend, published, pool, instances
  <2>2. /\ cmd' \in Command /\ cmd'.at = "closeOld" /\ cmd'.closing = cmd.old /\ cmd'.op = "activate"
        /\ cmd'.profile = cmd.profile /\ cmd'.setup = cmd.setup
    BY <1>5, <1>6, <2>1 DEF Command
  <2>3. ~Switching' /\ Closing'
    BY <2>2 DEF Switching, Closing
  <2>4. TurnOK' /\ SnapshotFollowsTurn'
    BY <1>0, <1>1, <1>2, <2>1, TurnTypes, SnapshotStep DEF SessionInv, SameTurn
  <2>5. CmdOK' /\ ServiceOK' /\ InstancesOK'
    BY <1>0, <1>5, <1>6, <2>1, <2>2 DEF CmdOK, ServiceOK, InstancesOK
  <2>6. Pools' /\ ContinuationOfItsProfile' /\ ClosedIsFinal' /\ TurnHeld'
    BY <1>1, <1>2, <2>1 DEF SessionInv, Pools, ContinuationOfItsProfile, ClosedIsFinal, TurnHeld
  <2>7. Places'
    BY <1>1, <1>5, <1>6, <2>1, <2>2, <2>3 DEF Places
  <2>8. Published'
    BY <1>5, <1>6, <2>1, <2>3 DEF SessionInv, Published
  <2> QED BY <2>4, <2>5, <2>6, <2>7, <2>8, TypeParts, PTL DEF SessionInv
<1>7. CASE cmd.op = "activate" /\ TaskVerdict # "quiet"
  <2>1. /\ EndCommand \/ RaiseCancelled
        /\ retiring' = retiring \ {cmd.old}
        /\ accepting' = [accepting EXCEPT ![cmd.old] = TRUE]
        /\ active' = cmd.old /\ runtimeProfile' = cmd.oldProfile /\ runtimeSetup' = cmd.oldSetup
        /\ lifecycle' = "active"
        /\ UNCHANGED <<rstate, loop, candidates, persisted, svcClosed, pstate, profileOf>>
    BY <1>7 DEF QuiesceEnds, RestoreOld
  <2>2. /\ cmd' \in Command /\ Idle' /\ ~Switching' /\ ~Closing' /\ cmd'.at = "idle"
        /\ cmd'.op = "none" /\ thread' \in {"dispatching", "cleanup", "over"}
    BY <1>0, <2>1, EndFacts
  <2>3. TurnOK' /\ SnapshotFollowsTurn'
    <3>1. PublishSnapshot \/ UNCHANGED guiTurn
      BY <2>1 DEF EndCommand, RaiseCancelled
    <3> QED BY <1>0, <1>1, <1>2, <3>1, TurnTypes, SnapshotStep DEF SessionInv, SameTurn
  <2>4. retiring' = {} /\ candidates' = {} /\ active' # None
    BY <1>5, <1>7, <2>1, NoneAssumption
  <2>5. cmd.oldProfile \in Profile \cup {None} /\ cmd.oldSetup \in Setup \cup {None}
    BY <1>0 DEF CmdOK, Command
  <2>6. CmdOK' /\ ServiceOK' /\ InstancesOK'
    BY <1>0, <1>5, <1>7, <2>1, <2>2, <2>4, <2>5 DEF CmdOK, ServiceOK, InstancesOK
  <2>7. Pools'
    BY <1>5, <1>7, <2>1, <2>4, NoneAssumption DEF SessionInv, Pools
  <2>8. ContinuationOfItsProfile' /\ ClosedIsFinal' /\ TurnHeld' /\ Places'
    BY <1>1, <1>2, <2>1, <2>2 DEF SessionInv, ContinuationOfItsProfile, ClosedIsFinal, TurnHeld, Places
  <2>9. Published'
    BY <1>0, <1>5, <1>7, <2>1, <2>2, <2>4 DEF SessionInv, Published, InstancesOK
  <2> QED BY <2>3, <2>6, <2>7, <2>8, <2>9, TypeParts, PTL DEF SessionInv
<1> QED BY <1>3, <1>4, <1>6, <1>7 DEF QuiesceEnds

\* A close that ends, one way or the other, ends the command: what is retained
\* is reported, and what was closed is forgotten.
LEMMA CloseEnds ==
  ASSUME SessionInv, Closing, EndCommand \/ RaiseCancelled,
         UNCHANGED <<rstate, loop, conts, committed, sent, turn, bound, active, runtimeProfile,
                     runtimeSetup, persisted, svcClosed, accepting, profileOf>>,
         \/ /\ UNCHANGED <<pstate, retiring, candidates>> /\ lifecycle' = "cleanup_pending"
         \/ /\ pstate' = Closed(cmd.closing) /\ retiring' = {} /\ candidates' = {}
            /\ lifecycle' = "inactive"
  PROVE  SessionInv'
<1>0. CmdOK /\ TurnOK /\ ServiceOK /\ InstancesOK
  BY TypeParts DEF SessionInv
<1>1. active = None /\ retiring \cup candidates = {cmd.closing} /\ ~Live /\ cmd.closing \in Provider
  BY <1>0 DEF SessionInv, Places, CmdOK
<1>2. SameTurn /\ ~Live' /\ rstate # "closed"
  BY <1>0, <1>1, RequestKeepsTurn, IdleFacts DEF Live, SessionInv, ClosedIsFinal
<1>3. /\ cmd' \in Command /\ Idle' /\ ~Switching' /\ ~Closing' /\ cmd'.at = "idle"
      /\ cmd'.op = "none" /\ thread' \in {"dispatching", "cleanup", "over"}
  BY <1>0, EndFacts
<1>4. TurnOK' /\ SnapshotFollowsTurn'
  <2>1. PublishSnapshot \/ UNCHANGED guiTurn
    BY DEF EndCommand, RaiseCancelled
  <2> QED BY <1>0, <1>2, <2>1, TurnTypes, SnapshotStep DEF SessionInv, SameTurn
<1>5. CmdOK' /\ ServiceOK' /\ InstancesOK'
  BY <1>0, <1>1, <1>3 DEF CmdOK, ServiceOK, InstancesOK, Closed
<1>6. Pools'
  <2>1. CASE UNCHANGED <<pstate, retiring, candidates>>
    BY <2>1 DEF SessionInv, Pools
  <2>2. CASE pstate' = Closed(cmd.closing) /\ retiring' = {} /\ candidates' = {}
    BY <1>0, <1>1, <2>2, NoneAssumption DEF SessionInv, Pools, Closed, InstancesOK
  <2> QED BY <2>1, <2>2
<1>7. ContinuationOfItsProfile' /\ ClosedIsFinal' /\ TurnHeld' /\ Places'
  BY <1>2, <1>3 DEF SessionInv, ContinuationOfItsProfile, ClosedIsFinal, TurnHeld, Places
<1>8. Published'
  BY <1>1, <1>3 DEF SessionInv, Published
<1> QED BY <1>4, <1>5, <1>6, <1>7, <1>8, TypeParts, PTL DEF SessionInv

\* Once the retained Provider is closed nothing is open.
LEMMA ClosedLeavesNone ==
  ASSUME SessionInv, Closing
  PROVE  /\ Closed(cmd.closing) \in [Provider -> {"unbuilt", "open", "closed"}]
         /\ \A q \in Provider : Closed(cmd.closing)[q] # "open"
         /\ active = None /\ ~Live /\ rstate # "closed" /\ cmd.closing \in Provider
<1>0. CmdOK /\ ServiceOK /\ InstancesOK
  BY TypeParts DEF SessionInv
<1>1. active = None /\ retiring \cup candidates = {cmd.closing} /\ ~Live /\ cmd.closing \in Provider
  BY <1>0 DEF SessionInv, Places, CmdOK
<1>2. rstate # "closed"
  BY IdleFacts DEF SessionInv, ClosedIsFinal
<1> QED BY <1>0, <1>1, <1>2, NoneAssumption DEF SessionInv, Pools, Closed, InstancesOK

\* The old Provider of a switch is closed, or retained.
LEMMA CloseOldKeeps ==
  ASSUME SessionInv, CloseOldEnds
  PROVE  SessionInv'
<1>1. Closing /\ UNCHANGED <<rstate, conts, committed, sent, bound, svcClosed>>
  BY DEF CloseOldEnds, Closing, talk
<1>2. CASE Construct(cmd.profile, cmd.setup, Closed(cmd.closing))
  <2>1. cmd.profile \in Profile /\ cmd.setup \in Setup
    BY DEF SessionInv, Places, CloseOldEnds
  <2> QED BY <1>1, <1>2, <2>1, ClosedLeavesNone, ConstructKeeps
<1>3. CASE ~Construct(cmd.profile, cmd.setup, Closed(cmd.closing))
  <2>1. /\ lifecycle' = "cleanup_pending" /\ EndCommand
        /\ UNCHANGED <<loop, turn, active, runtimeProfile, runtimeSetup, persisted, retiring,
                       candidates, pstate, accepting, profileOf>>
    BY <1>3, Zenon DEF CloseOldEnds, published, pool, instances
  <2> QED BY <1>1, <2>1, CloseEnds
<1> QED BY <1>2, <1>3

\* The rejected candidate is closed, or retained.
LEMMA CloseCandidateKeeps ==
  ASSUME SessionInv, CloseCandidateEnds
  PROVE  SessionInv'
<1>0. CmdOK /\ ServiceOK
  BY TypeParts DEF SessionInv
<1>1. /\ Closing /\ EndCommand
      /\ UNCHANGED <<rstate, loop, conts, committed, sent, turn, bound, active, runtimeProfile,
                     runtimeSetup, persisted, retiring, svcClosed, accepting, profileOf>>
  BY DEF CloseCandidateEnds, Closing, talk, turns, published
<1>2. retiring = {} /\ candidates = {cmd.closing}
  BY <1>1 DEF SessionInv, Places, CloseCandidateEnds
<1>3. \/ UNCHANGED <<pstate, candidates>> /\ lifecycle' = "cleanup_pending"
      \/ pstate' = Closed(cmd.closing) /\ candidates' = {} /\ lifecycle' = "inactive"
  BY <1>2 DEF CloseCandidateEnds
<1> QED BY <1>1, <1>2, <1>3, CloseEnds

\* A close that fails or is cancelled retains its Provider.
LEMMA CloseFailsKeeps ==
  ASSUME SessionInv, CloseCancelled \/ RetryFails
  PROVE  SessionInv'
<1>0. CmdOK
  BY TypeParts DEF SessionInv
<1>1. Closing
  <2>1. CASE CloseCancelled
    <3>1. cmd.closing # None
      BY <2>1 DEF CloseCancelled
    <3>2. cmd.at \in {"idle", "retry", "quiesce", "closeOld", "closeCandidate"}
      BY <1>0 DEF CmdOK, Command
    <3> QED BY <3>1, <3>2, IdleFacts DEF SessionInv, Places, Closing
  <2>2. CASE RetryFails
    BY <2>2 DEF RetryFails, Closing
  <2> QED BY <2>1, <2>2
<1>2. /\ EndCommand \/ RaiseCancelled
      /\ UNCHANGED <<rstate, loop, conts, committed, sent, turn, bound, active, runtimeProfile,
                     runtimeSetup, persisted, retiring, candidates, svcClosed, pstate, accepting,
                     profileOf>>
      /\ lifecycle' = "cleanup_pending"
  BY DEF CloseCancelled, RetryFails, talk, turns, published, pool, instances
<1> QED BY <1>1, <1>2, CloseEnds

\* The retained Provider is closed and the command goes on.
LEMMA RetryKeeps ==
  ASSUME SessionInv, RetrySucceeds
  PROVE  SessionInv'
<1>0. CmdOK /\ TurnOK /\ ServiceOK /\ InstancesOK
  BY TypeParts DEF SessionInv
<1>1. /\ Closing /\ ~Switching /\ cmd.at = "retry"
      /\ UNCHANGED <<conts, committed, sent, bound, svcClosed>>
  BY DEF RetrySucceeds, Closing, Switching, talk
<1>2. CASE /\ cmd.op = "activate" /\ UNCHANGED rstate
           /\ Activate(cmd.profile, cmd.setup, cmd.handling, Closed(cmd.closing), "inactive")
  <2>1. cmd.profile \in Profile /\ cmd.setup \in Setup /\ cmd.handling \in Handling
    BY <1>0, <1>1, <1>2 DEF SessionInv, Places, CmdOK, Command
  <2>2. \A q \in Provider : Closed(cmd.closing)[q] = "open" <=> q = active
    BY <1>1, ClosedLeavesNone, NoneAssumption
  <2> QED BY <1>1, <1>2, <2>1, <2>2, ClosedLeavesNone, ActivateKeeps
<1>3. CASE /\ cmd.op = "shutdown"
           /\ pstate' = Closed(cmd.closing)
           /\ retiring' = {} /\ candidates' = {}
           /\ lifecycle' = "closed" /\ rstate' = "closed" /\ loop' = None
           /\ UNCHANGED <<turn, published, accepting, profileOf>>
           /\ cmd' = NoCmd /\ thread' = "over" /\ PublishSnapshot
  <2>1. /\ cmd' \in Command /\ Idle' /\ ~Switching' /\ ~Closing' /\ cmd'.at = "idle" /\ cmd'.op = "none"
    BY <1>3 DEF NoCmd, Command, Handling, Idle, Switching, Closing
  <2>2. /\ \A q \in Provider : pstate'[q] # "open"
        /\ pstate' \in [Provider -> {"unbuilt", "open", "closed"}] /\ active = None /\ ~Live
        /\ svcClosed
    BY <1>1, <1>3, ClosedLeavesNone DEF SessionInv, Places
  <2>3. /\ UNCHANGED <<turn, active, runtimeProfile, runtimeSetup, persisted, accepting, profileOf>>
        /\ SameTurn /\ ~Live'
    BY <1>0, <1>3, <2>2, RequestKeepsTurn DEF published, Live
  <2>4. TurnOK' /\ SnapshotFollowsTurn'
    BY <1>0, <1>1, <1>3, <2>3, TurnTypes, SnapshotStep DEF SessionInv
  <2>5. CmdOK' /\ ServiceOK' /\ InstancesOK'
    BY <1>0, <1>1, <1>3, <2>1, <2>2, <2>3 DEF CmdOK, ServiceOK, InstancesOK
  <2>6. Pools'
    BY <1>3, <2>2, <2>3, NoneAssumption DEF Pools
  <2>7. ContinuationOfItsProfile' /\ ClosedIsFinal' /\ TurnHeld' /\ Places'
    BY <1>1, <1>3, <2>1, <2>2, <2>3 DEF SessionInv, ContinuationOfItsProfile, ClosedIsFinal, TurnHeld, Places
  <2>8. Published'
    BY <1>1, <1>3, <2>1, <2>2, <2>3 DEF Published
  <2> QED BY <2>4, <2>5, <2>6, <2>7, <2>8, TypeParts, PTL DEF SessionInv
<1> QED BY <1>2, <1>3 DEF RetrySucceeds

-----------------------------------------------------------------------------
(* The turn's own steps.                                                   *)

\* A step of the turn's task keeps the turn's identity, and never revives it.
LEMMA TurnKeeps ==
  ASSUME SessionInv, turn' \in Task, turn'.id = turn.id, turn'.provider = turn.provider,
         turn'.profile = turn.profile, Live' => Live,
         UNCHANGED <<thread, cmd, rstate, loop, active, runtimeProfile, runtimeSetup, persisted,
                     retiring, candidates, lifecycle, svcClosed, pstate, accepting, profileOf, sent>>,
         UNCHANGED bound \/ (bound' = FALSE /\ ~Live'),
         PublishSnapshot \/ UNCHANGED <<guiTurn, bound>>,
         conts' \in [Profile -> Profile \cup {None}], committed' \subseteq 1..MaxTurns,
         ContinuationOfItsProfile'
  PROVE  SessionInv'
<1>0. CmdOK /\ TurnOK /\ ServiceOK /\ InstancesOK
  BY TypeParts DEF SessionInv
<1>1. /\ cmd' = cmd /\ (Switching' <=> Switching) /\ (Closing' <=> Closing) /\ (Idle' <=> Idle)
  BY DEF Switching, Closing, Idle
<1>2. TurnOK'
  <2>1. turn'.id \in 0..MaxTurns
    BY DEF Task
  <2>2. guiTurn' \in 0..MaxTurns
    BY <1>0, <2>1, TurnsAssumption DEF TurnOK, PublishSnapshot
  <2> QED BY <1>0, <2>2 DEF TurnOK
<1>3. SnapshotFollowsTurn'
  BY SnapshotStep DEF SessionInv
<1>4. CmdOK' /\ ServiceOK' /\ InstancesOK'
  BY <1>0, <1>1 DEF CmdOK, ServiceOK, InstancesOK
<1>5. Pools' /\ ClosedIsFinal' /\ Places' /\ Published'
  BY <1>1 DEF SessionInv, Pools, ClosedIsFinal, Places, Published
<1>6. TurnHeld'
  BY <1>1 DEF SessionInv, TurnHeld
<1> QED BY <1>2, <1>3, <1>4, <1>5, <1>6, TypeParts, PTL DEF SessionInv

\* The seven steps of a turn.
LEMMA TurnStepKeeps ==
  ASSUME SessionInv, TurnStep
  PROVE  SessionInv'
<1>0. TurnOK /\ InstancesOK
  BY TypeParts DEF SessionInv
<1>a. turn \in Task /\ conts \in [Profile -> Profile \cup {None}] /\ committed \subseteq 1..MaxTurns
  BY <1>0 DEF TurnOK
<1>3. CASE TurnBegins \/ RequestStarts \/ TurnFails \/ TurnEnds \/ TurnAborts
  <2>1. Live
    BY <1>3 DEF TurnBegins, RequestStarts, TurnFails, TurnEnds, TurnAborts, Live
  <2>2. /\ turn' \in Task /\ turn'.id = turn.id /\ turn'.provider = turn.provider
        /\ turn'.profile = turn.profile
    BY <1>3, <1>a, ZenonT(40) DEF TurnBegins, RequestStarts, TurnFails, TurnEnds, TurnAborts, Terminal, Task, Phase
  <2>3. /\ UNCHANGED <<thread, cmd, rstate, loop, active, runtimeProfile, runtimeSetup, persisted,
                       retiring, candidates, lifecycle, svcClosed, pstate, accepting, profileOf, sent,
                       bound, conts, committed>>
        /\ PublishSnapshot \/ UNCHANGED guiTurn
    BY <1>3 DEF TurnBegins, RequestStarts, TurnFails, TurnEnds, TurnAborts, TurnStepFrame, control,
       published, pool, instances
  <2>4. ContinuationOfItsProfile'
    BY <2>3 DEF SessionInv, ContinuationOfItsProfile
  <2> QED BY <1>a, <2>1, <2>2, <2>3, <2>4, TurnKeeps
<1>4. CASE TurnCompletes
  <2>1. Live
    BY <1>4 DEF TurnCompletes, Live
  <2>2. turn.provider \in Provider /\ turn.profile \in Profile /\ profileOf[turn.provider] = turn.profile
    BY <1>0, <2>1 DEF TurnOK, SessionInv, TurnHeld
  <2>3. /\ turn' \in Task /\ turn'.id = turn.id /\ turn'.provider = turn.provider
        /\ turn'.profile = turn.profile
    BY <1>4, <1>a DEF TurnCompletes, Terminal, Task, Phase
  <2>4. /\ UNCHANGED <<thread, cmd, rstate, loop, active, runtimeProfile, runtimeSetup, persisted,
                       retiring, candidates, lifecycle, svcClosed, pstate, accepting, profileOf, sent,
                       bound>>
        /\ PublishSnapshot
    BY <1>4 DEF TurnCompletes, TurnStepFrame, control, published, pool, instances
  <2>5. PICK x \in {None, turn.profile} : conts' = [conts EXCEPT ![turn.profile] = x]
    BY <1>4, <2>2 DEF TurnCompletes, OwnContinuation
  <2>6. conts' \in [Profile -> Profile \cup {None}] /\ ContinuationOfItsProfile'
    BY <1>a, <2>2, <2>5 DEF SessionInv, ContinuationOfItsProfile
  <2>7. committed' \subseteq 1..MaxTurns
    <3>1. turn.id \in 1..MaxTurns
      BY <2>1 DEF SessionInv, TurnHeld
    <3> QED BY <1>4, <1>a, <3>1 DEF TurnCompletes
  <2> QED BY <2>1, <2>3, <2>4, <2>6, <2>7, TurnKeeps
<1>5. CASE OnTurnDone
  <2>1. /\ UNCHANGED <<thread, cmd, rstate, loop, active, runtimeProfile, runtimeSetup, persisted,
                       retiring, candidates, lifecycle, svcClosed, pstate, accepting, profileOf, sent,
                       turn, conts, committed>>
        /\ bound' = FALSE /\ PublishSnapshot /\ ~Live'
    BY <1>5 DEF OnTurnDone, control, talk, published, pool, instances, Live
  <2>2. ContinuationOfItsProfile'
    BY <2>1 DEF SessionInv, ContinuationOfItsProfile
  <2> QED BY <1>a, <2>1, <2>2, TurnKeeps
<1> QED BY <1>3, <1>4, <1>5 DEF TurnStep

-----------------------------------------------------------------------------
(* The theorems.                                                           *)

\* The initial states satisfy the invariant.
LEMMA SessionInit == Init => SessionInv
<1> SUFFICES ASSUME Init PROVE SessionInv
  OBVIOUS
<1>1. CmdOK /\ TurnOK /\ ServiceOK /\ InstancesOK
  <2>1. CmdOK
    BY DEF Init, CmdOK, NoCmd, Command, Handling, Closing
  <2>2. NoTask \in Task /\ NoTask.phase = "done"
    BY TurnsAssumption DEF NoTask, Task, Phase
  <2>3. turn \in Task /\ ~Live
    BY <2>2 DEF Init, Live
  <2>4. sent \in 0..MaxTurns /\ guiTurn \in 0..MaxTurns
    BY TurnsAssumption DEF Init
  <2>5. conts \in [Profile -> Profile \cup {None}] /\ committed \subseteq 1..MaxTurns
    BY DEF Init
  <2>6. bound \in BOOLEAN
    BY DEF Init
  <2>7. TurnOK
    BY <2>3, <2>4, <2>5, <2>6 DEF TurnOK
  <2>8. ServiceOK /\ InstancesOK
    BY DEF Init, ServiceOK, InstancesOK
  <2> QED BY <2>1, <2>7, <2>8
<1>2. Idle /\ ~Live /\ ~Switching /\ ~Closing
  BY DEF Init, Idle, Live, NoTask, NoCmd, Switching, Closing
<1>3. Pools
  BY NoneAssumption DEF Init, Pools
<1>4. Places /\ TurnHeld /\ Published /\ ClosedIsFinal
  BY <1>2 DEF Init, Places, TurnHeld, Published, ClosedIsFinal, NoCmd
<1>5. SnapshotFollowsTurn /\ ContinuationOfItsProfile
  BY DEF Init, SnapshotFollowsTurn, ContinuationOfItsProfile
<1> QED BY <1>1, <1>3, <1>4, <1>5, TypeParts DEF SessionInv

\* Every step keeps it.
LEMMA SessionStep ==
  ASSUME SessionInv, [Next]_vars
  PROVE  SessionInv'
<1>1. CASE CommandStarts
  BY <1>1, ActivateProfileKeeps, StartTurnKeeps, CancelKeeps, ShutdownKeeps DEF CommandStarts
<1>2. CASE CommandResumes
  BY <1>2, QuiesceKeeps, CloseOldKeeps, CloseCandidateKeeps, CloseFailsKeeps, RetryKeeps
     DEF CommandResumes
<1>3. CASE TurnStep
  BY <1>3, TurnStepKeeps
<1>4. CASE UNCHANGED vars
  BY <1>4 DEF vars, control, talk, turns, published, pool, instances, SessionInv, TypeOK, Pools, Places,
     TurnHeld, Published, ClosedIsFinal, SnapshotFollowsTurn, ContinuationOfItsProfile, Switching,
     Closing, Live, Idle
<1> QED BY <1>1, <1>2, <1>3, <1>4 DEF Next

\* It implies the two properties.
LEMMA SessionMeans ==
  ASSUME SessionInv
  PROVE  ProvidersAreOwned /\ PublishedIsTruthful
<1>0. CmdOK /\ TurnOK /\ ServiceOK /\ InstancesOK /\ TypeOK
  BY TypeParts DEF SessionInv
<1>1. OneOpenProvider /\ OpenProviderIsOwned
  BY DEF SessionInv, Pools, OneOpenProvider, OpenProviderIsOwned, Open, Pending
<1>2. NoCloseUnderTurn
  <2> SUFFICES ASSUME Live PROVE turn.provider \in Open /\ cmd.closing # turn.provider
    BY DEF NoCloseUnderTurn
  <2>1. turn.provider \in Provider /\ turn.provider = IF Switching THEN cmd.old ELSE active
    BY <1>0 DEF SessionInv, TurnHeld, TurnOK
  <2>2. turn.provider = active \/ turn.provider \in retiring
    BY <2>1 DEF SessionInv, Places
  <2>3. pstate[turn.provider] = "open"
    BY <2>1, <2>2 DEF SessionInv, Pools
  <2>4. cmd.closing = None
    <3>1. cmd.at \in {"idle", "retry", "quiesce", "closeOld", "closeCandidate"}
      BY <1>0 DEF CmdOK, Command
    <3> QED BY <3>1, IdleFacts DEF SessionInv, Places, Closing
  <2> QED BY <2>1, <2>3, <2>4, NoneAssumption DEF Open
<1>3. ClosedReleasesAll /\ ThreadLeavesNoTurn
  BY DEF SessionInv, ClosedIsFinal, TurnHeld, ClosedReleasesAll, ThreadLeavesNoTurn, Open
<1>4. LifecycleTruthful
  BY IdleFacts DEF SessionInv, Published, LifecycleTruthful, Pending
<1>5. TurnUsesItsProfile
  BY DEF SessionInv, TurnHeld, TurnUsesItsProfile
<1>6. PublishedProviderServes
  BY <1>0, NoneAssumption DEF SessionInv, Pools, Published, PublishedProviderServes, Open, Pending, ServiceOK
<1> QED BY <1>0, <1>1, <1>2, <1>3, <1>4, <1>5, <1>6
    DEF ProvidersAreOwned, PublishedIsTruthful, SessionInv

\* The inductive invariant holds in every reachable state.
THEOREM SessionInvariant == Spec => []SessionInv
<1>1. SessionInv /\ [Next]_vars => SessionInv'
  BY SessionStep
<1> QED BY <1>1, SessionInit, PTL DEF Spec

\* However commands end, by success, failure or CancelledError at any await, at
\* most one Provider is open and owned, no turn is orphaned or has its Provider
\* closed under it, and a successful shutdown has released everything.
THEOREM ProvidersOwned == Spec => []ProvidersAreOwned
<1>1. SessionInv => ProvidersAreOwned
  BY SessionMeans
<1> QED BY <1>1, SessionInvariant, PTL

\* The lifecycle, the Provider, the snapshot and the continuations the GUI can
\* see are true, whatever switch was given up before.
THEOREM PublishedTruthful == Spec => []PublishedIsTruthful
<1>1. SessionInv => PublishedIsTruthful
  BY SessionMeans
<1> QED BY <1>1, SessionInvariant, PTL
=============================================================================
