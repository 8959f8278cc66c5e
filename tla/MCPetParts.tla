----------------------------- MODULE MCPetParts -----------------------------
(***************************************************************************)
(* The parts of the desktop pet besides the run of MCPetWindow.cfg: the    *)
(* Track 0 controller under any caller, the window without a role pack,    *)
(* the loading of a role pack's files, the switch between role packs, and  *)
(* a window whose pet falls. A behaviour is about one of them, chosen in   *)
(* the initial state; the variables of the others are not used, and those  *)
(* of Track 0 stay as they begin.                                          *)
(***************************************************************************)
EXTENDS PetTrack0, FiniteSets

VARIABLES
  part,  \* the component this behaviour is about
  \* PetPlaceholder
  s, timer, moving, placeholderGesture, facing, right,
  \* RoleAssets
  disk, pc, assetsNext, identity, blocks, bytes, held, assetsOwner, destroys,
  backend, paused, calls,
  \* RolePackSwitch
  built, packsOwner, closes, active, published, contained, autonomous, outcome,
  \* PetWindow
  pet, fallGesture, source, tick, fallCall

Placeholder == INSTANCE PetPlaceholder WITH
  gesture <- placeholderGesture

Assets == INSTANCE RoleAssets WITH
  Contents <- {"good", "other", "large"}, SizeOf <- [good |-> 1, other |-> 1,
  large |-> 2], Expected <- "good", FileLimit <- 2, BundleLimit <- 3,
  MaxTicks <- 1, next <- assetsNext, owner <- assetsOwner

Packs == INSTANCE RolePackSwitch WITH
  Packs <- 1..4, First <- 1, Identity <- <<1, 2, 3, 1>>, Builders <- 2,
  owner <- packsOwner

Fall == INSTANCE PetWindow WITH
  Timed <- {"idle", "walk_left", "walk_right", "sit_idle", "sleep_loop",
  "wave", "happy"}, Offered <- {}, Sessions <- {}, MaxGeneration <- 3,
  Requested <- {"SPECIAL"}, Sources <- {"USER"}, MaxEvents <- 1,
  gesture <- fallGesture, call <- fallCall

\* What each component assumes of its constants.
ASSUME PetPartsAssumption ==
  /\ Track0Assumption
  /\ Assets!AssetsAssumption
  /\ Packs!PackAssumption
  /\ TimedAssumption
  /\ CatalogAssumption
  /\ Fall!T0!TimedAssumption

\* The value of the variables of the components a behaviour is not about.
Unused == "unused"

\* PetTrack0 rests in its initial state in the behaviours of the others.
TrackUnused == Init

PlaceholderUnused ==
  /\ s = Unused /\ timer = Unused /\ moving = Unused
  /\ placeholderGesture = Unused /\ facing = Unused /\ right = Unused

AssetsUnused ==
  /\ disk = Unused /\ pc = Unused /\ assetsNext = Unused /\ identity = Unused
  /\ blocks = Unused /\ bytes = Unused /\ held = Unused
  /\ assetsOwner = Unused /\ destroys = Unused /\ backend = Unused
  /\ paused = Unused /\ calls = Unused

PacksUnused ==
  /\ built = Unused /\ packsOwner = Unused /\ closes = Unused
  /\ active = Unused /\ published = Unused /\ contained = Unused
  /\ autonomous = Unused /\ outcome = Unused

FallUnused ==
  /\ pet = Unused /\ fallGesture = Unused /\ source = Unused /\ tick = Unused
  /\ fallCall = Unused

trackVars ==
  <<track0, call>>

placeholderVars ==
  <<s, timer, moving, placeholderGesture, facing, right>>

assetsVars ==
  <<disk, pc, assetsNext, identity, blocks, bytes, held, assetsOwner,
    destroys, backend, paused, calls>>

packsVars ==
  <<built, packsOwner, closes, active, published, contained, autonomous,
    outcome>>

fallVars ==
  <<pet, fallGesture, source, tick, fallCall>>

AllInit ==
  \/ part = "track0" /\ Init
     /\ PlaceholderUnused /\ AssetsUnused /\ PacksUnused /\ FallUnused
  \/ part = "placeholder" /\ Placeholder!Init
     /\ TrackUnused /\ AssetsUnused /\ PacksUnused /\ FallUnused
  \/ part = "assets" /\ Assets!Init
     /\ TrackUnused /\ PlaceholderUnused /\ PacksUnused /\ FallUnused
  \/ part = "packs" /\ Packs!Init
     /\ TrackUnused /\ PlaceholderUnused /\ AssetsUnused /\ FallUnused
  \/ part = "fall" /\ Fall!Init
     /\ TrackUnused /\ PlaceholderUnused /\ AssetsUnused /\ PacksUnused

TrackNext ==
  /\ part = "track0" /\ Next
  /\ UNCHANGED <<part, placeholderVars, assetsVars, packsVars, fallVars>>

PlaceholderNext ==
  /\ part = "placeholder" /\ Placeholder!Next
  /\ UNCHANGED <<part, trackVars, assetsVars, packsVars, fallVars>>

AssetsNext ==
  /\ part = "assets" /\ Assets!Next
  /\ UNCHANGED <<part, trackVars, placeholderVars, packsVars, fallVars>>

PacksNext ==
  /\ part = "packs" /\ Packs!Next
  /\ UNCHANGED <<part, trackVars, placeholderVars, assetsVars, fallVars>>

FallNext ==
  /\ part = "fall" /\ Fall!Next
  /\ UNCHANGED <<part, trackVars, placeholderVars, assetsVars, packsVars>>

AllNext ==
  \/ TrackNext \/ PlaceholderNext \/ AssetsNext \/ PacksNext \/ FallNext

allVars == <<part, trackVars, placeholderVars, assetsVars, packsVars, fallVars>>

AllSpec == AllInit /\ [][AllNext]_allVars

\* The watchdog is polled, the timers of both windows tick, and the start of
\* the pet is a straight line of code; nothing is promised of players or users.
FairSpec ==
  /\ AllSpec
  /\ WF_trackVars(part = "track0" /\ DoPollWatchdog)
  /\ SF_placeholderVars(part = "placeholder" /\ Placeholder!Tick(TRUE, FALSE, "none", TRUE))
  /\ WF_assetsVars(part = "assets" /\ Assets!Steps)
  /\ SF_fallVars(part = "fall" /\ Fall!TickOn(Fall!TickWith(TRUE)))
  /\ WF_fallVars(part = "fall" /\ Fall!TickOn(Fall!Deliver))
  /\ WF_fallVars(part = "fall" /\ Fall!TickOn(Fall!EndTick))

-----------------------------------------------------------------------------
(* Properties.                                                             *)

\* Without a role pack: however walks, thoughts, reminders, drags and pauses
\* interrupt each other the layers stay legal, and what is timed has a timer.
PlaceholderIsConsistent ==
  part = "placeholder" =>
    /\ Placeholder!TypeOK /\ Placeholder!LayersStayValid
    /\ Placeholder!TimedStateHasTimer

\* Role packs: a published pack is the one of the manifest, unmixed and alive
\* while it is used; what is built is owned or closed once, in reverse order;
\* a switch resumes autonomy only over a relaxed pet the host shows, and the
\* host shows another pack only after a candidate given up was offered again.
PacksAreOwned ==
  /\ part = "assets" =>
       /\ Assets!TypeOK /\ Assets!NothingTorn /\ Assets!PublishedIsExpected
       /\ Assets!WithinBundleLimit /\ Assets!NothingLeaks /\ Assets!NativeAlive
  /\ part = "packs" =>
       /\ Packs!TypeOK /\ Packs!AutonomousOnlyWhenRelaxed
       /\ Packs!OnlyGivenUpPacksMislead
       /\ Packs!ClosedInReverse /\ Packs!EveryResourceOwnedOrClosedOnce

Unrest ==
  \/ /\ part = "track0" /\ track0.active # NoRequest
     /\ ProtectedRequest(track0.active)
  \/ part = "placeholder" /\ Placeholder!Busy
  \/ part = "assets" /\ pc \notin {"composed", "placeholder", "closed"}
  \/ part = "fall" /\ Fall!In("FALLING")

Lands == part = "fall" /\ Fall!In("LANDING")

\* Nothing of the pet goes on for ever: a protected play whose callbacks never
\* come, the unrest of a pet nobody holds, the start with a role pack, a fall
\* and its landing.
PetComesToRest == (Unrest ~> ~Unrest) /\ (Lands ~> ~Lands)
=============================================================================
