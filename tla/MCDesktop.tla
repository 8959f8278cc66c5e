----------------------------- MODULE MCDesktop ------------------------------
(***************************************************************************)
(* The desktop around the pet for TLC: autostart, the settings file, the   *)
(* single instance, the application shell, the action palette, the draft   *)
(* of a message and the surfaces the pet is drawn on. A behaviour is about *)
(* one of them, chosen in the initial state; the variables of the others   *)
(* are not used, and those of autostart, the single instance, the settings *)
(* file and the shell stay as they begin.                                  *)
(***************************************************************************)
EXTENDS Autostart, AtomicJsonFile, SingleInstance, ApplicationShell, Sequences

VARIABLES
  part,  \* the component this behaviour is about
  \* Palette
  paletteSnap, host, timer, fresh, recent, cursor, down, paletteQueue,
  outside, closing, available, paletteSent, passed,
  \* ConversationDraft
  surface, draftSnap, text, revision, ime, submitted, snapshots, issued,
  visible, editor, composition, touched,
  \* RenderSurface
  ui, faults

Menu == INSTANCE Palette WITH
  RootCommands <- {"open_settings"}, Actions <- {"sit", "sleep"},
  snap <- paletteSnap, queue <- paletteQueue, sent <- paletteSent

Draft == INSTANCE ConversationDraft WITH
  Texts <- {"a", "b"}, MaxRevision <- 4, MaxSubmits <- 2, snap <- draftSnap

Surface == INSTANCE RenderSurface WITH
  Facings <- {"RIGHT"}, MaxFaults <- 1

\* What each component assumes of its constants.
ASSUME DesktopAssumption ==
  /\ AutostartAssumption
  /\ JsonAssumption
  /\ InstanceAssumption
  /\ ShellAssumption
  /\ Draft!DraftAssumption
  /\ Surface!SurfaceAssumption

\* The value of the variables of the components a behaviour is not about.
Unused == "unused"

\* Autostart rests in its initial state in the behaviours of the others.
AutoUnused == AutostartInit /\ entry = "absent" /\ journal = "off"

\* AtomicJsonFile rests in its initial state in the behaviours of the others.
FileUnused == JsonInit /\ target = Absent

\* SingleInstance rests in its initial state in the behaviours of the others.
InstanceUnused == Init

\* ApplicationShell rests in its initial state in the behaviours of the others.
ShellUnused == ShellInit

PaletteUnused ==
  /\ paletteSnap = Unused /\ host = Unused /\ timer = Unused /\ fresh = Unused
  /\ recent = Unused /\ cursor = Unused /\ down = Unused
  /\ paletteQueue = Unused /\ outside = Unused /\ closing = Unused
  /\ available = Unused /\ paletteSent = Unused /\ passed = Unused

DraftUnused ==
  /\ surface = Unused /\ draftSnap = Unused /\ text = Unused
  /\ revision = Unused /\ ime = Unused /\ submitted = Unused
  /\ snapshots = Unused /\ issued = Unused /\ visible = Unused
  /\ editor = Unused /\ composition = Unused /\ touched = Unused

SurfaceUnused ==
  /\ ui = Unused /\ faults = Unused

autoVars ==
  <<entry, failing, journal, svc, op, queue, thread, replies, pending, gui,
    bridge, foreign>>

fileVars ==
  <<target, temp, left, step, value, ctl, processes>>

instanceVars ==
  <<pc, lock, server, conn, sent, reply, code, queued, shown>>

shellVars ==
  <<main, runtimeBridge, win, pet, tray, rec, obs, saves, dash, exits>>

paletteVars ==
  <<paletteSnap, host, timer, fresh, recent, cursor, down, paletteQueue,
    outside, closing, available, paletteSent, passed>>

draftVars ==
  <<surface, draftSnap, text, revision, ime, submitted, snapshots, issued,
    visible, editor, composition, touched>>

surfaceVars ==
  <<ui, faults>>

AllInit ==
  \/ part = "autostart" /\ AutostartInit
     /\ FileUnused /\ InstanceUnused /\ ShellUnused /\ PaletteUnused
     /\ DraftUnused /\ SurfaceUnused
  \/ part = "file" /\ JsonInit
     /\ AutoUnused /\ InstanceUnused /\ ShellUnused /\ PaletteUnused
     /\ DraftUnused /\ SurfaceUnused
  \/ part = "instance" /\ Init
     /\ AutoUnused /\ FileUnused /\ ShellUnused /\ PaletteUnused
     /\ DraftUnused /\ SurfaceUnused
  \/ part = "shell" /\ ShellInit
     /\ AutoUnused /\ FileUnused /\ InstanceUnused /\ PaletteUnused
     /\ DraftUnused /\ SurfaceUnused
  \/ part = "palette" /\ Menu!Init
     /\ AutoUnused /\ FileUnused /\ InstanceUnused /\ ShellUnused
     /\ DraftUnused /\ SurfaceUnused
  \/ part = "draft" /\ Draft!Init
     /\ AutoUnused /\ FileUnused /\ InstanceUnused /\ ShellUnused
     /\ PaletteUnused /\ SurfaceUnused
  \/ part = "surface" /\ Surface!Init
     /\ AutoUnused /\ FileUnused /\ InstanceUnused /\ ShellUnused
     /\ PaletteUnused /\ DraftUnused

AutoNext ==
  /\ part = "autostart" /\ AutostartNext
  /\ UNCHANGED <<part, fileVars, instanceVars, shellVars, paletteVars,
                draftVars, surfaceVars>>

FileNext ==
  /\ part = "file" /\ JsonNext
  /\ UNCHANGED <<part, autoVars, instanceVars, shellVars, paletteVars,
                draftVars, surfaceVars>>

InstancesNext ==
  /\ part = "instance" /\ Next
  /\ UNCHANGED <<part, autoVars, fileVars, shellVars, paletteVars, draftVars,
                surfaceVars>>

ApplicationNext ==
  /\ part = "shell" /\ ShellNext
  /\ UNCHANGED <<part, autoVars, fileVars, instanceVars, paletteVars,
                draftVars, surfaceVars>>

MenuNext ==
  /\ part = "palette" /\ Menu!Next
  /\ UNCHANGED <<part, autoVars, fileVars, instanceVars, shellVars, draftVars,
                surfaceVars>>

DraftNext ==
  /\ part = "draft" /\ Draft!Next
  /\ UNCHANGED <<part, autoVars, fileVars, instanceVars, shellVars,
                paletteVars, surfaceVars>>

SurfaceNext ==
  /\ part = "surface" /\ Surface!Next
  /\ UNCHANGED <<part, autoVars, fileVars, instanceVars, shellVars,
                paletteVars, draftVars>>

AllNext ==
  \/ AutoNext \/ FileNext \/ InstancesNext \/ ApplicationNext \/ MenuNext
  \/ DraftNext \/ SurfaceNext

allVars == <<part, autoVars, fileVars, instanceVars, shellVars, paletteVars,
           draftVars, surfaceVars>>

AllSpec == AllInit /\ [][AllNext]_allVars

-----------------------------------------------------------------------------
(* Properties.                                                             *)

\* The palette: windows, poller and focus follow the model on every route, and
\* only enabled commands run.  The pet itself: what a tick published stays on
\* one of its surfaces, on one only once Qt has painted, and is hit where it is
\* shown.  The draft and the file keep their shape.
ScreenFollowsModel ==
  /\ part = "palette" =>
       /\ Menu!TypeOK /\ Menu!HostFollowsModel /\ Menu!PollerFollowsModel
       /\ Menu!FocusReturns /\ Menu!OnlyEnabledCommands
  /\ part = "surface" =>
       /\ Surface!TypeOK /\ Surface!NoBlank /\ Surface!NoDouble
       /\ Surface!HitIsOfShown /\ Surface!NoGhost /\ Surface!ClosedIsReleased
  /\ part = "draft" => Draft!TypeOK
  /\ part = "file" => JsonTypeOK /\ OneTemporaryEach

\* No step shows an answer older than the toggle, touches a lost entry,
\* acknowledges a start while closing, opens a window on the way out, records
\* ready too early, loses or submits the wrong draft, or reports a
\* failed save as a success.
DesktopStepsAreSafe ==
  [][/\ part = "autostart" => ShownIsNotOlderThanToggle /\ LostEntryIsLeftAlone
     /\ part = "instance" => ClosingAcknowledgesNobody
     /\ part = "shell" => NoWindowOpensOnExit /\ ReadyIsTruthful
     /\ part = "draft" => /\ Draft!AcceptanceIsExact /\ Draft!NoSubmitWhileComposing
                          /\ Draft!EditorKeepsDraft
     /\ part = "file" => ReportIsTruthful]_allVars
=============================================================================
