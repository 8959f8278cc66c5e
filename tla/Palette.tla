------------------------------ MODULE Palette ------------------------------
(***************************************************************************)
(* The action palette: PetApplicationCoordinator routes right clicks,      *)
(* presses, lost activation and a 15 ms poll of the mouse button into the  *)
(* presentation model; ActionPaletteEffectSink shows what comes out and    *)
(* dispatches the command that is chosen.                                  *)
(*                                                                         *)
(* A press is seen twice: the button goes down at once, the Qt event waits *)
(* in the queue.  The cursor is on one of Places; "window" is another      *)
(* window of the program, "desktop" another program.                       *)
(***************************************************************************)
EXTENDS FrontendPresentation, FiniteSets, SequencesExt

CONSTANTS
  RootCommands,  \* rows of the root layer
  Actions        \* rows of the animation layer

Commands == RootCommands \cup Actions
Places == {"palette", "pet", "window", "desktop"}

VARIABLES
  snap,      \* the snapshot of the model
  host,      \* ActionPaletteHost and the sink's _layer
  timer,     \* _outside_press_timer runs
  fresh,     \* less than _PALETTE_DEACTIVATE_GRACE_SECONDS since it was shown
  recent,    \* less than _PALETTE_RAPID_REOPEN_SECONDS since it was opened
  cursor,    \* where the cursor is
  down,      \* the left button is down
  queue,     \* the place of a press that is not delivered yet, or "none"
  outside,   \* the queued press was made outside an open palette
  closing,   \* pet_closing
  available, \* actions that are enabled now
  sent,      \* the last command dispatched, and whether it was enabled then
  passed     \* a press outside the open palette reached its target

vars == <<snap, host, timer, fresh, recent, cursor, down, queue, outside,
          closing, available, sent, passed>>

NoHost == [visible |-> FALSE, layer |-> "root", sub |-> FALSE, rows |-> {}]

Init ==
  /\ snap = NewSnapshot /\ host = NoHost /\ timer = FALSE
  /\ fresh = FALSE /\ recent = FALSE
  /\ cursor = "desktop" /\ down = FALSE /\ queue = "none" /\ outside = FALSE
  /\ closing = FALSE /\ available \in SUBSET Actions
  /\ sent = [command |-> "none", enabled |-> TRUE] /\ passed = FALSE

Open == snap.overlay = "palette"

\* build_command_descriptors: what is enabled now.
EnabledCommands ==
  IF closing THEN {} ELSE RootCommands \cup available

-----------------------------------------------------------------------------
(* ActionPaletteEffectSink.apply and the rendering of ActionPaletteHost.   *)

\* The root rows stay as they were drawn while the second window is open.
Rows(h, layer) ==
  IF layer = "animation"
    THEN (h.rows \cap RootCommands) \cup (EnabledCommands \cap Actions)
    ELSE EnabledCommands \cap RootCommands

\* render_palette: the animation layer is a second window beside the root.
RenderPalette(h, layer) ==
  [h EXCEPT !.layer = layer, !.sub = (layer = "animation"),
            !.rows = Rows(h, layer)]

HideSubPalette(h) == [h EXCEPT !.layer = "root", !.sub = FALSE,
                               !.rows = @ \cap RootCommands]

HidePalette(h) == [HideSubPalette(h) EXCEPT !.visible = FALSE]

ApplyEffect(h, effect) ==
  CASE effect = Effect("show", "palette") ->
         [RenderPalette(h, "root") EXCEPT !.visible = TRUE]
    [] effect.kind = "layer" ->
         IF h.visible THEN RenderPalette(h, effect.value) ELSE h
    [] effect = Effect("dismiss", "palette") ->
         IF h.visible THEN HidePalette(h) ELSE h
    [] OTHER -> h

\* _sync_palette_outside_hook
SyncPaletteOutsideHook(s) ==
  /\ timer' = (s.overlay = "palette")
  /\ fresh' = (fresh /\ s.overlay = "palette")

\* _HookSyncingPresentationCoordinator.dispatch
Dispatch(result) ==
  /\ snap' = result.snapshot
  /\ host' = FoldLeft(ApplyEffect, host, result.effects)
  /\ SyncPaletteOutsideHook(result.snapshot)

DismissPalette == Dispatch(DismissForegroundOverlay(snap))

Unrouted == UNCHANGED <<snap, host, timer, fresh>>

-----------------------------------------------------------------------------
(* The pointer.                                                            *)

MoveCursor(place) ==
  /\ cursor # place /\ place = "palette" => host.visible
  /\ cursor' = place
  /\ Unrouted
  /\ UNCHANGED <<recent, down, queue, outside, closing, available, sent, passed>>

\* The button goes down; Qt queues an event unless it is another program's.
Press ==
  /\ ~down /\ queue = "none"
  /\ cursor = "palette" => host.visible
  /\ down' = TRUE
  /\ queue' = IF cursor = "desktop" THEN "none" ELSE cursor
  /\ outside' = (Open /\ cursor = "window")
  /\ Unrouted
  /\ UNCHANGED <<recent, cursor, closing, available, sent, passed>>

Release ==
  /\ down /\ down' = FALSE
  /\ Unrouted
  /\ UNCHANGED <<recent, cursor, queue, outside, closing, available, sent, passed>>

\* _is_palette_surface asks where the cursor is now, then what was pressed.
IsPaletteSurface == host.visible /\ "palette" \in {cursor, queue}

\* eventFilter for a left press: with the palette open a press on it goes
\* through, one on the pet closes it and goes through, any other closes it
\* and is consumed.
FilterPress ==
  /\ queue # "none" /\ queue' = "none" /\ outside' = FALSE
  /\ IF Open /\ ~IsPaletteSurface THEN DismissPalette ELSE Unrouted
  /\ passed' = (passed \/ (outside /\ (~Open \/ IsPaletteSurface)))
  /\ UNCHANGED <<recent, cursor, down, closing, available, sent>>

\* _poll_outside_press: the timer sees the button, not the event.
PollOutsidePress ==
  /\ timer /\ down /\ cursor \in {"window", "desktop"}
  /\ DismissPalette
  /\ UNCHANGED <<recent, cursor, down, queue, outside, closing, available, sent,
                 passed>>

\* eventFilter for WindowDeactivate of the palette.
Deactivate ==
  /\ Open /\ host.visible /\ ~fresh /\ cursor # "palette"
  /\ DismissPalette
  /\ UNCHANGED <<recent, cursor, down, queue, outside, closing, available, sent,
                 passed>>

\* _on_action_palette_requested
ActionPaletteRequested ==
  /\ IF Open
       THEN IF recent THEN Unrouted /\ recent' = recent
                      ELSE DismissPalette /\ recent' = recent
       ELSE /\ snap' = ShowForegroundOverlay(snap, "palette").snapshot
            /\ host' = FoldLeft(ApplyEffect, host,
                         ShowForegroundOverlay(snap, "palette").effects)
            /\ timer' = TRUE /\ fresh' = TRUE /\ recent' = TRUE
  /\ UNCHANGED <<cursor, down, queue, outside, closing, available, sent, passed>>

\* Time passes.
Settle ==
  /\ fresh \/ recent
  /\ recent' = FALSE
  /\ \/ fresh' = FALSE
     \/ fresh' = fresh /\ recent
  /\ UNCHANGED <<snap, host, timer, cursor, down, queue, outside, closing,
                 available, sent, passed>>

-----------------------------------------------------------------------------
(* The rows of the palette.                                                *)

\* _on_navigation_clicked for the Animation row: it toggles.
NavigateAnimation ==
  /\ host.visible
  /\ Dispatch(SetPaletteLayer(snap, IF host.sub THEN "root" ELSE "animation"))
  /\ UNCHANGED <<recent, cursor, down, queue, outside, closing, available, sent,
                 passed>>

\* Back and Escape
Escape ==
  /\ host.visible
  /\ IF host.sub THEN Dispatch(SetPaletteLayer(snap, "root"))
                 ELSE DismissPalette
  /\ UNCHANGED <<recent, cursor, down, queue, outside, closing, available, sent,
                 passed>>

\* _dispatch_current_command: the command is looked up again.
DispatchCurrentCommand(c) ==
  sent' = IF c \in EnabledCommands
            THEN [command |-> c, enabled |-> TRUE] ELSE sent

\* _on_command_selected: the palette is dismissed first.
CommandSelected(c) ==
  /\ host.visible /\ c \in host.rows
  /\ DismissPalette
  /\ DispatchCurrentCommand(c)
  /\ UNCHANGED <<recent, cursor, down, queue, outside, closing, available, passed>>

-----------------------------------------------------------------------------
(* The rest of the program.                                                *)

\* A committed edit in the composer, whose conversation opens.
ComposerEdited ==
  /\ Dispatch(OpenConversation(snap))
  /\ UNCHANGED <<recent, cursor, down, queue, outside, closing, available, sent,
                 passed>>

Availability(set) ==
  /\ available' = set
  /\ Unrouted
  /\ UNCHANGED <<recent, cursor, down, queue, outside, closing, sent, passed>>

\* A safe exit begins, or fails and is recovered from.
SetClosing(value) ==
  /\ closing' = value
  /\ Unrouted
  /\ UNCHANGED <<recent, cursor, down, queue, outside, available, sent, passed>>

Next ==
  \/ \E place \in Places : MoveCursor(place)
  \/ Press \/ Release \/ FilterPress \/ PollOutsidePress \/ Deactivate
  \/ ActionPaletteRequested \/ Settle \/ NavigateAnimation \/ Escape
  \/ \E c \in Commands : CommandSelected(c)
  \/ ComposerEdited
  \/ \E set \in SUBSET Actions : Availability(set)
  \/ \E value \in BOOLEAN : SetClosing(value)

\* Qt delivers what is queued and its timers fire.
Fairness == WF_vars(FilterPress) /\ WF_vars(PollOutsidePress)

Spec == Init /\ [][Next]_vars
FairSpec == Spec /\ Fairness

-----------------------------------------------------------------------------
(* Properties.                                                             *)

TypeOK ==
  /\ snap \in Snapshots
  /\ host \in [visible : BOOLEAN, layer : Layers, sub : BOOLEAN,
               rows : SUBSET Commands]
  /\ {timer, fresh, recent, down, outside, closing, passed} \subseteq BOOLEAN
  /\ cursor \in Places /\ queue \in Places \cup {"none"}
  /\ available \subseteq Actions
  /\ sent \in [command : Commands \cup {"none"}, enabled : BOOLEAN]

\* ActionPaletteEffectSink: the window, its layer and its second window are
\* always those of the model, whichever of the routes changed it.
HostFollowsModel ==
  /\ host.visible = Open
  /\ host.visible => host.layer = snap.layer
  /\ host.sub = (Open /\ snap.layer = "animation")

\* _sync_palette_outside_hook: the mouse is polled exactly while the palette
\* is open.
PollerFollowsModel == timer = Open

\* FrontendPresentationModel: the focus is on the palette exactly while it is
\* open, and goes back to where it was.
FocusReturns ==
  /\ Open = (snap.focus = "palette")
  /\ Open => snap.return \notin {"palette", "unset"}

\* _dispatch_current_command: a command that was enabled when its row was
\* drawn runs only if it still is.
OnlyEnabledCommands == sent.enabled

\* _poll_outside_press: a press on another program that lasts closes the
\* palette.
HeldPressCloses ==
  (Open /\ down /\ cursor = "desktop")
    ~> (~Open \/ ~down \/ cursor # "desktop")

\* What eventFilter's comment says and the code does not do (README,
\* disagreements): a press outside the palette closes it and is consumed.
NoPassThrough == ~passed
=============================================================================
