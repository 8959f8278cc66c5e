--------------------------- MODULE RenderSurface ---------------------------
(***************************************************************************)
(* The two surfaces the Spine pet is drawn on: the pet window itself and   *)
(* the overlay for actions that do not fit it (pet_effect_overlay.py),     *)
(* with SafePetRenderer, which replaces a renderer that failed by the      *)
(* placeholder (pet_renderer.py), the Spine renderer, and the part of the  *)
(* window's tick that plans, installs, renders and publishes a layout      *)
(* (pet_window.py).  Qt paints when it likes after update(), at once after *)
(* repaint().                                                              *)
(*                                                                         *)
(* The engine is PetEngine's: here it may ask for any action its           *)
(* lifecycle allows, at every tick and between ticks; "idle" stands for    *)
(* every action whose layout gives the body priority.  Geometry is reduced *)
(* to what the planner answers.  Render generations are only compared with *)
(* the renderer's own, which only grows: a scene, a frame or an expected   *)
(* generation is "current" until the next request of another kind makes it *)
(* "stale" for good.                                                       *)
(***************************************************************************)
EXTENDS Naturals

CONSTANTS
  Facings,   \* the directions the pet looks in
  MaxFaults  \* bound on the calls that raise

\* What the constants must satisfy.
SurfaceAssumption == "RIGHT" \in Facings /\ MaxFaults \in Nat

VARIABLES
  ui,      \* window, renderers and overlay
  faults   \* calls that raised so far

vars == <<ui, faults>>

NoFrame == "none"
NoLayout == [mode |-> "none", action |-> "none"]

\* action_request_for_frame, for an engine in the lifecycle of s.
Requests(s) ==
  [action : CASE s.life = "PAUSED"  -> {"paused"}
              [] s.life = "CLOSING" -> {"closing"}
              [] OTHER -> {"idle", "sitting", "special"},
   facing : Facings]

\* What the engine asks for after contain_renderer_failure: relaxing, the way
\* it faced.
Relaxed(s, r) ==
  [r EXCEPT !.action = IF s.life = "PAUSED" THEN "paused" ELSE "idle"]

(***************************************************************************)
(* PetEffectOverlayWindow.                                                 *)
(***************************************************************************)
\* hide_surface; a window that is shown again starts out empty.
HideSurface(s) ==
  [s EXCEPT !.ov.visible = FALSE, !.ov.proxy = FALSE, !.ov.retired = FALSE,
            !.ov.hit = NoFrame, !.ov.expected = NoFrame, !.over = NoFrame, !.dirtyOver = FALSE]

\* show_layout, for a layout of the overlay.
ShowLayout(s) ==
  [s EXCEPT !.ov.retired = FALSE,
            !.ov.hit = IF s.ov.expected = "current" THEN @ ELSE NoFrame,
            !.ov.expected = "current",
            !.ov.visible = TRUE, !.dirtyOver = TRUE]

\* retire_surface: a gesture that came through the overlay keeps it, empty,
\* until its release.
RetireSurface(s) ==
  IF s.ov.proxy
    THEN [s EXCEPT !.ov.retired = TRUE, !.ov.hit = NoFrame, !.over = NoFrame, !.dirtyOver = FALSE]
    ELSE HideSurface(s)

\* paintEvent of the overlay: a frame is published for hit tests only when it
\* is of the generation that was laid out.  Nothing contains a failure here: a
\* closed renderer, or one that cannot draw, leaves the overlay empty.
PaintedOverlay(s, ok) ==
  LET t == [s EXCEPT !.dirtyOver = FALSE]
  IN  CASE s.ov.retired -> [t EXCEPT !.over = NoFrame]
        [] ~s.ov.retired /\ (s.closed \/ ~ok) ->
             [t EXCEPT !.ov.hit = NoFrame, !.over = NoFrame, !.published = @ /\ s.closed]
        [] OTHER -> [t EXCEPT !.over = s.scene,
                              !.ov.hit = IF s.ov.expected = "current" THEN "current" ELSE NoFrame]

\* _contains_local_point beyond the body: the frame counts only while it is
\* the one laid out and the renderer has had no other request.
HitFrameCounts(s) ==
  s.ov.hit = "current" /\ s.ov.expected = "current"

\* _forward_mouse_event for a press, and the window's answer: the event is
\* accepted unless the pet is closing.
Accepted(s, hit) ==
  /\ hit = "body" \/ (hit = "frame" /\ HitFrameCounts(s))
  /\ s.life # "CLOSING"

(***************************************************************************)
(* SafePetRenderer over Spine38PetRenderer.                                *)
(***************************************************************************)
\* _activate_fallback: the failed renderer is closed and the placeholder
\* takes its place, with its state.
Fallback(s) ==
  IF s.safeClosed THEN s ELSE [s EXCEPT !.closed = TRUE, !.fallback = TRUE]

Aged(g) == IF g = "current" THEN "stale" ELSE g

\* set_state: every request of another kind is another generation.  The
\* placeholder has no generations.
SetState(s, r) ==
  IF s.safeClosed \/ s.fallback \/ r = s.request THEN s
  ELSE [s EXCEPT !.request = r, !.scene = Aged(@), !.over = Aged(@),
                 !.ov.expected = Aged(@), !.ov.hit = Aged(@)]

\* set_viewport, set_device_pixel_ratio, pause and resume: the placeholder has
\* nothing to raise.
Calls(s, ok) == IF s.safeClosed \/ s.fallback \/ ok THEN s ELSE Fallback(s)

SetPaused(s, paused, ok) ==
  IF s.safeClosed \/ s.safePaused = paused THEN s ELSE Calls([s EXCEPT !.safePaused = paused], ok)

\* update: the scene is composed anew for the request and the layout.
Update(s, ok) ==
  CASE s.safeClosed \/ s.safePaused \/ s.fallback -> s
    [] ~(s.safeClosed \/ s.safePaused \/ s.fallback) /\ ok -> [s EXCEPT !.scene = "current"]
    [] OTHER -> Fallback(s)

\* render, and paintEvent of the window: the Spine renderer draws nothing in
\* the window while the layout is the overlay's, and a failure is painted
\* over by the placeholder.
PaintedBody(s, ok) ==
  LET draws == ~s.closed /\ s.mode = "body"
      t == IF draws /\ ~ok THEN Fallback(s) ELSE s
  IN  [t EXCEPT !.dirtyBody = FALSE,
                !.body = CASE t.safeClosed -> "blank"
                           [] ~t.safeClosed /\ t.fallback -> "placeholder"
                           [] ~t.safeClosed /\ ~t.fallback /\ draws -> "spine"
                           [] OTHER -> "blank"]

\* close
CloseRenderer(s) == [s EXCEPT !.safeClosed = TRUE, !.closed = TRUE]

(***************************************************************************)
(* _advance_animation and what it calls.                                   *)
(***************************************************************************)
\* plan_layout: only full sampled bounds leave the body.
Plans(action) ==
  IF action \in {"special", "sitting"} THEN {"body", "overflow", "fails"} ELSE {"body", "fails"}

\* The result of _prepare_render_layout: the window and the layout, if any.
Prepared(s, mode, layout) == [s |-> s, mode |-> mode, layout |-> layout]

\* No layout: the engine relaxes, which the next request shows.
LayoutFails(s) == Prepared(HideSurface(s), "none", s.active)

\* A Special keeps its layout.
Kept(s, r) == r.action = "special" /\ s.active.action = "special"

\* On another screen it ends, and the engine asks for something else.
Moved(s, r) == Kept(s, r) /\ s.away

\* _prepare_render_layout; without an overlay there is nothing to plan, and a
\* closed renderer raises.
Prepare(s, r, after, plan) ==
  LET t == IF Moved(s, r) THEN HideSurface(SetState(s, after)) ELSE s
      action == IF Moved(s, r) THEN after.action ELSE r.action
  IN  CASE ~s.ov.made -> Prepared(s, "none", s.active)
        [] s.ov.made /\ Kept(s, r) /\ ~Moved(s, r) -> Prepared(s, s.active.mode, s.active)
        [] s.ov.made /\ (Kept(s, r) => Moved(s, r)) /\ (t.closed \/ plan = "fails") -> LayoutFails(t)
        [] OTHER -> Prepared([t EXCEPT !.away = FALSE], plan, [mode |-> plan, action |-> action])

\* Seeded fault: the overlay goes before the window is repainted.
PublishRetiresFirst(s, mode, ok) ==
  CASE mode = "none" -> s
    [] mode = "overflow" -> ShowLayout(s)
    [] OTHER -> RetireSurface(s)

\* _publish_surface_owner: the window is repainted before the overlay goes.
Publish(s, mode, ok) ==
  CASE mode = "none" -> s
    [] mode = "overflow" -> ShowLayout(s)
    [] OTHER -> RetireSurface(IF s.visible THEN PaintedBody(s, ok) ELSE s)

\* The failure of the renderer is noticed once: the pack is withdrawn and the
\* window goes on with the placeholder.
Finished(s, mode, after, ok) ==
  LET t == IF s.pack /\ s.fallback
             THEN HideSurface(SetState([s EXCEPT !.pack = FALSE], after))
             ELSE Publish(s, mode, ok)
  IN  [t EXCEPT !.dirtyBody = s.visible, !.published = s.visible /\ (mode # "none" \/ t.fallback)]

\* The whole tick.  The player of a closed renderer raises, and then the pack
\* is gone at once.  set_render_layout is not guarded: when it raises, the tick
\* ends there.
Ticked(s, r, after, plan, ok) ==
  LET ratio == Calls(s, ok.ratio)
      played == [ratio EXCEPT !.pack = @ /\ ok.player /\ ~ratio.closed]
      p == Prepare(SetState(played, r), r, after, plan)
      laid == [p.s EXCEPT !.active = p.layout]
      installed == IF p.mode = "none" THEN laid ELSE [laid EXCEPT !.mode = p.mode]
  IN  IF p.mode # "none" /\ (laid.closed \/ ~ok.install)
        THEN [laid EXCEPT !.published = FALSE]
        ELSE Finished(Update(installed, ok.update), p.mode, after, ok.paint)

TickCalls == {"ratio", "player", "install", "update", "paint"}

Faulty(n) == faults + n <= MaxFaults /\ faults' = faults + n

\* The timer runs unless the pet is closing, also for a hidden window.  At
\* most one call of a tick raises.
Tick ==
  /\ ui.timer
  /\ \E bad \in TickCalls \cup {"none"}, r \in Requests(ui) :
     \E after \in {Relaxed(ui, r)} :
       /\ Faulty(IF bad = "none" THEN 0 ELSE 1)
       /\ \E plan \in Plans(IF Moved(ui, r) THEN after.action ELSE r.action) :
            ui' = Ticked(ui, r, after, plan, [c \in TickCalls |-> c # bad])

(***************************************************************************)
(* The other handlers of the window.                                       *)
(***************************************************************************)
\* _sync_renderer_state and update(), with whatever the engine asks for now.
Synced(s) ==
  {[SetState(s, r) EXCEPT !.dirtyBody = s.visible] : r \in Requests(s)}

\* Requests of the user, the tray and the agent between ticks.
SyncRendererState ==
  /\ ui.life # "CLOSING"
  /\ ui' \in Synced(ui)
  /\ UNCHANGED faults

\* resizeEvent; Qt paints a window anew that it resized.
Resize ==
  /\ ui.visible
  /\ \E ok \in BOOLEAN :
       Faulty(IF ok THEN 0 ELSE 1) /\ ui' = [Calls(ui, ok) EXCEPT !.dirtyBody = TRUE]

\* toggle_paused
TogglePaused ==
  /\ ui.life # "CLOSING"
  /\ \E ok \in BOOLEAN :
       LET paused == ui.life = "ACTIVE"
           s == SetPaused([ui EXCEPT !.life = IF paused THEN "PAUSED" ELSE "ACTIVE",
                                     !.gesture = "none"], paused, ok)
       IN  Faulty(IF ok THEN 0 ELSE 1) /\ ui' \in Synced(s)

\* hideEvent
Hidden(s) ==
  [HideSurface(s) EXCEPT !.visible = FALSE, !.gesture = "none", !.dirtyBody = FALSE, !.published = FALSE]

HidePet ==
  /\ ui.visible /\ ui.life # "CLOSING"
  /\ ui' = Hidden(ui)
  /\ UNCHANGED faults

Shown(s) == [s EXCEPT !.visible = TRUE, !.dirtyBody = TRUE, !.body = "blank"]

ShowPet ==
  /\ ~ui.visible /\ ui.life # "CLOSING"
  /\ ui' = Shown(ui)
  /\ UNCHANGED faults

\* set_always_on_top: changing the flags of a visible window hides it, and it
\* is shown again; an overlay that is still visible is laid out again, with
\* its own flags changed too, which raises when the layout is the body's.
SetAlwaysOnTop ==
  /\ ui.life # "CLOSING"
  /\ LET s == IF ui.visible THEN Shown(Hidden(ui)) ELSE ui
     IN  ui' = IF s.ov.visible /\ s.active.mode = "overflow"
                 THEN [ShowLayout(s) EXCEPT !.over = NoFrame] ELSE s
  /\ UNCHANGED faults

\* request_safe_exit, also of a closeEvent that is not the final one.
RequestSafeExit ==
  /\ ui.life # "CLOSING"
  /\ ui' \in Synced([ui EXCEPT !.life = "CLOSING", !.gesture = "none", !.timer = FALSE])
  /\ UNCHANGED faults

\* recover_from_failed_close
RecoverFromFailedClose ==
  /\ ui.life = "CLOSING" /\ ~ui.final
  /\ \E ok \in BOOLEAN :
       /\ Faulty(IF ok THEN 0 ELSE 1)
       /\ ui' \in Synced(SetPaused([ui EXCEPT !.life = "PAUSED", !.timer = TRUE], TRUE, ok))

\* complete_safe_close, and the closeEvent and hideEvent it causes.
CompleteSafeClose ==
  /\ ui.life = "CLOSING" /\ ~ui.final
  /\ ui' = [Hidden(CloseRenderer(ui)) EXCEPT
             !.final = TRUE, !.timer = FALSE, !.ov.made = FALSE]
  /\ UNCHANGED faults

\* Qt paints the window or the overlay, because of an update or of its own.
PaintBody ==
  /\ ui.visible
  /\ \E ok \in BOOLEAN :
       /\ ok \/ (~ui.closed /\ ui.mode = "body")
       /\ Faulty(IF ok THEN 0 ELSE 1)
       /\ ui' = PaintedBody(ui, ok)

PaintOverlay ==
  /\ ui.ov.visible
  /\ \E ok \in BOOLEAN : Faulty(IF ok THEN 0 ELSE 1) /\ ui' = PaintedOverlay(ui, ok)

\* mousePressEvent of the window: the left button starts a gesture, in place
\* of one that is under way.
WindowPress ==
  /\ ui.visible /\ ui.life # "CLOSING"
  /\ ui' = [ui EXCEPT !.gesture = "window"]
  /\ UNCHANGED faults

\* mousePressEvent of the overlay: forwarded where the body, or the frame that
\* was painted, is hit; any press decides anew whether a gesture is proxied.
OverlayPress ==
  /\ ui.ov.visible
  /\ \E left \in BOOLEAN, hit \in {"body", "frame", "beside"} :
       LET accepted == left /\ Accepted(ui, hit)
       IN  ui' = [ui EXCEPT !.ov.proxy = accepted, !.gesture = IF accepted THEN "overlay" ELSE @]
  /\ UNCHANGED faults

\* mouseMoveEvent: the drag begins, or the engine refuses it and the window
\* drops the gesture.
MovePointer ==
  /\ ui.gesture # "none" /\ (ui.gesture = "overlay" => ui.ov.proxy)
  /\ \/ \E r \in Requests(ui) : ui' = SetState(ui, r)
     \/ ui' = [ui EXCEPT !.gesture = "none"]
  /\ UNCHANGED faults

\* mouseReleaseEvent of the window, with the left button: a click or the end
\* of a drag.
WindowRelease ==
  /\ ui.gesture = "window"
  /\ ui' \in Synced([ui EXCEPT !.gesture = "none"])
  /\ UNCHANGED faults

\* mouseReleaseEvent of the overlay, with the left button: the window has the
\* release first, with or without a gesture of its own.
OverlayRelease ==
  /\ ui.ov.visible /\ ui.ov.proxy
  /\ \E s \in (IF ui.gesture = "none" THEN {ui} ELSE Synced([ui EXCEPT !.gesture = "none"])) :
     \E t \in {[s EXCEPT !.ov.proxy = FALSE]} :
       ui' = IF t.ov.retired THEN HideSurface(t) ELSE t
  /\ UNCHANGED faults

\* The pet is carried to another workspace than the layout's and back, or the
\* workspaces change; only the layout of a Special is compared with it again.
ScreenChanges ==
  /\ ui.active.action = "special"
  /\ ui' = [ui EXCEPT !.away = ~@]
  /\ UNCHANGED faults

\* The constructor: a renderer that does not initialize is replaced at once,
\* and then there is no overlay.
Init ==
  /\ \E ok \in BOOLEAN :
       /\ faults = IF ok THEN 0 ELSE 1
       /\ ui = [life |-> "ACTIVE", visible |-> TRUE, timer |-> TRUE, final |-> FALSE, pack |-> ok,
                fallback |-> ~ok, safePaused |-> FALSE, safeClosed |-> FALSE,
                closed |-> ~ok, request |-> [action |-> "idle", facing |-> "RIGHT"],
                mode |-> "body", scene |-> "current", active |-> NoLayout, away |-> FALSE, gesture |-> "none",
                ov |-> [made |-> ok, visible |-> FALSE, retired |-> FALSE, proxy |-> FALSE,
                        expected |-> NoFrame, hit |-> NoFrame],
                body |-> "blank", over |-> NoFrame, dirtyBody |-> TRUE, dirtyOver |-> FALSE,
                published |-> FALSE]

Next ==
  \/ Tick \/ SyncRendererState \/ Resize \/ TogglePaused \/ HidePet \/ ShowPet \/ SetAlwaysOnTop
  \/ RequestSafeExit \/ RecoverFromFailedClose \/ CompleteSafeClose
  \/ PaintBody \/ PaintOverlay \/ WindowPress \/ OverlayPress \/ MovePointer
  \/ WindowRelease \/ OverlayRelease \/ ScreenChanges

Spec == Init /\ [][Next]_vars

(***************************************************************************)
(* Properties.                                                             *)
(***************************************************************************)
\* Every field keeps its type, and an overlay that was never made is not shown.
TypeOK ==
  /\ ui.life \in {"ACTIVE", "PAUSED", "CLOSING"}
  /\ ui.mode \in {"body", "overflow"} /\ ui.active.mode \in {"none", "body", "overflow"}
  /\ ui.scene \in {"current", "stale"}
  /\ {ui.ov.expected, ui.ov.hit, ui.over} \subseteq {"current", "stale", NoFrame}
  /\ ui.body \in {"blank", "spine", "placeholder"}
  /\ ui.ov.visible => ui.ov.made
  /\ faults \in 0..MaxFaults

PetOnBody == ui.body \in {"spine", "placeholder"}
PetOnOverlay == ui.ov.visible /\ ui.over # NoFrame
AllPainted == ~ui.dirtyBody /\ ~ui.dirtyOver

\* What a tick has published, and the overlay could draw, stays on the screen:
\* whatever is requested, pressed, released or painted until the next tick, the
\* pet is on one of its surfaces, for the overlay and the placeholder once Qt has painted and for
\* the Spine pet in the window at once, so that no blank frame comes between
\* the two.
NoBlank ==
  (ui.published /\ ui.life # "CLOSING" /\ ((ui.mode = "body" /\ ~ui.fallback) \/ AllPainted))
    => (PetOnBody \/ PetOnOverlay)

\* The pet is never on the screen twice once Qt has painted what a tick
\* published.
NoDouble == (ui.published /\ AllPainted) => ~(ui.body = "spine" /\ PetOnOverlay)

\* Once Qt has painted what a tick published, a press beyond the body is taken
\* only where the picture on the overlay shows the pet as it was asked for
\* last, and never on a retired overlay.
HitIsOfShown ==
  (ui.published /\ AllPainted /\ ui.ov.visible /\ HitFrameCounts(ui)) => ui.over = "current" /\ ~ui.ov.retired

\* A retired overlay shows nothing.
NoGhost == (ui.ov.visible /\ ui.ov.retired) => ui.over = NoFrame

\* After the final close nothing is left: no overlay, no timer, no renderer.
ClosedIsReleased ==
  ui.final => ~ui.ov.visible /\ ~ui.timer /\ ui.closed /\ ui.safeClosed

\* What the documents say and the code does not do (README, disagreements):
\* the overlay is shown and hidden with the window.
OverlayFollowsWindow == ui.ov.visible => ui.visible

\* Likewise: a gesture that came through the overlay also ends through it.
GestureHasPointer == ui.gesture = "overlay" => ui.ov.proxy
=============================================================================
