------------------------ MODULE FrontendPresentation ------------------------
(***************************************************************************)
(* FrontendPresentationModel: which surface is in front, as a pure reducer *)
(* from a snapshot and an intent to the next snapshot and the ordered      *)
(* effects the coordinator then applies one by one.                        *)
(***************************************************************************)
EXTENDS Sequences

Blocking == {"confirmation", "critical_error"}
Overlays == {"none", "palette", "ambient"} \cup Blocking
Layers == {"root", "character", "animation", "system"}
FocusTargets == {"none", "palette", "conversation_input"}

\* FrontendPresentationSnapshot; "unset" is the return target None.
NewSnapshot ==
  [primary |-> "character", overlay |-> "none", context |-> FALSE,
   focus |-> "none", return |-> "unset", layer |-> "root"]

Snapshots ==
  [primary : {"character", "capsule"}, overlay : Overlays, context : BOOLEAN,
   focus : FocusTargets, return : FocusTargets \cup {"unset"}, layer : Layers]

Effect(kind, value) == [kind |-> kind, value |-> value]

Result(snapshot, effects) == [snapshot |-> snapshot, effects |-> effects]

Ignored(s) == Result(s, <<>>)

OpenConversation(s) ==
  IF s.overlay \in Blocking THEN Ignored(s)
  ELSE Result(
    [NewSnapshot EXCEPT !.primary = "capsule", !.context = TRUE,
                        !.focus = "conversation_input"],
    (IF s.overlay = "none" THEN <<>> ELSE <<Effect("dismiss", s.overlay)>>)
    \o << Effect(IF s.context THEN "restore" ELSE "create", "conversation"),
          Effect("focus", "conversation_input") >>)

\* Close and collapse are the same: the surface goes, the context stays.
CollapseConversation(s) ==
  IF ~s.context \/ s.primary # "capsule" THEN Ignored(s)
  ELSE Result([s EXCEPT !.primary = "character", !.focus = "none",
                        !.return = "unset"],
              <<Effect("hide", "conversation"), Effect("focus", "none")>>)

DismissForegroundOverlay(s) ==
  IF s.overlay \in Blocking \cup {"none"} THEN Ignored(s)
  ELSE LET focus == IF s.return = "unset" THEN s.focus ELSE s.return IN
       Result([s EXCEPT !.overlay = "none", !.focus = focus,
                        !.return = "unset", !.layer = "root"],
              <<Effect("dismiss", s.overlay), Effect("focus", focus)>>)

ShowForegroundOverlay(s, overlay) ==
  CASE overlay = "none" -> DismissForegroundOverlay(s)
    [] overlay # "none" /\ (s.overlay \in Blocking \/ s.overlay = overlay) ->
         Ignored(s)
    [] OTHER ->
         LET shown == [s EXCEPT !.overlay = overlay, !.return = s.focus] IN
         IF overlay = "palette"
           THEN Result([shown EXCEPT !.focus = "palette", !.layer = "root"],
                       <<Effect("show", overlay), Effect("focus", "palette")>>)
           ELSE Result(shown, <<Effect("show", overlay)>>)

SetPaletteLayer(s, layer) ==
  IF s.overlay # "palette" \/ s.layer = layer THEN Ignored(s)
  ELSE Result([s EXCEPT !.layer = layer], <<Effect("layer", layer)>>)
=============================================================================
