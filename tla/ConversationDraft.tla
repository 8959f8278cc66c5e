-------------------------- MODULE ConversationDraft --------------------------
(***************************************************************************)
(* The one unsent draft: ConversationDraftModel, owned by the presentation *)
(* model, and the editor that shows it.  The editor is the composer of the *)
(* dashboard or, in a composition with ConversationSurfaceEffectSink, the  *)
(* capsule; both emit the same intents.                                    *)
(*                                                                         *)
(* A submitted snapshot is answered through DraftAcceptancePort: at any    *)
(* later time, more than once, in any order, or never.                     *)
(***************************************************************************)
EXTENDS FrontendPresentation, Integers, FiniteSets

CONSTANTS
  Texts,        \* texts of a draft other than the empty one
  MaxRevision,  \* bound on the committed edits
  MaxSubmits    \* bound on the snapshots submitted

\* What the constants must satisfy.
DraftAssumption == MaxRevision \in Nat /\ MaxSubmits \in Nat

Empty == "empty"
Ids == 1..MaxSubmits

VARIABLES
  surface,      \* "dashboard" or "capsule"
  snap,         \* FrontendPresentationSnapshot
  text,         \* ConversationDraftModel._text
  revision,     \* _revision
  ime,          \* _ime_composition is not None
  submitted,    \* _submitted_identity; 0 is None
  snapshots,    \* _submitted_snapshots, by identity
  issued,       \* identities handed out
  visible,      \* the editor is on the screen
  editor,       \* its text
  composition,  \* its _composition_active
  touched       \* identities since whose submission the user changed the text

draft == <<text, revision, ime, submitted, snapshots, issued>>
shown == <<visible, editor, composition>>
vars == <<surface, snap, draft, shown, touched>>

NoSnapshots == [i \in {} |-> [revision |-> 0, text |-> Empty]]

Init ==
  /\ surface \in {"dashboard", "capsule"}
  /\ snap = NewSnapshot
  /\ text = Empty /\ revision = 0 /\ ime = FALSE
  /\ submitted = 0 /\ snapshots = NoSnapshots /\ issued = 0
  /\ visible = FALSE /\ editor = Empty /\ composition = FALSE /\ touched = {}

-----------------------------------------------------------------------------
(* ConversationDraftModel.                                                 *)

\* edit with a committed text, once the conversation exists.
Edit(context, new) ==
  /\ IF context /\ new # text
       THEN /\ revision < MaxRevision
            /\ text' = new /\ revision' = revision + 1
            /\ touched' = touched \cup 1..issued
       ELSE UNCHANGED <<text, revision, touched>>
  /\ ime' = (ime /\ ~context)
  /\ UNCHANGED <<submitted, snapshots, issued>>

\* edit with a composition in progress.
Compose ==
  /\ ime' = (ime \/ snap.context)
  /\ UNCHANGED <<text, revision, submitted, snapshots, issued, touched>>

CanSubmit == text # Empty /\ ~ime /\ submitted = 0

Submit ==
  /\ snap.context /\ CanSubmit
  /\ issued < MaxSubmits
  /\ issued' = issued + 1 /\ submitted' = issued + 1
  /\ snapshots' = [i \in DOMAIN snapshots \cup {issued + 1} |->
       IF i = issued + 1 THEN [revision |-> revision, text |-> text]
                         ELSE snapshots[i]]
  /\ UNCHANGED <<text, revision, ime, touched>>

Forget(i) ==
  snapshots' = [j \in DOMAIN snapshots \ {i} |-> snapshots[j]]

AcceptedIsCurrent(i) == submitted = i /\ revision = snapshots[i].revision

\* accept: only the exact snapshot clears the draft.
AcceptKnown(i) ==
  /\ IF AcceptedIsCurrent(i) THEN text' = Empty /\ ime' = FALSE
                             ELSE UNCHANGED <<text, ime>>
  /\ Forget(i)
  /\ submitted' = IF submitted = i THEN 0 ELSE submitted
  /\ UNCHANGED <<revision, issued>>

Accept(i) ==
  /\ i <= issued /\ snap.context
  /\ IF i \in DOMAIN snapshots THEN AcceptKnown(i) ELSE UNCHANGED draft
  /\ UNCHANGED <<surface, snap, shown, touched>>

\* reject and cancel
Reject(i) ==
  /\ i <= issued /\ snap.context
  /\ Forget(i)
  /\ submitted' = IF submitted = i THEN 0 ELSE submitted
  /\ UNCHANGED <<surface, snap, text, revision, ime, issued, shown, touched>>

\* discard, also run when a new conversation is created.
ClearDraft == text' = Empty /\ ime' = FALSE /\ submitted' = 0

Discard ==
  /\ ClearDraft
  /\ touched' = IF text = Empty THEN touched ELSE touched \cup 1..issued
  /\ UNCHANGED <<surface, snap, revision, snapshots, issued, shown>>

-----------------------------------------------------------------------------
(* The editor.                                                             *)

\* render_draft: the guard keeps the change of text from becoming an edit.
RenderDraft(new) == editor' = new /\ UNCHANGED composition

\* The capsule opens: the conversation is created or restored, the sink shows
\* the host and renders the draft.
OpenCapsule ==
  /\ surface = "capsule"
  /\ snap' = OpenConversation(snap).snapshot
  /\ visible' = TRUE
  /\ IF snap.context
       THEN RenderDraft(text) /\ UNCHANGED <<text, ime, submitted>>
       ELSE RenderDraft(Empty) /\ ClearDraft
  /\ UNCHANGED <<surface, revision, snapshots, issued, touched>>

\* DashboardIntegration.open: the draft is rendered, no intent dispatched.
OpenDashboard ==
  /\ surface = "dashboard"
  /\ visible' = TRUE /\ RenderDraft(text)
  /\ UNCHANGED <<surface, snap, draft, touched>>

\* Escape in the capsule, or the window of the dashboard closed.
Hide ==
  /\ visible /\ visible' = FALSE
  /\ snap' = IF surface = "capsule"
               THEN CollapseConversation(snap).snapshot ELSE snap
  /\ UNCHANGED <<surface, draft, editor, composition, touched>>

\* conversation_requested: the dashboard opens the conversation before the
\* edit is applied.  (The draft it would clear is empty without a context.)
RequestConversation ==
  snap' = IF surface = "dashboard" THEN OpenConversation(snap).snapshot ELSE snap

\* textChanged: typing, pasting, or the commit of a composition.
TypeText(new) ==
  /\ visible /\ new # editor
  /\ editor' = new /\ composition' = FALSE
  /\ RequestConversation
  /\ Edit(snap'.context, new)
  /\ UNCHANGED <<surface, visible>>

\* cursorPositionChanged and selectionChanged report the whole text.
MoveCaret ==
  /\ visible /\ ~composition
  /\ Edit(snap.context, editor)
  /\ UNCHANGED <<surface, snap, shown>>

Preedit ==
  /\ visible /\ ~composition
  /\ composition' = TRUE
  /\ Compose
  /\ UNCHANGED <<surface, snap, visible, editor>>

\* The composition ends without a text.
PreeditCancelled ==
  /\ composition /\ composition' = FALSE
  /\ Edit(snap.context, editor)
  /\ UNCHANGED <<surface, snap, visible, editor>>

PressEnter ==
  /\ visible /\ Submit
  /\ UNCHANGED <<surface, snap, shown>>

Answered == \E i \in Ids : Accept(i) \/ Reject(i)

Next ==
  \/ OpenCapsule \/ OpenDashboard \/ Hide
  \/ \E new \in Texts \cup {Empty} : TypeText(new)
  \/ MoveCaret \/ Preedit \/ PreeditCancelled \/ PressEnter
  \/ Answered \/ Discard

Spec == Init /\ [][Next]_vars

-----------------------------------------------------------------------------
(* Properties.                                                             *)

TypeOK ==
  /\ snap \in Snapshots
  /\ text \in Texts \cup {Empty} /\ revision \in 0..MaxRevision
  /\ issued \in 0..MaxSubmits /\ DOMAIN snapshots \subseteq 1..issued
  /\ submitted # 0 => submitted \in DOMAIN snapshots
  /\ {ime, visible, composition} \subseteq BOOLEAN
  /\ editor \in Texts \cup {Empty} /\ touched \subseteq Ids

\* accept: an answer takes a text away only if it is the text that was
\* submitted and the user has not changed it since, however late or often
\* answers come.
AcceptanceIsExact ==
  \A i \in Ids : (Accept(i) /\ text' # text)
    => (i \notin touched /\ text = snapshots[i].text)

\* submit: what is handed over is never the text behind a composition that is
\* still going on in the editor.
NoSubmitWhileComposing == issued' > issued => ~composition

\* The composer and the model never part by what the user does: no keystroke
\* is dropped and no old text comes back.
EditorKeepsDraft ==
  editor = text =>
    (editor' = text' \/ Discard \/ \E i \in Ids : Accept(i))

\* What the module's comment says and the code does not do (README,
\* disagreements): "Widgets render snapshots and emit edit intents; they never own draft
\* truth": only typing makes a draft of an empty one.
DraftComesFromTyping ==
  [][(text = Empty /\ text' # Empty) => editor' # editor]_vars
=============================================================================
