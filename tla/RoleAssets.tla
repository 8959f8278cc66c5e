----------------------------- MODULE RoleAssets -----------------------------
(***************************************************************************)
(* The external role pack of the desktop pet: create_optional_production_  *)
(* pet_composition opens and verifies the three asset files, builds the    *)
(* native Spine handle, calibrates and hands everything to a renderer.     *)
(* Then the life of that renderer until it is closed.                      *)
(*                                                                         *)
(* Somebody else may rewrite the files at any time.  A file on disk is a   *)
(* content and a tick that every write advances (modified_ticks of its     *)
(* identity).  Reading takes two blocks, so a write can fall between them. *)
(* The loader asks no exclusion of its ExternalPetAssetFilesystem; the one *)
(* for Windows shares its handles for reading only, which keeps out all    *)
(* writers but those through a mapping of the file.                        *)
(***************************************************************************)
EXTENDS Integers, Sequences, FiniteSets, FiniteSetsExt

CONSTANTS
  Contents,     \* contents a file may have
  SizeOf,       \* size of each content
  Expected,     \* content the hashes of the manifest name
  FileLimit,    \* skeleton_max_bytes and its like
  BundleLimit,  \* bundle_max_bytes
  MaxTicks      \* bound on the writes to a file

\* What the constants must satisfy.
AssetsAssumption ==
  /\ Expected \in Contents /\ SizeOf \in [Contents -> Nat]
  /\ FileLimit \in Nat /\ BundleLimit \in Nat /\ MaxTicks \in Nat

Files == <<"skeleton", "atlas", "texture">>
FileNames == {"skeleton", "atlas", "texture"}

VARIABLES
  disk,      \* [content, tick] of each file
  pc,        \* where the composition is
  next,      \* index of the file being opened or read
  identity,  \* what open_file captured of each opened file
  blocks,    \* contents of the blocks read of the current file
  bytes,     \* what was read of each file; <<>> before
  held,      \* open operating system and native resources
  owner,     \* "composition", or who the bundle and runtime were given to
  destroys,  \* calls of arkclaw_spine38_destroy
  backend,   \* the OpenGL backend of the renderer
  paused,    \* Spine38PetRenderer._paused
  calls      \* the last native call was made on a live handle

vars == <<disk, pc, next, identity, blocks, bytes, held, owner, destroys,
          backend, paused, calls>>

NoIdentity == [content |-> Expected, tick |-> -1]

Init ==
  /\ disk \in [FileNames -> [content : Contents, tick : {0}]]
  /\ pc = "manifest" /\ next = 1
  /\ identity = [f \in FileNames |-> NoIdentity]
  /\ blocks = <<>> /\ bytes = [f \in FileNames |-> <<>>]
  /\ held = {} /\ owner = "composition" /\ destroys = 0
  /\ backend = "none" /\ paused = FALSE /\ calls = TRUE

\* Another program writes a file.
Rewrite(f, content) ==
  /\ disk[f].tick < MaxTicks
  /\ disk' = [disk EXCEPT ![f] = [content |-> content, tick |-> @.tick + 1]]
  /\ UNCHANGED <<pc, next, identity, blocks, bytes, held, owner, destroys,
                 backend, paused, calls>>

Frame == UNCHANGED <<disk, owner, destroys, backend, paused, calls>>

-----------------------------------------------------------------------------
(* ExternalPetAssetLoader.load.                                            *)

File == Files[next]

\* load_role_pack_manifest, require_schwarz_production and _asset_descriptor
\* accept the manifest, open_root the directory.
OpenRoot ==
  /\ pc = "manifest"
  /\ held' = {"root"} /\ pc' = "opening"
  /\ Frame /\ UNCHANGED <<next, identity, blocks, bytes>>

\* open_file: its checks leave a handle with the identity it had then.
OpenFile ==
  /\ pc = "opening"
  /\ held' = held \cup {File}
  /\ identity' = [identity EXCEPT ![File] = disk[File]]
  /\ IF next < Len(Files) THEN next' = next + 1 /\ pc' = pc
                          ELSE next' = 1 /\ pc' = "reading"
  /\ Frame /\ UNCHANGED <<blocks, bytes>>

Size(content) == SizeOf[content]

\* What the files read so far leave of bundle_max_bytes.
Remaining ==
  BundleLimit - MapThenSumSet(LAMBDA f : Size(bytes[f][1]),
                              {f \in FileNames : bytes[f] # <<>>})

MaximumBytes == IF FileLimit < Remaining THEN FileLimit ELSE Remaining

ReadBlock ==
  /\ pc = "reading" /\ Len(blocks) < 2
  /\ Size(identity[File].content) <= MaximumBytes
  /\ blocks' = Append(blocks, disk[File].content)
  /\ Frame /\ UNCHANGED <<pc, next, identity, bytes, held>>

\* _read_verified after the last block.
Verified ==
  /\ disk[File] = identity[File]
  /\ Size(blocks[1]) <= MaximumBytes

ReadVerified ==
  /\ pc = "reading" /\ Len(blocks) = 2 /\ Verified
  /\ bytes' = [bytes EXCEPT ![File] = blocks] /\ blocks' = <<>>
  /\ IF next < Len(Files) THEN next' = next + 1 /\ pc' = pc
                          ELSE next' = 1 /\ pc' = "verifying"
  /\ Frame /\ UNCHANGED <<identity, held>>

\* _verify_expected_hashes
HashesMatch == \A f \in FileNames : bytes[f] = <<Expected, Expected>>

\* The hashes match and the headers parse: the bundle exists.
Publish ==
  /\ pc = "verifying" /\ HashesMatch
  /\ pc' = "bundle"
  /\ Frame /\ UNCHANGED <<next, identity, blocks, bytes, held>>

\* _close_partial
ClosePartial == held' = {}

Refused ==
  /\ ClosePartial /\ pc' = "placeholder"
  /\ Frame /\ UNCHANGED <<next, identity, blocks, bytes>>

\* The manifest is refused, or a name, a link, a stream or the system.
OpenFails == pc \in {"manifest", "opening"} /\ Refused

\* The file is too large or has changed, or the system refuses a block.
ReadFails == pc = "reading" /\ Refused

\* A hash differs, or a header of the right bytes does not parse.
VerifyFails == pc = "verifying" /\ Refused

-----------------------------------------------------------------------------
(* create_optional_production_pet_composition from the bundle on.          *)

\* Spine38NativeLibrary.create
CreateNative ==
  /\ pc = "bundle"
  /\ held' = held \cup {"native"} /\ pc' = "native"
  /\ Frame /\ UNCHANGED <<next, identity, blocks, bytes>>

\* Spine38Runtime(...) takes the handle over; the calibration runs on it.
CreateRuntime ==
  /\ pc = "native"
  /\ pc' = "runtime" /\ calls' = ("native" \in held)
  /\ UNCHANGED <<disk, next, identity, blocks, bytes, held, owner, destroys,
                 backend, paused>>

\* Spine38PetRenderer(...) takes the runtime and the bundle over.
CreateRenderer ==
  /\ pc = "runtime"
  /\ pc' = "composed" /\ owner' = "renderer"
  /\ UNCHANGED <<disk, next, identity, blocks, bytes, held, destroys, backend,
                 paused, calls>>

\* _Spine38CatalogNativeHandle.close: the finalizer runs at most once.
DestroyNative ==
  destroys' = IF "native" \in held THEN destroys + 1 ELSE destroys

\* The except clause: a native handle that cannot be made, a catalog or a
\* calibration that is refused.
ComposeFails ==
  /\ pc \in {"bundle", "native", "runtime"}
  /\ held' = {} /\ DestroyNative /\ pc' = "placeholder"
  /\ UNCHANGED <<disk, next, identity, blocks, bytes, owner, backend, paused,
                 calls>>

-----------------------------------------------------------------------------
(* Spine38PetRenderer, and Spine38AnimationPlayer on the same runtime.     *)

RenderFrame == UNCHANGED <<disk, next, identity, blocks, bytes, owner>>

\* initialize: Relax is set and drawn once, then the backend is made.
Initialize ==
  /\ pc = "composed" /\ backend = "none"
  /\ calls' = ("native" \in held)
  /\ backend' \in {"open", "none"}   \* "none": it failed and was closed again
  /\ RenderFrame /\ UNCHANGED <<pc, held, destroys, paused>>

SetPaused(value) ==
  /\ pc = "composed" /\ paused # value
  /\ paused' = value
  /\ RenderFrame /\ UNCHANGED <<pc, held, destroys, backend, calls>>

\* update: nothing while paused; else one frame of the runtime.
Update ==
  /\ pc = "composed" /\ backend = "open" /\ ~paused
  /\ calls' = ("native" \in held)
  /\ RenderFrame /\ UNCHANGED <<pc, held, destroys, backend, paused>>

\* Spine38AnimationPlayer.play, clear and update: _playback_port raises once
\* the runtime is closed, so the native library is not called.
PlayerCall ==
  /\ pc \in {"composed", "closed"}
  /\ calls' = (pc = "composed" => "native" \in held)
  /\ RenderFrame /\ UNCHANGED <<pc, held, destroys, backend, paused>>

\* close: backend, runtime and bundle, each although the one before failed;
\* on a closed renderer all three are closed already.
CloseRenderer ==
  /\ pc \in {"composed", "closed"} /\ pc' = "closed"
  /\ held' = {} /\ DestroyNative /\ backend' = "none"
  /\ RenderFrame /\ UNCHANGED <<paused, calls>>

Next ==
  \/ \E f \in FileNames, c \in Contents : Rewrite(f, c)
  \/ OpenRoot \/ OpenFile \/ ReadBlock \/ ReadVerified \/ Publish
  \/ OpenFails \/ ReadFails \/ VerifyFails
  \/ CreateNative \/ CreateRuntime \/ CreateRenderer \/ ComposeFails
  \/ Initialize \/ Update \/ PlayerCall \/ CloseRenderer
  \/ \E value \in BOOLEAN : SetPaused(value)

Steps ==
  \/ OpenRoot \/ OpenFile \/ ReadBlock \/ ReadVerified \/ Publish
  \/ OpenFails \/ ReadFails \/ VerifyFails
  \/ CreateNative \/ CreateRuntime \/ CreateRenderer \/ ComposeFails

Spec == Init /\ [][Next]_vars

\* The composition is a straight line of code; it always goes on.
FairSpec == Spec /\ WF_vars(Steps)

-----------------------------------------------------------------------------
(* Properties.                                                             *)

TypeOK ==
  /\ pc \in {"manifest", "opening", "reading", "verifying", "bundle",
             "native", "runtime", "composed", "placeholder", "closed"}
  /\ next \in 1..3 /\ Len(blocks) <= 2
  /\ held \subseteq FileNames \cup {"root", "native"}
  /\ destroys \in 0..1
  /\ backend \in {"none", "open"} /\ paused \in BOOLEAN /\ calls \in BOOLEAN

Loaded == pc \in {"bundle", "native", "runtime", "composed"}

\* ExternalPetAssetLoader.load: what is published is exactly the pack of the
\* manifest, whatever is written to the files meanwhile, and never a mixture
\* of two contents.
PublishedIsExpected ==
  Loaded => \A f \in FileNames : bytes[f] = <<Expected, Expected>>

\* _read_verified: what was read of a file is all of one content.
NothingTorn ==
  \A f \in FileNames : bytes[f] # <<>> => bytes[f][1] = bytes[f][2]

\* load: the files of a bundle together keep within bundle_max_bytes.
WithinBundleLimit == Remaining >= 0

\* create_optional_production_pet_composition and close: what a published
\* renderer uses is open as long as it is, and once the composition failed or
\* the renderer is closed nothing is left open.
NothingLeaks ==
  /\ Loaded => FileNames \cup {"root"} \subseteq held
  /\ pc \in {"placeholder", "closed"} => held = {} /\ backend = "none"
  /\ "native" \in held => destroys = 0

\* Spine38Runtime: the native library is called only with a live handle.
NativeAlive == calls

\* The start of the pet always ends, with the pack or without.
CompositionEnds == <>(pc \in {"composed", "placeholder", "closed"})
=============================================================================
