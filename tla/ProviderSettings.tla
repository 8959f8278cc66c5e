-------------------------- MODULE ProviderSettings --------------------------
(***************************************************************************)
(* Provider profiles, credential bindings and credentials: the metadata    *)
(* document (json_provider_profile_repository.py), the credential store    *)
(* (windows_credential_store.py) and the two services over them            *)
(* (provider_profile_service.py, provider_settings_service.py), with the   *)
(* process dying and starting again at any moment.                         *)
(*                                                                         *)
(* The runtime thread executes one command at a time, so a command is one  *)
(* step.  A refused command changes nothing: its reasons are guards.  The  *)
(* replacement of the file is one step here; AtomicJsonFile shows that its *)
(* temporary file keeps that promise.  Origins and protocols follow from   *)
(* the provider (build_supported_profile), so a provider stands for them.  *)
(*                                                                         *)
(* The limits of a document are looked at when it is read and not when it  *)
(* is written.  The limit on its bytes is left out: the fields are limited *)
(* too, and 1000 records of either kind stay below it.                     *)
(***************************************************************************)
EXTENDS Naturals, Sequences, FiniteSets, Functions

CONSTANTS
    Custom,      \* identifiers of profiles the user may create
    Credentials, \* credential identifiers besides the built-in ones
    Manual,      \* the reserved identifiers of manual verification
    Names, Models, Values,
    MaxRecords,  \* _MAX_RECORDS, 1000 in the code
    MaxEdits     \* bound: commands of one behaviour

VARIABLES
    file,     \* the metadata file: absent, valid, or one that does not parse
    doc,      \* its content, empty for an absent file
    secrets,  \* the credential store
    run,      \* the managed provider slot
    starting, \* the next step of ensure_builtin_metadata, 0 when the process is up
    edits

settingsVars == <<file, doc, secrets, run, starting, edits>>

Providers == {"fake", "openai", "deepseek", "ollama"}

\* _SETTINGS_PROVIDER_IDS
Configurable == {"fake", "openai", "deepseek"}

Cloud == {"openai", "deepseek"}

(***************************************************************************)
(* The built-ins.                                                          *)
(***************************************************************************)
BuiltinBinding == [openai_default |-> "openai", deepseek_default |-> "deepseek"]

Builtin(provider, cred) == [provider |-> provider, name |-> "builtin", model |-> "builtin", cred |-> cred]

BuiltinProfile ==
    [fake_default |-> Builtin("fake", "none"), openai_default |-> Builtin("openai", "openai_default"),
     deepseek_default |-> Builtin("deepseek", "deepseek_default"), ollama_default |-> Builtin("ollama", "none")]

\* The bindings and then the profiles, in the order ensure_builtin_metadata makes them.
BindingSteps == <<"openai_default", "deepseek_default">>
ProfileSteps == <<"fake_default", "openai_default", "deepseek_default", "ollama_default">>

AllCredentials == DOMAIN BuiltinBinding \cup Credentials \cup Manual

ProfileIds == Custom \cup DOMAIN BuiltinProfile

\* What the constants must satisfy.
ProviderAssumption ==
    /\ DOMAIN BuiltinBinding \cap (Credentials \cup Manual) = {} /\ Credentials \cap Manual = {}
    /\ DOMAIN BuiltinProfile \cap Custom = {} /\ "none" \notin Custom
    /\ "builtin" \in Names \cap Models
    /\ {MaxRecords, MaxEdits} \subseteq Nat

Profile == [provider : Providers, name : Names, model : Models, cred : AllCredentials \cup {"none"}]

NoDocument == [active |-> "none", profiles |-> <<>>, bindings |-> <<>>]

\* build_supported_profile, build_supported_credential_binding
SupportedProfile(p) ==
    IF p.provider \in Cloud THEN p.cred \notin Manual \cup {"none"} ELSE p.cred = "none"

SupportedBinding(cred, provider) == provider \in Cloud /\ cred \notin Manual

\* _binding_for_profile, _require_binding
Bound(d, p) == p.cred = "none" \/ (p.cred \in DOMAIN d.bindings /\ d.bindings[p.cred] = p.provider)

\* What _parse_snapshot asks of the records of a document.
WellFormed(d) ==
    /\ \A id \in DOMAIN d.profiles : SupportedProfile(d.profiles[id]) /\ Bound(d, d.profiles[id])
    /\ \A c \in DOMAIN d.bindings : SupportedBinding(c, d.bindings[c])
    /\ d.active \in DOMAIN d.profiles \cup {"none"}

\* And of their number.
WithinLimit(d) ==
    Cardinality(DOMAIN d.profiles) <= MaxRecords /\ Cardinality(DOMAIN d.bindings) <= MaxRecords

\* _read_snapshot returns doc; otherwise it raises.
Readable == file # "corrupt" /\ WellFormed(doc) /\ WithinLimit(doc)

Without(f, x) == Restrict(f, DOMAIN f \ {x})

With(f, x, v) == [y \in DOMAIN f \cup {x} |-> IF y = x THEN v ELSE f[y]]

(***************************************************************************)
(* The repository's mutations: the document each would write.              *)
(***************************************************************************)
CanSaveProfile(id, p) ==
    /\ SupportedProfile(p) /\ Bound(doc, p)
    /\ id \in DOMAIN doc.profiles => doc.profiles[id].provider = p.provider

SavedProfile(id, p) == [doc EXCEPT !.profiles = With(@, id, p)]

CanDeleteProfile(id) == id # doc.active /\ id \in DOMAIN doc.profiles

DeletedProfile(id) == [doc EXCEPT !.profiles = Without(@, id)]

CanDeleteBinding(c) ==
    /\ \A id \in DOMAIN doc.profiles : doc.profiles[id].cred # c
    /\ c \in DOMAIN doc.bindings

SavedBinding(c, provider) == [doc EXCEPT !.bindings = With(@, c, provider)]

DeletedBinding(c) == [doc EXCEPT !.bindings = Without(@, c)]

\* _write_snapshot: the file is replaced or left as it was.
Write(d, ok) ==
    IF ok THEN doc' = d /\ file' = "valid" ELSE UNCHANGED <<doc, file>>

(***************************************************************************)
(* Start-up: ensure_builtin_metadata, one write at a time.                 *)
(***************************************************************************)
LastStep == Len(BindingSteps) + Len(ProfileSteps) + 1

BindingStep(n) == n \in DOMAIN BindingSteps
ProfileStep(n) == n - Len(BindingSteps) \in DOMAIN ProfileSteps
ProfileOf(n) == ProfileSteps[n - Len(BindingSteps)]

\* A step finds its item missing, and the document with it.
Missing(n) ==
    \/ BindingStep(n) /\ BindingSteps[n] \notin DOMAIN doc.bindings
    \/ ProfileStep(n) /\ ProfileOf(n) \notin DOMAIN doc.profiles
    \/ n = LastStep /\ doc.active = "none"

Added(n) ==
    CASE BindingStep(n) -> SavedBinding(BindingSteps[n], BuiltinBinding[BindingSteps[n]])
      [] ProfileStep(n) -> SavedProfile(ProfileOf(n), BuiltinProfile[ProfileOf(n)])
      [] OTHER -> [doc EXCEPT !.active = "fake_default"]

\* A built-in identifier that belongs to another provider.
Conflicts(n) ==
    \/ /\ BindingStep(n) /\ BindingSteps[n] \in DOMAIN doc.bindings
       /\ doc.bindings[BindingSteps[n]] # BuiltinBinding[BindingSteps[n]]
    \/ /\ ProfileStep(n) /\ ProfileOf(n) \in DOMAIN doc.profiles
       /\ doc.profiles[ProfileOf(n)].provider # BuiltinProfile[ProfileOf(n)].provider

Ensure ==
    /\ starting > 0 /\ Readable /\ ~Conflicts(starting)
    /\ Write(Added(starting), Missing(starting))
    /\ starting' = (starting + 1) % (LastStep + 1)
    /\ UNCHANGED <<secrets, run, edits>>

\* A write that fails, a conflict or a document that cannot be read stops the start; the next
\* one begins again.
StartFails ==
    /\ starting > 0 /\ starting' = 1
    /\ ~Readable \/ Conflicts(starting) \/ Missing(starting)
    /\ UNCHANGED <<file, doc, secrets, run, edits>>

Inactive == [life |-> "INACTIVE", profile |-> "none", snap |-> "none", secret |-> "none"]

\* The process dies at any moment and is started again.
Crash ==
    /\ edits < MaxEdits /\ starting # 1
    /\ run' = Inactive /\ starting' = 1 /\ edits' = edits + 1
    /\ UNCHANGED <<file, doc, secrets>>

(***************************************************************************)
(* The commands.                                                           *)
(***************************************************************************)
Command == edits < MaxEdits /\ edits' = edits + 1 /\ UNCHANGED starting

\* _require_mutation_allowed
MutationAllowed == run.life \in {"INACTIVE", "ACTIVE"}

\* ProviderProfileService.create_profile, of an identifier that is not taken.
NewProfile(id, p, ok) ==
    /\ id \notin DOMAIN doc.profiles /\ CanSaveProfile(id, p)
    /\ Command /\ Write(SavedProfile(id, p), ok)
    /\ UNCHANGED <<secrets, run>>

\* Its caller may name a built-in identifier that was deleted.
CreateAsBuiltin(id, p, ok) == id \notin Custom /\ NewProfile(id, p, ok)

\* create_settings_profile, of a new identifier.
CreateProfile(id, p, ok) ==
    /\ MutationAllowed /\ p.provider \in Configurable
    /\ id \in Custom /\ NewProfile(id, p, ok)

\* update_settings_profile and update_profile: of the running profile only
\* the name may change.
CanUpdate(id, p) ==
    run.profile = id => /\ doc.profiles[id].model = p.model
                        /\ doc.profiles[id].cred = p.cred
                        /\ [doc.profiles[id] EXCEPT !.name = run.snap.name] = run.snap

\* Naming no credential keeps the profile's.
UpdateProfile(id, name, model, cred, ok) ==
    LET old == doc.profiles[id]
        p == [old EXCEPT !.name = name, !.model = model,
                         !.cred = IF cred = "none" THEN @ ELSE cred]
    IN  /\ MutationAllowed /\ id \in DOMAIN doc.profiles
        /\ old.provider \in Configurable
        /\ CanUpdate(id, [p EXCEPT !.cred = cred]) /\ CanSaveProfile(id, p)
        /\ Command /\ Write(SavedProfile(id, p), ok)
        /\ run' = IF run.profile = id /\ ok THEN [run EXCEPT !.snap = p] ELSE run
        /\ UNCHANGED secrets

DeleteProfile(id, ok) ==
    /\ MutationAllowed /\ run.profile # id /\ CanDeleteProfile(id)
    /\ Command /\ Write(DeletedProfile(id), ok)
    /\ UNCHANGED <<secrets, run>>

CreateBinding(c, provider, ok) ==
    /\ c \notin DOMAIN doc.bindings /\ SupportedBinding(c, provider)
    /\ Command /\ Write(SavedBinding(c, provider), ok)
    /\ UNCHANGED <<secrets, run>>

DeleteBinding(c, ok) ==
    /\ CanDeleteBinding(c)
    /\ Command /\ Write(DeletedBinding(c), ok)
    /\ UNCHANGED <<secrets, run>>

\* Seeded fault: the credential of the running profile may change.
CredentialMutableAnyTime(c) == MutationAllowed /\ c \in DOMAIN doc.bindings

\* _require_supported_binding, _require_inactive_credential
CredentialMutable(c) ==
    /\ MutationAllowed /\ c \in DOMAIN doc.bindings
    /\ run.profile # "none" => run.snap.cred # c

\* save_credential (a value) and delete_credential (none); the store writes it.
SetSecret(c, value) ==
    /\ CredentialMutable(c) /\ Command
    /\ secrets' = [secrets EXCEPT ![c] = value]
    /\ UNCHANGED <<file, doc, run>>

(***************************************************************************)
(* activate_profile, whose steps RuntimeSession interleaves with turns.    *)
(* Here: what it reads and writes of the settings, and how it may end.     *)
(***************************************************************************)
\* The old provider is closed, or its close fails and is retried later.
Closed(life) == [Inactive EXCEPT !.life = life]

Activate(id, ok) ==
    LET p == doc.profiles[id]
    IN  /\ Command /\ id \in DOMAIN doc.profiles
        /\ run.profile # id
        /\ Write([doc EXCEPT !.active = id], ok)
        /\ \/ /\ ok
              /\ run' = [life |-> "ACTIVE", profile |-> id, snap |-> p,
                         secret |-> IF p.cred = "none" THEN "none" ELSE secrets[p.cred]]
              /\ Bound(doc, p)
           \/ /\ ~ok
              /\ run' \in {Closed("INACTIVE"), Closed("CLEANUP_PENDING")}
                          \cup (IF run.profile = "none" THEN {} ELSE {run})
        /\ UNCHANGED secrets

\* It retries the pending clean-up before it reads anything, and may then be refused.
PendingCleanupEnds ==
    /\ starting = 0 /\ run.life = "CLEANUP_PENDING" /\ run' = Closed("INACTIVE")
    /\ UNCHANGED <<file, doc, secrets, starting, edits>>

\* Every command reads the document first.
CommandNext ==
    /\ starting = 0 /\ Readable
    /\ \/ \E ok \in BOOLEAN :
             \/ \E id \in ProfileIds \ DOMAIN doc.profiles, p \in Profile :
                   CreateProfile(id, p, ok) \/ CreateAsBuiltin(id, p, ok)
             \/ \E id \in DOMAIN doc.profiles, name \in Names, model \in Models,
                   cred \in AllCredentials \cup {"none"} : UpdateProfile(id, name, model, cred, ok)
             \/ \E id \in DOMAIN doc.profiles : DeleteProfile(id, ok) \/ Activate(id, ok)
             \/ \E c \in AllCredentials :
                   DeleteBinding(c, ok) \/ \E provider \in Providers : CreateBinding(c, provider, ok)
       \/ \E c \in AllCredentials, v \in Values \cup {"none"} : SetSecret(c, v)

SettingsNext == Ensure \/ StartFails \/ Crash \/ PendingCleanupEnds \/ CommandNext

\* An earlier process, or a user who edited the file, left the document.
SettingsInit ==
    /\ file \in {"absent", "corrupt"} /\ doc = NoDocument
    /\ secrets = [c \in AllCredentials |-> "none"]
    /\ run = Inactive /\ starting = 1 /\ edits = 0

SettingsSpec == SettingsInit /\ [][SettingsNext]_settingsVars

(***************************************************************************)
(* Properties.                                                             *)
(***************************************************************************)
\* Every variable keeps its type.
SettingsTypeOK ==
    /\ file \in {"absent", "corrupt", "valid"}
    /\ \A id \in DOMAIN doc.profiles : doc.profiles[id] \in Profile
    /\ DOMAIN doc.bindings \subseteq AllCredentials
    /\ run.life \in {"INACTIVE", "ACTIVE", "CLEANUP_PENDING"}
    /\ starting \in 0..LastStep /\ edits \in 0..MaxEdits

\* Whatever sequence of commands, failures and crashes wrote the document, the records in it are
\* ones a later start accepts: every profile keeps its binding, every binding is one the policy
\* supports and the active profile exists.
StoredRecordsAreSupported == WellFormed(doc)

\* A document may be saved with more records than a later read accepts, but only by one record
\* of one kind: nothing is saved over it again.
LimitPassedByOne ==
    LET profiles == Cardinality(DOMAIN doc.profiles)
        bindings == Cardinality(DOMAIN doc.bindings)
    IN  /\ profiles <= MaxRecords + 1 /\ bindings <= MaxRecords + 1
        /\ profiles <= MaxRecords \/ bindings <= MaxRecords

\* While a provider runs, the stored profile still describes it, the stored
\* choice names it and the credential it was built for is the stored one.
RunningMatchesStored ==
    run.life = "ACTIVE" =>
        /\ doc.active = run.profile
        /\ run.profile \in DOMAIN doc.profiles
        /\ doc.profiles[run.profile] = run.snap
        /\ run.snap.cred # "none" => secrets[run.snap.cred] = run.secret

\* Settings: through commands, failures and crashes the stored records stay ones a start accepts,
\* at most one of them is too many, and a running Provider is the one that is stored.
SettingsAreConsistent ==
    SettingsTypeOK /\ StoredRecordsAreSupported /\ LimitPassedByOne /\ RunningMatchesStored

\* A document the program cannot read, be it damaged or too long, is never replaced.
UnreadableIsKept == ~Readable => UNCHANGED <<file, doc>>

\* A process that comes up has all the built-ins, each of its own provider, and an active
\* profile, also when an earlier start died halfway or the user deleted some.
StartRestoresBuiltins ==
    starting # 0 /\ starting' = 0 =>
       /\ \A c \in DOMAIN BuiltinBinding :
             c \in DOMAIN doc'.bindings /\ doc'.bindings[c] = BuiltinBinding[c]
       /\ \A id \in DOMAIN BuiltinProfile :
             id \in DOMAIN doc'.profiles /\ doc'.profiles[id].provider = BuiltinProfile[id].provider
       /\ doc'.active \in DOMAIN doc'.profiles
=============================================================================
