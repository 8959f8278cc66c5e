# TLA+ models of ArkClaw

ArkClaw is a desktop pet with an LLM agent: a PySide6 GUI, an agent runtime on
a worker thread with its own asyncio loop, Provider adapters, a pet that plays
Spine animations, and the tools that package and verify all of it. This
directory holds TLA+ modules translated from the program's source, the TLC
configurations that check them, and TLAPS proofs.

`PROJECT.json` lists components, runs, mutants, the map from definitions to
source lines, findings, hazards and theorems. Line numbers are of this commit.
Paths below are relative to `src/src/arkclaw/` unless they start with
`packaging/`, `scripts/` or `docs/`.

## 1. The system

| Part | State it keeps | Operations | Hard behaviour |
|---|---|---|---|
| `QtRuntimeBridge`, `RuntimeThread` (`presentation/qt/platform`) | bridge state, pending commands; loop, queue and five flags under `_guard` | public command methods, queued slots; `submit`, `request_shutdown`, `run` | calls race the worker, which may leave by many roads with commands pending; shutdown retry |
| `RuntimeSessionController`, turn coordinator, `ProviderProfileService` (`application`) | runtime state, active turn, open, retiring and candidate Providers, stored choice | activate, start turn, cancel, shutdown | commands suspend while the turn task runs; a close fails or is cancelled half-way through a switch |
| `AgentLoop`, tool policy | one turn | `run` | stream, token, deadline, tool and cleanup interleave |
| Provider adapters (`infrastructure/llm`) | clients and streams in three registries, one stream's assembly, the continuation | `generate_stream`, `aclose`, credential change | tasks share clients, closes fail, any event order, the history window moves |
| Provider settings, JSON repository, credential store | metadata document, credentials | CRUD under runtime guards, atomic replace | crash between two stores and between two steps |
| Autostart | registry value, journal, ownership, controller revision | query, enable, disable with verify and rollback | partial failure, stale answers, foreign writers |
| Pet: layered state, engine, scheduler, Track 0 (`application/pet`) | state, playback, waiting request, drag, timers | events, intents, boundaries, callbacks, watchdog | late callbacks, a player that raises, drags during protected actions |
| Pet window, renderers, effect overlay (`presentation/qt/pet`) | gesture, layout, painted surfaces, placeholder | Qt events, tick, layout, publish | paints come when Qt likes, a renderer fails in any call |
| Role packs and assets | open handles, verified bundle, native handle; current and candidate pack | load, verify, compose, switch | files change while they are read, one of several steps fails |
| Application shell, tray, single instance | start-up stage, tray state, exit under way; lock, server, clients | start, commands, safe exit; acquire, activate | several processes, an exit that fails and is repeated |
| Conversation presentation: reducer, draft, palette | surface in front, draft revision, palette layer | intents, edits, presses, polls | one press seen twice, acceptance after newer typing |
| Packaging and scripts | directories, marker files, control file, jobs, test credential | archive, observe, build, acquire, verify | processes overlap, fail and die between any two calls |

The GUI calls the bridge; the bridge submits commands to the thread's queue;
the dispatcher executes one at a time against the controller, which runs one
turn task over the published Provider; results and events return as queued Qt
signals. The pet consumes agent states only. The shell owns pet, tray and
bridge and coordinates their exit. The packaging tools are separate programs.

## 2. Modules

A module has its component's state as variables, one action per handler or per
stretch of code nothing else can interrupt, and its own `Spec` and properties.

**Runtime**

| Module | Models | Grain of a step |
|---|---|---|
| `RuntimeBridge` | bridge and thread: the command protocol of two threads | a GUI call or slot takes `_guard` at most once and is one step; a worker step ends where the GUI can look (guarded section, queue read, emitted signal) |
| `RuntimeSession` | controller, coordinator, Provider lifecycle | code between two awaits; `cmd.at` names the await |
| `AgentLoop` | one turn, to its commit | code between two awaits; the Provider is arbitrary |
| `ProviderSettings` | profiles, bindings, credentials of two cloud Providers, the limits and built-ins of the metadata | a command, or one write of a start; the process may die before or after |
| `ProviderResources` | clients, streams, registries and lifecycle lock of an adapter | a task from await to await, cancellable at each |
| `ProviderStream` | one stream of either adapter: events in, LLM events out | one service event |
| `ConversationReplay` | history, context window and continuation over many turns | a turn |

**Pet**

| Module | Models | Grain of a step |
|---|---|---|
| `PetActionSequence` | vocabulary and catalog of sequences, registry validation | pure operators |
| `PetTrack0` | arbiter, runner, controller, watchdog of Track 0 | a method; callbacks of any play so far, any number of times |
| `PetState` | layered state machine and motion | pure operators, used by the next three |
| `PetEngine` | animation engine, scheduler and player over `PetState` and `PetTrack0` | a handler as an operator |
| `PetWindow` | the window's Qt handlers and tick as the driver of `PetEngine` | a handler; the tick is advance, events, layout with nothing in between |
| `PetPlaceholder` | the same window and engine without a role pack (legacy path) | a handler |
| `RenderSurface` | window and overlay as surfaces, safe fallback, tick with layout and publishing | a handler; a paint |
| `RoleAssets` | loading, verifying and composing an external pack, life of its renderer | a file operation; files may be rewritten between two |
| `RolePackSwitch` | two-phase switch of packs, whose candidates may be closed or offered again | a switch up to where it ends, each host call answering either way or raising |

**Desktop**

| Module | Models | Grain of a step |
|---|---|---|
| `Autostart` | controller, commands, service, journal, registry value | a registry access |
| `AtomicJsonFile` | settings controller, repository and file replacement | a file operation; the process may die between two |
| `DocumentStore` | abstract: whole documents, one save at a time, nothing foreign replaced | - |
| `SingleInstance` | lock, server, client sessions, life of the owner | a socket or lock operation of one process |
| `ApplicationShell` | `main`, coordinator, tray, exits, readiness checkpoint | an event with all slots it reaches |
| `FrontendPresentation` | the presentation reducer | pure operators, used by the next two |
| `Palette` | palette routing: filter, poll, activation, rows | an event or a poll |
| `ConversationDraft` | the draft, its editors and its acceptance | an edit or an answer |

**Packaging**

| Module | Models | Grain of a step |
|---|---|---|
| `TransactionalArchive` | four archivers | a file operation; crash anywhere |
| `TimelineProbe` | observer, control file, operators, Owner process, Run value | one read of the observer |
| `ControlledRun` | controlled build and smoke: markers, job, wait, verdict | a system call; crash anywhere |
| `DryRunWorkspace` | preparing, using and finalising a workspace | a file operation |
| `ToolAcquisition` | download, audit, extraction, cache | a file operation |
| `ManualVerification` | the two verification scripts and the credential slot they use | an await or a store call |

How modules compose: `PetWindow` extends `PetEngine`, which instantiates
`PetTrack0` and uses `PetState`'s operators; `PetPlaceholder` uses the same
`PetState`; `Palette` and `ConversationDraft` extend the reducer they share;
`AtomicJsonFile` implements `DocumentStore`. Where layers are checked apart, the upper
one is the more permissive: `RuntimeBridge` lets a command end in any way and
`RuntimeSession` says how; `RuntimeSession` lets a turn end at any time and
`AgentLoop` says how; `AgentLoop` takes any stream and `ProviderStream` says
which there are; `ProviderSettings` replaces a document in one step and
`AtomicJsonFile` shows that a crash cannot show more.

**Families.** `MCPetParts`, `MCProviders`, `MCDesktop`, `MCPackaging` and
`MCLiveness` put components that share no state into one model: the variable
`part`, chosen in the initial state, says which component a behaviour is about;
the variables of the others rest. A family's invariants are conjunctions of its
components' named invariants under `part = ...`; the definitions, their comments
and the hazards they answer are in the component modules. A component whose
theorems are in section 5 is extended by its family and not instantiated
(`PetTrack0` by `MCPetParts`; `ProviderResources`, `ProviderSettings` and
`ProviderStream` by `MCProviders`; `Autostart`, `AtomicJsonFile`, `SingleInstance`
and `ApplicationShell` by `MCDesktop`; `TransactionalArchive`, `ControlledRun` and
`ToolAcquisition` by `MCPackaging`): its variables rest in an initial state, so its properties are
checked in every behaviour, without `part = ...`, and what the run checks is the
very definition the theorem states. Where such a component has a second instance
(`Closes`, `Attempt`, with the same variables and other constants) the same
property covers both.

### What is abstracted

- Texts, names, keys and messages are members of small sets; wording, logging
  and layout are left out. Where a property depends on it the conversion is
  kept: a blank answer cannot become a message, argument fragments are
  concatenated and bounded, messages are matched by fingerprint although their
  texts repeat.
- Time: a timer that runs may expire at any step; a deadline that must fire has
  fairness. Positions: ground, edge, screen. Geometry: what the planner answers.
- A failing call is a choice. Where several calls of one handler may fail
  independently, each has its own choice.
- External parties (player, SDK, service, registry, credential manager, file
  system, users) may do whatever the code does not exclude: late, repeated,
  reordered or missing callbacks, foreign writes, deaths.
- A play's token is a fresh object and is identified with its generation. In
  `RenderSurface` a render generation is only compared with the newest one and
  is "current" or "stale".
- `RuntimeSession` has one conversation: identifiers of others only key two
  dictionaries. `RuntimeBridge` leaves out the branch for a value that is not a
  `RuntimeSnapshot`. `PetTrack0` leaves out the shutdown class, which no catalog
  entry has, and players without the four capabilities, refused by `preflight`.

## 3. Runs

| Run | Instance | Shows |
|---|---|---|
| `bridge` | 4 commands | no command lost, settled twice or left behind; a clean close drains; one shutdown at a time; followed commands are settled in the end |
| `session` | 2 profiles, 2 setups, 3 Providers, 2 turns | Providers owned, exclusive and never closed under a turn; published state truthful; waits end |
| `turn` | no tool needs approval | a turn ends, one verdict; commits are clean and never after a cancellation |
| `pet` | 4 requests of 2 sources, generation 4, 2 events a tick | state, playback, scheduler, drag and waiting request agree; late events change nothing |
| `pet_parts` | Track 0 with 11 sequences of every class, 5 generations; placeholder; assets with 3 contents; 4 packs; a falling pet | each part consistent, priorities, ownership, unmixed files; protected plays, unrest and falls end |
| `providers` | settings with 4 edits and a limit of 4 records; 2 requests + 1 close and 1 + 2; streams of 4 events from both adapters; 5 turns over a window of 4; a turn with tools of every risk | stored records are supported, one too many at most; nothing open is lost; streams sound; what is sent is the conversation |
| `desktop` | autostart with 3 revisions and 2 foreign writes; 3 lives of the file; 3 processes; shell with 2 exits; palette with 1 command of the root and its actions; draft with 4 revisions and 2 submits; surfaces with 1 fault | truthful autostart, one owner, orderly exit, palette and pet on the screen as modelled; `AtomicJsonFile` implements `DocumentStore` |
| `packaging` | 4 archivers with 2 runs; the probe with two operators, aborts and 1 toggle, and with one operator, 3 toggles and a process object that is let go; 2 harnesses of either kind, build and smoke, with 1 start each and a process limit of 2; 2 sessions with 2 runs; 2 operators with 3 commands and 2 runs each; both scripts with 2 foreign values | nothing lost, verdicts earned, program run once and contained, reviewed inputs, key removed |
| `liveness` | the smallest instance of eight components in which every end is reached | tasks, turns, toggles, starts, exits, presses, observer and harness end |
| `bridge_shutdown_retry` | 3 commands | violation, finding 1 |
| `turn_approval_commit` | a sensitive-read tool | violation, finding 2 |
| `conversation_window` | window of 4, 5 turns | violation, finding 3 |

**Bounds and why they are enough.** Four commands allow a start, an ordinary
command, a failed shutdown and its retry, the longest chain the protocol
distinguishes; three Providers allow a switch, a rejected candidate and a
further activation, and two turns one before and one during a switch. Track 0
stops making requests at generation 5: a play, its replacement, a failed play
with its containment and a recovery; callbacks and the watchdog still run to
the end. The pet's generation 4 allows a request, its protected successor, the
fallback and the return. Two requests and a close, and two closes with a
request, are the pairs of tasks that meet at the lifecycle lock. Four stream
events exceed the longest prefix either adapter distinguishes (item, fragment,
terminal, event after it). Five turns move a window of four messages past a
continuation and a change of adapter. In the settings four records are what a
start makes of profiles, so that one created profile passes the limit; four
edits are a deleted built-in, another record under its identifier, a command and
a crash. The limit on bindings is not reached in the run; the theorem covers
it. Three revisions let a toggle overtake a
query and be overtaken; two foreign writes change a value and change it back.
Three processes are an owner, a racer and a latecomer. One fault per behaviour
on the surfaces suffices because the first makes the placeholder permanent. In the archives two runs
are the one that leaves something behind and the one that meets it; two
harnesses or sessions are the pair that overlaps. The probe's second operator
runs one command, an abort or a phase, which may be checked and written at any
two moments between the commands of the first; a command is checked when the
observer has read the last one. Three changes of the value let it be owned, lost
and owned again. Every cap is a constant in a
guard of the component's module (`MaxTurns`, `MaxGeneration`, `MaxEdits`,
`MaxRuns`, `MaxFaults` ...); the turn needs none.

Deadlock checking is off throughout: identifiers, Providers, turns and runs are
finite, and a program may end.

**Fairness.** Only loops and clocks of the program are fair; users, players,
services and other programs never are.

- `RuntimeBridge`: Qt delivers queued signals and the worker keeps running.
- `RuntimeSession`: the event loop resumes a command whose await is over and
  runs the turn task, whose length `max_turn_seconds` bounds; the thread makes
  its last clean-up attempt. That a Provider's `aclose()` returns is an
  assumption: `docs/architecture/qt_runtime.md` says that shutdown is
  cooperative and has no hard deadline.
- `AgentLoop`: the task is scheduled, `asyncio.timeout` fires, closing a stream
  returns or raises.
- `MCPetParts`: both windows' timers tick (strongly, since a tick may be
  pre-empted by input), and the start of the pet is a straight line of code.
  For Track 0, that the watchdog is polled. The production engine does not call
  `poll_watchdog`, so that part of `PetComesToRest` says what the controller
  offers its caller, not what the shipped pet does.
- `MCLiveness`: tasks run and the lifecycle lock is handed on in turn (asyncio
  locks are FIFO); event loops handle what is queued; `start()` is bounded by
  its deadlines; timers fire; the observer's and the harness's loops and clocks
  run.

Every property of a passing run has a mutant: a definition marked "Seeded
fault" next to the one it replaces, which changes the code the way a plausible
bug would and makes TLC report that property.

**Refinement.** `FileImplementsStore` maps `AtomicJsonFile` to `DocumentStore`:
`stored` is the target file, `saving` the value of a save under way. A crash
between temporary file and rename is an abandoned save, a rename a commit, and
the later removal of temporary files a stutter. The fault that breaks it saves
over a document the program refused to read. TLC checks it in `desktop`, and
theorem `FileRefinesStore` states it for all settings and process counts.

## 4. Findings

1. **A shutdown retried at once may never be settled.** The worker emits the
   failure of a shutdown before `_allow_shutdown_retry` clears
   `_shutdown_in_flight` (`runtime_thread.py:380-386`, and `327-333` at
   start-up). A GUI that retries as soon as it sees the failure can find the
   flag set; `request_shutdown` returns `False`, which `runtime_bridge.py:434`
   ignores. The new command stays pending and every later `shutdown()` answers
   `shutdown_in_progress`. `docs/architecture/qt_runtime.md` promises that a
   command leaves the pending set and that shutdown can be retried.
2. **A turn paused for approval can be committed and reported as failed.** The
   early return yields `TURN_COMPLETED`, which is committed; the `finally`
   block then closes the stream, and an exception there becomes `TURN_FAILED`
   (`agent_loop.py:238-243`, `293`, `330-347`). It needs a registered tool that
   requires approval; today's composition roots register none. This is why two
   properties of `AgentLoop` are stated, and proved, without such tools.
3. **A long OpenAI conversation stops working.** `build_request` keeps the last
   `max_recent_messages` of the history (`context_manager.py:71`), but the
   continuation consumed all of it; once the window has moved the request no
   longer begins with the consumed fingerprints and every later turn of the
   session fails with `invalid_continuation` (`openai_provider.py:616`).

### What the code does not prevent

No document denies these, so no run states their opposite; the properties say
what holds nevertheless.

- **The metadata can be saved past its own limit.** `_parse_snapshot` refuses
  more than 1000 profiles or bindings (`json_provider_profile_repository.py:457`),
  but no save looks at the number. The 1001st record is stored, and from then on
  every command and every start finds the document unreadable. `LimitPassedByOne`
  says that it stays at one record of one kind, `UnreadableIsKept` that nothing is
  saved over it. (The limit of 4 MiB is not reached: 1000 records of either kind
  with the longest fields stay below it.)
- **A built-in identifier can change its Provider.** A deleted built-in binding
  or profile can be created again under the other cloud Provider
  (`provider_profile_policy.py:136`), by `create_credential_binding` and
  `create_profile`; every later start then ends with "conflicts with metadata"
  (`provider_profile_service.py:269`, `:283`). `StartRestoresBuiltins` is about
  the starts that come up.
- **The host can show a pack the coordinator does not hold.** `promote()` refuses
  a candidate that is closed or was promoted before, but is called after
  `publish_role_pack` (`pet_role_pack_switch.py:133-137`). Offering such a
  candidate leaves its closed pack on the screen. `OnlyGivenUpPacksMislead` says
  that this is the only way to a misleading host and that Track 0 is then
  contained; `AutonomousOnlyWhenRelaxed` that autonomy is not resumed.
- **Two overlapping control commands of the probe can lose an abort.** A command
  checks the control file and replaces it later
  (`packaging/autostart_run_timeline_probe.py:1959`, `:1999`). An abort written in
  between is replaced by a message of the same revision, and the observation can
  end as verified. An abort written over a phase of the same revision that the
  observer has read is not looked at either. `AbortIsFinal` is about an abort that
  follows the message it replaces and is not overwritten unread.

### Other disagreements met while modelling

For these the module has a definition of what the document says, which TLC
refutes when it is checked as an invariant or property of that module; the runs
above check what does hold in its place.

| Definition | Where | The code does | A document says |
|---|---|---|---|
| `PetTrack0.AwaitedIsWatched` | `pet_track0.py:897` | a graceful exit asked for during the one-shot before a loop clears its deadline; the loop then has none either | `docs/superpowers/specs/2026-08-07-arkpets-action-sequence-reuse-design.md:871`: both are watched |
| `PetWindow.NoGestureNoDrag` | `pet_window.py:618` | a drag whose play degraded leaves motion `DRAGGING` with an idle gesture | `.../2026-08-11-schwarz-interaction-overflow-and-landing-design.md:624`: no cancellation leaves `DRAGGING` |
| `PetWindow.DraggingOutranksResume` | `pet_animation.py:371` | `resume_autonomous` from the tray replaces a drag or a fall | `.../2026-08-09-schwarz-production-autonomous-animation-design.md:115`: dragging and falling outrank it |
| `PetWindow.AbandonedStaysSuspended` | `pet_animation.py:683` | after the renderer was given up, pause and resume activate the autonomous mode again | same document, `:592` |
| `PetWindow.WalkStopsWithPlayback` | `pet_animation.py:385` | a clear that fails leaves the pet walking without playback | same document, `:117` |
| `RenderSurface.OverlayFollowsWindow` | `pet_window.py:848` | the tick goes on for a hidden window and shows the overlay again | `.../2026-08-11-...-design.md`: visibility is synchronised with the body window |
| `RenderSurface.GestureHasPointer` | `pet_effect_overlay.py:330` | a second press, or hiding the overlay, drops the proxied gesture, and the window never gets its release | `pet_effect_overlay.py:284`: an active proxy gesture is preserved until release |
| `Autostart.OtherValueIsNeverOverwritten` | `autostart_service.py:374` | a value stored between the read and the write is replaced | `docs/pet/windows_autostart.md:29`: never overwritten |
| `Autostart.LostMeansOthersChangedIt` | `autostart_service.py:453` | a successful deletion whose read-back fails is later reported as `ownership_lost` | `docs/pet/windows_autostart.md:65` |
| `Palette.NoPassThrough` | `pet_application.py:907` | the poll closes the palette before Qt delivers the press, which then reaches its target | `pet_application.py:786`: consumed, no pass-through |
| `ConversationDraft.DraftComesFromTyping` | `conversation_draft_safety.py:187` | an accepted draft stays in the editor and the next caret move makes it the draft again | `conversation_draft_safety.py:4`: widgets never own draft truth |
| `ApplicationShell.ExitSettles` with a `MainWindow` | `main_window.py:165` | after the runtime thread failed, an exit is never answered | `docs/pet/system_tray.md:44` |
| `ApplicationShell.RuntimeStarts` | `pet_application.py:1266` | `main` passes no `MainWindow`, the only caller of `start_runtime` | `docs/pet/pet_settings.md:41`: the runtime still starts |
| `TransactionalArchive.RollbackRestores` with an intruder and `transactional_archive` | `packaging/transactional_archive.py:460` | a foreign target makes the rollback look in the wrong place and restore nothing | `docs/packaging/windows_packaging_preflight.md:1297` |
| `TimelineProbe.VerifiedOwnerRecordedExited` | `packaging/autostart_run_timeline_probe.py:607` | T9 is verified although the last query found no process | same document, `:1562` |
| `ManualVerification.TimeoutCleansUp` | `scripts/manual_openai_verification.py:888` | a timeout during `aclose()` skips the deletion of the test key | same file, `:945`: waits for cleanup to finish |

## 5. Proofs

Eight modules hold theorems, for arbitrary constants, checked by TLAPS to the
last leaf. Each theorem names what it assumes of the constants, and the run of
its component evaluates those assumptions. Every inductive invariant was first
checked by TLC on the instance of its run.

| Module | Assumes | Proves |
|---|---|---|
| `RuntimeBridgeProofs` | `None` is no command | `TypeCorrect`, `NoPendingAtTheEnd`, `CommandsSettleOnce`, `CommandsAccounted` |
| `RuntimeSessionProofs` | `None` is no profile, setup or Provider; `MaxTurns` is a number | `SessionInvariant`, `ProvidersOwned`, `PublishedTruthful` |
| `AgentLoopProofs` | tools have known risks | `TypeCorrect`, `ReturnTerminal`; `CleanCommits` and `CancelPreventsCommit` where no tool needs approval (finding 2) |
| `ProviderProofs` | numeric bounds; the three kinds of credential are disjoint, the built-in name and model are offered, `"none"` is no profile; the adapters are OpenAI's and DeepSeek's, `NoId` is no identifier | `ResourcesOwned`, `ResourceStepsSafe`; `SettingsConsistent`, `SettingsStepsSafe`; `StreamSound`, `StreamStepsSafe` |
| `PetTrack0Proofs` | the requests offered are of the vocabulary | `Track0Consistent`, `Track0StepsSafe` |
| `DesktopProofs` | settings are neither `None` nor `"nothing"`; a process lives; finitely many processes, `Nobody` none of them; room for a client; an exit may be asked for | `FileInvariant`, `FileRefinesStore`, `ReportTruthful`; `OneOwnerAlways`, `ClosingRefuses`; `ExitOrderly`, `ShellStepsSafe` |
| `AutostartProofs` | numeric bounds | `AutostartTruthful`, `AutostartStepsTruthful` |
| `PackagingProofs` | known programs, kinds and commands; numeric bounds | `ArchiveSafe`, `RestoredTrue`, `LeftoverReported`, `RollbackRestored`; `HarnessSafe`; `InputsReviewed`, `AcquiredIsKept` |

### The arguments

**`RuntimeBridge`.** `TypeOK` is proved in three parts (bridge fields, guarded
Booleans, worker fields); the worker part carries the fact that a command is
active whenever one is executed. `NothingPendingAtTheEnd` is not inductive: a
shutdown of a bridge that was never started closes it at once, so the invariant
adds the state `"new"` to those without pending commands. The step that matters
is `_on_thread_finished`: `FinishSettlesAll` shows that its sweep leaves nothing
pending, for every outcome, and `FinishKeepsSettled` that settled commands keep
their verdict however its parts are composed.

`CommandsAreAccounted` says of every command between `submit()` or `shutdown()`
and its terminal signal that one side owns it. It holds because of what lies
between the threads, and `AccountInv` says what that is: `Phases` (what each
place of the worker implies for the fields under `_guard`), `Shutdowns` (a
shutdown in the worker is the last command and keeps others out), `Drains` (an
accepted command is started or queued until the loop is finalised; a clean exit,
recorded or on its way, comes after all of them), `FinishedIsLast` (no signal
follows `finished`) and `Answers` (a command not answered is pending and has no
signal on its way; a payload travels before its result). The proof has one
lemma per conjunct, and shared lemmas that say once what each worker step does
to the queue, the flags and the signals. Ownership is proved last: a pending
command is queued, active, answered on the way, or about to be swept.

**`RuntimeSession`.** Neither property is inductive, because commands suspend
half-way. `SessionInv` says where the one open Provider is held at each await
(`Pools`, `Places`): published, withdrawn by a switch that waits for the turn on
it, or in the registry that a close is emptying; on which Provider a live turn
can be (`TurnHeld`); what the published fields mean outside a switch
(`Published`); and that a successful shutdown is final. Each command has a lemma
for the stretch of code up to its next await.

**`AgentLoop`.** Before the last step nothing is committed and no terminal event
is out unless an early return put it there.

**`ProviderResources`.** A task that waits for `close()` or `create()` holds the
lifecycle lock, but the lock is not held while a stream ends, and its request
then moves it between the registries under the eyes of the holder. `TaskOK` says
what the holder may still rely on when it resumes: before it creates a client
nothing is in use, whatever is open is on its list unless a close failed, the
resource it is closing is still registered, and no stream of a DeepSeek client
it is closing is open. `ResourceStepsSafe` (a closed provider opens nothing, a
client outlives its streams) follows from the same invariant.

**`PetTrack0`.** The controller has one of three shapes: empty, holding the last
pose of a finished sequence, or walking through one with the play of its current
step confirmed. Each operation has a lemma that takes shape to shape, over
every outcome of the player's calls. The catalog is data: `CatalogOK` shows of
each entry that its steps, exit and class are well formed. That a request
displaces no higher one is a property of `decide` alone (`DecideRespects`).

**`AtomicJsonFile`.** The refinement needs that the temporary file is whole when
it replaces the target (`SaveHasValue`) and that a save is under way only over a
document `load()` accepted (`OverDocuments`). Every step is then a step of
`DocumentStore` or a stutter: `FileRefinesStore`, whose property is the abstract
specification under the mapping of section 3.

**`SingleInstance`.** The lock decides who owns; that an activation is not shown
twice rests on a client's connection moving forward only (`ConnectedOnce`,
`AcknowledgedIsOver`), and the bound of the client table on `Accept` checking it
before it adds.

**`TransactionalArchive`.** A census: every content that lies anywhere is live,
and a live content has one place. A rename keeps that if it moves one content
to a place that holds none of its name; the rest of the invariant says why it
does. A run stages each source once (`StageShape`), and only an archive published
here, whose target no later run accepts, holds anything (`TargetsHold`).
What a failed run restores and reports needs a second invariant, `RunInv`: each
source a run took is at its place or in the run's own directories; what is in
those is not at its place, where only newer content can have appeared; the
rollback looks into the directory that holds what was moved; and the sources it
went over are back. The third holds only if nobody creates the target the run
decides by, so `RollbackRestored` has the premise `Alone`; without it TLC finds
the disagreement of section 4.

**`Autostart`.** A toggle or a query crosses to the runtime thread and back,
while a window may ask for more; the invariant says what is where. Commands are
executed and answered in the order of their revisions; of all commands queued,
running or answered at most one is the pending toggle; and the last state on its
way to the window is what the service last said. What the window shows is then
the newest answer, or nothing if the newest is not there yet. The
same invariant gives that no answer older than the toggle is shown and that an
entry another program took is left alone (`AutostartStepsTruthful`).

**`ProviderSettings`.** A start restores the built-ins in several steps and may
die between them. The invariant says what the earlier steps of a start have
ensured for the later ones, and that only a running slot names a profile. Each
mutation of the repository has a lemma that takes a good document to a good one,
and a set of records within the limit to one past it by at most one
(`OneRecordMore`); a command runs only over a document within the limits. That the
stored records are supported and agree with what runs follows, and, as step
properties, that an unreadable document is never replaced and that a start which
comes up has restored every built-in with its own Provider. The theorem does not
say that the next start accepts the document: section 4 says when it does not.

**`ProviderStream`.** As long as nothing failed, the adapter's memory is a summary
of what the service sent: the kind of end it remembers is the one terminal event,
the call it knows is the one announced, and the argument it assembled is the
fragments in the order of their ranks. The proof has one lemma per kind of
event, over the length of what was sent, so no induction is needed.

**`ApplicationShell`.** Two independent parts. For the exit: before the event
loop nothing closes, within it nothing is closed (`NothingCloses`), so that a
failed shutdown always finds a tray that can recover, whoever asked and whatever
its view raised. For the checkpoint: as long as it is written its last stage is
the order reached (`EndsWithOrder`), and `OrderOfMain` says which that is at each
place of `main`; every stage recorded then follows its predecessor, for each
write of an event that may fail. `ShellStepsSafe` needs both parts.

**`ControlledRun`.** The first marker is created exclusively and never removed, so
one start of one harness passes it. Whatever executes was resumed by
that start, inside its job; so a tree once found empty stays empty, and
nobody changes the product between its judgement and the verdict.

**`ToolAcquisition`.** What lies in the quarantine stays unless something
else exchanges it, so one command publishes and audits it; an extraction that found
the reviewed archive still stands over it when it ends (`OperatorKnows`), and the
files on disk agree with the archive they came from (`FilesAgree`). The cache
then holds reviewed bytes only, however two operators' commands interleave and
wherever one dies.

### Only model-checked

- Liveness: fairness and `ENABLED` are out of the prover's reach.
- What recursive definitions compute over data: conversations, the windows over
  them and event lists. The prover has no induction over them.
- The safety of the other parts: `PetIsConsistent`, `PlaceholderIsConsistent`,
  `PacksAreOwned`, `ConversationIsSound`, `ScreenFollowsModel`, `ProbeVerdict`,
  `KeySafety`, and the family's step properties as a whole (their parts about
  the components above are theorems).

Worth proving next: the draft's `AcceptanceIsExact` and `KeySafety`, both short
state machines with one open operation; then the part of `PetIsConsistent` that
joins the engine to Track 0, for which the shapes of `PetTrack0Proofs` are the
lemmas.

## 6. Not modelled

- The native Spine bridge, meshes, OpenGL and the planner's floating-point
  geometry: out of TLC's reach. `RenderSurface` and `RoleAssets` keep what the
  program does with their answers.
- Widgets, styling, anchors, the control centre, the settings dialog and the
  dashboard pages: they lay out and relay; what carries state across events is
  in `Palette`, `ConversationDraft` and `ApplicationShell`.
- Configuration loading, value checks of the role-pack manifest, tools: pure
  functions of their input, or a dictionary of them.
- The artefact audit, and the parsing of PE files and process listings, in
  `packaging/`: pure functions; the modules see their verdict as a choice.
- The `KeyboardInterrupt` of `scripts/manual_deepseek_verification.py:1052`: the
  run is cancelled from outside its own timeout and ends with exit code 2.
- Memories and other conversations, which the session controller never passes
  or never mixes.
