---------------------------- MODULE MCProviders -----------------------------
(***************************************************************************)
(* The LLM Providers around the runtime for TLC: the profiles and          *)
(* credentials, an adapter's clients and streams, the reading of one       *)
(* stream, the conversation that is replayed, and a turn with tools of     *)
(* every risk. A behaviour is about one of them, chosen in the initial     *)
(* state; the variables of the others are not used, and those of the       *)
(* settings, of an adapter's resources and of a stream stay as they begin. *)
(***************************************************************************)
EXTENDS ProviderSettings, ProviderResources, ProviderStream, Naturals

VARIABLES
  part,  \* the component this behaviour is about
  \* ConversationReplay
  history, continuations, replayActive, replayKey, turns, sent, outcome,
  \* AgentLoop
  pc, token, stream, seen, toolExecuted, blank, cause, agentState, terminals,
  committed

Closes == INSTANCE ProviderResources WITH
  NumRequests <- 1, NumCloses <- 2, Keys <- {"k1"}, MaxChanges <- 1

Replay == INSTANCE ConversationReplay WITH
  OpenAI <- {"o"}, DeepSeek <- {"d"}, Texts <- {"t1", "t2"}, MaxRecent <- 4,
  MaxContext <- 4, MaxItems <- 6, MaxTurns <- 5, MaxOpens <- 3,
  active <- replayActive, key <- replayKey

Turn == INSTANCE AgentLoop WITH
  Registry <- {"safe", "sensitive_read", "side_effect", "destructive"}

\* What each component assumes of its constants.
ASSUME ProvidersAssumption ==
  /\ ProviderAssumption
  /\ ResourcesAssumption
  /\ Closes!ResourcesAssumption
  /\ StreamAssumption
  /\ Replay!ReplayAssumption

\* The value of the variables of the components a behaviour is not about.
Unused == "unused"

\* ProviderSettings rests in its initial state in the behaviours of the others.
ProfilesUnused == SettingsInit /\ file = "absent"

\* ProviderResources rests in its initial state in the behaviours of the others.
ResourcesUnused == Init /\ kind = "openai" /\ key = "k1"

\* ProviderStream rests in its initial state in the behaviours of the others.
ReadingUnused == StreamInit /\ adapter = "openai"

ReplayUnused ==
  /\ history = Unused /\ continuations = Unused /\ replayActive = Unused
  /\ replayKey = Unused /\ turns = Unused /\ sent = Unused /\ outcome = Unused

TurnUnused ==
  /\ pc = Unused /\ token = Unused /\ stream = Unused /\ seen = Unused
  /\ toolExecuted = Unused /\ blank = Unused /\ cause = Unused
  /\ agentState = Unused /\ terminals = Unused /\ committed = Unused

profilesVars ==
  <<file, doc, secrets, run, starting, edits>>

resourcesVars ==
  <<kind, key, closed, client, active, pending, closing, open, keyOf, user,
    task, lock, changes>>

readingVars ==
  <<adapter, phase, log, queued, terminal, failure, outputSeen, items, tools,
    yielded>>

replayVars ==
  <<history, continuations, replayActive, replayKey, turns, sent, outcome>>

turnVars ==
  <<pc, token, stream, seen, toolExecuted, blank, cause, agentState,
    terminals, committed>>

AllInit ==
  \/ part = "settings" /\ SettingsInit
     /\ ResourcesUnused /\ ReadingUnused /\ ReplayUnused /\ TurnUnused
  \/ part = "resources" /\ Init
     /\ ProfilesUnused /\ ReadingUnused /\ ReplayUnused /\ TurnUnused
  \/ part = "closes" /\ Closes!Init
     /\ ProfilesUnused /\ ReadingUnused /\ ReplayUnused /\ TurnUnused
  \/ part = "stream" /\ StreamInit
     /\ ProfilesUnused /\ ResourcesUnused /\ ReplayUnused /\ TurnUnused
  \/ part = "replay" /\ Replay!Init
     /\ ProfilesUnused /\ ResourcesUnused /\ ReadingUnused /\ TurnUnused
  \/ part = "turn" /\ Turn!Init
     /\ ProfilesUnused /\ ResourcesUnused /\ ReadingUnused /\ ReplayUnused

ProfilesNext ==
  /\ part = "settings" /\ SettingsNext
  /\ UNCHANGED <<part, resourcesVars, readingVars, replayVars, turnVars>>

ResourcesNext ==
  /\ part = "resources" /\ Next
  /\ UNCHANGED <<part, profilesVars, readingVars, replayVars, turnVars>>

ClosesNext ==
  /\ part = "closes" /\ Closes!Next
  /\ UNCHANGED <<part, profilesVars, readingVars, replayVars, turnVars>>

ReadingNext ==
  /\ part = "stream" /\ StreamNext
  /\ UNCHANGED <<part, profilesVars, resourcesVars, replayVars, turnVars>>

ReplayNext ==
  /\ part = "replay" /\ Replay!Next
  /\ UNCHANGED <<part, profilesVars, resourcesVars, readingVars, turnVars>>

TurnNext ==
  /\ part = "turn" /\ Turn!Next
  /\ UNCHANGED <<part, profilesVars, resourcesVars, readingVars, replayVars>>

AllNext ==
  \/ ProfilesNext \/ ResourcesNext \/ ClosesNext \/ ReadingNext \/ ReplayNext
  \/ TurnNext

allVars == <<part, profilesVars, resourcesVars, readingVars, replayVars,
           turnVars>>

AllSpec == AllInit /\ [][AllNext]_allVars

-----------------------------------------------------------------------------
(* Properties.                                                             *)

\* What is sent is an unbroken run of the conversation, continuations describe
\* it, own answers are replayed as such; and with tools of every risk a turn
\* that returns has reported a terminal event.
ConversationIsSound ==
  /\ part = "replay" =>
       /\ Replay!TypeOK /\ Replay!SentIsConversation
       /\ Replay!ContinuationCoversHistory /\ Replay!OwnAnswersReplayed
  /\ part = "turn" => Turn!TypeOK /\ Turn!ReturnIsTerminal

\* No step replaces an unreadable document, comes up without the built-ins,
\* opens something on a closed Provider, closes a DeepSeek client under its
\* streams, or passes anything on after the terminal event.
ProviderStepsAreSafe ==
  [][/\ part = "settings" => UnreadableIsKept /\ StartRestoresBuiltins
     /\ part = "resources" => ClosedOpensNothing /\ ClientOutlivesStreams
     /\ part = "closes" => Closes!ClosedOpensNothing /\ Closes!ClientOutlivesStreams
     /\ part = "stream" => NothingAfterTerminal]_allVars
=============================================================================
