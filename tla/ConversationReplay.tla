------------------------- MODULE ConversationReplay -------------------------
(***************************************************************************)
(* A conversation over many turns: the history RuntimeSessionController    *)
(* keeps for a session, the window of it that ContextManager puts into a   *)
(* request, and the continuation with which OpenAIProvider replays its own *)
(* output items, or with which DeepSeekProvider recognises its profile.    *)
(*                                                                         *)
(* One session.  A turn is one step: the coordinator runs one at a time    *)
(* and a switch of the profile waits for it (RuntimeSession).  Memories    *)
(* and tools are not passed by _run_turn.  A message carries a number that *)
(* no code reads: texts may repeat, numbers do not, so the properties can  *)
(* tell which message was sent.  The size of a message is 1.               *)
(***************************************************************************)
EXTENDS Integers, Sequences, SequencesExt

CONSTANTS
  OpenAI, DeepSeek,  \* profiles of each adapter
  Texts,             \* message texts
  MaxRecent,         \* ContextConfig.max_recent_messages
  MaxContext,        \* max_context_chars less the instructions
  MaxItems,          \* _MAX_CONTINUATION_ITEMS
  MaxTurns,          \* bound on the turns
  MaxOpens           \* bound on the Providers opened

\* What the constants must satisfy.
ReplayAssumption ==
  /\ OpenAI \cap DeepSeek = {}
  /\ MaxRecent \in Nat /\ MaxContext \in Nat \ {0} /\ MaxItems \in Nat
  /\ MaxTurns \in Nat /\ MaxOpens \in Nat

Profiles == OpenAI \cup DeepSeek

VARIABLES
  history,       \* _histories[session]
  continuations, \* _continuations[session, profile]
  active,        \* the profile of the open Provider
  key,           \* its _continuation_hmac_key: the number of its opening
  turns,         \* turns started
  sent,          \* the input of the last request that reached the service
  outcome        \* how the last turn ended

vars == <<history, continuations, active, key, turns, sent, outcome>>

-----------------------------------------------------------------------------
Message(role, text, n) == [role |-> role, text |-> text, n |-> n]

\* _fingerprint_message
Fingerprint(message) == <<message.role, message.text>>

Fingerprints(messages) == [i \in DOMAIN messages |-> Fingerprint(messages[i])]

\* What the service is sent for a message, and for what it answered itself.
AsMessage(message) == [item |-> "message", n |-> message.n]
AsOutput(message) == [item |-> "output", n |-> message.n]

NoContinuation == [kind |-> "none"]

-----------------------------------------------------------------------------
(* ContextManager.build_request: the last max_recent_messages, then fewer  *)
(* of them until they fit, and always the message of the user.             *)

LastOf(s, n) == IF Len(s) <= n THEN s ELSE SubSeq(s, Len(s) - n + 1, Len(s))

Recent == LastOf(history, MaxRecent)

Fitting(messages) ==
  LastOf(messages, MaxContext - 1)

BuildRequest(user) == Append(Fitting(Recent), user)

-----------------------------------------------------------------------------
(* OpenAI: _decode_continuation and _prepare_request.                      *)

\* The messages the continuation stands for, its assistant message included.
Consumed(c) == Append(c.fingerprints, c.assistant)

\* _decode_continuation: the signature of another instance does not verify.
Decodes(c) == c.key = key

\* The request must begin with what the continuation consumed.
PrefixMatches(c, messages) ==
  /\ Len(Consumed(c)) <= Len(messages)
  /\ SubSeq(Fingerprints(messages), 1, Len(Consumed(c))) = Consumed(c)

\* Seeded fault: the assistant message is sent again next to its items.
FreshWithAssistant(c, messages) ==
  SubSeq(messages, Len(Consumed(c)), Len(messages))

\* What follows it: the assistant message itself is replayed from the items.
Fresh(c, messages) ==
  SubSeq(messages, Len(Consumed(c)) + 1, Len(messages))

AsMessages(messages) == [i \in DOMAIN messages |-> AsMessage(messages[i])]

\* conversation_history, or the refusal.
PrepareRequest(c, messages) ==
  IF c = NoContinuation
  THEN [code |-> "ok", input |-> AsMessages(messages)]
  ELSE IF Decodes(c) /\ PrefixMatches(c, messages)
       THEN [code |-> "ok", input |-> c.items \o AsMessages(Fresh(c, messages))]
       ELSE [code |-> "invalid_continuation", input |-> <<>>]

\* _create_continuation
CreateContinuation(messages, input, answer) ==
  [kind |-> "openai", key |-> key, items |-> Append(input, AsOutput(answer)),
   fingerprints |-> Fingerprints(messages), assistant |-> Fingerprint(answer)]

(* DeepSeek: _preflight_error, _prepare_request and _continuation.         *)

PreflightError(c) ==
  c # NoContinuation /\ c # [kind |-> "deepseek", profile |-> active]

DeepSeekRequest(c, messages) ==
  IF PreflightError(c) THEN [code |-> "invalid_continuation", input |-> <<>>]
  ELSE [code |-> "ok", input |-> AsMessages(messages)]

-----------------------------------------------------------------------------
Init ==
  /\ history = <<>> /\ turns = 0 /\ sent = <<>> /\ outcome = "none"
  /\ continuations = [p \in Profiles |-> NoContinuation]
  /\ active \in Profiles /\ key = 1

\* A switch closes the Provider and opens a new one, with a new key.
SwitchProfile(p) ==
  /\ key < MaxOpens
  /\ active' = p /\ key' = key + 1 /\ outcome' = "none" /\ sent' = <<>>
  /\ UNCHANGED <<history, continuations, turns>>

Ends(how) ==
  /\ outcome' = how
  /\ UNCHANGED <<history, continuations, active, key>>

Prepared(messages) ==
  IF active \in OpenAI THEN PrepareRequest(continuations[active], messages)
                       ELSE DeepSeekRequest(continuations[active], messages)

\* _commit_completed_turn
Commit(user, answer, continuation) ==
  /\ history' = history \o <<user, answer>>
  /\ continuations' = [continuations EXCEPT ![active] = continuation]

\* The service completes the answer with some text.
Completes(user, answer, messages, input) ==
  IF active \in OpenAI /\ Len(input) + 1 > MaxItems
  THEN Ends("invalid_response")
  ELSE /\ Commit(user, answer,
                 IF active \in OpenAI
                 THEN CreateContinuation(messages, input, answer)
                 ELSE [kind |-> "deepseek", profile |-> active])
       /\ outcome' = "completed" /\ UNCHANGED <<active, key>>

\* _run_turn
Turn(text, reply) ==
  LET user     == Message("user", text, 2 * turns + 1)
      answer   == Message("assistant", reply, 2 * turns + 2)
      messages == BuildRequest(user)
      prepared == Prepared(messages)
  IN  /\ turns < MaxTurns /\ turns' = turns + 1
      /\ \/ /\ prepared.code # "ok" /\ sent' = <<>>
            /\ Ends(prepared.code)
         \/ /\ prepared.code = "ok" /\ sent' = prepared.input
            /\ \/ Ends("failed")  \* or cancelled, timed out, blank
               \/ Completes(user, answer, messages, prepared.input)

\* ContextBudgetError: a message that alone is longer than the budget.
OverBudget ==
  /\ turns < MaxTurns /\ turns' = turns + 1
  /\ Ends("over_budget") /\ sent' = <<>>

Next ==
  \/ OverBudget
  \/ \E p \in Profiles : SwitchProfile(p)
  \/ \E text, reply \in Texts : Turn(text, reply)

Spec == Init /\ [][Next]_vars

-----------------------------------------------------------------------------
(* Properties.                                                             *)

Numbers(items) == [i \in DOMAIN items |-> items[i].n]

TypeOK ==
  /\ active \in Profiles /\ key \in 1..MaxOpens /\ turns \in 0..MaxTurns
  /\ Len(history) % 2 = 0
  /\ \A i \in DOMAIN history :
       history[i].role = IF i % 2 = 1 THEN "user" ELSE "assistant"
  /\ outcome \in {"none", "completed", "failed", "over_budget",
                  "invalid_continuation", "invalid_response"}

\* _prepare_request and build_request: what reaches the service is an
\* unbroken run of the conversation that ends with the message of the user,
\* each message once and in order, whichever mix of replayed items and
\* messages it is made of; also when texts repeat.
SentIsConversation ==
  sent # <<>> =>
    IsSuffix(Numbers(sent),
             IF outcome = "completed" THEN Front(Numbers(history))
                                      ELSE Append(Numbers(history), 2 * turns - 1))

\* _create_continuation: the continuation of the open Provider stands for an
\* unbroken run of the history that ends with an answer; its items and its
\* fingerprints describe the same messages.
ContinuationCoversHistory ==
  \A p \in OpenAI : continuations[p] # NoContinuation =>
    LET c == continuations[p]
        n == Last(c.items).n
        upto == SelectSeq(history, LAMBDA m : m.n <= n)
    IN  /\ Len(c.items) = Len(Consumed(c))
        /\ IsSuffix(Numbers(c.items), Numbers(upto))
        /\ IsSuffix(Consumed(c), Fingerprints(upto))
        /\ upto # <<>> /\ Last(upto).n = n

\* OpenAI Provider: the assistant answers this instance gave are replayed as
\* its own output items once a continuation is in use, never as plain text.
OwnAnswersReplayed ==
  (sent # <<>> /\ active \in OpenAI /\ continuations[active] # NoContinuation
     /\ continuations[active].key = key /\ outcome # "completed") =>
    \A i \in DOMAIN sent :
      (\E k \in DOMAIN continuations[active].items :
          continuations[active].items[k] = [item |-> "output", n |-> sent[i].n])
        => sent[i].item = "output"

\* docs/architecture/configuration.md: the next turn checks the fingerprints,
\* skips the repeated assistant text and replays the Provider's items.  So the
\* continuation an open Provider returned is not refused by that Provider.
NextTurnReplays ==
  [][(outcome' = "invalid_continuation" /\ active \in OpenAI) =>
       continuations[active].key # key]_vars
=============================================================================
