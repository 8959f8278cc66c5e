--------------------------- MODULE ProviderStream ---------------------------
(***************************************************************************)
(* One generate_stream() of OpenAIProvider or DeepSeekProvider: the events *)
(* the SDK wrapper delivers, the state the adapter keeps while it reads    *)
(* them, and the LLM events it yields.  The service is arbitrary: it sends *)
(* any event at any time, repeats and reorders them, raises or just ends.  *)
(* What the adapter does about its client and stream is ProviderResources. *)
(*                                                                         *)
(* Argument text is a sequence of fragments, each one unit of the limits   *)
(* _MAX_TOOL_ARGUMENT_BYTES and _MAX_TOOL_ARGUMENT_PARTS.                  *)
(***************************************************************************)
EXTENDS Integers, Sequences, FiniteSets, SequencesExt

CONSTANTS
  Adapters,       \* which adapters run: a subset of {"openai", "deepseek"}
  Index,          \* output_index values
  Ids,            \* item ids the service uses
  Fragments,      \* fragments of argument text
  MaxArgument,    \* limit of the adapter on one call's arguments
  MaxEvents       \* bound on the events of one stream

\* A missing item id.
NoId == ""

\* What the constants must satisfy.
StreamAssumption ==
  /\ Adapters \subseteq {"openai", "deepseek"}
  /\ NoId \notin Ids /\ MaxArgument \in Nat /\ MaxEvents \in Nat

VARIABLES
  adapter,    \* the adapter of this request
  phase,      \* "reading", "retiring", then "over"
  log,        \* what the service sent, in order
  queued,     \* events of a chunk not read yet (OfficialDeepSeekStream._pending)
  terminal,   \* terminal_kind
  failure,    \* failure_code; "none"
  outputSeen, \* output_seen, or text_seen
  items,      \* completion_output is not empty
  tools,      \* the _ToolAssembly of each output_index
  yielded     \* the LLM events yielded

streamVars == <<adapter, phase, log, queued, terminal, failure, outputSeen,
                items, tools, yielded>>

-----------------------------------------------------------------------------
(* Events as the SDK wrappers normalise them.                              *)

Arguments == UNION {[1..n -> Fragments] : n \in 0..(MaxArgument + 1)}

Plain(kind) == [kind |-> kind]

\* _normalize_stream_event.  "announced" is an added output item that is not
\* a function call; "closing" is other metadata whose type looks terminal.
OpenAIEvents ==
  {Plain(k) : k \in {"text", "empty", "announced", "metadata", "closing",
                     "failed", "completed", "completed_items"}}
  \cup [kind : {"added"}, index : Index, id : Ids \cup {NoId}]
  \cup [kind : {"delta"}, index : Index, id : Ids \cup {NoId},
        text : UNION {[1..n -> Fragments] : n \in 0..1}]
  \cup [kind : {"done"}, index : Index, id : Ids \cup {NoId}, text : Arguments]

\* A ChatCompletionChunk: content and finish_reason of its only choice.
FinishReasons == {"none", "stop", "length", "content_filter", "tool_calls",
                  "insufficient_system_resource", "other"}

Chunks == [content : BOOLEAN, finish : FinishReasons]

\* _terminal_event
TerminalEvent(finish) ==
  [kind |-> IF finish = "stop" THEN "completed" ELSE "failed",
   code |-> CASE finish = "length"         -> "output_budget_exhausted"
              [] finish = "content_filter" -> "content_filtered"
              [] finish = "tool_calls"     -> "unsupported_capability"
              [] finish = "insufficient_system_resource"
                                           -> "provider_unavailable"
              [] finish = "stop"           -> "none"
              [] OTHER                     -> "invalid_response"]

\* _normalize_chunk.  A chunk that is malformed raises: see Raises.
NormalizeChunk(chunk) ==
  LET text == IF chunk.content THEN <<Plain("text")>> ELSE <<>>
      end  == IF chunk.finish = "none" THEN <<>>
                                       ELSE <<TerminalEvent(chunk.finish)>>
  IN  IF text \o end = <<>> THEN <<Plain("metadata")>> ELSE text \o end

-----------------------------------------------------------------------------
(* Tool assemblies.                                                        *)

NoTool == [id |-> NoId, parts |-> <<>>, completed |-> FALSE]

Known(index) == tools[index].id # NoId

\* The entry an event after the first must match.
Matches(event) ==
  /\ Known(event.index)
  /\ ~tools[event.index].completed
  /\ tools[event.index].id = event.id

\* _start_tool
StartTool(event) == ~Known(event.index) /\ event.id # NoId

\* _append_tool_arguments: an empty delta passes every limit.
AppendToolArguments(event) ==
  /\ Matches(event)
  /\ Len(tools[event.index].parts) + Len(event.text) <= MaxArgument

\* _strict_json_object: only text that begins as an object parses as one.
StrictJsonObject(text) ==
  /\ text # <<>> /\ Len(text) <= MaxArgument
  /\ Head(text) = "{"

\* _finish_tool: the final text must be what the deltas added up to.
FinishTool(event) ==
  /\ Matches(event)
  /\ \/ tools[event.index].parts = <<>>
     \/ tools[event.index].parts = event.text
  /\ StrictJsonObject(event.text)

-----------------------------------------------------------------------------
(* Reading.                                                                *)

StreamInit ==
  /\ adapter \in Adapters
  /\ phase = "reading" /\ log = <<>> /\ queued = <<>>
  /\ terminal = "none" /\ failure = "none"
  /\ outputSeen = FALSE /\ items = FALSE
  /\ tools = [i \in Index |-> NoTool]
  /\ yielded = <<>>

Yield(event) == yielded' = Append(yielded, event)

Receive(event) ==
  /\ phase = "reading" /\ Len(log) < MaxEvents
  /\ log' = Append(log, event)

\* failure_code = ...; break
Break(code) ==
  /\ failure' = code /\ phase' = "retiring"
  /\ UNCHANGED <<terminal, outputSeen, items, tools, yielded>>

Skip == UNCHANGED <<phase, terminal, failure, outputSeen, items, tools,
                    yielded>>

ReadText ==
  /\ outputSeen' = TRUE /\ Yield(Plain("text"))
  /\ UNCHANGED <<phase, terminal, failure, items, tools>>

\* Seeded fault: events after the terminal one are skipped.
AfterTerminalSkipped(event) == Skip

\* Once a terminal event was read only harmless metadata may follow.
AfterTerminal(event) ==
  IF event.kind \in {"metadata", "announced"} THEN Skip
                                              ELSE Break("invalid_response")

ReadTerminal(kind, code, withItems) ==
  /\ terminal' = kind /\ failure' = code /\ items' = withItems
  /\ UNCHANGED <<phase, outputSeen, tools, yielded>>

ReadAnnounced ==
  /\ outputSeen' = TRUE
  /\ UNCHANGED <<phase, terminal, failure, items, tools, yielded>>

ReadAdded(event) ==
  IF ~StartTool(event) THEN Break("invalid_response")
  ELSE /\ tools' = [tools EXCEPT ![event.index].id = event.id]
       /\ UNCHANGED <<phase, terminal, failure, outputSeen, items, yielded>>

ReadDelta(event) ==
  IF ~AppendToolArguments(event) THEN Break("invalid_response")
  ELSE /\ tools' = [tools EXCEPT ![event.index].parts = @ \o event.text]
       /\ UNCHANGED <<phase, terminal, failure, outputSeen, items, yielded>>

ReadDone(event) ==
  IF ~FinishTool(event) THEN Break("invalid_response")
  ELSE /\ tools' = [tools EXCEPT ![event.index].completed = TRUE]
       /\ outputSeen' = TRUE
       /\ Yield([kind |-> "call", index |-> event.index, text |-> event.text])
       /\ UNCHANGED <<phase, terminal, failure, items>>

\* One turn of the async for of OpenAIProvider.generate_stream.
OpenAIReads(event) ==
  /\ adapter = "openai" /\ Receive(event)
  /\ UNCHANGED <<adapter, queued>>
  /\ IF terminal # "none" THEN AfterTerminal(event)
     ELSE CASE event.kind \in {"metadata", "empty"} -> Skip
            [] event.kind = "announced" -> ReadAnnounced
            [] event.kind = "text"      -> ReadText
            [] event.kind = "added"     -> ReadAdded(event)
            [] event.kind = "delta"     -> ReadDelta(event)
            [] event.kind = "done"      -> ReadDone(event)
            [] event.kind = "closing"   -> ReadTerminal("failed", "none", FALSE)
            [] event.kind = "failed"    ->
                 \E code \in {"provider_unavailable", "output_budget_exhausted"} :
                   ReadTerminal("failed", code, FALSE)
            [] event.kind = "completed" -> ReadTerminal("completed", "none", FALSE)
            [] event.kind = "completed_items" ->
                 ReadTerminal("completed", "none", TRUE)

\* OfficialDeepSeekStream.__anext__ with nothing pending: the next chunk.
NextChunk(chunk) ==
  /\ adapter = "deepseek" /\ queued = <<>> /\ Receive(chunk)
  /\ queued' = NormalizeChunk(chunk)
  /\ UNCHANGED <<adapter, phase, terminal, failure, outputSeen, items, tools,
                 yielded>>

\* One turn of the async for of DeepSeekProvider.generate_stream.
DeepSeekReads ==
  /\ adapter = "deepseek" /\ phase = "reading" /\ queued # <<>>
  /\ LET event == Head(queued) IN
       CASE event.kind = "metadata" -> Skip
         [] event.kind # "metadata" /\ terminal # "none" ->
              Break("invalid_response")
         [] event.kind = "text" /\ terminal = "none" -> ReadText
         [] event.kind \in {"completed", "failed"} /\ terminal = "none" ->
              ReadTerminal(event.kind, event.code, FALSE)
  /\ queued' = Tail(queued)
  /\ UNCHANGED <<adapter, log>>

-----------------------------------------------------------------------------
(* Leaving the loop.                                                       *)

\* StopAsyncIteration
ServiceEnds ==
  /\ phase = "reading" /\ queued = <<>>
  /\ phase' = "retiring"
  /\ UNCHANGED <<adapter, log, queued, terminal, failure, outputSeen, items,
                 tools, yielded>>

\* An exception of the SDK or of the normalisation, under its mapped code.
Raises ==
  /\ phase = "reading" /\ queued = <<>>
  /\ \E code \in {"invalid_response", "provider_unavailable"} : Break(code)
  /\ UNCHANGED <<adapter, log, queued>>

\* The task reading is cancelled: the exception passes, nothing is yielded.
Cancelled ==
  /\ phase \in {"reading", "retiring"}
  /\ phase' = "cancelled"
  /\ UNCHANGED <<adapter, log, queued, terminal, failure, outputSeen, items,
                 tools, yielded>>

\* What is yielded last, in the order the code decides it.
Verdict(closed) ==
  CASE failure # "none" -> failure
    [] failure = "none" /\ ~closed -> "provider_unavailable"
    [] failure = "none" /\ closed /\ terminal = "failed" -> "provider_unavailable"
    [] failure = "none" /\ closed /\ terminal = "none" -> "invalid_response"
    [] OTHER -> IF /\ \A i \in Index : Known(i) => tools[i].completed
                   /\ outputSeen \/ items
                THEN "completed" ELSE "invalid_response"

\* The continuation cannot be encoded (an item of an unknown kind, too many
\* items, too much state): _create_continuation returns None.
CreateContinuation(verdict) ==
  IF verdict = "completed" /\ adapter = "openai"
  THEN {"completed", "invalid_response"} ELSE {verdict}

\* _retire_stream, and the code after the try statement.
Finish ==
  /\ phase = "retiring"
  /\ \E closed \in BOOLEAN : \E v \in CreateContinuation(Verdict(closed)) :
       Yield([kind |-> v])
  /\ phase' = "over"
  /\ UNCHANGED <<adapter, log, queued, terminal, failure, outputSeen, items,
                 tools>>

StreamNext ==
  \/ \E event \in OpenAIEvents : OpenAIReads(event)
  \/ \E chunk \in Chunks : NextChunk(chunk)
  \/ DeepSeekReads \/ ServiceEnds \/ Raises \/ Cancelled \/ Finish

StreamSpec == StreamInit /\ [][StreamNext]_streamVars

-----------------------------------------------------------------------------
(* Properties.                                                             *)

Codes == {"provider_unavailable", "output_budget_exhausted",
          "invalid_response", "content_filtered", "unsupported_capability"}

StreamTypeOK ==
  /\ adapter \in Adapters
  /\ phase \in {"reading", "retiring", "cancelled", "over"}
  /\ terminal \in {"none", "completed", "failed"}
  /\ failure \in Codes \cup {"none"}
  /\ outputSeen \in BOOLEAN /\ items \in BOOLEAN
  /\ \A i \in Index : /\ tools[i].id \in Ids \cup {NoId}
                      /\ Len(tools[i].parts) <= MaxArgument
  /\ Len(yielded) <= MaxEvents + 2

Positions(kind) == {n \in DOMAIN log : log[n].kind = kind}

Completed == yielded # <<>> /\ Last(yielded).kind = "completed"

\* generate_stream: a completion is only reported for a response the service
\* completed, once, without a failure before or after it, and with every
\* function call it announced delivered.
CompletedOnlyIfComplete ==
  (adapter = "openai" /\ Completed) =>
    LET ends == Positions("completed") \cup Positions("completed_items") IN
      /\ \E n \in ends : ends = {n}
      /\ Positions("failed") = {} /\ Positions("closing") = {}
      /\ \A n \in Positions("added") :
           \E m \in DOMAIN yielded : /\ yielded[m].kind = "call"
                                     /\ yielded[m].index = log[n].index

\* generate_stream: a completed answer has some output; a DeepSeek answer has
\* text, and finish_reason "stop" exactly once and in the last chunk that
\* carries anything.
CompletedHasOutput ==
  Completed =>
    IF adapter = "openai"
    THEN \/ \E n \in DOMAIN yielded : yielded[n].kind \in {"text", "call"}
         \/ Positions("announced") # {} \/ Positions("completed_items") # {}
    ELSE /\ \E n \in DOMAIN yielded : yielded[n].kind = "text"
         /\ \E n \in DOMAIN log :
              /\ log[n].finish = "stop"
              /\ \A m \in DOMAIN log \ {n} : log[m].finish = "none"
              /\ \A m \in (n + 1)..Len(log) : ~log[m].content

\* The fragments for a call among the first n events the service sent.
Deltas(events, index, n) ==
  {k \in 1..n : /\ events[k].kind = "delta" /\ events[k].index = index
                /\ events[k].text # <<>>}

\* The text consists of them, in their order.
IsStreamed(text, events, index, n) ==
  /\ Len(text) = Cardinality(Deltas(events, index, n))
  /\ \A k \in Deltas(events, index, n) :
       text[Cardinality(Deltas(events, index, k))] = Head(events[k].text)

\* _start_tool, _append_tool_arguments and _finish_tool: a call is yielded at
\* most once for an output item, only after the item was announced, and its
\* arguments are the ones streamed for that item.
CallsAsStreamed ==
  \A m \in DOMAIN yielded : yielded[m].kind = "call" =>
    /\ \A k \in DOMAIN yielded \ {m} :
         yielded[k].kind = "call" => yielded[k].index # yielded[m].index
    /\ \E n \in Positions("done") :
         /\ log[n].index = yielded[m].index /\ log[n].text = yielded[m].text
         /\ \E a \in Positions("added") : /\ a < n /\ log[a].id = log[n].id
                                          /\ log[a].index = log[n].index
         /\ \E text \in {<<>>, log[n].text} : IsStreamed(text, log, log[n].index, n)

Terminals == {n \in DOMAIN yielded : yielded[n].kind \notin {"text", "call"}}

\* generate_stream: the consumer of a stream that was not cancelled gets
\* exactly one completion or failure, after all text and calls, and none
\* before the service's stream has been retired.
OneTerminalLast == Terminals = IF phase = "over" THEN {Len(yielded)} ELSE {}

\* A stream, whatever the service sends: one terminal event, last; completion
\* only for a completed answer with output; calls as they were streamed.
StreamIsSound ==
  /\ StreamTypeOK /\ OneTerminalLast /\ CompletedOnlyIfComplete
  /\ CompletedHasOutput /\ CallsAsStreamed

\* No text and no call is passed on once the service sent its terminal event.
NothingAfterTerminal ==
  terminal # "none" => \/ yielded' = yielded \/ phase' = "over"
=============================================================================
