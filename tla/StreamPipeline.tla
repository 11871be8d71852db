--------------------------- MODULE StreamPipeline ---------------------------
(***************************************************************************)
(* The translation of one upstream chat-completions stream into Anthropic  *)
(* events: core/pipeline.py and the chain of core/processors.py            *)
(*                                                                         *)
(*   Metadata -> Text -> Tool -> Safety -> Finalizer                       *)
(*                                                                         *)
(* with the loop of routes/messages.py that feeds it.  The processors are  *)
(* generators, consumed lazily: stage says which part of which processor   *)
(* runs next, out holds the events it has yielded and the client has not   *)
(* received yet, and nothing advances before the client has received them. *)
(*                                                                         *)
(* Text is one token per fragment; tool arguments are counted in           *)
(* fragments; a chunk says which fields of the delta are present.          *)
(***************************************************************************)
EXTENDS Integers, Sequences, FiniteSets

CONSTANTS
  Chunks,            \* the chunks the upstream may send
  MaxChunks,         \* bound: chunks in one stream
  MaxTools,          \* bound: tool_calls[].index is below this
  Declared,          \* tool names ToolInvocationController.is_declared accepts
  MaxHallucinations, \* SafetyProcessor.max_hallucinations
  MaxRepetitions,    \* SafetyProcessor.max_repetitions
  NamesKept,         \* length of _last_tool_names (10)
  MinNames,          \* names seen before the loop check applies (4)
  RecentWindow,      \* names the loop check looks at (6)
  RepeatsInWindow    \* occurrences of one name in the window (4)

Tools == 0..(MaxTools - 1)
NoName == ""       \* a name that is null or empty
Absent == "absent" \* the key is missing from the delta
Given == "given"   \* the id is there, and neither null nor empty
FinishReasons == {"none", "stop", "length", "tool_calls", "content_filter"}

\* One element of delta.tool_calls, and one chunk.  An id that is there but
\* null or empty is "null".
ToolDelta(index, id, name, args) ==
  [index |-> index, id |-> id, name |-> name, args |-> args]

ChunkType ==
  [choices : BOOLEAN, usage : BOOLEAN, tokens : Nat,
   image : BOOLEAN, reasoning : BOOLEAN, text : {"none", "plain", "tag"},
   tools : Seq([index : Tools, id : {Absent, "null", Given}, name : STRING, args : BOOLEAN]),
   finish : FinishReasons]

ASSUME PipelineAssumption ==
  /\ MaxChunks \in Nat
  /\ MaxTools \in Nat
  /\ Chunks \subseteq ChunkType
  /\ Declared \subseteq STRING \ {NoName, Absent}
  /\ {MaxHallucinations, MaxRepetitions, NamesKept, MinNames, RecentWindow,
      RepeatsInWindow} \subseteq Nat \ {0}

VARIABLES
  \* the loop over the upstream queue
  stage, chunk, received, k,
  \* core/events.py StreamState
  nextIndex, openType, openIndex, started, finished, stopReason,
  usageOutput, accumulatedText, accumulatedToolJson,
  \* ToolProcessor
  accumulators, streamingTool,
  \* SafetyProcessor
  lastToolNames, repetitionCount, hallucinationCount,
  \* the wire and the client
  out, client,
  \* history: has the upstream sent content while a tool block was open, or
  \* failed after its finish chunk?
  irregular

loopVars == <<chunk, received>>
blockVars == <<nextIndex, openType, openIndex>>
flagVars == <<started, finished, stopReason>>
countVars == <<usageOutput, accumulatedText, accumulatedToolJson>>
toolVars == <<accumulators, streamingTool>>
safetyVars == <<lastToolNames, repetitionCount, hallucinationCount>>
vars == <<stage, k, loopVars, blockVars, flagVars, countVars, toolVars,
          safetyVars, out, client, irregular>>

-----------------------------------------------------------------------------
(***************************************************************************)
(* Events.  amount is the number of argument fragments of an               *)
(* input_json_delta, and the output tokens of a message_delta.             *)
(***************************************************************************)
Event(event, index, kind, amount) ==
  [event |-> event, index |-> index, kind |-> kind, amount |-> amount]

MessageStart == Event("message_start", 0, "none", 0)
BlockStart(i, kind) == Event("content_block_start", i, kind, 0)
Delta(i, kind, n) == Event("content_block_delta", i, kind, n)
BlockStop(i) == Event("content_block_stop", i, "none", 0)
MessageDelta(reason, tokens) == Event("message_delta", 0, reason, tokens)
MessageStop == Event("message_stop", 0, "none", 0)
ErrorEvent == Event("error", 0, "none", 0)

(***************************************************************************)
(* The Anthropic SDK: it builds the message from the events and trusts     *)
(* their indexes.                                                          *)
(***************************************************************************)
HasBlock(c, i) == i + 1 \in DOMAIN c.content

Received(c, e) ==
  CASE e.event = "message_start" -> [c EXCEPT !.phase = "streaming", !.last = e]
    [] e.event = "content_block_start" ->
         [c EXCEPT !.last = e,
                   !.content = Append(@, [kind |-> e.kind, closed |-> FALSE, amount |-> 0])]
    [] e.event = "content_block_delta" /\ HasBlock(c, e.index) ->
         [c EXCEPT !.last = e, !.content[e.index + 1].amount = @ + e.amount]
    [] e.event = "content_block_stop" /\ HasBlock(c, e.index) ->
         [c EXCEPT !.last = e, !.content[e.index + 1].closed = TRUE]
    [] e.event = "message_delta" -> [c EXCEPT !.last = e, !.phase = "closing",
                                              !.stop = e.kind, !.tokens = e.amount]
    [] e.event = "message_stop" -> [c EXCEPT !.last = e, !.phase = "stopped"]
    [] e.event = "error" -> [c EXCEPT !.last = e, !.phase = "failed"]
    [] OTHER -> [c EXCEPT !.last = e]

NewClient == [phase |-> "none", content |-> <<>>, stop |-> "none", tokens |-> 0,
              last |-> Event("none", 0, "none", 0)]

-----------------------------------------------------------------------------
NoChunk == [choices |-> FALSE, usage |-> FALSE, tokens |-> 0, image |-> FALSE,
            reasoning |-> FALSE, text |-> "none", tools |-> <<>>, finish |-> "none"]

\* known is history: has the call ever had an id and a declared name?  No
\* guard reads it.
NewAccumulator == [seen |-> FALSE, id |-> FALSE, name |-> NoName, args |-> 0,
                   anthIndex |-> 0, started |-> FALSE, closed |-> FALSE, known |-> FALSE]

\* gen() sends message_start itself and sets started; the pipeline on its own
\* starts the message.
Init ==
  /\ stage = "receive" /\ chunk = NoChunk /\ received = 0 /\ k = 0
  /\ nextIndex = 0 /\ openType = "none" /\ openIndex = 0
  /\ started \in BOOLEAN /\ finished = FALSE /\ stopReason = "end_turn"
  /\ usageOutput = 0 /\ accumulatedText = 0 /\ accumulatedToolJson = 0
  /\ accumulators = [i \in Tools |-> NewAccumulator]
  /\ streamingTool = -1
  /\ lastToolNames = <<>> /\ repetitionCount = 0 /\ hallucinationCount = 0
  /\ out = IF started THEN <<MessageStart>> ELSE <<>>
  /\ client = NewClient
  /\ irregular = FALSE

\* The stage runs only when the client has taken every event yielded so far.
Runs(s) == stage = s /\ out = <<>>

Sends(events) == out' = events /\ UNCHANGED client
Yield(events) == Sends(events) /\ UNCHANGED irregular

Deliver ==
  /\ out # <<>>
  /\ client' = Received(client, Head(out))
  /\ out' = Tail(out)
  /\ UNCHANGED <<stage, k, loopVars, blockVars, flagVars, countVars, toolVars, safetyVars,
                 irregular>>

-----------------------------------------------------------------------------
(***************************************************************************)
(* The loop of gen() and Pipeline.feed.                                    *)
(***************************************************************************)
HasContent(c) == c.image \/ c.reasoning \/ c.text # "none"

Receive(c) ==
  /\ Runs("receive")
  /\ received < MaxChunks
  /\ chunk' = c
  /\ received' = received + 1
  /\ stage' = "metadata"
  /\ k' = 0
  /\ irregular' = (irregular \/ (HasContent(c) /\ openType = "tool_use"))
  /\ Sends(<<>>)
  /\ UNCHANGED <<blockVars, flagVars, countVars, toolVars, safetyVars>>

\* SENTINEL: the upstream stream ended without an error.
UpstreamEnds ==
  /\ Runs("receive")
  /\ stage' = "finalize"
  /\ Yield(<<>>)
  /\ UNCHANGED <<k, loopVars, blockVars, flagVars, countVars, toolVars, safetyVars>>

\* ("__error__", exc) after the first item: an error event, then return.
UpstreamFails ==
  /\ Runs("receive")
  /\ received > 0
  /\ stage' = "end"
  /\ irregular' = (irregular \/ finished)
  /\ Sends(<<ErrorEvent>>)
  /\ UNCHANGED <<k, loopVars, blockVars, flagVars, countVars, toolVars, safetyVars>>

\* MetadataProcessor.process with _ensure_started.  A finished stream ignores
\* the chunk; a chunk without choices concerns no other processor.
Metadata ==
  /\ Runs("metadata")
  /\ stage' = IF finished \/ ~chunk.choices THEN "receive" ELSE "image"
  /\ started' = (started \/ ~finished)
  /\ Yield(IF started \/ finished THEN <<>> ELSE <<MessageStart>>)
  /\ usageOutput' = IF ~finished /\ ~chunk.choices /\ chunk.usage
                      THEN chunk.tokens ELSE usageOutput
  /\ UNCHANGED <<k, loopVars, blockVars, finished, stopReason, accumulatedText,
                 accumulatedToolJson, toolVars, safetyVars>>

-----------------------------------------------------------------------------
(***************************************************************************)
(* BaseProcessor._close_open_block.                                        *)
(***************************************************************************)
\* Mutant: a thinking block is closed without its signature.
CloseUnsigned ==
  IF openType = "none" THEN <<>> ELSE <<BlockStop(openIndex)>>

CloseOpenBlock ==
  CASE openType = "none" -> <<>>
    [] openType = "thinking" -> <<Delta(openIndex, "signature_delta", 0), BlockStop(openIndex)>>
    [] OTHER -> <<BlockStop(openIndex)>>

\* TextProcessor: images, then reasoning, then text.
ImageEvents == CloseOpenBlock \o <<BlockStart(nextIndex, "image"), BlockStop(nextIndex)>>

Image ==
  /\ Runs("image")
  /\ stage' = "reasoning"
  /\ IF chunk.image
       THEN /\ Yield(ImageEvents)
            /\ nextIndex' = nextIndex + 1
            /\ openType' = "none" /\ openIndex' = 0
       ELSE Yield(<<>>) /\ UNCHANGED blockVars
  /\ UNCHANGED <<k, loopVars, flagVars, countVars, toolVars, safetyVars>>

\* Send one fragment to the block of this kind, opening it when another one,
\* or none, is open (_handle_reasoning, _handle_text, _open_block).
StreamInto(kind, delta) ==
  IF openType = kind
    THEN Yield(<<Delta(openIndex, delta, 0)>>) /\ UNCHANGED blockVars
    ELSE /\ Yield(CloseOpenBlock
                    \o <<BlockStart(nextIndex, kind), Delta(nextIndex, delta, 0)>>)
         /\ nextIndex' = nextIndex + 1
         /\ openType' = kind /\ openIndex' = nextIndex

\* thinking_budget_hit is never set on this path, so reasoning is never cut.
Reasoning ==
  /\ Runs("reasoning")
  /\ stage' = "text"
  /\ IF chunk.reasoning
       THEN StreamInto("thinking", "thinking_delta")
       ELSE Yield(<<>>) /\ UNCHANGED blockVars
  /\ UNCHANGED <<k, loopVars, flagVars, countVars, toolVars, safetyVars>>

Text ==
  /\ Runs("text")
  /\ stage' = "tool"
  /\ k' = 1
  /\ IF chunk.text # "none"
       THEN StreamInto("text", "text_delta") /\ accumulatedText' = accumulatedText + 1
       ELSE Yield(<<>>) /\ UNCHANGED <<blockVars, accumulatedText>>
  /\ UNCHANGED <<loopVars, flagVars, usageOutput, accumulatedToolJson, toolVars, safetyVars>>

-----------------------------------------------------------------------------
(***************************************************************************)
(* ToolProcessor.process: one step per element of tool_calls.              *)
(***************************************************************************)
\* setdefault, then the id and the name of this delta: a key that is there
\* overwrites what an earlier delta said, with null or empty as well.
Merged(acc, tc) ==
  LET id == IF tc.id = Absent THEN acc.id ELSE tc.id = Given
      name == IF tc.name = Absent THEN acc.name ELSE tc.name
  IN [acc EXCEPT !.seen = TRUE, !.id = id, !.name = name,
                 !.known = @ \/ (id /\ name \in Declared)]

Claimant(tc) == IF streamingTool = -1 THEN tc.index ELSE streamingTool

MayStart(acc, tc) ==
  Claimant(tc) = tc.index /\ ~acc.started /\ acc.id /\ acc.name # NoName

\* Mutant: the arguments buffered before the block opened are forgotten.
StartWithoutBuffered(acc) == CloseOpenBlock \o <<BlockStart(nextIndex, "tool_use")>>

StartEvents(acc) ==
  CloseOpenBlock \o <<BlockStart(nextIndex, "tool_use")>>
    \o IF acc.args > 0 THEN <<Delta(nextIndex, "input_json_delta", acc.args)>> ELSE <<>>

ToolCall ==
  /\ Runs("tool")
  /\ k <= Len(chunk.tools)
  /\ LET tc == chunk.tools[k]
         acc == Merged(accumulators[tc.index], tc)
         starts == MayStart(acc, tc) /\ acc.name \in Declared
         index == IF starts THEN nextIndex ELSE acc.anthIndex
         streams == /\ Claimant(tc) = tc.index
                    /\ acc.started \/ starts
                    /\ ~acc.closed
                    /\ tc.args
     IN /\ streamingTool' = IF MayStart(acc, tc) /\ ~starts THEN -1 ELSE Claimant(tc)
        /\ Yield((IF starts THEN StartEvents(acc) ELSE <<>>)
                   \o IF streams THEN <<Delta(index, "input_json_delta", 1)>> ELSE <<>>)
        /\ IF starts
             THEN nextIndex' = nextIndex + 1 /\ openType' = "tool_use" /\ openIndex' = nextIndex
             ELSE UNCHANGED blockVars
        /\ accumulatedToolJson' = accumulatedToolJson + (IF streams THEN 1 ELSE 0)
        /\ accumulators' = [accumulators EXCEPT ![tc.index] =
             [acc EXCEPT !.started = @ \/ starts, !.anthIndex = index,
                         !.args = @ + (IF tc.args THEN 1 ELSE 0)]]
  /\ k' = k + 1
  /\ UNCHANGED <<stage, loopVars, flagVars, usageOutput, accumulatedText, safetyVars>>

Flushes ==
  \/ chunk.finish = "tool_calls"
  \/ chunk.finish = "stop" /\ \E i \in Tools : accumulators[i].seen

\* After the loop: every argument fragment of the chunk is counted (again),
\* and a finish reason that ends tool calls flushes the accumulators.
ToolTail ==
  /\ Runs("tool")
  /\ k > Len(chunk.tools)
  /\ accumulatedToolJson' = accumulatedToolJson
       + Cardinality({i \in DOMAIN chunk.tools : chunk.tools[i].args})
  /\ stage' = IF Flushes THEN "flush" ELSE "safety"
  /\ k' = 0
  /\ Yield(<<>>)
  /\ UNCHANGED <<loopVars, blockVars, flagVars, usageOutput, accumulatedText, toolVars, safetyVars>>

\* _flush_tool for the accumulator with index k.
Flushable(acc) == acc.seen /\ ~acc.closed /\ acc.id /\ acc.name # NoName

FlushStarted(acc) ==
  /\ acc.started
  /\ accumulators' = [accumulators EXCEPT ![k].closed = TRUE]
  /\ IF openType = "tool_use" /\ openIndex = acc.anthIndex
       THEN Yield(CloseOpenBlock) /\ openType' = "none" /\ openIndex' = 0
       ELSE Yield(<<>>) /\ UNCHANGED <<openType, openIndex>>
  /\ UNCHANGED nextIndex

FlushWhole(acc) ==
  /\ ~acc.started
  /\ acc.name \in Declared
  /\ accumulators' = [accumulators EXCEPT
                        ![k] = [@ EXCEPT !.started = TRUE, !.closed = TRUE, !.anthIndex = nextIndex]]
  /\ Yield(CloseOpenBlock \o <<BlockStart(nextIndex, "tool_use"),
                               Delta(nextIndex, "input_json_delta", acc.args),
                               BlockStop(nextIndex)>>)
  /\ nextIndex' = nextIndex + 1
  /\ openType' = "none" /\ openIndex' = 0

FlushDropped(acc) ==
  /\ ~Flushable(acc) \/ (~acc.started /\ acc.name \notin Declared)
  /\ Yield(<<>>)
  /\ UNCHANGED <<accumulators, blockVars>>

FlushTool ==
  /\ Runs("flush")
  /\ k \in Tools
  /\ LET acc == accumulators[k]
     IN \/ Flushable(acc) /\ (FlushStarted(acc) \/ FlushWhole(acc))
        \/ FlushDropped(acc)
  /\ k' = k + 1
  /\ UNCHANGED <<stage, loopVars, flagVars, countVars, streamingTool, safetyVars>>

FlushDone ==
  /\ Runs("flush")
  /\ k \notin Tools
  /\ stage' = "safety"
  /\ k' = 0
  /\ Yield(<<>>)
  /\ UNCHANGED <<loopVars, blockVars, flagVars, countVars, toolVars, safetyVars>>

-----------------------------------------------------------------------------
(***************************************************************************)
(* SafetyProcessor: hallucinated tags in the text, then repeated names.    *)
(***************************************************************************)
StopHere(stop) ==
  /\ finished' = (finished \/ stop)
  /\ stopReason' = IF stop THEN "end_turn" ELSE stopReason

SafetyText ==
  /\ Runs("safety")
  /\ k = 0
  /\ hallucinationCount' = hallucinationCount + (IF chunk.text = "tag" THEN 1 ELSE 0)
  /\ StopHere(chunk.text = "tag" /\ hallucinationCount' >= MaxHallucinations)
  /\ k' = 1
  /\ Yield(<<>>)
  /\ UNCHANGED <<stage, loopVars, blockVars, started, countVars, toolVars,
                 lastToolNames, repetitionCount>>

LastOf(s, n) == IF Len(s) <= n THEN s ELSE SubSeq(s, Len(s) - n + 1, Len(s))

Looping(names, name) ==
  LET recent == LastOf(names, RecentWindow)
  IN /\ Len(names) >= MinNames
     /\ Cardinality({recent[i] : i \in DOMAIN recent}) <= 2
     /\ Cardinality({i \in DOMAIN recent : recent[i] = name}) >= RepeatsInWindow

SafetyTool ==
  /\ Runs("safety")
  /\ k \in 1..Len(chunk.tools)
  /\ LET tc == chunk.tools[k]
         counted == tc.name \notin {Absent, NoName} /\ ~tc.args
         names == IF counted THEN LastOf(Append(lastToolNames, tc.name), NamesKept)
                  ELSE lastToolNames
         loops == counted /\ Looping(names, tc.name)
     IN /\ lastToolNames' = names
        /\ repetitionCount' = repetitionCount + (IF loops THEN 1 ELSE 0)
        /\ StopHere(loops /\ repetitionCount + 1 >= MaxRepetitions)
  /\ k' = k + 1
  /\ Yield(<<>>)
  /\ UNCHANGED <<stage, loopVars, blockVars, started, countVars, toolVars, hallucinationCount>>

\* Pipeline.feed: "break if a processor explicitly finished the stream".
SafetyDone ==
  /\ Runs("safety")
  /\ k > Len(chunk.tools)
  /\ stage' = IF finished THEN "receive" ELSE "finalizer"
  /\ k' = 0
  /\ Yield(<<>>)
  /\ UNCHANGED <<loopVars, blockVars, flagVars, countVars, toolVars, safetyVars>>

-----------------------------------------------------------------------------
(***************************************************************************)
(* FinalizerProcessor and Pipeline.finalize.                               *)
(***************************************************************************)
MapFinishReason ==
  [stop |-> "end_turn", length |-> "max_tokens", tool_calls |-> "tool_use",
   content_filter |-> "refusal"]

\* The output tokens of message_delta: upstream's figure, unless it is off by
\* more than 10% and below half of what was streamed.
Reconciled == accumulatedText + accumulatedToolJson
Distance(a, b) == IF a > b THEN a - b ELSE b - a

FinalOutput ==
  IF /\ usageOutput > 0
     /\ Distance(usageOutput, Reconciled) * 10 > usageOutput
     /\ usageOutput * 2 < Reconciled
  THEN Reconciled ELSE usageOutput

\* Mutant: message_stop is missing.
FinalEventsUnstopped(reason) == CloseOpenBlock \o <<MessageDelta(reason, FinalOutput)>>

FinalEvents(reason) ==
  CloseOpenBlock \o <<MessageDelta(reason, FinalOutput), MessageStop>>

Finalizer ==
  /\ Runs("finalizer")
  /\ stage' = "receive"
  /\ IF chunk.finish # "none"
       THEN /\ stopReason' = MapFinishReason[chunk.finish]
            /\ finished' = TRUE
            /\ openType' = "none" /\ openIndex' = 0
            /\ Yield(FinalEvents(stopReason'))
       ELSE Yield(<<>>) /\ UNCHANGED <<stopReason, finished, openType, openIndex>>
  /\ UNCHANGED <<k, loopVars, nextIndex, started, countVars, toolVars, safetyVars>>

\* Pipeline.finalize, after SENTINEL.
Finalize ==
  /\ Runs("finalize")
  /\ stage' = "end"
  /\ IF finished
       THEN Yield(<<>>) /\ UNCHANGED <<started, finished, openType, openIndex>>
       ELSE /\ started' = TRUE /\ finished' = TRUE
            /\ openType' = "none" /\ openIndex' = 0
            /\ Yield((IF started THEN <<>> ELSE <<MessageStart>>) \o FinalEvents(stopReason))
  /\ UNCHANGED <<k, loopVars, nextIndex, stopReason, countVars, toolVars, safetyVars>>

\* The generator has returned and the client has received everything.
Ended == Runs("end") /\ UNCHANGED vars

Step ==
  \/ UpstreamEnds \/ UpstreamFails \/ Metadata
  \/ Image \/ Reasoning \/ Text
  \/ ToolCall \/ ToolTail \/ FlushTool \/ FlushDone
  \/ SafetyText \/ SafetyTool \/ SafetyDone
  \/ Finalizer \/ Finalize

Next ==
  \/ \E c \in Chunks : Receive(c)
  \/ Step
  \/ Deliver
  \/ Ended

Spec == Init /\ [][Next]_vars

-----------------------------------------------------------------------------
(***************************************************************************)
(* Properties                                                              *)
(***************************************************************************)
\* What the client sees, as the abstract stream sees it.
ClientContent ==
  [i \in DOMAIN client.content |->
     [kind |-> client.content[i].kind, closed |-> client.content[i].closed]]

ClientLast ==
  [event |-> client.last.event, index |-> client.last.index,
   kind |-> IF client.last.event = "message_delta" THEN "none" ELSE client.last.kind]

Contract == INSTANCE AnthropicStream
  WITH lenient <- irregular, phase <- client.phase, content <- ClientContent,
       last <- ClientLast

Strict == INSTANCE AnthropicStream
  WITH lenient <- FALSE, phase <- client.phase, content <- ClientContent,
       last <- ClientLast

\* The events the client receives are a legal Anthropic stream.  When the
\* upstream goes on with content inside a tool call, input_json_delta events
\* may concern a tool block already closed, and when it fails after its finish
\* chunk an error follows message_stop; nothing else is ever wrong.
HonoursContract == Contract!StreamSpec

\* Whatever the upstream sends, the events the client receives are a legal
\* Anthropic stream.
AlwaysHonoursContract == Strict!StreamSpec

\* A tool block that was opened holds exactly the argument fragments received
\* for its tool, whether they were streamed, buffered before the block
\* opened, or flushed at the end (ToolProcessor.process, _flush_tool).
ArgumentsReachTheirBlock ==
  \A i \in Tools :
    accumulators[i].started /\ out = <<>> =>
      client.content[accumulators[i].anthIndex + 1].amount = accumulators[i].args

\* A later delta of the call had an id or a name of null, or a name that is
\* not declared, in place of the one that was known.
Overwritten(acc) == ~acc.id \/ acc.name \notin Declared

\* A response that stops for tool use has delivered and closed every tool call
\* that was given an id and a declared name, whatever order their deltas came
\* in, unless a later delta of that call overwrote the id or the name
\* (ToolProcessor.process, _flush_tool).
NoToolCallLost ==
  client.phase = "stopped" /\ client.stop = "tool_use" =>
    \A i \in Tools :
      accumulators[i].known /\ ~Overwritten(accumulators[i]) => accumulators[i].closed

\* The two together: tool calls arrive, and they arrive whole.  A call that is
\* overwritten while its block is open arrives as well, since its arguments
\* still reach the block; one that is overwritten while it is buffered is the
\* call that KnownCallsArrive loses.
ToolCallsArrive == ArgumentsReachTheirBlock /\ NoToolCallLost

\* Parallel tool calls are all reconstructed: a response that stops for tool
\* use has delivered every call that was ever given an id and a declared name.
KnownCallsArrive ==
  client.phase = "stopped" /\ client.stop = "tool_use" =>
    \A i \in Tools : accumulators[i].known => accumulators[i].started

\* Only SafetyProcessor leaves a response without its end.
OnlySafetyLeavesOpen ==
  Runs("end") /\ client.phase \notin {"stopped", "failed"} =>
    \/ hallucinationCount >= MaxHallucinations
    \/ repetitionCount >= MaxRepetitions

\* Usage from the final empty-choices chunk populates message_delta (unless
\* reconciliation replaces it).
UsageComesFromUpstream ==
  Runs("end") /\ client.phase = "stopped" /\ chunk.usage =>
    client.tokens \in {chunk.tokens, Reconciled}

=============================================================================
