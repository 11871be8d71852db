-------------------------- MODULE StreamTranslator --------------------------
(***************************************************************************)
(* StreamTranslator (translators/stream_translator.py): the translation of *)
(* an upstream stream in one class, the predecessor of StreamPipeline,     *)
(* with what the pipeline does not have: inline <think> tags and the       *)
(* holdback scanner that finds them across chunks, the thinking budget,    *)
(* and the blocking of undeclared and malformed tool calls.                *)
(*                                                                         *)
(* feed() runs to its end before the next chunk comes, so it is one step   *)
(* that turns the record t, the translator's fields, into the next one;    *)
(* t.out holds the events yielded.  Without a transformer chain.           *)
(*                                                                         *)
(* Data: text and tool arguments are sequences of pieces.  A tag consists  *)
(* of two or three pieces; "markup" stands for a hallucinated tool tag,    *)
(* before and after it is stripped; "a" for any other text; "notice" for   *)
(* the proxy's own messages; "r" for one character of reasoning.           *)
(***************************************************************************)
EXTENDS Integers, FiniteSets, Sequences, SequencesExt

CONSTANTS
  UpstreamChunks,    \* the chunks the upstream may send
  MaxChunks,         \* bound: chunks in one stream
  MaxTools,          \* bound: tool_calls[].index is below this
  Budgets,           \* values of budget_tokens, NoBudget standing for None
  Declared,          \* names _is_declared_tool_name accepts
  MaxHallucinations, \* _MAX_HALLUCINATIONS
  MaxRepetitions,    \* _MAX_REPETITIONS
  NamesKept,         \* length of _last_tool_names (10)
  MinNames,          \* names seen before the loop check applies (4)
  RecentWindow,      \* names the loop check looks at (6)
  RepeatsInWindow    \* occurrences of one name in the window (4)

Tools == 0..(MaxTools - 1)
NoName == ""
NoBudget == -1
NoTool == -1
CharsPerToken == 4

ThinkOpen == <<"<", "think>">>
ThinkClose == <<"<", "/", "think>">>

\* One element of delta.tool_calls, and one chunk.
ToolDelta(index, id, name, args) ==
  [index |-> index, id |-> id, name |-> name, args |-> args]

TextPieces == {"a", "<", "/", "think>", "markup"}

ChunkType ==
  [choices : BOOLEAN, image : BOOLEAN, reasoning : Nat, text : Seq(TextPieces),
   tools : Seq([index : Tools, id : BOOLEAN, name : STRING, args : Seq(STRING)]),
   finish : STRING]

NoChunk == [choices |-> FALSE, image |-> FALSE, reasoning |-> 0, text |-> <<>>,
            tools |-> <<>>, finish |-> "none"]

ASSUME TranslatorAssumption ==
  /\ {MaxChunks, MaxTools} \subseteq Nat
  /\ UpstreamChunks \subseteq ChunkType
  /\ \A c \in UpstreamChunks : c.choices \/ c = NoChunk
  /\ Declared \subseteq STRING \ {NoName}
  /\ Budgets \subseteq Nat \cup {NoBudget}
  /\ {MaxHallucinations, MaxRepetitions, NamesKept, MinNames, RecentWindow,
      RepeatsInWindow} \subseteq Nat \ {0}

VARIABLES
  t,         \* the fields of the translator, and the events on their way
  finalized, \* has finalize() been called?
  client,    \* what the SDK has built from the events
  \* history: chunks fed, the text and the characters of reasoning in them, has
  \* a finish chunk come, and has anything come where it does not belong?
  fed, sentText, sentReasoning, finishSeen, irregular

history == <<fed, sentText, sentReasoning, finishSeen, irregular>>
translatorVars == <<t, finalized, client, history>>

\* ToolBuf; at is anth_index.
NewBuf == [id |-> FALSE, name |-> NoName, args |-> <<>>, at |-> NoTool,
           started |-> FALSE, closed |-> FALSE]

NewTranslator(budget) ==
  [started |-> FALSE, finished |-> FALSE, next |-> 0, open |-> "none",
   byReasoning |-> FALSE, hold |-> <<>>, stop |-> "end_turn",
   budget |-> budget, thought |-> 0, budgetHit |-> FALSE,
   tools |-> [i \in Tools |-> NewBuf], streaming |-> NoTool,
   names |-> <<>>, repeated |-> 0, hallucinated |-> 0, out |-> <<>>]

NewClient == [phase |-> "none", content |-> <<>>,
              last |-> [event |-> "none", index |-> 0, kind |-> "none"]]

TranslatorInit ==
  /\ \E budget \in Budgets : t = NewTranslator(budget)
  /\ finalized = FALSE
  /\ client = NewClient
  /\ fed = 0 /\ sentText = <<>> /\ sentReasoning = 0
  /\ finishSeen = FALSE /\ irregular = FALSE
-----------------------------------------------------------------------------
(***************************************************************************)
(* Events and blocks.  The open block is always the one numbered last.     *)
(***************************************************************************)
Event(event, index, kind, tool, body) ==
  [event |-> event, index |-> index, kind |-> kind, tool |-> tool, body |-> body]

Emitted(u, events) == [u EXCEPT !.out = @ \o events]

Delta(u, kind, body) ==
  Emitted(u, <<Event("content_block_delta", u.next - 1, kind, NoTool, body)>>)

Signature(u) ==
  IF u.open = "thinking"
  THEN <<Event("content_block_delta", u.next - 1, "signature_delta", NoTool, <<>>)>>
  ELSE <<>>

\* Mutant: a thinking block is closed without its signature.
ClosedUnsigned(u) ==
  IF u.open = "none" THEN u
  ELSE [Emitted(u, <<Event("content_block_stop", u.next - 1, "none", NoTool, <<>>)>>)
          EXCEPT !.open = "none"]

\* The buffers, that of the open tool block marked closed.
ToolsClosed(u) ==
  [i \in Tools |-> [u.tools[i] EXCEPT
     !.closed = @ \/ (u.open = "tool_use" /\ u.tools[i].at = u.next - 1)]]

\* _close_any_open
Closed(u) ==
  IF u.open = "none" THEN u
  ELSE [Emitted(u, Signature(u)
                     \o <<Event("content_block_stop", u.next - 1, "none", NoTool, <<>>)>>)
          EXCEPT !.open = "none", !.tools = ToolsClosed(u)]

\* The open block is closed, and one of this kind opened.
Opened(u, kind, tool) ==
  LET v == Closed(u)
  IN  [Emitted(v, <<Event("content_block_start", v.next, kind, tool, <<>>)>>)
         EXCEPT !.open = kind, !.next = @ + 1]

\* Text goes to the open text block, or to a new one.
TextInto(u, body) ==
  Delta(IF u.open = "text" THEN u ELSE Opened(u, "text", NoTool), "text_delta", body)

Stopped(u) == [Closed(u) EXCEPT !.stop = "end_turn", !.finished = TRUE]

(***************************************************************************)
(* _emit_text_delta and _emit_thinking_delta.  The third piece of text     *)
(* with a hallucinated tag ends the stream, without message_delta.         *)
(***************************************************************************)
EmitText(u, body) ==
  LET count == u.hallucinated + (IF Contains(body, "markup") THEN 1 ELSE 0)
      v == [u EXCEPT !.hallucinated = count]
  IN  IF body = <<>> THEN u
      ELSE IF count > u.hallucinated /\ count >= MaxHallucinations
           THEN Stopped(TextInto(v, Append(body, "notice")))
           ELSE TextInto(v, body)

EmitThinking(u, body) == IF body = <<>> THEN u ELSE Delta(u, "thinking_delta", body)

(***************************************************************************)
(* _scan_text: tags are looked for in the text held back and the new one;  *)
(* an end that may become a tag is held back.                              *)
(***************************************************************************)
MaxTagPrefixSuffix(s, tag) ==
  CHOOSE k \in 0..(Len(tag) - 1) :
    /\ IsSuffix(SubSeq(tag, 1, k), s)
    /\ \A j \in (k + 1)..(Len(tag) - 1) : ~IsSuffix(SubSeq(tag, 1, j), s)

\* Mutant: what is held back is dropped when text was sent before it.
HeldBackLost(u, text, keep) ==
  LET body == SubSeq(text, 1, Len(text) - keep)
  IN  [IF u.open = "thinking" THEN EmitThinking(u, body) ELSE EmitText(u, body)
         EXCEPT !.hold = IF body = <<>> THEN text ELSE <<>>]

\* All but the last pieces are sent, the last ones kept.
HeldBack(u, text, keep) ==
  LET body == SubSeq(text, 1, Len(text) - keep)
  IN  [IF u.open = "thinking" THEN EmitThinking(u, body) ELSE EmitText(u, body)
         EXCEPT !.hold = SubSeq(text, Len(text) - keep + 1, Len(text))]

\* What a tag does to the block that is open.
AtTag(u) ==
  IF u.open = "thinking" THEN Closed(u)
  ELSE [Opened(u, "thinking", NoTool) EXCEPT !.byReasoning = FALSE]

\* One turn of the loop: u has come to text.
Turn(u, text) ==
  LET tag == IF u.open = "thinking" THEN ThinkClose ELSE ThinkOpen
      start == IndexFirstSubSeq(tag, text)
      before == HeldBack(u, SubSeq(text, 1, start - 1), 0)
  IN  IF text = <<>> THEN [u |-> u, text |-> <<>>]
      ELSE IF tag \notin SubSeqs(text)
           THEN [u |-> HeldBack(u, text, MaxTagPrefixSuffix(text, tag)), text |-> <<>>]
      ELSE IF before.finished THEN [u |-> before, text |-> <<>>]
      ELSE [u |-> AtTag(before), text |-> SubSeq(text, start + Len(tag), Len(text))]

\* The loop: a turn takes a tag off the text, or all of it.
Scanned(u, text) ==
  LET scan[n \in 0..Len(text)] ==
        IF n = 0 THEN [u |-> u, text |-> text] ELSE Turn(scan[n - 1].u, scan[n - 1].text)
  IN  scan[Len(text)].u

ScanText(u, text) ==
  LET v == IF u.open = "thinking" /\ u.byReasoning
           THEN [Closed(u) EXCEPT !.byReasoning = FALSE] ELSE u
  IN  IF text = <<>> THEN u ELSE Scanned([v EXCEPT !.hold = <<>>], v.hold \o text)
-----------------------------------------------------------------------------
(***************************************************************************)
(* The parts of feed(), in the order of the code.                          *)
(***************************************************************************)
Image(u, present) ==
  IF present
  THEN LET v == Opened(u, "image", NoTool)
       IN  [Emitted(v, <<Event("content_block_stop", v.next - 1, "none", NoTool, <<>>)>>)
              EXCEPT !.open = "none"]
  ELSE u

Within(u, n) ==
  LET left == CharsPerToken * u.budget - u.thought
  IN  IF u.budget = NoBudget \/ n < left THEN n ELSE IF left > 0 THEN left ELSE 0

\* A fragment of n characters; once the budget is used up thinking is closed.
Reasoning(u, n) ==
  LET v == IF u.open = "thinking" THEN u
           ELSE [Opened(u, "thinking", NoTool) EXCEPT !.byReasoning = TRUE]
      m == Within(u, n)
      w == [EmitThinking(v, [i \in 1..m |-> "r"]) EXCEPT
              !.thought = IF u.budget = NoBudget THEN @ ELSE @ + m]
  IN  IF n = 0 \/ u.budgetHit THEN u
      ELSE IF m < n THEN [Closed(w) EXCEPT !.budgetHit = TRUE]
      ELSE w

LastNames(names, n) ==
  SubSeq(names, (IF Len(names) > n THEN Len(names) - n ELSE 0) + 1, Len(names))

\* A tool name that comes without arguments, and most of the names seen last.
Loops(names, name) ==
  LET recent == LastNames(names, RecentWindow)
  IN  /\ Len(names) >= MinNames
      /\ Cardinality(ToSet(recent)) <= 2
      /\ Len(SelectSeq(recent, LAMBDA n : n = name)) >= RepeatsInWindow

NamesSeen(u, b, args) ==
  IF b.name # NoName /\ b.args = <<>> /\ args = <<>>
  THEN LET names == LastNames(Append(u.names, b.name), NamesKept)
       IN  [u EXCEPT !.names = names, !.repeated = @ + (IF Loops(names, b.name) THEN 1 ELSE 0)]
  ELSE u

\* Mutant: the arguments that came before the name are not sent.
StartedBare(u, i) ==
  LET v == Opened(u, "tool_use", i)
  IN  [v EXCEPT !.tools[i].at = v.next - 1, !.tools[i].started = TRUE]

\* The block of a tool opens with the arguments buffered so far.
Started(u, i) ==
  LET v == Opened(u, "tool_use", i)
      w == IF u.tools[i].args = <<>> THEN v ELSE Delta(v, "input_json_delta", u.tools[i].args)
  IN  [w EXCEPT !.tools[i].at = v.next - 1, !.tools[i].started = TRUE]

\* Only one tool is streamed at a time: the first, until it turns out to be
\* undeclared.  A block that was closed gets no more arguments.
Streamed(u, i, args) ==
  LET b == u.tools[i]
      ready == ~b.started /\ b.id /\ b.name # NoName
      v == IF u.streaming = NoTool THEN [u EXCEPT !.streaming = i] ELSE u
      w == IF ~ready THEN v
           ELSE IF b.name \in Declared THEN Started(v, i)
           ELSE [v EXCEPT !.streaming = NoTool]
  IN  IF v.streaming # i THEN v
      ELSE IF w.tools[i].started /\ ~w.tools[i].closed /\ args # <<>>
           THEN Delta(w, "input_json_delta", args)
      ELSE w

\* One element of delta.tool_calls.
Tool(u, d) ==
  LET i == d.index
      b == [u.tools[i] EXCEPT !.id = @ \/ d.id, !.name = IF d.name = NoName THEN @ ELSE d.name]
      v == NamesSeen([u EXCEPT !.tools[i] = b], b, d.args)
  IN  IF u.finished THEN u
      ELSE IF v.repeated > u.repeated /\ v.repeated >= MaxRepetitions
           THEN Stopped(Delta(Opened(v, "text", NoTool), "text_delta", <<"notice">>))
      ELSE [Streamed(v, i, d.args) EXCEPT !.tools[i].args = @ \o d.args]

\* The loop over delta.tool_calls.
AllTools(u, deltas) ==
  LET called[n \in 0..Len(deltas)] ==
        IF n = 0 THEN u ELSE Tool(called[n - 1], deltas[n])
  IN  called[Len(deltas)]

\* _strip_leading_prose, and whether the rest passes json.loads and the schema.
Stripped(args) ==
  LET first == SelectInSeq(args, LAMBDA p : p = "{")
  IN  IF first = 0 THEN <<>> ELSE SubSeq(args, first, Len(args))

Valid(args) == Stripped(args) \in {<<>>, <<"{", "}">>}

\* _flush_tool, when every block is closed: a tool never streamed is sent as
\* one block, or replaced by a notice.
Flushed(u, i) ==
  LET b == u.tools[i]
      v == Opened(u, "tool_use", i)
      w == IF Stripped(b.args) = <<>> THEN v
           ELSE Delta(v, "input_json_delta", Stripped(b.args))
  IN  IF ~b.id \/ b.name = NoName \/ b.started THEN u
      ELSE IF b.name \notin Declared \/ ~Valid(b.args) THEN TextInto(u, <<"notice">>)
      ELSE Closed([w EXCEPT !.tools[i].at = v.next - 1])

StopReason(finish) ==
  CASE finish = "length" -> "max_tokens"
    [] finish \in {"tool_calls", "function_call"} -> "tool_use"
    [] finish = "content_filter" -> "refusal"
    [] finish = "async-yield" -> "pause_turn"
    [] OTHER -> "end_turn"

\* The end of every call, when finish_reason comes.
AllFlushed(u) ==
  LET flushed[n \in 0..MaxTools] ==
        IF n = 0 THEN Closed(u) ELSE Flushed(flushed[n - 1], n - 1)
  IN  flushed[MaxTools]

Finished(u, finish) ==
  IF finish = "none" \/ u.finished THEN u
  ELSE [AllFlushed(u) EXCEPT !.stop = StopReason(finish)]

\* _ensure_started
MessageStarted(u) ==
  IF u.started THEN u
  ELSE [Emitted(u, <<Event("message_start", 0, "none", NoTool, <<>>)>>) EXCEPT !.started = TRUE]

Translated(u, c) ==
  LET v == ScanText(Reasoning(Image(u, c.image), c.reasoning), c.text)
  IN  IF ~c.choices THEN u
      ELSE IF v.finished THEN v
      ELSE Finished(AllTools(v, c.tools), c.finish)

HasContent(c) == c.image \/ c.reasoning > 0 \/ c.text # <<>>

Feed(c) ==
  /\ t.out = <<>> /\ ~finalized
  /\ fed < MaxChunks
  /\ t' = IF t.finished THEN t ELSE Translated(MessageStarted(t), c)
  /\ fed' = fed + 1
  /\ IF t.finished THEN UNCHANGED <<sentText, sentReasoning>>
     ELSE sentText' = sentText \o c.text /\ sentReasoning' = sentReasoning + c.reasoning
  /\ finishSeen' = (finishSeen \/ c.finish # "none")
  /\ irregular' = (irregular \/ (finishSeen /\ c.choices)
                             \/ (t.open = "tool_use" /\ HasContent(c)))
  /\ UNCHANGED <<finalized, client>>

\* finalize(), after a stream of at least one chunk.
Finalize ==
  LET u == IF t.open = "thinking" THEN EmitThinking(t, t.hold) ELSE EmitText(t, t.hold)
      v == Emitted(Closed(u), <<Event("message_delta", 0, t.stop, NoTool, <<>>),
                                Event("message_stop", 0, "none", NoTool, <<>>)>>)
  IN  /\ t.out = <<>> /\ ~finalized
      /\ fed > 0
      /\ finalized' = TRUE
      /\ t' = IF t.finished THEN t ELSE [v EXCEPT !.hold = <<>>, !.finished = TRUE]
      /\ UNCHANGED <<client, history>>

\* The Anthropic SDK.
Received(c, e) ==
  LET seen == [c EXCEPT !.last = [event |-> e.event, index |-> e.index,
                                  kind |-> IF e.event = "message_delta" THEN "none" ELSE e.kind]]
  IN  CASE e.event = "message_start" -> [seen EXCEPT !.phase = "streaming"]
        [] e.event = "content_block_start" ->
             [seen EXCEPT !.content =
                Append(@, [kind |-> e.kind, closed |-> FALSE, tool |-> e.tool, body |-> <<>>])]
        [] e.event = "content_block_delta" ->
             [seen EXCEPT !.content[e.index + 1].body = @ \o e.body]
        [] e.event = "content_block_stop" -> [seen EXCEPT !.content[e.index + 1].closed = TRUE]
        [] e.event = "message_delta" -> [seen EXCEPT !.phase = "closing"]
        [] e.event = "message_stop" -> [seen EXCEPT !.phase = "stopped"]

Deliver ==
  /\ t.out # <<>>
  /\ client' = Received(client, Head(t.out))
  /\ t' = [t EXCEPT !.out = Tail(@)]
  /\ UNCHANGED <<finalized, history>>

Quiet == finalized /\ t.out = <<>> /\ UNCHANGED translatorVars

TranslatorNext == (\E c \in UpstreamChunks : Feed(c)) \/ Finalize \/ Deliver \/ Quiet

TranslatorSpec == TranslatorInit /\ [][TranslatorNext]_translatorVars
-----------------------------------------------------------------------------
(***************************************************************************)
(* Properties                                                              *)
(***************************************************************************)
ClientContent ==
  [i \in DOMAIN client.content |->
     [kind |-> client.content[i].kind, closed |-> client.content[i].closed]]

Contract == INSTANCE AnthropicStream
  WITH lenient <- FALSE, phase <- client.phase, content <- ClientContent,
       last <- client.last

\* Whatever the upstream sends, with tags anywhere in the text, the thinking
\* budget used up, tools blocked and streams stopped, the events are a legal
\* Anthropic stream, without any tolerance (the rules the class enforces).
HonoursContract == Contract!StreamSpec

\* The text and thinking of a message, block after block.
Said(content) ==
  LET said[n \in 0..Len(content)] ==
        IF n = 0 THEN <<>>
        ELSE IF content[n].kind \in {"text", "thinking"} THEN said[n - 1] \o content[n].body
        ELSE said[n - 1]
  IN  said[Len(content)]

Delivered == Said(client.content)

\* Those of the pieces that are in s.
Only(s, pieces) ==
  LET kept[n \in 0..Len(s)] ==
        IF n = 0 THEN <<>>
        ELSE IF s[n] \in pieces THEN Append(kept[n - 1], s[n])
        ELSE kept[n - 1]
  IN  kept[Len(s)]

CountOf(s, piece) == Len(Only(s, {piece}))

\* Text is neither lost, doubled nor reordered by the scanner, wherever chunks
\* cut it and whatever comes between them; what is missing are whole tags.
\* Reasoning arrives up to the budget, to the character (_scan_text, feed).
ContentArrives ==
  t.out = <<>> =>
    LET text == Delivered \o t.hold
    IN  /\ IsPrefix(Only(text, {"a", "markup"}), Only(sentText, {"a", "markup"}))
        /\ ~t.finished \/ client.phase = "stopped" =>
             /\ Only(text, {"a", "markup"}) = Only(sentText, {"a", "markup"})
             /\ CountOf(sentText, "<") - CountOf(text, "<")
                  = CountOf(sentText, "think>") - CountOf(text, "think>")
        /\ CountOf(Delivered, "r") =
             IF t.budget # NoBudget /\ sentReasoning > CharsPerToken * t.budget
             THEN CharsPerToken * t.budget ELSE sentReasoning

BlocksOf(content, i) ==
  {n \in DOMAIN content : content[n].kind = "tool_use" /\ content[n].tool = i}

\* At the end of a stream that keeps to the usual order, each tool call that
\* could be streamed, or is complete, declared and well formed, has arrived in
\* exactly one block with all its arguments, and no other call has (feed,
\* _flush_tool).
CallsArriveOnce ==
  client.phase = "stopped" /\ finishSeen /\ ~irregular =>
    \A i \in Tools :
      LET b == t.tools[i]
          due == b.started \/ (b.id /\ b.name \in Declared /\ Valid(b.args))
      IN  /\ Cardinality(BlocksOf(client.content, i)) = IF due THEN 1 ELSE 0
          /\ \A n \in BlocksOf(client.content, i) :
               client.content[n].body = IF b.started THEN b.args ELSE Stripped(b.args)
=============================================================================
