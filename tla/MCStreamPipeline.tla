-------------------------- MODULE MCStreamPipeline --------------------------
(***************************************************************************)
(* Small instances of StreamPipeline for TLC: what the upstream sends.     *)
(***************************************************************************)
EXTENDS StreamPipeline

Choice == [NoChunk EXCEPT !.choices = TRUE]
Finish(reason) == [Choice EXCEPT !.finish = reason]
Usage(n) == [NoChunk EXCEPT !.usage = TRUE, !.tokens = n]
TextChunk(t) == [Choice EXCEPT !.text = t]
ToolChunk(tools) == [Choice EXCEPT !.tools = tools]

\* The usual deltas of one tool call: its head, then argument fragments.
Head0 == ToolDelta(0, Given, "read", FALSE)
Args0 == ToolDelta(0, Absent, Absent, TRUE)
Head1 == ToolDelta(1, Given, "write", FALSE)
Args1 == ToolDelta(1, Absent, Absent, TRUE)
\* Some servers repeat the keys with null or empty values.
Null0 == ToolDelta(0, Absent, NoName, TRUE)
Null1 == ToolDelta(1, "null", Absent, TRUE)

TextChunks ==
  {TextChunk("plain"), [Choice EXCEPT !.reasoning = TRUE],
   [Choice EXCEPT !.image = TRUE, !.text = "plain"]}

ToolChunks ==
  {ToolChunk(<<Head0>>), ToolChunk(<<Args0>>), ToolChunk(<<Args1>>),
   ToolChunk(<<Head0, Head1>>), ToolChunk(<<Args1, Args0>>),
   \* the name comes after the first arguments
   ToolChunk(<<ToolDelta(1, Given, NoName, TRUE)>>),
   ToolChunk(<<ToolDelta(1, Absent, "write", FALSE)>>),
   \* a name nobody declared
   ToolChunk(<<ToolDelta(0, Given, "made_up", TRUE)>>),
   \* later deltas that overwrite
   ToolChunk(<<Null0>>), ToolChunk(<<Null1>>)}

FinishChunks ==
  {Finish("stop"), [Finish("tool_calls") EXCEPT !.tools = <<Args0>>],
   [Finish("length") EXCEPT !.text = "plain"]}

AllChunks == TextChunks \cup ToolChunks \cup FinishChunks \cup {TextChunk("tag"), Usage(3)}
=============================================================================
