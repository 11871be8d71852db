------------------------- MODULE MCStreamTranslator -------------------------
(***************************************************************************)
(* A small instance of StreamTranslator: tags cut at each of their pieces, *)
(* two reasoning fragments that pass a budget of one token, and two tools. *)
(***************************************************************************)
EXTENDS StreamTranslator

Choice == [NoChunk EXCEPT !.choices = TRUE]
Text(s) == [Choice EXCEPT !.text = s]
Calls(s) == [Choice EXCEPT !.tools = s]

TextChunks ==
  {Text(<<"a", "<">>), Text(<<"<", "think>", "a">>), Text(<<"think>", "a", "<", "/">>),
   Text(<<"/", "think>">>), Text(<<"a", "markup">>)}

OtherChunks ==
  {[Choice EXCEPT !.reasoning = 3], [Text(<<"a">>) EXCEPT !.reasoning = 2],
   [Text(<<"<">>) EXCEPT !.image = TRUE], NoChunk}

ToolChunks ==
  {Calls(<<ToolDelta(0, TRUE, "read", <<>>)>>),
   Calls(<<ToolDelta(0, FALSE, NoName, <<"{", "}">>), ToolDelta(1, TRUE, "write", <<"a", "{">>)>>),
   Calls(<<ToolDelta(1, FALSE, NoName, <<"}">>)>>),
   \* the name comes after the arguments
   Calls(<<ToolDelta(0, TRUE, NoName, <<"{">>)>>),
   Calls(<<ToolDelta(0, FALSE, "made_up", <<>>)>>)}

FinishChunks ==
  {[Calls(<<ToolDelta(0, FALSE, "read", <<"}">>)>>) EXCEPT !.finish = "tool_calls"],
   [Text(<<"a", "<">>) EXCEPT !.finish = "stop"]}

AllChunks == TextChunks \cup OtherChunks \cup ToolChunks \cup FinishChunks
MCBudgets == {NoBudget, 1}
=============================================================================
