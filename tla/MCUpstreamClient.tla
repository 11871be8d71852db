-------------------------- MODULE MCUpstreamClient --------------------------
(***************************************************************************)
(* A small instance of UpstreamClient: streams of up to MaxLines lines     *)
(* with either line end, among them blank lines, comments, a payload on    *)
(* one line and one on two, and the sentinel.                              *)
(***************************************************************************)
EXTENDS UpstreamClient

CONSTANT MaxLines

MCLines ==
  {<<>>, <<":", "x">>} \cup {<<"data:", p>> : p \in {"x", "open", "shut", "[DONE]"}}

MCBytes == {":", "x", "data:", "open", "shut", "[DONE]", CR, LF}

MCTexts ==
  {FlattenSeq([i \in DOMAIN lines |-> lines[i] \o end]) :
     lines \in BoundedSeq(MCLines, MaxLines), end \in {<<LF>>, <<CR, LF>>}}

MCDone == <<<<"[DONE]">>>>
MCJson == {<<<<"x">>>>, <<<<"open">>, <<"shut">>>>}
=============================================================================
