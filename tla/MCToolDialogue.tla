---------------------------- MODULE MCToolDialogue ----------------------------
(***************************************************************************)
(* Small instances of ToolDialogue for TLC.                                *)
(***************************************************************************)
EXTENDS ToolDialogue, TLC

\* A name of more than 64 characters, its first 64, and a name that needs no change.
ToolNames == {"long", "cut", "c"}
SanitizedNames == [n \in ToolNames |-> IF n = "long" THEN "cut" ELSE n]

\* Each of the clashing names alone, both in the worse order, and two others.
ToolLists == {<<"long">>, <<"cut", "long">>, <<"long", "c">>}

Interchangeable == Permutations(AnthropicIds) \cup Permutations(UpstreamIds)
=============================================================================
