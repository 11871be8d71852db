--------------------------- MODULE MCMessageStream ---------------------------
(***************************************************************************)
(* Small instances of MessageStream for TLC.                               *)
(***************************************************************************)
EXTENDS MessageStream
=============================================================================
