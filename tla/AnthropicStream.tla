--------------------------- MODULE AnthropicStream --------------------------
(***************************************************************************)
(* What a client of the Messages API may receive on one streaming response *)
(* (the rules at the head of translators/stream_translator.py, and the     *)
(* event table of docs/ANTHROPIC_COMPAT.md): one message_start; content    *)
(* blocks with indexes 0, 1, 2, ..., at most one of them open, a thinking  *)
(* block signed before it is closed; one message_delta, when every block   *)
(* is closed; message_stop; nothing after it.  An error event may end the  *)
(* stream early.                                                           *)
(*                                                                         *)
(* The specification is an acceptor: last is the event delivered last, and *)
(* an action is enabled for the events that are legal.                     *)
(***************************************************************************)
EXTENDS Naturals, Sequences

VARIABLES
  lenient, \* are two departures from the rules tolerated from now on: an
           \* input_json_delta of a tool block already closed, and an error
           \* after message_stop?
  phase,   \* "none", "streaming", "closing", "stopped" or "failed"
  content, \* the blocks so far, each with its kind and whether it is closed
  last     \* the event delivered last

streamVars == <<lenient, phase, content, last>>

BlockKinds == {"text", "thinking", "tool_use", "image"}

DeltaKinds ==
  [text |-> {"text_delta"}, thinking |-> {"thinking_delta", "signature_delta"},
   tool_use |-> {"input_json_delta"}, image |-> {}]

Wire(event, index, kind) == [event |-> event, index |-> index, kind |-> kind]
NoEvent == Wire("none", 0, "none")

StreamInit ==
  /\ lenient = FALSE
  /\ phase = "none"
  /\ content = <<>>
  /\ last = NoEvent

Open == content # <<>> /\ ~content[Len(content)].closed
Current == Len(content) - 1

MessageStart ==
  /\ phase = "none"
  /\ phase' = "streaming"
  /\ last' = Wire("message_start", 0, "none")
  /\ UNCHANGED content

BlockStart(k) ==
  /\ phase = "streaming"
  /\ ~Open
  /\ content' = Append(content, [kind |-> k, closed |-> FALSE])
  /\ last' = Wire("content_block_start", Len(content), k)
  /\ UNCHANGED phase

BlockDelta(d) ==
  /\ phase = "streaming"
  /\ Open
  /\ d \in DeltaKinds[content[Len(content)].kind]
  /\ last # Wire("content_block_delta", Current, "signature_delta")
  /\ last' = Wire("content_block_delta", Current, d)
  /\ UNCHANGED <<phase, content>>

LateInputDelta(i) ==
  /\ lenient
  /\ phase = "streaming"
  /\ content[i + 1].kind = "tool_use"
  /\ last' = Wire("content_block_delta", i, "input_json_delta")
  /\ UNCHANGED <<phase, content>>

BlockStop ==
  /\ phase = "streaming"
  /\ Open
  /\ content[Len(content)].kind = "thinking"
       => last = Wire("content_block_delta", Current, "signature_delta")
  /\ content' = [content EXCEPT ![Len(content)].closed = TRUE]
  /\ last' = Wire("content_block_stop", Current, "none")
  /\ UNCHANGED phase

MessageDelta ==
  /\ phase = "streaming"
  /\ ~Open
  /\ phase' = "closing"
  /\ last' = Wire("message_delta", 0, "none")
  /\ UNCHANGED content

MessageStop ==
  /\ phase = "closing"
  /\ phase' = "stopped"
  /\ last' = Wire("message_stop", 0, "none")
  /\ UNCHANGED content

StreamError ==
  /\ phase = "streaming" \/ (lenient /\ phase = "stopped")
  /\ phase' = "failed"
  /\ last' = Wire("error", 0, "none")
  /\ UNCHANGED content

Deliver ==
  \/ MessageStart
  \/ \E k \in BlockKinds : BlockStart(k)
  \/ \E d \in UNION {DeltaKinds[k] : k \in BlockKinds} : BlockDelta(d)
  \/ \E i \in 0..Current : LateInputDelta(i)
  \/ BlockStop \/ MessageDelta \/ MessageStop \/ StreamError

BecomeLenient == lenient' = TRUE /\ UNCHANGED <<phase, content, last>>

StreamNext == (Deliver /\ UNCHANGED lenient) \/ BecomeLenient

StreamSpec == StreamInit /\ [][StreamNext]_streamVars
=============================================================================
