--------------------------- MODULE UpstreamClient ---------------------------
(***************************************************************************)
(* NvidiaClient (clients/nvidia_client.py) with the incremental decoder of *)
(* server-sent events (util/sse.py): one call of chat_completions, with    *)
(* its retries, or one of astream_chat_completions, with the bytes of the  *)
(* response cut anywhere.                                                  *)
(*                                                                         *)
(* Data: a byte string without line ends in it is a sequence of letters,   *)
(* the first of which stands for the name of a field.  The data of an      *)
(* event is the sequence of its data lines, which are joined by a line end *)
(* that none of them contains.  The decoder leaves nothing but its buffer  *)
(* from one call to the next: _event and _data are reset with every event, *)
(* and nobody reads _id and _retry.                                        *)
(***************************************************************************)
EXTENDS Integers, Sequences, SequencesExt

CONSTANTS
  MaxRetries, \* settings.max_retries
  Bytes,      \* letters and line ends
  Texts,      \* what the upstream may send
  CR, LF,
  DataField,  \* "data:", any other first letter being another field
  Done,       \* the payload [DONE]
  Json        \* the payloads that json.loads accepts

\* A stream has one kind of line end; the last line may not have come through.
HasOneLineEnd(text) ==
  \/ \A i \in DOMAIN text : text[i] # CR
  \/ \A i \in DOMAIN text : text[i] = LF <=> i > 1 /\ text[i - 1] = CR

ASSUME ClientAssumption ==
  /\ MaxRetries \in Nat
  /\ CR # LF
  /\ Texts \subseteq Seq(Bytes)
  /\ \A text \in Texts : HasOneLineEnd(text)

VARIABLES
  mode,    \* "post" or "stream"
  stage,   \* where the call is
  attempt, \* the loop variable of chat_completions
  result,  \* what chat_completions returned or raised
  rest,    \* bytes the upstream has still to send
  buffer,  \* SSEDecoder._buffer
  pending, \* events of the chunk that the generator has not come to
  yielded  \* what astream_chat_completions has yielded

postVars == <<attempt, result>>
streamVars == <<rest, buffer, pending, yielded>>

(***************************************************************************)
(* History: how the upstream ended each POST, and the bytes received.      *)
(***************************************************************************)
VARIABLES ends, wire

clientVars == <<mode, stage, postVars, streamVars, ends, wire>>

RetryStatuses == {"408", "409", "429", "500", "502", "503", "504"}
\* ConnectError, ReadError and RemoteProtocolError, and those not caught here.
RetryErrors == {"connect", "read", "protocol"}
OtherErrors == {"timeout"}
Statuses == {"200", "400"} \cup RetryStatuses

ClientInit ==
  /\ mode \in {"post", "stream"}
  /\ stage = "sending"
  /\ attempt = 1
  /\ result = "none"
  /\ rest \in (IF mode = "stream" THEN Texts ELSE {<<>>})
  /\ buffer = <<>> /\ pending = <<>> /\ yielded = <<>>
  /\ ends = <<>> /\ wire = <<>>
-----------------------------------------------------------------------------
(***************************************************************************)
(* chat_completions                                                        *)
(***************************************************************************)
\* Mutant: the attempts are counted from 0.
MayRetryOnce == attempt <= MaxRetries + 1

MayRetry == attempt <= MaxRetries

Retried(end) ==
  end \in RetryErrors \cup RetryStatuses /\ MayRetry

\* The POST ends with a response or an exception, of which some are retried.
PostEnds(end) ==
  /\ mode = "post" /\ stage = "sending"
  /\ ends' = Append(ends, end)
  /\ \/ Retried(end) /\ stage' = "sleeping" /\ UNCHANGED result
     \/ ~Retried(end) /\ stage' = "done" /\ result' = end
  /\ UNCHANGED <<mode, attempt, streamVars, wire>>

BackoffEnds ==
  /\ stage = "sleeping"
  /\ attempt' = attempt + 1
  /\ stage' = "sending"
  /\ UNCHANGED <<mode, result, streamVars, ends, wire>>
-----------------------------------------------------------------------------
(***************************************************************************)
(* astream_chat_completions                                                *)
(***************************************************************************)
\* An error status before the first byte.
StatusRaises ==
  /\ mode = "stream" /\ stage = "sending"
  /\ stage' = "raised"
  /\ UNCHANGED <<mode, postVars, streamVars, ends, wire>>

StreamBegins ==
  /\ mode = "stream" /\ stage = "sending"
  /\ stage' = "reading"
  /\ UNCHANGED <<mode, postVars, streamVars, ends, wire>>

Reading == stage = "reading" /\ pending = <<>>

\* The next n bytes arrive as one chunk, and go to the decoder.
Receive(n) ==
  /\ Reading
  /\ stage' = "decoding"
  /\ wire' = wire \o SubSeq(rest, 1, n)
  /\ rest' = SubSeq(rest, n + 1, Len(rest))
  /\ buffer' = buffer \o SubSeq(rest, 1, n)
  /\ UNCHANGED <<mode, postVars, pending, yielded, ends>>

(***************************************************************************)
(* SSEDecoder.decode: a loop that takes the events out of the buffer.      *)
(***************************************************************************)
Found(bytes, i, pattern) ==
  /\ i + Len(pattern) - 1 <= Len(bytes)
  /\ \A j \in DOMAIN pattern : bytes[i + j - 1] = pattern[j]

\* bytearray.find, with Len(bytes) + 1 for "not found".
Find(bytes, pattern) ==
  CHOOSE i \in 1..(Len(bytes) + 1) :
    /\ i <= Len(bytes) => Found(bytes, i, pattern)
    /\ \A j \in 1..(i - 1) : ~Found(bytes, j, pattern)

\* The separator that comes first.
Separator(bytes) ==
  LET lf == Find(bytes, <<LF, LF>>)
      crlf == Find(bytes, <<CR, LF, CR, LF>>)
  IN  IF lf < crlf THEN [at |-> lf, length |-> 2] ELSE [at |-> crlf, length |-> 4]

\* The line of raw that ends before n: split(b"\n"), removesuffix(b"\r").
LineStart(raw, n) ==
  CHOOSE m \in 1..n : (m = 1 \/ raw[m - 1] = LF) /\ \A i \in m..(n - 1) : raw[i] # LF

Bare(line) == IF line # <<>> /\ Last(line) = CR THEN Front(line) ELSE line

LineBefore(raw, n) == Bare(SubSeq(raw, LineStart(raw, n), n - 1))

WithLine(data, line) ==
  IF line # <<>> /\ Head(line) = DataField THEN Append(data, Tail(line)) ELSE data

\* The values of the data fields of a raw event, line after line.
DataOf(raw) ==
  LET data[n \in 0..(Len(raw) + 1)] ==
        IF n = 0 THEN <<>>
        ELSE IF n = Len(raw) + 1 \/ raw[n] = LF THEN WithLine(data[n - 1], LineBefore(raw, n))
        ELSE data[n - 1]
  IN  data[Len(raw) + 1]

\* A raw event is cut off; without data it is none.
DecodeEvent ==
  LET cut == Separator(buffer)
      data == DataOf(SubSeq(buffer, 1, cut.at - 1))
  IN  /\ stage = "decoding"
      /\ cut.at <= Len(buffer)
      /\ buffer' = SubSeq(buffer, cut.at + cut.length, Len(buffer))
      /\ pending' = IF data = <<>> THEN pending ELSE Append(pending, data)
      /\ UNCHANGED <<mode, stage, postVars, rest, yielded, ends, wire>>

\* Mutant: the buffer is looked at chunk by chunk.
DecodeAndForget ==
  /\ stage = "decoding"
  /\ Separator(buffer).at > Len(buffer)
  /\ stage' = "reading"
  /\ buffer' = <<>>
  /\ UNCHANGED <<mode, postVars, rest, pending, yielded, ends, wire>>

\* What is left waits for the next chunk.
DecodeReturns ==
  /\ stage = "decoding"
  /\ Separator(buffer).at > Len(buffer)
  /\ stage' = "reading"
  /\ UNCHANGED <<mode, postVars, streamVars, ends, wire>>

\* One event: the sentinel ends the generator, what is not JSON is left out.
TakeEvent ==
  /\ stage = "reading" /\ pending # <<>>
  /\ IF Head(pending) = Done
     THEN /\ stage' = "done" /\ pending' = <<>> /\ UNCHANGED yielded
     ELSE /\ pending' = Tail(pending)
          /\ yielded' = IF Head(pending) \in Json THEN Append(yielded, Head(pending))
                        ELSE yielded
          /\ UNCHANGED stage
  /\ UNCHANGED <<mode, postVars, rest, buffer, ends, wire>>

\* The upstream closes the connection, or it breaks.
StreamCloses ==
  Reading /\ stage' = "done" /\ UNCHANGED <<mode, postVars, streamVars, ends, wire>>
StreamBreaks ==
  Reading /\ stage' = "raised" /\ UNCHANGED <<mode, postVars, streamVars, ends, wire>>

CallIsOver == stage \in {"done", "raised"} /\ UNCHANGED clientVars

ClientNext ==
  \/ \E end \in Statuses \cup RetryErrors \cup OtherErrors : PostEnds(end)
  \/ BackoffEnds
  \/ StatusRaises \/ StreamBegins
  \/ \E n \in 1..Len(rest) : Receive(n)
  \/ DecodeEvent \/ DecodeReturns
  \/ TakeEvent \/ StreamCloses \/ StreamBreaks
  \/ CallIsOver

ClientSpec == ClientInit /\ [][ClientNext]_clientVars
-----------------------------------------------------------------------------
(***************************************************************************)
(* Properties                                                              *)
(***************************************************************************)
\* The events of a byte string, read line by line as the format defines them.
ReadByte(state, byte) ==
  IF byte # LF THEN [state EXCEPT !.line = IF byte = CR THEN @ ELSE Append(@, byte)]
  ELSE IF state.line # <<>>
       THEN [state EXCEPT !.line = <<>>, !.data = WithLine(@, state.line)]
       ELSE [state EXCEPT !.data = <<>>,
               !.events = IF state.data = <<>> THEN @ ELSE Append(@, state.data)]

Nothing == [line |-> <<>>, data |-> <<>>, events |-> <<>>]

Events(bytes) ==
  LET read[n \in 0..Len(bytes)] ==
        IF n = 0 THEN Nothing ELSE ReadByte(read[n - 1], bytes[n])
  IN  read[Len(bytes)].events

\* What a consumer should see of them: the payloads before the sentinel.
Chunks(events) ==
  LET seen[n \in 0..Len(events)] ==
        IF n = 0 THEN <<>>
        ELSE IF Done \in {events[i] : i \in 1..n} \/ events[n] \notin Json THEN seen[n - 1]
        ELSE Append(seen[n - 1], events[n])
  IN  seen[Len(events)]

\* Wherever the network cuts the bytes, between the two ends of a separator or
\* inside a field, the chunks yielded are those of the bytes received so far:
\* none lost, doubled, merged or reordered, and none after [DONE].
ChunksAsSent ==
  mode = "stream" /\ stage # "decoding" =>
    LET sent == Chunks(Events(wire))
    IN  IsPrefix(yielded, sent) /\ (pending = <<>> => yielded = sent)

\* A POST is repeated only after an end that is worth another attempt, at most
\* max_retries times, and the caller gets the last end: a good answer is never
\* thrown away, and a bad one is returned only when no attempt is left.
RetriesAreJustified ==
  /\ Len(ends) <= MaxRetries + 1
  /\ \A i \in 1..(Len(ends) - 1) : ends[i] \in RetryErrors \cup RetryStatuses
  /\ mode = "post" /\ stage = "done" =>
       /\ result = Last(ends)
       /\ result \in RetryErrors \cup RetryStatuses => Len(ends) = MaxRetries + 1
=============================================================================
