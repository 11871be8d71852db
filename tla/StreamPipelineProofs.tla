------------------------ MODULE StreamPipelineProofs ------------------------
(***************************************************************************)
(* The stream the client receives is a legal Anthropic stream, for any     *)
(* chunks, tools and limits, and tool calls arrive whole.                  *)
(*                                                                         *)
(* The argument: whatever the pipeline has yielded and the client has not  *)
(* received yet (out) takes the client, by legal events only (Path), to    *)
(* one that agrees with the pipeline's flags, indexes and accumulators     *)
(* (Agrees).  A processor yields only when out is empty, so a step extends *)
(* the path at its end, and a delivery takes its first event.              *)
(***************************************************************************)
EXTENDS StreamPipeline, SequenceTheorems, FiniteSetTheorems, TLAPS

Kinds == {"text", "thinking", "tool_use", "image"}
Phases == {"none", "streaming", "closing", "stopped", "failed"}
Block == [kind : Kinds, closed : BOOLEAN, amount : Nat]
Reasons == {"none", "end_turn", "max_tokens", "tool_use", "refusal"}
EventNames == {"none", "message_start", "content_block_start", "content_block_delta",
               "content_block_stop", "message_delta", "message_stop", "error"}
Deltas == {"text_delta", "thinking_delta", "signature_delta", "input_json_delta"}
EventType == [event : EventNames, index : Nat, kind : Kinds \cup Deltas \cup Reasons,
              amount : Nat]
ClientType == [phase : Phases, content : Seq(Block), stop : Reasons, tokens : Nat,
               last : EventType]

Fits(kind) ==
  CASE kind = "text" -> {"text_delta"}
    [] kind = "thinking" -> {"thinking_delta", "signature_delta"}
    [] kind = "tool_use" -> {"input_json_delta"}
    [] OTHER -> {}

\* The block that client c has open, if it has one.
Top(c) == c.content[Len(c.content)]
HasOpen(c) == c.content # <<>> /\ Top(c).closed = FALSE

\* Was the signature of the open block the last event?
Signed(c) == /\ c.last.event = "content_block_delta"
             /\ c.last.index = Len(c.content) - 1
             /\ c.last.kind = "signature_delta"

\* May client c receive event e next?
Legal(c, e, tolerant) ==
  \/ e.event = "message_start" /\ e.index = 0 /\ e.kind = "none" /\ c.phase = "none"
  \/ /\ e.event = "content_block_start" /\ e.index = Len(c.content) /\ e.kind \in Kinds
     /\ c.phase = "streaming" /\ ~HasOpen(c)
  \/ /\ e.event = "content_block_delta" /\ e.index = Len(c.content) - 1
     /\ c.phase = "streaming" /\ HasOpen(c) /\ e.kind \in Fits(Top(c).kind) /\ ~Signed(c)
  \/ /\ e.event = "content_block_delta" /\ e.index + 1 \in 1..Len(c.content)
     /\ e.kind = "input_json_delta"
     /\ tolerant = TRUE /\ c.phase = "streaming" /\ c.content[e.index + 1].kind = "tool_use"
  \/ /\ e.event = "content_block_stop" /\ e.index = Len(c.content) - 1 /\ e.kind = "none"
     /\ c.phase = "streaming" /\ HasOpen(c) /\ (Top(c).kind = "thinking" => Signed(c))
  \/ /\ e.event = "message_delta" /\ e.index = 0 /\ e.kind \in Reasons
     /\ c.phase = "streaming" /\ ~HasOpen(c)
  \/ e.event = "message_stop" /\ e.index = 0 /\ e.kind = "none" /\ c.phase = "closing"
  \/ /\ e.event = "error" /\ e.index = 0 /\ e.kind = "none"
     /\ c.phase = "streaming" \/ (tolerant = TRUE /\ c.phase = "stopped")

\* The events take client c to d, each of them legal when it comes; a client
\* that is told to stop for tool use on the way still is at the end.
Path(c, events, d, tolerant) ==
  \E p \in [0..Len(events) -> ClientType] :
    /\ p[0] = c /\ p[Len(events)] = d
    /\ \A i \in 1..Len(events) :
         Legal(p[i - 1], events[i], tolerant) /\ p[i] = Received(p[i - 1], events[i])
    /\ \A i \in 0..Len(events) : p[i].stop = "tool_use" => d.stop = "tool_use"

-----------------------------------------------------------------------------
(***************************************************************************)
(* Paths.                                                                  *)
(***************************************************************************)
\* No event leads nowhere else.
LEMMA PathNone ==
  ASSUME NEW c \in ClientType, NEW tolerant
  PROVE  Path(c, <<>>, c, tolerant) /\ \A d : Path(c, <<>>, d, tolerant) => d = c
<1>1. Len(<<>>) = 0 /\ 1..0 = {} OBVIOUS
<1>2. DEFINE p == [i \in 0..0 |-> c]
<1>3. p \in [0..Len(<<>>) -> ClientType] /\ p[0] = c
  BY <1>1
<1> HIDE DEF p
<1>4. Path(c, <<>>, c, tolerant)
  <2>1. /\ p[0] = c /\ p[Len(<<>>)] = c
        /\ \A i \in 1..Len(<<>>) :
             Legal(p[i - 1], <<>>[i], tolerant) /\ p[i] = Received(p[i - 1], <<>>[i])
        /\ \A i \in 0..Len(<<>>) : p[i].stop = "tool_use" => c.stop = "tool_use"
    BY <1>1, <1>3
  <2> QED BY <1>3, <2>1 DEF Path
<1> QED BY <1>1, <1>4 DEF Path

\* A block gets more fragments, or is closed.
LEMMA BlockChanges ==
  ASSUME NEW b \in Block, NEW a \in Nat
  PROVE  /\ [b EXCEPT !.amount = @ + a] \in Block /\ [b EXCEPT !.closed = TRUE] \in Block
         /\ [b EXCEPT !.amount = @ + a].kind = b.kind /\ [b EXCEPT !.closed = TRUE].kind = b.kind
         /\ [b EXCEPT !.amount = @ + a].amount = b.amount + a
         /\ [b EXCEPT !.closed = TRUE].amount = b.amount
         /\ [b EXCEPT !.amount = @ + a].closed = b.closed
         /\ [b EXCEPT !.closed = TRUE].closed = TRUE
<1>1. b.amount \in Nat /\ b.amount + a \in Nat BY DEF Block
<1> QED BY <1>1 DEF Block

\* What a client receives leaves it a client.
LEMMA ReceivedType ==
  ASSUME NEW c \in ClientType, NEW e \in EventType,
         e.event = "content_block_start" => e.kind \in Kinds,
         e.event = "message_delta" => e.kind \in Reasons
  PROVE  Received(c, e) \in ClientType
<1>1. c.content \in Seq(Block) /\ c.last \in EventType /\ e.amount \in Nat
  BY DEF ClientType, EventType
<1>2. CASE e.event = "content_block_start"
  <2>1. Append(c.content, [kind |-> e.kind, closed |-> FALSE, amount |-> 0]) \in Seq(Block)
    BY <1>1, <1>2, AppendProperties DEF Block
  <2> QED BY <1>2, <2>1 DEF Received, ClientType
<1>3. ASSUME NEW i \in 1..Len(c.content)
      PROVE  /\ [c.content EXCEPT ![i].amount = @ + e.amount] \in Seq(Block)
             /\ [c.content EXCEPT ![i].closed = TRUE] \in Seq(Block)
  <2>1. c.content[i] \in Block BY <1>1
  <2>2. [c.content[i] EXCEPT !.amount = @ + e.amount] \in Block
    BY <2>1, <1>1, BlockChanges
  <2>3. [c.content[i] EXCEPT !.closed = TRUE] \in Block
    BY <2>1, <1>1, BlockChanges
  <2>4. [c.content EXCEPT ![i] = [c.content[i] EXCEPT !.amount = @ + e.amount]] \in Seq(Block)
    BY <1>1, <2>2, ExceptSeq
  <2>5. [c.content EXCEPT ![i] = [c.content[i] EXCEPT !.closed = TRUE]] \in Seq(Block)
    BY <1>1, <2>3, ExceptSeq
  <2> QED BY <2>4, <2>5
<1>4. HasBlock(c, e.index) => e.index + 1 \in 1..Len(c.content)
  BY <1>1, LenProperties DEF HasBlock, EventType
<1>5. CASE e.event = "content_block_delta" /\ HasBlock(c, e.index)
  BY <1>3, <1>4, <1>5 DEF Received, ClientType
<1>6. CASE e.event = "content_block_stop" /\ HasBlock(c, e.index)
  BY <1>3, <1>4, <1>6 DEF Received, ClientType
<1>7. CASE ~(\/ e.event = "content_block_start"
             \/ e.event = "content_block_delta" /\ HasBlock(c, e.index)
             \/ e.event = "content_block_stop" /\ HasBlock(c, e.index))
  BY <1>7 DEF Received, ClientType, Phases, EventType
<1> QED BY <1>2, <1>5, <1>6, <1>7

\* One legal event.
LEMMA PathOne ==
  ASSUME NEW c \in ClientType, NEW e \in EventType, NEW tolerant, Legal(c, e, tolerant),
         c.stop = "tool_use" => e.event # "message_delta"
  PROVE  Received(c, e) \in ClientType /\ Path(c, <<e>>, Received(c, e), tolerant)
<1>1. Received(c, e) \in ClientType
  BY ReceivedType DEF Legal
<1>2. DEFINE p == [i \in 0..1 |-> IF i = 0 THEN c ELSE Received(c, e)]
<1>3. p \in [0..1 -> ClientType] /\ p[0] = c /\ p[1] = Received(c, e)
  BY <1>1
<1>4. Len(<<e>>) = 1 /\ <<e>>[1] = e /\ 1..1 = {1} OBVIOUS
<1> HIDE DEF p
<1>5. \A i \in 1..1 : Legal(p[i - 1], <<e>>[i], tolerant) /\ p[i] = Received(p[i - 1], <<e>>[i])
  BY <1>3, <1>4
<1>6. c.stop = "tool_use" => Received(c, e).stop = "tool_use"
  BY DEF Received, ClientType
<1>7. \A i \in 0..1 : p[i].stop = "tool_use" => Received(c, e).stop = "tool_use"
  BY <1>3, <1>6
<1> QED BY <1>1, <1>3, <1>4, <1>5, <1>7 DEF Path

\* One sequence of events after another.
LEMMA PathJoin ==
  ASSUME NEW first \in Seq(EventType), NEW second \in Seq(EventType), NEW tolerant,
         NEW c, NEW d, NEW f, Path(c, first, d, tolerant), Path(d, second, f, tolerant)
  PROVE  Path(c, first \o second, f, tolerant)
<1> DEFINE m == Len(first)
           n == Len(second)
<1>1. PICK p \in [0..m -> ClientType] :
        /\ p[0] = c /\ p[m] = d
        /\ \A i \in 1..m : Legal(p[i - 1], first[i], tolerant) /\ p[i] = Received(p[i - 1], first[i])
        /\ \A i \in 0..m : p[i].stop = "tool_use" => d.stop = "tool_use"
  BY DEF Path
<1>2. PICK q \in [0..n -> ClientType] :
        /\ q[0] = d /\ q[n] = f
        /\ \A i \in 1..n : Legal(q[i - 1], second[i], tolerant) /\ q[i] = Received(q[i - 1], second[i])
        /\ \A i \in 0..n : q[i].stop = "tool_use" => f.stop = "tool_use"
  BY DEF Path
<1>3. m \in Nat /\ n \in Nat
  BY LenProperties
<1>4. /\ Len(first \o second) = m + n
      /\ \A i \in 1..(m + n) : (first \o second)[i] = IF i <= m THEN first[i] ELSE second[i - m]
  BY ConcatProperties
<1> DEFINE r == [i \in 0..(m + n) |-> IF i <= m THEN p[i] ELSE q[i - m]]
<1> HIDE DEF m, n
<1>5. r \in [0..(m + n) -> ClientType]
  <2>1. \A i \in 0..(m + n) : i <= m => i \in 0..m
    BY <1>3
  <2>2. \A i \in 0..(m + n) : ~(i <= m) => i - m \in 0..n
    BY <1>3
  <2> QED BY <1>1, <1>2, <2>1, <2>2
<1>6. \A i \in 0..(m + n) : r[i] = IF i <= m THEN p[i] ELSE q[i - m]
  OBVIOUS
<1> HIDE DEF r
<1>7. r[0] = c /\ r[m + n] = f
  <2>1. r[0] = c
    BY <1>1, <1>3, <1>6
  <2>2. CASE n = 0
    BY <2>2, <1>1, <1>2, <1>3, <1>6
  <2>3. CASE n # 0
    <3>1. m + n \in 0..(m + n) /\ ~(m + n <= m) /\ (m + n) - m = n
      BY <2>3, <1>3
    <3> QED BY <2>1, <3>1, <1>2, <1>6
  <2> QED BY <2>1, <2>2, <2>3
<1>8. ASSUME NEW i \in 1..(m + n)
      PROVE  /\ Legal(r[i - 1], (first \o second)[i], tolerant)
             /\ r[i] = Received(r[i - 1], (first \o second)[i])
  <2>1. CASE i <= m
    <3>1. i \in 1..m /\ r[i] = p[i] /\ r[i - 1] = p[i - 1] /\ (first \o second)[i] = first[i]
      BY <2>1, <1>3, <1>4, <1>6
    <3> QED BY <3>1, <1>1
  <2>2. CASE i = m + 1
    <3>1. /\ 1 \in 1..n /\ r[i] = q[1] /\ r[i - 1] = p[m]
          /\ (first \o second)[i] = second[1]
      BY <2>2, <1>3, <1>4, <1>6
    <3> QED BY <3>1, <1>1, <1>2
  <2>3. CASE i > m + 1
    <3>1. /\ i - m \in 1..n /\ r[i] = q[i - m] /\ r[i - 1] = q[(i - m) - 1]
          /\ (first \o second)[i] = second[i - m]
      BY <2>3, <1>3, <1>4, <1>6
    <3> QED BY <3>1, <1>2
  <2>4. i <= m \/ i = m + 1 \/ i > m + 1
    BY <1>3
  <2> QED BY <2>1, <2>2, <2>3, <2>4
<1>9. ASSUME NEW i \in 0..(m + n), r[i].stop = "tool_use"
      PROVE  f.stop = "tool_use"
  <2>1. CASE i <= m
    <3>1. d.stop = "tool_use"
      BY <2>1, <1>1, <1>3, <1>6, <1>9
    <3>2. 0 \in 0..n
      BY <1>3
    <3> QED BY <3>1, <3>2, <1>2
  <2>2. CASE ~(i <= m)
    <3>1. i - m \in 0..n
      BY <2>2, <1>3
    <3> QED BY <2>2, <3>1, <1>2, <1>6, <1>9
  <2> QED BY <2>1, <2>2
<1> QED BY <1>4, <1>5, <1>7, <1>8, <1>9 DEF Path

\* The first event of a path, and the path from there.
LEMMA PathHead ==
  ASSUME NEW events \in Seq(EventType), events # <<>>, NEW tolerant, NEW c, NEW d,
         Path(c, events, d, tolerant)
  PROVE  /\ Legal(c, Head(events), tolerant) /\ Received(c, Head(events)) \in ClientType
         /\ c.stop = "tool_use" => d.stop = "tool_use"
         /\ Path(Received(c, Head(events)), Tail(events), d, tolerant)
<1> DEFINE n == Len(events)
<1>1. PICK p \in [0..n -> ClientType] :
        /\ p[0] = c /\ p[n] = d
        /\ \A i \in 1..n : Legal(p[i - 1], events[i], tolerant) /\ p[i] = Received(p[i - 1], events[i])
        /\ \A i \in 0..n : p[i].stop = "tool_use" => d.stop = "tool_use"
  BY DEF Path
<1>2. n \in Nat /\ n >= 1
  BY EmptySeq
<1>3. Len(Tail(events)) = n - 1 /\ \A i \in 1..(n - 1) : Tail(events)[i] = events[i + 1]
  BY HeadTailProperties
<1>4. Head(events) = events[1]
  OBVIOUS
<1> HIDE DEF n
<1>5. Legal(c, Head(events), tolerant) /\ p[1] = Received(c, Head(events))
  BY <1>1, <1>2, <1>4
<1> DEFINE q == [i \in 0..(n - 1) |-> p[i + 1]]
<1>6. q \in [0..(n - 1) -> ClientType] /\ q[0] = p[1] /\ q[n - 1] = p[n]
  BY <1>1, <1>2
<1>7. \A i \in 0..(n - 1) : q[i] = p[i + 1]
  OBVIOUS
<1> HIDE DEF q
<1>8. ASSUME NEW i \in 1..(n - 1)
      PROVE  /\ Legal(q[i - 1], Tail(events)[i], tolerant)
             /\ q[i] = Received(q[i - 1], Tail(events)[i])
  <2>1. i + 1 \in 1..n /\ q[i] = p[i + 1] /\ q[i - 1] = p[(i + 1) - 1] /\ Tail(events)[i] = events[i + 1]
    BY <1>2, <1>3, <1>7
  <2> QED BY <2>1, <1>1
<1>9. \A i \in 0..(n - 1) : q[i].stop = "tool_use" => d.stop = "tool_use"
  BY <1>1, <1>2, <1>7
<1>10. Path(Received(c, Head(events)), Tail(events), d, tolerant)
  BY <1>1, <1>3, <1>5, <1>6, <1>8, <1>9 DEF Path
<1>11. p[1] \in ClientType /\ (c.stop = "tool_use" => d.stop = "tool_use")
  BY <1>1, <1>2
<1> QED BY <1>5, <1>10, <1>11

-----------------------------------------------------------------------------
(***************************************************************************)
(* What the pipeline yields, from a client that agrees with its block      *)
(* variables.                                                              *)
(***************************************************************************)
\* Client c has n blocks, of which the one at index is open if type says so.
Stands(c, n, type, index) ==
  /\ c \in ClientType
  /\ c.phase = "streaming"
  /\ Len(c.content) = n
  /\ \A i \in 1..n : type = "none" \/ i # n => c.content[i].closed = TRUE
  /\ type # "none" =>
       /\ n = index + 1 /\ index \in Nat
       /\ c.content[n].kind = type /\ c.content[n].closed = FALSE /\ ~Signed(c)

\* d is c with a more fragments in the block at index, and perhaps more blocks.
Adds(c, d, index, a) ==
  /\ d.stop = c.stop
  /\ Len(c.content) <= Len(d.content)
  /\ \A i \in 1..Len(c.content) :
       /\ d.content[i].kind = c.content[i].kind
       /\ d.content[i].amount = c.content[i].amount + (IF i = index + 1 THEN a ELSE 0)

Extends(c, d) == Adds(c, d, 0, 0)

\* Events have their type.
LEMMA EventTypes ==
  ASSUME NEW i \in Nat, NEW kind \in Kinds \cup Deltas \cup Reasons, NEW a \in Nat
  PROVE  /\ BlockStart(i, kind) \in EventType /\ Delta(i, kind, a) \in EventType
         /\ BlockStop(i) \in EventType /\ MessageDelta(kind, a) \in EventType
         /\ MessageStart \in EventType /\ MessageStop \in EventType /\ ErrorEvent \in EventType
BY DEF BlockStart, Delta, BlockStop, MessageDelta, MessageStart, MessageStop, ErrorEvent,
  Event, EventType, EventNames, Kinds, Deltas, Reasons

\* A client's blocks.
LEMMA Blocks ==
  ASSUME NEW c \in ClientType
  PROVE  /\ c.content \in Seq(Block) /\ Len(c.content) \in Nat
         /\ DOMAIN c.content = 1..Len(c.content)
         /\ c.content = <<>> <=> Len(c.content) = 0
         /\ \A i \in 1..Len(c.content) :
              /\ c.content[i] \in Block /\ c.content[i].kind \in Kinds
              /\ c.content[i].closed \in BOOLEAN /\ c.content[i].amount \in Nat
<1>1. c.content \in Seq(Block) BY DEF ClientType
<1>2. \A i \in 1..Len(c.content) : c.content[i] \in Block BY <1>1
<1>3. \A b \in Block : b.kind \in Kinds /\ b.closed \in BOOLEAN /\ b.amount \in Nat BY DEF Block
<1>4. c.content = <<>> <=> Len(c.content) = 0 BY <1>1, EmptySeq
<1> QED BY <1>1, <1>2, <1>3, <1>4, LenProperties

\* Blocks as they are count for nothing more.
LEMMA ExtendsAll ==
  ASSUME NEW c \in ClientType
  PROVE  /\ Extends(c, c)
         /\ \A d \in ClientType : \A index : Adds(c, d, index, 0) => Extends(c, d)
         /\ \A d, f \in ClientType : \A index : \A a \in Nat :
              Extends(c, d) /\ Adds(d, f, index, a) => Adds(c, f, index, a)
BY Blocks, SMTT(30) DEF Extends, Adds

\* A block is opened when none is.
LEMMA Starting ==
  ASSUME NEW c, NEW n, NEW x, NEW kind \in Kinds, NEW tolerant, Stands(c, n, "none", x)
  PROVE  \E d : /\ Path(c, <<BlockStart(n, kind)>>, d, tolerant)
                /\ Stands(d, n + 1, kind, n) /\ Extends(c, d)
                /\ d.content[n + 1].amount = 0
<1> DEFINE e == BlockStart(n, kind)
           d == Received(c, e)
           b == [kind |-> kind, closed |-> FALSE, amount |-> 0]
<1>1. /\ c \in ClientType /\ c.content \in Seq(Block) /\ n \in Nat /\ Len(c.content) = n
      /\ c.phase = "streaming" /\ ~HasOpen(c) /\ b \in Block
  <2>1. c \in ClientType /\ c.phase = "streaming" /\ Len(c.content) = n
    BY DEF Stands
  <2>2. c.content \in Seq(Block) /\ n \in Nat /\ (c.content = <<>> <=> n = 0)
    BY <2>1, Blocks
  <2>3. n # 0 => Top(c).closed = TRUE
    BY <2>1, <2>2 DEF Stands, Top
  <2>4. b \in Block
    BY DEF Block
  <2> QED BY <2>1, <2>2, <2>3, <2>4 DEF HasOpen
<1>2. /\ e \in EventType /\ e.event = "content_block_start" /\ e.index = n /\ e.kind = kind
  BY <1>1, EventTypes DEF BlockStart, Event
<1>3. d = [c EXCEPT !.last = e, !.content = Append(c.content, b)]
  BY <1>2 DEF Received
<1>4. d \in ClientType /\ Path(c, <<e>>, d, tolerant)
  BY <1>1, <1>2, PathOne DEF Legal
<1>5. /\ d.content = Append(c.content, b) /\ d.last = e /\ d.phase = "streaming" /\ d.stop = c.stop
  BY <1>1, <1>3 DEF ClientType
<1>6. /\ Len(d.content) = n + 1 /\ d.content[n + 1] = b
      /\ \A i \in 1..n : d.content[i] = c.content[i]
  BY <1>1, <1>5, AppendProperties
<1> HIDE DEF d, e
<1>7. Stands(d, n + 1, kind, n)
  <2>1. ~Signed(d)
    BY <1>2, <1>5 DEF Signed
  <2>2. kind # "none"
    BY DEF Kinds
  <2>3. \A i \in 1..(n + 1) : i # n + 1 => d.content[i].closed = TRUE
    <3>1. \A i \in 1..(n + 1) : i # n + 1 => i \in 1..n
      BY <1>1
    <3> QED BY <3>1, <1>6 DEF Stands
  <2>4. d.content[n + 1].kind = kind /\ d.content[n + 1].closed = FALSE
    BY <1>6
  <2> QED BY <1>1, <1>4, <1>5, <1>6, <2>1, <2>2, <2>3, <2>4 DEF Stands
<1>8. Extends(c, d)
  BY <1>1, <1>5, <1>6, Blocks DEF Extends, Adds
<1> QED BY <1>4, <1>6, <1>7, <1>8 DEF e

\* A delta changes the amount of its block only.
LEMMA Fragment ==
  ASSUME NEW c \in ClientType, NEW index \in Nat, index + 1 \in 1..Len(c.content),
         NEW delta \in Deltas, NEW a \in Nat, NEW tolerant,
         Legal(c, Delta(index, delta, a), tolerant)
  PROVE  \E d \in ClientType :
           /\ Path(c, <<Delta(index, delta, a)>>, d, tolerant)
           /\ Adds(c, d, index, a) /\ d.phase = c.phase
           /\ Len(d.content) = Len(c.content)
           /\ \A i \in 1..Len(c.content) : d.content[i].closed = c.content[i].closed
           /\ d.last = Delta(index, delta, a)
<1> DEFINE e == Delta(index, delta, a)
           d == Received(c, e)
           b == [c.content[index + 1] EXCEPT !.amount = @ + a]
<1>1. /\ e \in EventType /\ e.event = "content_block_delta" /\ e.index = index /\ e.amount = a
  BY EventTypes DEF Delta, Event
<1>2. /\ c.content \in Seq(Block) /\ Len(c.content) \in Nat
      /\ \A i \in 1..Len(c.content) : c.content[i] \in Block /\ c.content[i].amount \in Nat
  BY Blocks
<1>3. b \in Block /\ b.kind = c.content[index + 1].kind /\ b.closed = c.content[index + 1].closed
      /\ b.amount = c.content[index + 1].amount + a
  BY <1>2, BlockChanges
<1>4. d = [c EXCEPT !.last = e, !.content[index + 1].amount = @ + a]
  BY <1>1, <1>2, LenProperties DEF Received, HasBlock
<1>5. d \in ClientType /\ Path(c, <<e>>, d, tolerant)
  BY <1>1, PathOne
<1>6. /\ d.content = [c.content EXCEPT ![index + 1] = b]
      /\ d.last = e /\ d.phase = c.phase /\ d.stop = c.stop
  BY <1>4 DEF ClientType
<1> HIDE DEF d, b
<1>7. /\ Len(d.content) = Len(c.content)
      /\ \A i \in 1..Len(c.content) : d.content[i] = IF i = index + 1 THEN b ELSE c.content[i]
  BY <1>2, <1>3, <1>6, ExceptSeq
<1>8. Adds(c, d, index, a) /\ \A i \in 1..Len(c.content) : d.content[i].closed = c.content[i].closed
  BY <1>2, <1>3, <1>6, <1>7, SMTT(60) DEF Adds
<1> QED BY <1>5, <1>6, <1>7, <1>8

\* A fragment for the open block.
LEMMA Adding ==
  ASSUME NEW c, NEW n, NEW type \in Kinds, NEW index, NEW delta \in Deltas, NEW a \in Nat,
         NEW tolerant, Stands(c, n, type, index), delta \in Fits(type)
  PROVE  \E d : /\ Path(c, <<Delta(index, delta, a)>>, d, tolerant)
                /\ Adds(c, d, index, a)
                /\ Len(d.content) = n /\ d \in ClientType /\ d.phase = "streaming"
                /\ \A i \in 1..n : d.content[i].closed = c.content[i].closed
                /\ d.last = Delta(index, delta, a)
                /\ delta # "signature_delta" => Stands(d, n, type, index)
<1>1. /\ c \in ClientType /\ c.phase = "streaming" /\ index \in Nat /\ n = index + 1
      /\ Len(c.content) = n /\ c.content[n].kind = type /\ c.content[n].closed = FALSE /\ ~Signed(c)
  BY DEF Stands, Kinds
<1>2. HasOpen(c) /\ Top(c).kind = type
  BY <1>1, Blocks DEF HasOpen, Top
<1>3. Legal(c, Delta(index, delta, a), tolerant)
  BY <1>1, <1>2 DEF Legal, Delta, Event
<1>4. PICK d \in ClientType :
        /\ Path(c, <<Delta(index, delta, a)>>, d, tolerant)
        /\ Adds(c, d, index, a) /\ d.phase = c.phase
        /\ Len(d.content) = Len(c.content)
        /\ \A i \in 1..Len(c.content) : d.content[i].closed = c.content[i].closed
        /\ d.last = Delta(index, delta, a)
  BY <1>1, <1>3, Fragment
<1>5. ASSUME delta # "signature_delta" PROVE Stands(d, n, type, index)
  <2>1. ~Signed(d)
    BY <1>4, <1>5 DEF Signed, Delta, Event
  <2>2. d.content[n].kind = type /\ d.content[n].closed = FALSE
    BY <1>1, <1>4 DEF Adds
  <2> QED BY <1>1, <1>4, <2>1, <2>2 DEF Stands
<1> QED BY <1>1, <1>4, <1>5

\* A fragment for a tool block that need not be open any more.
LEMMA AddingLate ==
  ASSUME NEW c, NEW n, NEW type, NEW x, NEW index \in Nat, NEW a \in Nat, NEW delta \in Deltas,
         NEW tolerant, Stands(c, n, type, x), delta # "signature_delta",
         index + 1 \in 1..n, Legal(c, Delta(index, delta, a), tolerant)
  PROVE  \E d : /\ Path(c, <<Delta(index, delta, a)>>, d, tolerant)
                /\ Adds(c, d, index, a) /\ Stands(d, n, type, x)
<1>1. /\ c \in ClientType /\ c.phase = "streaming" /\ Len(c.content) = n
  BY DEF Stands
<1>2. PICK d \in ClientType :
        /\ Path(c, <<Delta(index, delta, a)>>, d, tolerant)
        /\ Adds(c, d, index, a) /\ d.phase = c.phase
        /\ Len(d.content) = Len(c.content)
        /\ \A i \in 1..Len(c.content) : d.content[i].closed = c.content[i].closed
        /\ d.last = Delta(index, delta, a)
  BY <1>1, Fragment
<1>3. ~Signed(d)
  BY <1>2 DEF Signed, Delta, Event
<1>4. n \in Nat BY <1>1, Blocks
<1>5. Stands(d, n, type, x)
  <2>1. CASE type = "none"
    BY <2>1, <1>1, <1>2, <1>4 DEF Stands
  <2>2. CASE type # "none"
    <3>1. n = x + 1 /\ x \in Nat /\ n \in 1..n /\ c.content[n].kind = type /\ c.content[n].closed = FALSE
      BY <2>2, <1>4 DEF Stands
    <3>2. d.content[n].kind = type /\ d.content[n].closed = FALSE
      BY <3>1, <1>1, <1>2 DEF Adds
    <3>3. \A i \in 1..n : i # n => d.content[i].closed = TRUE
      BY <2>2, <1>1, <1>2 DEF Stands
    <3> QED BY <3>1, <3>2, <3>3, <1>1, <1>2, <1>3 DEF Stands
  <2> QED BY <2>1, <2>2
<1> QED BY <1>2, <1>5

\* The open block is closed, a thinking block after its signature.
LEMMA Stopping ==
  ASSUME NEW c \in ClientType, NEW n, NEW index \in Nat, NEW tolerant,
         c.phase = "streaming", Len(c.content) = n, n = index + 1,
         \A i \in 1..n : i # n => c.content[i].closed = TRUE, c.content[n].closed = FALSE,
         c.content[n].kind = "thinking" => Signed(c)
  PROVE  \E d : /\ Path(c, <<BlockStop(index)>>, d, tolerant)
                /\ Stands(d, n, "none", 0) /\ Extends(c, d)
<1> DEFINE e == BlockStop(index)
           d == Received(c, e)
           b == [c.content[n] EXCEPT !.closed = TRUE]
<1>1. /\ e \in EventType /\ e.event = "content_block_stop" /\ e.index = index /\ e.kind = "none"
  BY EventTypes DEF BlockStop, Event, Kinds
<1>2. /\ c.content \in Seq(Block) /\ n \in Nat /\ n \in 1..n
      /\ \A i \in 1..n : c.content[i] \in Block /\ c.content[i].amount \in Nat
  BY Blocks
<1>3. b \in Block /\ b.kind = c.content[n].kind /\ b.closed = TRUE /\ b.amount = c.content[n].amount
  BY <1>2, BlockChanges
<1>4. d = [c EXCEPT !.last = e, !.content[n].closed = TRUE]
  BY <1>1, <1>2, LenProperties DEF Received, HasBlock
<1>5. HasOpen(c) /\ Top(c) = c.content[n]
  BY <1>2, Blocks DEF HasOpen, Top
<1>6. d \in ClientType /\ Path(c, <<e>>, d, tolerant)
  <2>1. Legal(c, e, tolerant)
    BY <1>1, <1>5 DEF Legal
  <2> QED BY <1>1, <2>1, PathOne
<1>7. /\ d.content = [c.content EXCEPT ![n] = b]
      /\ d.phase = c.phase /\ d.stop = c.stop
  BY <1>4 DEF ClientType
<1> HIDE DEF d, b
<1>8. /\ Len(d.content) = Len(c.content)
      /\ \A i \in 1..n : d.content[i] = IF i = n THEN b ELSE c.content[i]
  BY <1>2, <1>3, <1>7, ExceptSeq
<1>9. Stands(d, n, "none", 0)
  BY <1>2, <1>3, <1>6, <1>7, <1>8 DEF Stands
<1>10. Extends(c, d)
  BY <1>2, <1>3, <1>7, <1>8 DEF Extends, Adds
<1> QED BY <1>6, <1>9, <1>10

\* One event is a sequence of events.
LEMMA OneEvent ==
  ASSUME NEW a \in EventType
  PROVE  <<>> \in Seq(EventType) /\ <<a>> \in Seq(EventType) /\ Len(<<a>>) = 1 /\ <<a>>[1] = a
OBVIOUS

\* Two events after a sequence are one event after another.
LEMMA PairAfter ==
  ASSUME NEW s \in Seq(EventType), NEW a \in EventType, NEW b \in EventType
  PROVE  /\ s \o <<a, b>> = (s \o <<a>>) \o <<b>> /\ <<a, b>> = <<a>> \o <<b>>
         /\ s \o <<a, b>> \in Seq(EventType) /\ <<a, b>> \in Seq(EventType)
         /\ s \o <<a>> \in Seq(EventType) /\ <<a>> \in Seq(EventType) /\ <<b>> \in Seq(EventType)
<1>1. <<a>> \in Seq(EventType) /\ <<b>> \in Seq(EventType)
  BY OneEvent
<1>2. /\ <<a, b>> \in Seq(EventType) /\ Len(<<a, b>>) = 2 /\ <<a, b>>[1] = a /\ <<a, b>>[2] = b
  OBVIOUS
<1>3. /\ <<a>> \o <<b>> \in Seq(EventType) /\ Len(<<a>> \o <<b>>) = 2
      /\ (<<a>> \o <<b>>)[1] = a /\ (<<a>> \o <<b>>)[2] = b
  BY <1>1, OneEvent, ConcatProperties
<1>4. \A i \in 1..2 : <<a, b>>[i] = (<<a>> \o <<b>>)[i]
  BY <1>2, <1>3
<1>5. <<a, b>> = <<a>> \o <<b>>
  BY <1>2, <1>3, <1>4, SeqEqual
<1>6. s \o <<a, b>> = (s \o <<a>>) \o <<b>>
  BY <1>1, <1>5, ConcatAssociative
<1> QED BY <1>1, <1>2, <1>5, <1>6, ConcatProperties

\* Three events after a sequence are one event after two.
LEMMA TripleAfter ==
  ASSUME NEW s \in Seq(EventType), NEW a \in EventType, NEW b \in EventType, NEW e \in EventType
  PROVE  /\ s \o <<a, b, e>> = (s \o <<a, b>>) \o <<e>>
         /\ s \o <<a, b, e>> \in Seq(EventType)
         /\ s \o <<a, b>> \in Seq(EventType) /\ <<e>> \in Seq(EventType)
<1>1. <<a, b>> \in Seq(EventType) /\ <<e>> \in Seq(EventType) /\ s \o <<a, b>> \in Seq(EventType)
  BY OneEvent, PairAfter
<1>2. /\ <<a, b, e>> \in Seq(EventType) /\ Len(<<a, b, e>>) = 3
      /\ <<a, b, e>>[1] = a /\ <<a, b, e>>[2] = b /\ <<a, b, e>>[3] = e
  OBVIOUS
<1>3. /\ <<a, b>> \o <<e>> \in Seq(EventType) /\ Len(<<a, b>> \o <<e>>) = 3
      /\ (<<a, b>> \o <<e>>)[1] = a /\ (<<a, b>> \o <<e>>)[2] = b /\ (<<a, b>> \o <<e>>)[3] = e
  BY <1>1, ConcatProperties
<1>4. \A i \in 1..3 : <<a, b, e>>[i] = (<<a, b>> \o <<e>>)[i]
  BY <1>2, <1>3
<1>5. <<a, b, e>> = <<a, b>> \o <<e>>
  BY <1>2, <1>3, <1>4, SeqEqual
<1>6. s \o <<a, b, e>> = (s \o <<a, b>>) \o <<e>>
  BY <1>1, <1>5, ConcatAssociative
<1> QED BY <1>1, <1>2, <1>6, ConcatProperties

OpenTypes == {"none", "text", "thinking", "tool_use"}

\* _close_open_block closes the block that is open.
LEMMA Closing ==
  ASSUME NEW c, NEW tolerant, openType \in OpenTypes, openIndex \in Nat,
         Stands(c, nextIndex, openType, openIndex)
  PROVE  /\ CloseOpenBlock \in Seq(EventType)
         /\ \E d : /\ Path(c, CloseOpenBlock, d, tolerant)
                   /\ Stands(d, nextIndex, "none", 0) /\ Extends(c, d)
<1>1. /\ BlockStop(openIndex) \in EventType
      /\ Delta(openIndex, "signature_delta", 0) \in EventType
  BY EventTypes DEF Deltas, Kinds
<1>2. c \in ClientType BY DEF Stands
<1>3. CASE openType = "none"
  <2>1. CloseOpenBlock = <<>> /\ Stands(c, nextIndex, "none", 0)
    BY <1>3 DEF CloseOpenBlock, Stands
  <2> QED BY <1>2, <2>1, PathNone, ExtendsAll
<1>4. ASSUME openType # "none"
      PROVE  /\ nextIndex = openIndex + 1 /\ Len(c.content) = nextIndex /\ c.phase = "streaming"
             /\ c.content[nextIndex].kind = openType /\ c.content[nextIndex].closed = FALSE
             /\ \A i \in 1..nextIndex : i # nextIndex => c.content[i].closed = TRUE
             /\ ~Signed(c)
  BY <1>4 DEF Stands
<1>5. CASE openType = "thinking"
  <2>1. CloseOpenBlock = <<Delta(openIndex, "signature_delta", 0), BlockStop(openIndex)>>
    BY <1>5 DEF CloseOpenBlock
  <2>2. CloseOpenBlock = <<Delta(openIndex, "signature_delta", 0)>> \o <<BlockStop(openIndex)>>
        /\ CloseOpenBlock \in Seq(EventType)
        /\ <<Delta(openIndex, "signature_delta", 0)>> \in Seq(EventType)
        /\ <<BlockStop(openIndex)>> \in Seq(EventType)
    BY <1>1, <2>1, OneEvent, PairAfter
  <2>3. "signature_delta" \in Deltas /\ "thinking" \in Kinds /\ "signature_delta" \in Fits("thinking")
    BY DEF Deltas, Kinds, Fits
  <2>4. PICK d : /\ Path(c, <<Delta(openIndex, "signature_delta", 0)>>, d, tolerant)
                 /\ Adds(c, d, openIndex, 0)
                 /\ Len(d.content) = nextIndex /\ d \in ClientType /\ d.phase = "streaming"
                 /\ \A i \in 1..nextIndex : d.content[i].closed = c.content[i].closed
                 /\ d.last = Delta(openIndex, "signature_delta", 0)
    <3>1. Stands(c, nextIndex, "thinking", openIndex)
      BY <1>5
    <3>2. 0 \in Nat
      OBVIOUS
    <3>3. \E d : /\ Path(c, <<Delta(openIndex, "signature_delta", 0)>>, d, tolerant)
                 /\ Adds(c, d, openIndex, 0)
                 /\ Len(d.content) = nextIndex /\ d \in ClientType /\ d.phase = "streaming"
                 /\ \A i \in 1..nextIndex : d.content[i].closed = c.content[i].closed
                 /\ d.last = Delta(openIndex, "signature_delta", 0)
                 /\ "signature_delta" # "signature_delta" => Stands(d, nextIndex, "thinking", openIndex)
      BY ONLY <2>3, <3>1, <3>2, Adding, ZenonT(60)
    <3> QED BY <3>3
  <2>5. Signed(d)
    BY <1>4, <1>5, <2>4 DEF Signed, Delta, Event
  <2>6. nextIndex \in 1..nextIndex
    BY <1>4, <1>5
  <2>7. /\ \A i \in 1..nextIndex : i # nextIndex => d.content[i].closed = TRUE
        /\ d.content[nextIndex].closed = FALSE
    BY <1>4, <1>5, <2>4, <2>6
  <2>8. PICK f : /\ Path(d, <<BlockStop(openIndex)>>, f, tolerant)
                 /\ Stands(f, nextIndex, "none", 0) /\ Extends(d, f)
    BY <1>4, <1>5, <2>4, <2>5, <2>7, Stopping
  <2>9. Path(c, CloseOpenBlock, f, tolerant)
    BY <2>2, <2>4, <2>8, PathJoin
  <2>10. Extends(c, f)
    <3>1. f \in ClientType /\ Extends(c, d)
      BY <1>2, <2>4, <2>8, ExtendsAll DEF Stands
    <3> QED BY <3>1, <1>2, <2>4, <2>8, ExtendsAll DEF Extends
  <2> QED BY <2>2, <2>8, <2>9, <2>10
<1>6. CASE openType \in {"text", "tool_use"}
  <2>1. CloseOpenBlock = <<BlockStop(openIndex)>> /\ openType # "thinking" /\ openType # "none"
    BY <1>6 DEF CloseOpenBlock
  <2>2. \E d : /\ Path(c, <<BlockStop(openIndex)>>, d, tolerant)
               /\ Stands(d, nextIndex, "none", 0) /\ Extends(c, d)
    BY <1>2, <1>4, <2>1, Stopping
  <2> QED BY <1>1, <2>1, <2>2
<1> QED BY <1>3, <1>5, <1>6 DEF OpenTypes

\* The open block is closed and another one opened.
LEMMA Opening ==
  ASSUME NEW c, NEW tolerant, openType \in OpenTypes, openIndex \in Nat, nextIndex \in Nat,
         Stands(c, nextIndex, openType, openIndex), NEW kind \in Kinds
  PROVE  /\ CloseOpenBlock \o <<BlockStart(nextIndex, kind)>> \in Seq(EventType)
         /\ \E d : /\ Path(c, CloseOpenBlock \o <<BlockStart(nextIndex, kind)>>, d, tolerant)
                   /\ Stands(d, nextIndex + 1, kind, nextIndex) /\ Extends(c, d)
                   /\ d.content[nextIndex + 1].amount = 0
<1>1. BlockStart(nextIndex, kind) \in EventType /\ <<BlockStart(nextIndex, kind)>> \in Seq(EventType)
  <2>1. BlockStart(nextIndex, kind) \in EventType
    BY EventTypes
  <2> QED BY <2>1, OneEvent
<1>2. CloseOpenBlock \in Seq(EventType)
  BY Closing
<1>3. PICK d : /\ Path(c, CloseOpenBlock, d, tolerant)
               /\ Stands(d, nextIndex, "none", 0) /\ Extends(c, d)
  BY Closing
<1>4. PICK f : /\ Path(d, <<BlockStart(nextIndex, kind)>>, f, tolerant)
               /\ Stands(f, nextIndex + 1, kind, nextIndex) /\ Extends(d, f)
               /\ f.content[nextIndex + 1].amount = 0
  BY <1>3, Starting
<1>5. Path(c, CloseOpenBlock \o <<BlockStart(nextIndex, kind)>>, f, tolerant)
  BY <1>1, <1>2, <1>3, <1>4, PathJoin
<1>6. Extends(c, f)
  BY <1>3, <1>4, ExtendsAll DEF Extends, Stands
<1> QED BY <1>1, <1>2, <1>4, <1>5, <1>6, ConcatProperties

\* Fragments in a block that was not there before change no block that was.
LEMMA AddsBeyond ==
  ASSUME NEW c \in ClientType, NEW d \in ClientType, NEW f, NEW index \in Nat, NEW a \in Nat,
         Extends(c, d), Adds(d, f, index, a), index >= Len(c.content), f \in ClientType
  PROVE  Extends(c, f)
<1>1. Len(c.content) \in Nat /\ Len(d.content) \in Nat /\ Len(f.content) \in Nat
  BY Blocks
<1>2. \A i \in 1..Len(c.content) : i # index + 1 /\ i \in 1..Len(d.content)
  BY <1>1 DEF Extends, Adds
<1>3. Len(c.content) <= Len(f.content) /\ f.stop = c.stop
  BY <1>1 DEF Extends, Adds
<1>4. ASSUME NEW i \in 1..Len(c.content)
      PROVE  /\ f.content[i].kind = c.content[i].kind
             /\ f.content[i].amount = c.content[i].amount
  <2>1. c.content[i].amount \in Nat /\ d.content[i].amount \in Nat
    BY <1>2, <1>4, Blocks
  <2>2. d.content[i].kind = c.content[i].kind /\ d.content[i].amount = c.content[i].amount
    BY <1>4, <2>1 DEF Extends, Adds
  <2>3. f.content[i].kind = d.content[i].kind /\ f.content[i].amount = d.content[i].amount
    <3>1. i \in 1..Len(d.content) /\ i # index + 1
      BY <1>2, <1>4
    <3>2. /\ f.content[i].kind = d.content[i].kind
          /\ f.content[i].amount = d.content[i].amount + 0
      BY <3>1 DEF Adds
    <3> QED BY <2>1, <3>2
  <2> QED BY <2>2, <2>3
<1>5. \A i \in 1..Len(c.content) : c.content[i].amount \in Nat
  BY Blocks
<1> QED BY <1>3, <1>4, <1>5 DEF Extends, Adds

\* A fragment for the open block, which stays open.
LEMMA Streaming ==
  ASSUME NEW c, NEW n, NEW type \in Kinds, NEW index, NEW delta \in Deltas \ {"signature_delta"},
         NEW a \in Nat, NEW tolerant, Stands(c, n, type, index), delta \in Fits(type)
  PROVE  \E d : /\ Path(c, <<Delta(index, delta, a)>>, d, tolerant)
                /\ Stands(d, n, type, index) /\ Adds(c, d, index, a)
<1>1. \E d : /\ Path(c, <<Delta(index, delta, a)>>, d, tolerant)
             /\ Adds(c, d, index, a)
             /\ Len(d.content) = n /\ d \in ClientType /\ d.phase = "streaming"
             /\ \A i \in 1..n : d.content[i].closed = c.content[i].closed
             /\ d.last = Delta(index, delta, a)
             /\ delta # "signature_delta" => Stands(d, n, type, index)
  <2>1. delta \in Deltas
    OBVIOUS
  <2> QED BY <2>1, Adding, Zenon
<1> QED BY <1>1

\* The open block is closed, and another one opened and given fragments; a
\* tool block that is whole.
OpenEvents(kind, delta, a) ==
  CloseOpenBlock \o <<BlockStart(nextIndex, kind), Delta(nextIndex, delta, a)>>

\* The events take client c to one that stands as the last arguments say; its
\* last block has the kind and the fragments given.
Leads(c, events, tolerant, n, type, index) ==
  \E d : Path(c, events, d, tolerant) /\ Stands(d, n, type, index) /\ Extends(c, d)

Fills(c, events, tolerant, n, type, index, kind, a) ==
  \E d : /\ Path(c, events, d, tolerant) /\ Stands(d, n, type, index) /\ Extends(c, d)
         /\ d.content[n].kind = kind /\ d.content[n].amount = a

ToolEvents(a) ==
  CloseOpenBlock \o <<BlockStart(nextIndex, "tool_use"),
                      Delta(nextIndex, "input_json_delta", a), BlockStop(nextIndex)>>

\* The open block is closed, and another one opened and given fragments.
LEMMA OpeningWith ==
  ASSUME NEW c, NEW tolerant, openType \in OpenTypes, openIndex \in Nat, nextIndex \in Nat,
         Stands(c, nextIndex, openType, openIndex), NEW kind \in Kinds,
         NEW delta \in Deltas \ {"signature_delta"}, delta \in Fits(kind), NEW a \in Nat
  PROVE  /\ OpenEvents(kind, delta, a) \in Seq(EventType)
         /\ Fills(c, OpenEvents(kind, delta, a), tolerant,
                  nextIndex + 1, kind, nextIndex, kind, a)
<1> DEFINE first == CloseOpenBlock \o <<BlockStart(nextIndex, kind)>>
           second == <<Delta(nextIndex, delta, a)>>
           events == OpenEvents(kind, delta, a)
<1>1. BlockStart(nextIndex, kind) \in EventType /\ Delta(nextIndex, delta, a) \in EventType
  BY EventTypes
<1>2. CloseOpenBlock \in Seq(EventType)
  BY Closing
<1>3. /\ events = first \o second /\ events \in Seq(EventType)
      /\ first \in Seq(EventType) /\ second \in Seq(EventType)
  BY <1>1, <1>2, PairAfter DEF OpenEvents
<1>4. PICK d : /\ Path(c, first, d, tolerant)
               /\ Stands(d, nextIndex + 1, kind, nextIndex) /\ Extends(c, d)
               /\ d.content[nextIndex + 1].amount = 0
  BY Opening
<1>5. \E f : /\ Path(d, second, f, tolerant)
             /\ Stands(f, nextIndex + 1, kind, nextIndex) /\ Adds(d, f, nextIndex, a)
  BY <1>4, Streaming, Zenon
<1>6. PICK f : /\ Path(d, second, f, tolerant)
               /\ Stands(f, nextIndex + 1, kind, nextIndex) /\ Adds(d, f, nextIndex, a)
  BY <1>5
<1>7. Path(c, events, f, tolerant)
  BY <1>3, <1>4, <1>6, PathJoin
<1>8. c \in ClientType /\ d \in ClientType /\ f \in ClientType /\ Len(c.content) = nextIndex
      /\ Len(d.content) = nextIndex + 1
  BY <1>4, <1>6 DEF Stands
<1>9. Extends(c, f)
  BY <1>4, <1>6, <1>8, AddsBeyond
<1>10. f.content[nextIndex + 1].amount = a
  <2>1. nextIndex + 1 \in 1..Len(d.content)
    BY <1>8
  <2> QED BY <1>4, <1>6, <2>1 DEF Adds
<1>11. f.content[nextIndex + 1].kind = kind
  BY <1>6 DEF Stands, Kinds
<1>12. Fills(c, events, tolerant, nextIndex + 1, kind, nextIndex, kind, a)
  BY <1>6, <1>7, <1>9, <1>10, <1>11 DEF Fills
<1> QED BY <1>3, <1>12

\* The open block, which is not a thinking block, is closed.
LEMMA StoppingOpen ==
  ASSUME NEW c, NEW n, NEW type \in Kinds \ {"thinking"}, NEW index, NEW tolerant,
         Stands(c, n, type, index)
  PROVE  \E d : /\ Path(c, <<BlockStop(index)>>, d, tolerant)
                /\ Stands(d, n, "none", 0) /\ Extends(c, d)
<1>1. /\ c \in ClientType /\ index \in Nat /\ c.phase = "streaming"
      /\ Len(c.content) = n /\ n = index + 1 /\ c.content[n].kind = type
      /\ \A i \in 1..n : i # n => c.content[i].closed = TRUE
      /\ c.content[n].closed = FALSE
  BY DEF Stands, Kinds
<1> QED BY <1>1, Stopping

\* A whole image block.
LEMMA ImageBlock ==
  ASSUME NEW c, NEW tolerant, openType \in OpenTypes, openIndex \in Nat, nextIndex \in Nat,
         Stands(c, nextIndex, openType, openIndex)
  PROVE  /\ ImageEvents \in Seq(EventType)
         /\ Leads(c, ImageEvents, tolerant, nextIndex + 1, "none", 0)
<1> DEFINE first == CloseOpenBlock \o <<BlockStart(nextIndex, "image")>>
           second == <<BlockStop(nextIndex)>>
<1>1. /\ BlockStart(nextIndex, "image") \in EventType /\ BlockStop(nextIndex) \in EventType
      /\ "image" \in Kinds /\ "image" \in Kinds \ {"thinking"}
  BY EventTypes DEF Kinds
<1>2. CloseOpenBlock \in Seq(EventType)
  BY Closing
<1>3. /\ ImageEvents = first \o second /\ ImageEvents \in Seq(EventType)
      /\ first \in Seq(EventType) /\ second \in Seq(EventType)
  BY <1>1, <1>2, PairAfter DEF ImageEvents
<1>4. PICK d : /\ Path(c, first, d, tolerant)
               /\ Stands(d, nextIndex + 1, "image", nextIndex) /\ Extends(c, d)
  BY <1>1, Opening
<1>5. PICK f : /\ Path(d, second, f, tolerant)
               /\ Stands(f, nextIndex + 1, "none", 0) /\ Extends(d, f)
  BY <1>1, <1>4, StoppingOpen
<1>6. Path(c, ImageEvents, f, tolerant)
  BY <1>3, <1>4, <1>5, PathJoin
<1>7. Extends(c, f)
  BY <1>4, <1>5, ExtendsAll DEF Extends, Stands
<1> QED BY <1>3, <1>5, <1>6, <1>7 DEF Leads

\* A whole tool block (_flush_tool).
LEMMA ToolBlock ==
  ASSUME NEW c, NEW tolerant, openType \in OpenTypes, openIndex \in Nat, nextIndex \in Nat,
         Stands(c, nextIndex, openType, openIndex), NEW a \in Nat
  PROVE  /\ ToolEvents(a) \in Seq(EventType)
         /\ Fills(c, ToolEvents(a), tolerant, nextIndex + 1, "none", 0, "tool_use", a)
<1> DEFINE first == OpenEvents("tool_use", "input_json_delta", a)
           second == <<BlockStop(nextIndex)>>
           events == ToolEvents(a)
<1>1. "tool_use" \in Kinds /\ "tool_use" \in Kinds \ {"thinking"}
      /\ "input_json_delta" \in Deltas \ {"signature_delta"}
      /\ "input_json_delta" \in Fits("tool_use")
  BY DEF Kinds, Deltas, Fits
<1>2. /\ BlockStart(nextIndex, "tool_use") \in EventType /\ BlockStop(nextIndex) \in EventType
      /\ Delta(nextIndex, "input_json_delta", a) \in EventType
  BY <1>1, EventTypes
<1>3. CloseOpenBlock \in Seq(EventType)
  BY Closing
<1>4. /\ events = first \o second /\ events \in Seq(EventType)
      /\ first \in Seq(EventType) /\ second \in Seq(EventType)
  BY <1>2, <1>3, TripleAfter DEF OpenEvents, ToolEvents
<1>5. PICK d : /\ Path(c, first, d, tolerant)
               /\ Stands(d, nextIndex + 1, "tool_use", nextIndex) /\ Extends(c, d)
               /\ d.content[nextIndex + 1].amount = a
  <2>1. Fills(c, first, tolerant, nextIndex + 1, "tool_use", nextIndex, "tool_use", a)
    BY <1>1, OpeningWith
  <2> QED BY <2>1 DEF Fills
<1>6. PICK f : /\ Path(d, second, f, tolerant)
               /\ Stands(f, nextIndex + 1, "none", 0) /\ Extends(d, f)
  BY <1>1, <1>5, StoppingOpen
<1>7. Path(c, events, f, tolerant)
  BY <1>4, <1>5, <1>6, PathJoin
<1>8. Extends(c, f)
  BY <1>5, <1>6, ExtendsAll DEF Extends, Stands
<1>9. f.content[nextIndex + 1].kind = "tool_use" /\ f.content[nextIndex + 1].amount = a
  <2>1. d \in ClientType /\ nextIndex + 1 \in 1..Len(d.content)
        /\ d.content[nextIndex + 1].kind = "tool_use"
    BY <1>5 DEF Stands
  <2>2. d.content[nextIndex + 1].amount \in Nat
    BY <2>1, Blocks
  <2> QED BY <1>5, <1>6, <2>1, <2>2 DEF Extends, Adds
<1> QED BY <1>4, <1>6, <1>7, <1>8, <1>9 DEF Fills

\* d has the blocks of c, with their kinds and fragments, and perhaps more.
Keeps(c, d) ==
  /\ Len(c.content) <= Len(d.content)
  /\ \A i \in 1..Len(c.content) :
       d.content[i].kind = c.content[i].kind /\ d.content[i].amount = c.content[i].amount

\* What is kept is kept by every further step.
LEMMA KeepsAll ==
  ASSUME NEW c \in ClientType, NEW d \in ClientType
  PROVE  /\ Extends(c, d) => Keeps(c, d)
         /\ d.content = c.content => Keeps(c, d)
         /\ \A f \in ClientType : Keeps(c, d) /\ Keeps(d, f) => Keeps(c, f)
<1>1. /\ Len(c.content) \in Nat /\ Len(d.content) \in Nat
      /\ \A i \in 1..Len(c.content) : c.content[i].amount \in Nat
  BY Blocks
<1>2. Extends(c, d) => Keeps(c, d)
  BY <1>1 DEF Extends, Adds, Keeps
<1>3. d.content = c.content => Keeps(c, d)
  BY <1>1 DEF Keeps
<1>4. ASSUME NEW f \in ClientType, Keeps(c, d), Keeps(d, f)
      PROVE  Keeps(c, f)
  <2>1. Len(f.content) \in Nat
    BY Blocks
  <2> QED BY <1>1, <1>4, <2>1 DEF Keeps
<1> QED BY <1>2, <1>3, <1>4

\* The events take client c to one whose message is complete, or has failed.
Ends(c, events, tolerant, phase, stop) ==
  \E d \in ClientType : /\ Path(c, events, d, tolerant)
                        /\ d.phase = phase /\ d.stop = stop /\ Keeps(c, d)

\* Events one after another.
LEMMA LeadsOn ==
  ASSUME NEW c \in ClientType, NEW first \in Seq(EventType), NEW second \in Seq(EventType),
         NEW tolerant, NEW n, NEW type, NEW index,
         Leads(c, first, tolerant, n, type, index)
  PROVE  /\ \A m, t, i :
              (\A d : Stands(d, n, type, index) => Leads(d, second, tolerant, m, t, i))
              => Leads(c, first \o second, tolerant, m, t, i)
         /\ \A phase, stop :
              (\A d : Stands(d, n, type, index) /\ d.stop = c.stop
                        => Ends(d, second, tolerant, phase, stop))
              => Ends(c, first \o second, tolerant, phase, stop)
<1>1. PICK d : /\ Path(c, first, d, tolerant) /\ Stands(d, n, type, index) /\ Extends(c, d)
  BY DEF Leads
<1>2. d \in ClientType /\ d.stop = c.stop
  BY <1>1 DEF Stands, Extends, Adds
<1>3. ASSUME NEW m, NEW t, NEW i, Leads(d, second, tolerant, m, t, i)
      PROVE  Leads(c, first \o second, tolerant, m, t, i)
  <2>1. PICK f : Path(d, second, f, tolerant) /\ Stands(f, m, t, i) /\ Extends(d, f)
    BY <1>3 DEF Leads
  <2>2. Path(c, first \o second, f, tolerant)
    BY <1>1, <2>1, PathJoin
  <2>3. Extends(c, f)
    BY <1>1, <1>2, <2>1, ExtendsAll DEF Extends, Stands
  <2> QED BY <2>1, <2>2, <2>3 DEF Leads
<1>4. ASSUME NEW phase, NEW stop, Ends(d, second, tolerant, phase, stop)
      PROVE  Ends(c, first \o second, tolerant, phase, stop)
  <2>1. PICK f \in ClientType : /\ Path(d, second, f, tolerant)
                                /\ f.phase = phase /\ f.stop = stop /\ Keeps(d, f)
    BY <1>4 DEF Ends
  <2>2. Path(c, first \o second, f, tolerant)
    BY <1>1, <2>1, PathJoin
  <2>3. Keeps(c, f)
    BY <1>1, <1>2, <2>1, KeepsAll
  <2> QED BY <2>1, <2>2, <2>3 DEF Ends
<1> QED BY <1>1, <1>2, <1>3, <1>4

\* message_start.
LEMMA Beginning ==
  ASSUME NEW c \in ClientType, NEW tolerant, c.phase = "none", c.content = <<>>
  PROVE  Leads(c, <<MessageStart>>, tolerant, 0, "none", 0)
<1> DEFINE d == Received(c, MessageStart)
<1>1. /\ MessageStart \in EventType /\ MessageStart.event = "message_start"
      /\ MessageStart.index = 0 /\ MessageStart.kind = "none"
  BY EventTypes DEF MessageStart, Event, Kinds
<1>2. d = [c EXCEPT !.phase = "streaming", !.last = MessageStart]
  BY <1>1 DEF Received
<1>3. d \in ClientType /\ Path(c, <<MessageStart>>, d, tolerant)
  BY <1>1, PathOne DEF Legal
<1>4. d.phase = "streaming" /\ d.content = <<>> /\ d.stop = c.stop
  BY <1>2 DEF ClientType
<1> HIDE DEF d
<1>5. Stands(d, 0, "none", 0)
  BY <1>3, <1>4 DEF Stands
<1>6. Extends(c, d)
  BY <1>4 DEF Extends, Adds
<1> QED BY <1>3, <1>5, <1>6 DEF Leads

\* An error, which may follow message_stop when that is tolerated.
LEMMA Failing ==
  ASSUME NEW c \in ClientType, NEW tolerant,
         c.phase = "streaming" \/ (tolerant = TRUE /\ c.phase = "stopped")
  PROVE  Ends(c, <<ErrorEvent>>, tolerant, "failed", c.stop)
<1> DEFINE d == Received(c, ErrorEvent)
<1>1. /\ ErrorEvent \in EventType /\ ErrorEvent.event = "error"
      /\ ErrorEvent.index = 0 /\ ErrorEvent.kind = "none"
  BY EventTypes DEF ErrorEvent, Event, Kinds
<1>2. d = [c EXCEPT !.last = ErrorEvent, !.phase = "failed"]
  BY <1>1 DEF Received
<1>3. d \in ClientType /\ Path(c, <<ErrorEvent>>, d, tolerant)
  BY <1>1, PathOne DEF Legal
<1>4. d.phase = "failed" /\ d.content = c.content /\ d.stop = c.stop
  BY <1>2 DEF ClientType
<1> HIDE DEF d
<1> QED BY <1>3, <1>4, KeepsAll DEF Ends

\* message_delta and message_stop.
LEMMA Ending ==
  ASSUME NEW c, NEW tolerant, NEW n, Stands(c, n, "none", 0), c.stop # "tool_use",
         NEW reason \in Reasons, NEW a \in Nat
  PROVE  Ends(c, <<MessageDelta(reason, a), MessageStop>>, tolerant, "stopped", reason)
<1> DEFINE e == MessageDelta(reason, a)
           d == Received(c, e)
           f == Received(d, MessageStop)
<1>1. /\ e \in EventType /\ e.event = "message_delta" /\ e.index = 0 /\ e.kind = reason
      /\ MessageStop \in EventType /\ MessageStop.event = "message_stop"
      /\ MessageStop.index = 0 /\ MessageStop.kind = "none"
  BY EventTypes DEF MessageDelta, MessageStop, Event, Kinds
<1>2. c \in ClientType /\ c.phase = "streaming" /\ ~HasOpen(c)
  <2>1. c \in ClientType /\ c.phase = "streaming" /\ Len(c.content) = n
    BY DEF Stands
  <2>2. c.content # <<>> => n \in 1..n
    BY <2>1, Blocks
  <2> QED BY <2>1, <2>2 DEF Stands, HasOpen, Top
<1>3. d = [c EXCEPT !.last = e, !.phase = "closing", !.stop = e.kind, !.tokens = e.amount]
  BY <1>1 DEF Received
<1>4. d \in ClientType /\ Path(c, <<e>>, d, tolerant)
  BY <1>1, <1>2, PathOne DEF Legal
<1>5. d.phase = "closing" /\ d.content = c.content /\ d.stop = reason
  BY <1>1, <1>2, <1>3 DEF ClientType
<1>6. f = [d EXCEPT !.last = MessageStop, !.phase = "stopped"]
  BY <1>1 DEF Received
<1> HIDE DEF d
<1>7. f \in ClientType /\ Path(d, <<MessageStop>>, f, tolerant)
  BY <1>1, <1>4, <1>5, PathOne DEF Legal
<1>8. f.phase = "stopped" /\ f.content = c.content /\ f.stop = reason
  BY <1>4, <1>5, <1>6 DEF ClientType
<1> HIDE DEF f, e
<1>9. /\ <<e>> \in Seq(EventType) /\ <<MessageStop>> \in Seq(EventType)
      /\ <<e, MessageStop>> = <<e>> \o <<MessageStop>>
  BY <1>1, OneEvent, PairAfter
<1>10. Path(c, <<e, MessageStop>>, f, tolerant)
  BY <1>4, <1>7, <1>9, PathJoin
<1>11. Keeps(c, f)
  BY <1>2, <1>7, <1>8, KeepsAll
<1> QED BY <1>7, <1>8, <1>10, <1>11 DEF Ends, e

\* The open block is closed, the message is complete.
LEMMA Finishing ==
  ASSUME NEW c, NEW tolerant, openType \in OpenTypes, openIndex \in Nat, nextIndex \in Nat,
         Stands(c, nextIndex, openType, openIndex), c.stop # "tool_use",
         NEW reason \in Reasons, FinalOutput \in Nat
  PROVE  /\ FinalEvents(reason) \in Seq(EventType)
         /\ Ends(c, FinalEvents(reason), tolerant, "stopped", reason)
<1> DEFINE last == <<MessageDelta(reason, FinalOutput), MessageStop>>
<1>1. c \in ClientType
  BY DEF Stands
<1>2. Leads(c, CloseOpenBlock, tolerant, nextIndex, "none", 0) /\ CloseOpenBlock \in Seq(EventType)
  BY Closing DEF Leads
<1>3. MessageDelta(reason, FinalOutput) \in EventType /\ MessageStop \in EventType
  BY EventTypes
<1>4. last \in Seq(EventType) /\ CloseOpenBlock \o last \in Seq(EventType)
  BY <1>2, <1>3, PairAfter
<1>5. \A d : Stands(d, nextIndex, "none", 0) /\ d.stop = c.stop
               => Ends(d, last, tolerant, "stopped", reason)
  BY Ending
<1>6. FinalEvents(reason) = CloseOpenBlock \o last
  BY DEF FinalEvents
<1> HIDE DEF last
<1>7. Ends(c, CloseOpenBlock \o last, tolerant, "stopped", reason)
  BY <1>1, <1>2, <1>4, <1>5, LeadsOn
<1> QED BY <1>4, <1>6, <1>7

\* A message without content.
LEMMA FinishingNew ==
  ASSUME NEW c \in ClientType, NEW tolerant, openType = "none", openIndex \in Nat, nextIndex = 0,
         c.phase = "none", c.content = <<>>, c.stop # "tool_use",
         NEW reason \in Reasons, FinalOutput \in Nat
  PROVE  /\ <<MessageStart>> \o FinalEvents(reason) \in Seq(EventType)
         /\ Ends(c, <<MessageStart>> \o FinalEvents(reason), tolerant, "stopped", reason)
<1>1. Leads(c, <<MessageStart>>, tolerant, 0, "none", 0) /\ <<MessageStart>> \in Seq(EventType)
  BY Beginning, EventTypes, OneEvent
<1>2. ASSUME NEW d, Stands(d, 0, "none", 0), d.stop = c.stop
      PROVE  /\ FinalEvents(reason) \in Seq(EventType)
             /\ Ends(d, FinalEvents(reason), tolerant, "stopped", reason)
  <2>1. Stands(d, nextIndex, openType, openIndex) /\ openType \in OpenTypes /\ nextIndex \in Nat
    BY <1>2 DEF Stands, OpenTypes
  <2> QED BY <1>2, <2>1, Finishing
<1>3. FinalEvents(reason) \in Seq(EventType)
  BY <1>1, <1>2 DEF Leads, Extends, Adds
<1>4. Ends(c, <<MessageStart>> \o FinalEvents(reason), tolerant, "stopped", reason)
  BY <1>1, <1>2, <1>3, LeadsOn
<1> QED BY <1>1, <1>3, <1>4, ConcatProperties

-----------------------------------------------------------------------------
(***************************************************************************)
(* The inductive invariant.                                                *)
(***************************************************************************)
Names == STRING \cup {NoName}
Accumulator == [seen : BOOLEAN, id : BOOLEAN, name : Names, args : Nat, anthIndex : Nat,
                started : BOOLEAN, closed : BOOLEAN, known : BOOLEAN]
Stages == {"receive", "metadata", "image", "reasoning", "text", "tool", "flush", "safety",
           "finalizer", "finalize", "end"}

Types ==
  /\ stage \in Stages /\ chunk \in ChunkType /\ received \in Nat /\ k \in Nat
  /\ nextIndex \in Nat /\ openType \in OpenTypes /\ openIndex \in Nat
  /\ started \in BOOLEAN /\ finished \in BOOLEAN /\ stopReason \in Reasons
  /\ usageOutput \in Nat /\ accumulatedText \in Nat /\ accumulatedToolJson \in Nat
  /\ accumulators \in [Tools -> Accumulator] /\ streamingTool \in Tools \cup {-1}
  /\ repetitionCount \in Nat /\ hallucinationCount \in Nat /\ irregular \in BOOLEAN

\* Which flags hold at which stage.
Flow ==
  /\ finished = TRUE => started = TRUE
  /\ received > 0 /\ stage # "metadata" => started = TRUE
  /\ stage \in {"image", "reasoning", "text", "tool", "flush", "finalizer"}
       => started = TRUE /\ finished = FALSE
  /\ stage = "safety" => started = TRUE
  /\ stage = "tool" => k >= 1
  /\ finished = FALSE => stopReason = "end_turn"
  /\ started = FALSE => nextIndex = 0 /\ openType = "none"
  /\ stage = "flush" => chunk.finish \in {"tool_calls", "stop"}
  /\ /\ stage \in {"metadata", "image", "reasoning", "text"}
     /\ finished = FALSE /\ HasContent(chunk) /\ openType = "tool_use"
     => irregular = TRUE

\* Has no accumulator been flushed yet?
Unflushed ==
  \/ stage \in {"receive", "metadata", "image", "reasoning", "text", "tool", "finalize"}
  \/ stage \in {"safety", "finalizer"} /\ chunk.finish = "none"

\* The tool with index i has the stream, and its block is the open one, unless
\* the upstream has gone on with content.
HasStream(i) ==
  /\ i = streamingTool
  /\ irregular = TRUE \/ (openType = "tool_use" /\ openIndex = accumulators[i].anthIndex)

Callable(i) == accumulators[i].id = TRUE /\ accumulators[i].name \in Declared

ToolFlow ==
  /\ \A i \in Tools : accumulators[i].closed = TRUE \/ accumulators[i].id = TRUE
                        => accumulators[i].seen = TRUE
  /\ finished = FALSE /\ Unflushed =>
       \A i \in Tools : /\ accumulators[i].closed = FALSE
                        /\ accumulators[i].started = TRUE => HasStream(i)
  /\ stage = "flush" => \A i \in Tools : i < k /\ Callable(i) => accumulators[i].closed = TRUE
  /\ stage \in {"safety", "finalizer"} /\ chunk.finish = "tool_calls" =>
       \A i \in Tools : Callable(i) => accumulators[i].closed = TRUE

LimitReached == hallucinationCount >= MaxHallucinations \/ repetitionCount >= MaxRepetitions

\* Client v has each tool block that was opened, with the fragments received.
Holds(v) ==
  \A i \in Tools : accumulators[i].started = TRUE =>
    /\ accumulators[i].anthIndex + 1 \in 1..Len(v.content)
    /\ v.content[accumulators[i].anthIndex + 1].kind = "tool_use"
    /\ v.content[accumulators[i].anthIndex + 1].amount = accumulators[i].args

\* Client v is where the pipeline takes it to be.
Agrees(v) ==
  /\ started = FALSE => v.phase = "none" /\ v.content = <<>>
  /\ started = TRUE /\ finished = FALSE /\ stage # "end"
       => Stands(v, nextIndex, openType, openIndex)
  /\ finished = TRUE => \/ v.phase \in {"stopped", "failed"}
                        \/ v.phase = "streaming" /\ LimitReached
  /\ v.phase = "failed" => stage = "end"
  /\ stage = "end" => finished = TRUE \/ v.phase = "failed"
  /\ v.stop = "tool_use" =>
       finished = TRUE /\ \A i \in Tools : Callable(i) => accumulators[i].closed = TRUE
  /\ Holds(v)

Agreement ==
  /\ out \in Seq(EventType) /\ client \in ClientType
  /\ \E v \in ClientType : Path(client, out, v, irregular) /\ Agrees(v)

IInv == Types /\ Flow /\ ToolFlow /\ Agreement

\* The elements of a chunk's tool_calls, and the accumulators.
LEMMA Elements ==
  ASSUME Types
  PROVE  /\ Len(chunk.tools) \in Nat /\ DOMAIN chunk.tools = 1..Len(chunk.tools)
         /\ \A j \in 1..Len(chunk.tools) :
              /\ chunk.tools[j].index \in Tools
              /\ chunk.tools[j].name \in Names /\ chunk.tools[j].args \in BOOLEAN
         /\ \A i \in Tools :
              /\ accumulators[i] \in Accumulator /\ accumulators[i].seen \in BOOLEAN
              /\ accumulators[i].id \in BOOLEAN /\ accumulators[i].name \in Names
              /\ accumulators[i].args \in Nat /\ accumulators[i].anthIndex \in Nat
              /\ accumulators[i].started \in BOOLEAN /\ accumulators[i].closed \in BOOLEAN
<1> DEFINE T == [index : Tools, id : {Absent, "null", Given}, name : STRING, args : BOOLEAN]
<1>1. chunk.tools \in Seq(T)
  BY DEF Types, ChunkType
<1>2. Len(chunk.tools) \in Nat /\ DOMAIN chunk.tools = 1..Len(chunk.tools)
  BY <1>1, LenProperties
<1>3. \A t \in T : t.index \in Tools /\ t.name \in STRING /\ t.args \in BOOLEAN
  OBVIOUS
<1> HIDE DEF T
<1>4. \A j \in 1..Len(chunk.tools) : chunk.tools[j] \in T
  BY <1>1
<1>5. \A j \in 1..Len(chunk.tools) :
        /\ chunk.tools[j].index \in Tools
        /\ chunk.tools[j].name \in Names /\ chunk.tools[j].args \in BOOLEAN
  BY <1>3, <1>4 DEF Names
<1>6. \A i \in Tools : accumulators[i] \in Accumulator
  BY DEF Types
<1>7. \A a \in Accumulator :
        /\ a.seen \in BOOLEAN /\ a.id \in BOOLEAN /\ a.name \in Names /\ a.args \in Nat
        /\ a.anthIndex \in Nat /\ a.started \in BOOLEAN /\ a.closed \in BOOLEAN
  BY DEF Accumulator
<1> QED BY <1>2, <1>5, <1>6, <1>7

\* BOOLEAN, for the hypotheses of lemmas.
Flags == {TRUE, FALSE}

\* The accumulator of a tool_calls element, with what the element says.
LEMMA MergedType ==
  ASSUME NEW acc \in Accumulator, NEW tc, tc.name \in Names
  PROVE  /\ Merged(acc, tc) \in Accumulator
         /\ Merged(acc, tc).seen = TRUE
         /\ Merged(acc, tc).args = acc.args /\ Merged(acc, tc).anthIndex = acc.anthIndex
         /\ Merged(acc, tc).started = acc.started /\ Merged(acc, tc).closed = acc.closed
<1> DEFINE id == IF tc.id = Absent THEN acc.id ELSE tc.id = Given
           name == IF tc.name = Absent THEN acc.name ELSE tc.name
           known == acc.known \/ (id /\ name \in Declared)
<1>1. acc.id \in Flags /\ acc.known \in Flags /\ acc.name \in Names
  BY DEF Accumulator, Flags
<1>2. id \in BOOLEAN /\ name \in Names
  BY <1>1 DEF Flags
<1>3. known \in BOOLEAN
  <2> HIDE DEF id, name
  <2> QED BY <1>1 DEF Flags
<1>4. Merged(acc, tc) = [acc EXCEPT !.seen = TRUE, !.id = id, !.name = name, !.known = known]
  BY DEF Merged
<1> HIDE DEF id, name, known
<1> QED BY <1>2, <1>3, <1>4 DEF Accumulator

\* The output tokens reported are a number.
LEMMA FinalOutputType ==
  ASSUME Types
  PROVE  FinalOutput \in Nat
BY DEF Types, FinalOutput, Reconciled

\* What an element of tool_calls does to its accumulator, and which block it
\* is streamed to.
ToolTaken(i, starts) ==
  /\ i = chunk.tools[k].index
  /\ LET acc == Merged(accumulators[i], chunk.tools[k])
         a == IF chunk.tools[k].args = TRUE THEN 1 ELSE 0
         index == IF starts = TRUE THEN nextIndex ELSE accumulators[i].anthIndex
     IN /\ starts = TRUE => /\ accumulators[i].started = FALSE
                            /\ streamingTool \in {-1, i} /\ streamingTool' = i
        /\ streamingTool' = (IF streamingTool = -1 THEN i ELSE streamingTool)
             \/ (streamingTool \in {-1, i} /\ accumulators[i].started = FALSE /\ starts = FALSE
                   /\ streamingTool' = -1)
        /\ accumulatedToolJson' \in {accumulatedToolJson, accumulatedToolJson + 1}
        /\ nextIndex' = (IF starts = TRUE THEN nextIndex + 1 ELSE nextIndex)
        /\ openType' = (IF starts = TRUE THEN "tool_use" ELSE openType)
        /\ openIndex' = (IF starts = TRUE THEN nextIndex ELSE openIndex)
        /\ accumulators' \in [Tools -> Accumulator]
        /\ \A j \in Tools : j # i => accumulators'[j] = accumulators[j]
        /\ accumulators'[i].seen = TRUE
        /\ accumulators'[i].closed = accumulators[i].closed
        /\ accumulators'[i].anthIndex = index
        /\ accumulators'[i].args = accumulators[i].args + a
        /\ accumulators'[i].started = TRUE
             <=> accumulators[i].started = TRUE \/ starts = TRUE

\* The events of that element.
ToolSent(i, starts, events) ==
  LET index == IF starts = TRUE THEN nextIndex ELSE accumulators[i].anthIndex
      fragment == IF /\ streamingTool = -1 \/ streamingTool = i
                     /\ accumulators[i].started = TRUE \/ starts = TRUE
                     /\ accumulators[i].closed = FALSE
                     /\ chunk.tools[k].args = TRUE
                  THEN <<Delta(index, "input_json_delta", 1)>> ELSE <<>>
      opening == IF starts = TRUE
                 THEN CloseOpenBlock \o <<BlockStart(nextIndex, "tool_use")>>
                        \o (IF accumulators[i].args > 0
                            THEN <<Delta(nextIndex, "input_json_delta", accumulators[i].args)>>
                            ELSE <<>>)
                 ELSE <<>>
  IN events = opening \o fragment

\* An accumulator whose block is opened, or which gets a fragment.
Opened(acc, x, a) == [acc EXCEPT !.started = TRUE, !.anthIndex = x, !.args = @ + a]
Grown(acc, a) == [acc EXCEPT !.args = @ + a]

\* new is acc with another block, with or without a fragment more.
Becomes(acc, new, begun, x, a) ==
  /\ new \in Accumulator /\ new.seen = acc.seen /\ new.closed = acc.closed
  /\ new.started = begun /\ new.anthIndex = x /\ new.args = acc.args + a

\* Opening a block or taking a fragment leaves an accumulator.
LEMMA AccumulatorChanges ==
  ASSUME NEW acc \in Accumulator, NEW x \in Nat, NEW a \in Nat
  PROVE  /\ Becomes(acc, Opened(acc, x, a), TRUE, x, a)
         /\ Becomes(acc, Grown(acc, a), acc.started, acc.anthIndex, a)
<1>1. acc.args \in Nat /\ acc.args + a \in Nat
  BY DEF Accumulator
<1> QED BY <1>1 DEF Accumulator, Opened, Grown, Becomes

\* ToolCall does to one accumulator what ToolTaken says, and sends what ToolSent
\* says.
LEMMA ToolCallTakes ==
  ASSUME Types, ToolCall, k >= 1
  PROVE  \E i \in Tools : \E starts \in BOOLEAN : ToolTaken(i, starts) /\ ToolSent(i, starts, out')
<1> DEFINE tc == chunk.tools[k]
           i == tc.index
           acc == Merged(accumulators[i], tc)
           Starts == MayStart(acc, tc) /\ acc.name \in Declared
           index == IF Starts THEN nextIndex ELSE acc.anthIndex
           Streams == Claimant(tc) = tc.index /\ (acc.started \/ Starts) /\ ~acc.closed /\ tc.args
           a == IF tc.args THEN 1 ELSE 0
           new == [acc EXCEPT !.started = @ \/ Starts, !.anthIndex = index, !.args = @ + a]
<1>1. k \in 1..Len(chunk.tools)
  <2>1. k <= Len(chunk.tools)
    BY Zenon DEF ToolCall
  <2> QED BY <2>1, Elements DEF Types
<1>2. /\ i \in Tools /\ tc.name \in Names /\ tc.args \in BOOLEAN
      /\ accumulators[i] \in Accumulator /\ accumulators[i].args \in Nat
      /\ accumulators[i].started \in BOOLEAN /\ accumulators[i].closed \in BOOLEAN
      /\ accumulators[i].anthIndex \in Nat /\ nextIndex \in Nat
  BY <1>1, Elements DEF Types
<1>3. /\ acc \in Accumulator /\ acc.seen = TRUE
      /\ acc.args = accumulators[i].args /\ acc.anthIndex = accumulators[i].anthIndex
      /\ acc.started = accumulators[i].started /\ acc.closed = accumulators[i].closed
  <2> HIDE DEF tc, i
  <2> QED BY <1>2, MergedType
<1>4. a \in Nat /\ a = IF tc.args = TRUE THEN 1 ELSE 0
  BY <1>2
<1>5. /\ streamingTool' = IF MayStart(acc, tc) /\ ~Starts THEN -1 ELSE Claimant(tc)
      /\ accumulators' = [accumulators EXCEPT ![i] = new]
      /\ out' = (IF Starts THEN StartEvents(acc) ELSE <<>>)
                  \o IF Streams THEN <<Delta(index, "input_json_delta", 1)>> ELSE <<>>
  BY DEF ToolCall, Yield, Sends
<1>12. accumulatedToolJson' \in {accumulatedToolJson, accumulatedToolJson + 1}
  <2>1. accumulatedToolJson' = accumulatedToolJson + (IF Streams THEN 1 ELSE 0)
    BY DEF ToolCall
  <2> HIDE DEF Streams
  <2> QED BY <2>1 DEF Types
<1>6. Claimant(tc) = IF streamingTool = -1 THEN i ELSE streamingTool
  BY DEF Claimant
<1>7. MayStart(acc, tc) => Claimant(tc) = i /\ acc.started = FALSE
  BY <1>2, <1>3 DEF MayStart
<1>8. -1 \notin Tools
  BY DEF Tools
<1>9. CASE Starts
  <2>1. (acc.started \/ Starts) = TRUE /\ index = nextIndex
    BY <1>9
  <2>2. new = Opened(acc, nextIndex, a)
    BY <2>1 DEF Opened
  <2>3. /\ new \in Accumulator /\ new.seen = TRUE /\ new.closed = acc.closed
        /\ new.started = TRUE /\ new.anthIndex = nextIndex /\ new.args = acc.args + a
    <3> HIDE DEF new, acc, a
    <3>1. acc \in Accumulator /\ nextIndex \in Nat /\ a \in Nat
      BY <1>2, <1>3, <1>4
    <3>2. Becomes(acc, Opened(acc, nextIndex, a), TRUE, nextIndex, a)
      BY <3>1, AccumulatorChanges
    <3> QED BY <1>3, <2>2, <3>2 DEF Becomes
  <2>4. nextIndex' = nextIndex + 1 /\ openType' = "tool_use" /\ openIndex' = nextIndex
    BY <1>9 DEF ToolCall
  <2>5. ToolTaken(i, TRUE)
    BY <1>2, <1>3, <1>4, <1>5, <1>12, <1>6, <1>7, <1>9, <2>3, <2>4 DEF ToolTaken, Types
  <2>6. Streams <=> /\ streamingTool = -1 \/ streamingTool = i
                    /\ accumulators[i].closed = FALSE /\ tc.args = TRUE
    BY <1>2, <1>3, <1>6, <1>9
  <2>7. StartEvents(acc) = CloseOpenBlock \o <<BlockStart(nextIndex, "tool_use")>>
          \o (IF accumulators[i].args > 0
              THEN <<Delta(nextIndex, "input_json_delta", accumulators[i].args)>> ELSE <<>>)
    BY <1>3 DEF StartEvents
  <2>8. out' = StartEvents(acc)
                 \o IF Streams THEN <<Delta(nextIndex, "input_json_delta", 1)>> ELSE <<>>
    BY <1>5, <1>9, <2>1
  <2>9. ToolSent(i, TRUE, out')
    <3> HIDE DEF Streams, acc, tc, i
    <3> QED BY <2>6, <2>7, <2>8 DEF ToolSent, tc
  <2> QED BY <1>2, <2>5, <2>9
<1>10. CASE ~Starts
  <2>1. (acc.started \/ Starts) = acc.started /\ index = acc.anthIndex
    BY <1>2, <1>3, <1>10
  <2>2. new = Grown(acc, a)
    BY <1>3, <2>1 DEF Grown, Accumulator
  <2>3. /\ new \in Accumulator /\ new.seen = TRUE /\ new.closed = acc.closed
        /\ new.started = acc.started /\ new.anthIndex = acc.anthIndex /\ new.args = acc.args + a
    <3> HIDE DEF new, acc, a
    <3>1. acc \in Accumulator /\ nextIndex \in Nat /\ a \in Nat
      BY <1>2, <1>3, <1>4
    <3>2. Becomes(acc, Grown(acc, a), acc.started, acc.anthIndex, a)
      BY <3>1, AccumulatorChanges
    <3> QED BY <1>3, <2>2, <3>2 DEF Becomes
  <2>4. nextIndex' = nextIndex /\ openType' = openType /\ openIndex' = openIndex
    BY <1>10 DEF ToolCall, blockVars
  <2>5. ToolTaken(i, FALSE)
    BY <1>2, <1>3, <1>4, <1>5, <1>12, <1>6, <1>7, <1>10, <2>3, <2>4 DEF ToolTaken, Types
  <2>6. Streams <=> /\ streamingTool = -1 \/ streamingTool = i
                    /\ accumulators[i].started = TRUE
                    /\ accumulators[i].closed = FALSE /\ tc.args = TRUE
    BY <1>2, <1>3, <1>6, <1>10
  <2>7. out' = <<>> \o IF Streams THEN <<Delta(accumulators[i].anthIndex, "input_json_delta", 1)>>
                       ELSE <<>>
    BY <1>3, <1>5, <1>10, <2>1
  <2>8. ToolSent(i, FALSE, out')
    <3> HIDE DEF Streams, acc, tc, i
    <3> QED BY <2>6, <2>7 DEF ToolSent, tc
  <2> QED BY <1>2, <2>5, <2>8
<1> QED BY <1>9, <1>10

-----------------------------------------------------------------------------
(***************************************************************************)
(* Every step keeps the invariant: first its types.                        *)
(***************************************************************************)
LEMMA TypesInit ==
  ASSUME Init
  PROVE  Types
<1>1. NoChunk \in ChunkType
  BY DEF NoChunk, ChunkType, FinishReasons
<1>2. NewAccumulator \in Accumulator
  BY DEF NewAccumulator, Accumulator, Names
<1> QED BY <1>1, <1>2 DEF Init, Types, Stages, OpenTypes, Reasons

\* Every step keeps the types.
LEMMA TypesKept ==
  ASSUME Types, Flow, [Next]_vars
  PROVE  Types'
<1> USE DEF Types
<1>1. ASSUME NEW c \in Chunks, Receive(c) PROVE Types'
  <2>1. chunk' \in ChunkType
    BY <1>1, PipelineAssumption DEF Receive
  <2>2. irregular' \in BOOLEAN
    BY <1>1, Zenon DEF Receive
  <2> QED BY <1>1, <2>1, <2>2
        DEF Receive, Stages, blockVars, flagVars, countVars, toolVars, safetyVars
<1>2. CASE UpstreamEnds
  BY <1>2 DEF UpstreamEnds, Yield, loopVars, blockVars, flagVars, countVars, toolVars,
    safetyVars, Stages
<1>3. CASE UpstreamFails
  <2>1. irregular' \in BOOLEAN
    BY <1>3, Zenon DEF UpstreamFails
  <2> QED BY <1>3, <2>1 DEF UpstreamFails, loopVars, blockVars, flagVars, countVars, toolVars,
            safetyVars, Stages
<1>4. CASE Metadata
  <2>1. started' \in BOOLEAN
    BY <1>4, Zenon DEF Metadata
  <2>2. usageOutput' \in Nat /\ stage' \in Stages
    BY <1>4 DEF Metadata, ChunkType, Stages
  <2> QED BY <1>4, <2>1, <2>2 DEF Metadata, Yield, loopVars, blockVars, toolVars, safetyVars
<1>5. CASE Image
  BY <1>5 DEF Image, Yield, loopVars, blockVars, flagVars, countVars, toolVars, safetyVars,
    Stages, OpenTypes
<1>6. CASE Reasoning
  BY <1>6 DEF Reasoning, StreamInto, Yield, loopVars, blockVars, flagVars, countVars, toolVars,
    safetyVars, Stages, OpenTypes
<1>7. CASE Text
  BY <1>7 DEF Text, StreamInto, Yield, loopVars, blockVars, flagVars, toolVars,
    safetyVars, Stages, OpenTypes
<1>8. CASE ToolCall
  <2>1. k >= 1
    BY <1>8 DEF Flow, ToolCall, Runs
  <2>2. PICK i \in Tools, starts \in BOOLEAN : ToolTaken(i, starts)
    BY <1>8, <2>1, ToolCallTakes
  <2>3. /\ nextIndex' \in Nat /\ openType' \in OpenTypes /\ openIndex' \in Nat
        /\ accumulators' \in [Tools -> Accumulator] /\ streamingTool' \in Tools \cup {-1}
    BY <2>2 DEF ToolTaken, OpenTypes
  <2>4. k' \in Nat /\ accumulatedToolJson' \in Nat
    <3>1. k' = k + 1
      BY <1>8, Zenon DEF ToolCall
    <3>2. accumulatedToolJson' \in {accumulatedToolJson, accumulatedToolJson + 1}
      BY <2>2 DEF ToolTaken
    <3> QED BY <3>1, <3>2
  <2>5. UNCHANGED <<stage, loopVars, flagVars, usageOutput, accumulatedText, safetyVars, irregular>>
    BY <1>8 DEF ToolCall, Yield
  <2> QED BY <2>3, <2>4, <2>5 DEF loopVars, flagVars, safetyVars
<1>9. CASE ToolTail
  <2>1. Cardinality({j \in DOMAIN chunk.tools : chunk.tools[j].args}) \in Nat
    <3>1. DOMAIN chunk.tools = 1..Len(chunk.tools) /\ Len(chunk.tools) \in Nat
      BY Elements
    <3>2. IsFiniteSet(1..Len(chunk.tools))
      BY <3>1, FS_Interval, 1 \in Int, Len(chunk.tools) \in Int
    <3>3. IsFiniteSet({j \in DOMAIN chunk.tools : chunk.tools[j].args})
      BY <3>1, <3>2, FS_Subset
    <3> QED BY <3>3, FS_CardinalityType
  <2>2. accumulatedToolJson' \in Nat /\ stage' \in Stages /\ k' \in Nat
    BY <1>9, <2>1 DEF ToolTail, Stages
  <2> QED BY <1>9, <2>2 DEF ToolTail, Yield, loopVars, blockVars, flagVars, toolVars, safetyVars
<1>10. CASE FlushTool
  <2>1. accumulators' \in [Tools -> Accumulator]
    <3>1. k \in Tools => accumulators[k] \in Accumulator
      OBVIOUS
    <3>2. CASE FlushStarted(accumulators[k])
      <4>1. [accumulators[k] EXCEPT !.closed = TRUE] \in Accumulator
        BY <1>10, <3>1 DEF FlushTool, Accumulator
      <4> QED BY <3>2, <4>1 DEF FlushStarted
    <3>3. CASE FlushWhole(accumulators[k])
      <4>1. [accumulators[k] EXCEPT !.started = TRUE, !.closed = TRUE, !.anthIndex = nextIndex]
              \in Accumulator
        BY <1>10, <3>1 DEF FlushTool, Accumulator
      <4> QED BY <3>3, <4>1 DEF FlushWhole
    <3>4. CASE FlushDropped(accumulators[k])
      BY <3>4 DEF FlushDropped
    <3> QED BY <1>10, <3>2, <3>3, <3>4, Zenon DEF FlushTool
  <2>2. nextIndex' \in Nat /\ openType' \in OpenTypes /\ openIndex' \in Nat
    BY <1>10 DEF FlushTool, FlushStarted, FlushWhole, FlushDropped, blockVars, OpenTypes
  <2>3. irregular' = irregular
    BY <1>10 DEF FlushTool, FlushStarted, FlushWhole, FlushDropped, Yield
  <2>4. /\ UNCHANGED <<stage, loopVars, flagVars, countVars, streamingTool, safetyVars>>
        /\ k' = k + 1
    BY <1>10, Zenon DEF FlushTool
  <2> QED BY <2>1, <2>2, <2>3, <2>4 DEF loopVars, flagVars, countVars, safetyVars
<1>11. CASE FlushDone
  BY <1>11 DEF FlushDone, Yield, loopVars, blockVars, flagVars, countVars, toolVars, safetyVars,
    Stages
<1>12. CASE SafetyText
  <2>1. finished' \in BOOLEAN
    BY <1>12, Zenon DEF SafetyText, StopHere
  <2>2. stopReason' \in Reasons /\ hallucinationCount' \in Nat
    BY <1>12 DEF SafetyText, StopHere, Reasons
  <2> QED BY <1>12, <2>1, <2>2 DEF SafetyText, Yield, loopVars, blockVars, countVars, toolVars
<1>13. CASE SafetyTool
  <2>1. finished' \in BOOLEAN
    BY <1>13, Zenon DEF SafetyTool, StopHere
  <2>2. stopReason' \in Reasons
    BY <1>13 DEF SafetyTool, StopHere, Reasons
  <2>3. repetitionCount' \in Nat /\ k' \in Nat
    BY <1>13 DEF SafetyTool
  <2> QED BY <1>13, <2>1, <2>2, <2>3
        DEF SafetyTool, Yield, loopVars, blockVars, countVars, toolVars
<1>14. CASE SafetyDone
  BY <1>14 DEF SafetyDone, Yield, loopVars, blockVars, flagVars, countVars, toolVars, safetyVars,
    Stages
<1>15. CASE Finalizer
  <2>1. chunk.finish # "none" => MapFinishReason[chunk.finish] \in Reasons
    BY DEF ChunkType, FinishReasons, MapFinishReason, Reasons
  <2>2. stopReason' \in Reasons /\ finished' \in BOOLEAN
    BY <1>15, <2>1 DEF Finalizer
  <2> QED BY <1>15, <2>2
        DEF Finalizer, Yield, loopVars, countVars, toolVars, safetyVars, Stages, OpenTypes
<1>16. CASE Finalize
  <2>1. /\ started' \in BOOLEAN /\ finished' \in BOOLEAN /\ UNCHANGED irregular
        /\ openType' \in OpenTypes /\ openIndex' \in Nat
    <3>1. CASE finished = TRUE
      BY <1>16, <3>1 DEF Finalize, Yield
    <3>2. CASE finished = FALSE
      BY <1>16, <3>2 DEF Finalize, Yield, OpenTypes
    <3> QED BY <3>1, <3>2
  <2> QED BY <1>16, <2>1 DEF Finalize, loopVars, countVars, toolVars, safetyVars, Stages
<1>17. CASE Deliver
  BY <1>17 DEF Deliver, loopVars, blockVars, flagVars, countVars, toolVars, safetyVars
<1>18. CASE UNCHANGED vars
  BY <1>18 DEF vars, loopVars, blockVars, flagVars, countVars, toolVars, safetyVars
<1> QED
  BY <1>1, <1>2, <1>3, <1>4, <1>5, <1>6, <1>7, <1>8, <1>9, <1>10, <1>11, <1>12, <1>13, <1>14,
     <1>15, <1>16, <1>17, <1>18 DEF Next, Step, Ended

(***************************************************************************)
(* The flags.                                                              *)
(***************************************************************************)
LEMMA FlowInit ==
  ASSUME Init
  PROVE  Flow
BY DEF Init, Flow

\* Every step keeps what the flags say at each stage.
LEMMA FlowKept ==
  ASSUME Types, Flow, [Next]_vars
  PROVE  Flow'
<1> USE DEF Flow
<1>a. /\ started = TRUE \/ started = FALSE
      /\ finished = TRUE \/ finished = FALSE
      /\ irregular = TRUE \/ irregular = FALSE
      /\ received \in Nat /\ k \in Nat
  BY DEF Types
<1>1. ASSUME NEW c \in Chunks, Receive(c) PROVE Flow'
  <2>1. /\ HasContent(chunk') /\ openType' = "tool_use" => irregular' = TRUE
    BY <1>1 DEF Receive, blockVars
  <2> QED BY <1>1, <1>a, <2>1 DEF Receive, Runs, blockVars, flagVars
<1>2. CASE UpstreamEnds
  BY <1>2, <1>a DEF UpstreamEnds, Runs, Yield, loopVars, blockVars, flagVars
<1>3. CASE UpstreamFails
  BY <1>3, <1>a DEF UpstreamFails, Runs, loopVars, blockVars, flagVars
<1>4. CASE Metadata
  <2>1. /\ finished' = finished /\ stopReason' = stopReason /\ started' = TRUE
        /\ UNCHANGED <<chunk, received, k, nextIndex, openType, openIndex, irregular>>
    BY <1>4, <1>a DEF Metadata, Yield, loopVars, blockVars
  <2>2. stage' \in {"receive", "image"} /\ (stage' = "image" => finished = FALSE)
    BY <1>4, <1>a DEF Metadata
  <2>3. stage = "metadata"
    BY <1>4 DEF Metadata, Runs
  <2> QED BY <2>1, <2>2, <2>3
<1>5. CASE Image
  <2>1. /\ stage = "image" /\ stage' = "reasoning"
        /\ UNCHANGED <<chunk, received, k, started, finished, stopReason, irregular>>
        /\ openType' \in {"none", openType}
    BY <1>5 DEF Image, Runs, Yield, loopVars, blockVars, flagVars
  <2> QED BY <2>1
<1>6. CASE Reasoning
  <2>1. /\ stage = "reasoning" /\ stage' = "text"
        /\ UNCHANGED <<chunk, received, k, started, finished, stopReason, irregular>>
        /\ openType' \in {"thinking", openType}
    BY <1>6 DEF Reasoning, Runs, StreamInto, Yield, loopVars, blockVars, flagVars
  <2> QED BY <2>1
<1>7. CASE Text
  <2>1. /\ stage = "text" /\ stage' = "tool" /\ k' = 1
        /\ UNCHANGED <<chunk, received, started, finished, stopReason, irregular>>
    BY <1>7 DEF Text, Runs, StreamInto, Yield, loopVars, flagVars
  <2> QED BY <2>1
<1>8. CASE ToolCall
  <2>1. /\ stage = "tool" /\ k' = k + 1
        /\ UNCHANGED <<stage, chunk, received, started, finished, stopReason, irregular>>
    BY <1>8, Zenon DEF ToolCall, Runs, Yield, loopVars, flagVars
  <2> QED BY <1>a, <2>1
<1>9. CASE ToolTail
  <2>1. /\ stage = "tool" /\ stage' \in {"flush", "safety"}
        /\ UNCHANGED <<chunk, received, nextIndex, openType, started, finished, stopReason, irregular>>
    BY <1>9 DEF ToolTail, Runs, Yield, loopVars, blockVars, flagVars
  <2>2. stage' = "flush" => chunk.finish \in {"tool_calls", "stop"}
    BY <1>9 DEF ToolTail, Flushes
  <2> QED BY <2>1, <2>2
<1>10. CASE FlushTool
  <2>1. /\ stage = "flush" /\ stage' = "flush"
        /\ UNCHANGED <<chunk, received, started, finished, stopReason, irregular>>
    BY <1>10 DEF FlushTool, FlushStarted, FlushWhole, FlushDropped, Runs, Yield, loopVars, flagVars
  <2> QED BY <2>1
<1>11. CASE FlushDone
  <2>1. /\ stage = "flush" /\ stage' = "safety"
        /\ UNCHANGED <<chunk, received, nextIndex, openType, started, finished, stopReason, irregular>>
    BY <1>11 DEF FlushDone, Runs, Yield, loopVars, blockVars, flagVars
  <2> QED BY <2>1
<1>12. CASE SafetyText
  <2>1. /\ stage = "safety" /\ stage' = "safety"
        /\ UNCHANGED <<chunk, received, nextIndex, openType, started, irregular>>
        /\ finished = TRUE => finished' = TRUE
        /\ stopReason' \in {"end_turn", stopReason}
    BY <1>12 DEF SafetyText, StopHere, Runs, Yield, loopVars, blockVars
  <2> QED BY <1>a, <2>1
<1>13. CASE SafetyTool
  <2>1. /\ stage = "safety" /\ stage' = "safety"
        /\ UNCHANGED <<chunk, received, nextIndex, openType, started, irregular>>
    BY <1>13 DEF SafetyTool, Runs, Yield, loopVars, blockVars
  <2>2. /\ finished = TRUE => finished' = TRUE
        /\ stopReason' \in {"end_turn", stopReason}
    BY <1>13 DEF SafetyTool, StopHere
  <2> QED BY <1>a, <2>1, <2>2
<1>14. CASE SafetyDone
  <2>1. /\ stage = "safety" /\ stage' \in {"receive", "finalizer"}
        /\ stage' = "finalizer" => finished = FALSE
        /\ UNCHANGED <<chunk, received, nextIndex, openType, started, finished, stopReason, irregular>>
    BY <1>14, <1>a DEF SafetyDone, Runs, Yield, loopVars, blockVars, flagVars
  <2> QED BY <2>1
<1>15. CASE Finalizer
  <2>1. /\ stage = "finalizer" /\ stage' = "receive"
        /\ UNCHANGED <<chunk, received, nextIndex, started, irregular>>
        /\ finished' = TRUE \/ UNCHANGED <<finished, stopReason>>
    BY <1>15 DEF Finalizer, Runs, Yield, loopVars
  <2> QED BY <2>1
<1>16. CASE Finalize
  <2>1. stage' = "end" /\ UNCHANGED received
    BY <1>16 DEF Finalize, loopVars
  <2>2. started' = TRUE /\ finished' = TRUE
    <3>1. CASE finished = TRUE
      BY <1>16, <3>1 DEF Finalize
    <3>2. CASE finished = FALSE
      BY <1>16, <3>2 DEF Finalize
    <3> QED BY <1>a, <3>1, <3>2
  <2> QED BY <2>1, <2>2
<1>17. CASE Deliver
  BY <1>17 DEF Deliver, loopVars, blockVars, flagVars
<1>18. CASE UNCHANGED vars
  BY <1>18 DEF vars, loopVars, blockVars, flagVars
<1> QED
  BY <1>1, <1>2, <1>3, <1>4, <1>5, <1>6, <1>7, <1>8, <1>9, <1>10, <1>11, <1>12, <1>13, <1>14,
     <1>15, <1>16, <1>17, <1>18 DEF Next, Step, Ended

(***************************************************************************)
(* The accumulators.                                                       *)
(***************************************************************************)
LEMMA ToolFlowInit ==
  ASSUME Init
  PROVE  ToolFlow
<1>1. \A i \in Tools : accumulators[i] = NewAccumulator
  BY DEF Init
<1>2. /\ NewAccumulator.closed = FALSE /\ NewAccumulator.started = FALSE
      /\ NewAccumulator.id = FALSE
  BY DEF NewAccumulator
<1> QED BY <1>1, <1>2 DEF Init, ToolFlow

Early == {"receive", "metadata", "image", "reasoning", "text", "tool", "finalize"}

\* A step that changes no accumulator, before any has been flushed.
LEMMA ToolFlowEarly ==
  ASSUME ToolFlow, stage \in Early, stage' \in Early,
         finished' = FALSE => finished = FALSE,
         UNCHANGED <<accumulators, streamingTool>>, irregular = TRUE => irregular' = TRUE,
         irregular' = TRUE \/ openType # "tool_use" \/ UNCHANGED <<openType, openIndex>>
  PROVE  ToolFlow'
<1>1. /\ Unflushed
      /\ stage' # "flush" /\ stage' # "safety" /\ stage' # "finalizer"
  BY DEF Unflushed, Early
<1>2. \A i \in Tools : HasStream(i) => HasStream(i)'
  BY DEF HasStream
<1> QED BY <1>1, <1>2 DEF ToolFlow, Callable

\* A step that changes no accumulator, after that.
LEMMA ToolFlowLate ==
  ASSUME ToolFlow, stage \in {"safety", "finalizer"}, stage' \in {"safety", "finalizer"},
         finished' = FALSE => finished = FALSE,
         UNCHANGED <<chunk, accumulators, streamingTool, irregular, openType, openIndex>>
  PROVE  ToolFlow'
<1>1. Unflushed' => Unflushed
  BY DEF Unflushed
<1>2. \A i \in Tools : HasStream(i) => HasStream(i)'
  BY DEF HasStream
<1> QED BY <1>1, <1>2 DEF ToolFlow, Callable

\* One element of tool_calls.
LEMMA ToolFlowTool ==
  ASSUME Types, Flow, ToolFlow, ToolCall
  PROVE  ToolFlow'
<1>1. /\ stage = "tool" /\ stage' = "tool" /\ started = TRUE /\ finished = FALSE
      /\ irregular' = irregular /\ k >= 1
  BY Zenon DEF Flow, ToolCall, Runs, Yield
<1>2. PICK i \in Tools, starts \in BOOLEAN : ToolTaken(i, starts)
  BY <1>1, ToolCallTakes
<1>3. \A j \in Tools : /\ accumulators[j].closed = FALSE
                       /\ accumulators[j].started = TRUE => HasStream(j)
  BY <1>1 DEF ToolFlow, Unflushed
<1>4. -1 \notin Tools
  BY DEF Tools
<1>5. \A j \in Tools : accumulators'[j].closed = FALSE
  BY <1>2, <1>3 DEF ToolTaken
<1>6. \A j \in Tools : accumulators'[j].id = TRUE => accumulators'[j].seen = TRUE
  BY <1>2 DEF ToolTaken, ToolFlow
<1>7. ASSUME NEW j \in Tools, accumulators'[j].started = TRUE
      PROVE  HasStream(j)'
  <2>1. CASE starts = TRUE
    <3>1. /\ accumulators[i].started = FALSE /\ streamingTool \in {-1, i} /\ streamingTool' = i
          /\ openType' = "tool_use" /\ openIndex' = nextIndex
          /\ accumulators'[i].anthIndex = nextIndex
      BY <1>2, <2>1 DEF ToolTaken
    <3>2. CASE j = i
      BY <3>1, <3>2 DEF HasStream
    <3>3. CASE j # i
      <4>1. accumulators[j].started = TRUE
        BY <1>2, <1>7, <3>3 DEF ToolTaken
      <4> QED BY <1>3, <1>4, <3>1, <3>3, <4>1 DEF HasStream
    <3> QED BY <3>2, <3>3
  <2>2. CASE starts = FALSE
    <3>1. /\ openType' = openType /\ openIndex' = openIndex
          /\ accumulators'[i].anthIndex = accumulators[i].anthIndex
          /\ accumulators'[i].started = TRUE => accumulators[i].started = TRUE
          /\ \A n \in Tools : n # i => accumulators'[n] = accumulators[n]
      BY <1>2, <2>2 DEF ToolTaken
    <3>2. accumulators[j].started = TRUE /\ accumulators'[j].anthIndex = accumulators[j].anthIndex
      BY <1>7, <3>1
    <3>3. j = streamingTool
      BY <1>3, <3>2 DEF HasStream
    <3>4. streamingTool' = streamingTool
      BY <1>2, <1>4, <2>2, <3>2, <3>3 DEF ToolTaken
    <3> QED BY <1>1, <1>3, <3>1, <3>2, <3>4 DEF HasStream
  <2> QED BY <1>2, <2>1, <2>2
<1> QED BY <1>1, <1>5, <1>6, <1>7 DEF ToolFlow

\* One accumulator flushed.
LEMMA ToolFlowFlush ==
  ASSUME Types, Flow, ToolFlow, FlushTool
  PROVE  ToolFlow'
<1>1. /\ stage = "flush" /\ stage' = "flush" /\ k \in Tools /\ k' = k + 1
      /\ accumulators[k] \in Accumulator
  BY DEF FlushTool, Runs, Types
<1>2. k \in Nat /\ \A i \in Tools : i \in Nat
  BY <1>1 DEF Types, Tools
<1>3. /\ accumulators'[k].id = accumulators[k].id /\ accumulators'[k].name = accumulators[k].name
      /\ accumulators'[k].seen = accumulators[k].seen
      /\ \A i \in Tools : i # k => accumulators'[i] = accumulators[i]
      /\ accumulators'[k].closed = TRUE =>
           accumulators[k].closed = TRUE \/ accumulators[k].seen = TRUE
      /\ Callable(k) => accumulators'[k].closed = TRUE
  <2>1. CASE Flushable(accumulators[k]) /\ FlushStarted(accumulators[k])
    <3>1. accumulators' = [accumulators EXCEPT ![k] = [@ EXCEPT !.closed = TRUE]]
      BY <2>1 DEF FlushStarted
    <3>2. accumulators[k].seen = TRUE
      BY <1>1, <2>1 DEF Flushable, Accumulator
    <3> QED BY <1>1, <3>1, <3>2 DEF Types, Accumulator
  <2>2. CASE Flushable(accumulators[k]) /\ FlushWhole(accumulators[k])
    <3>1. accumulators' = [accumulators EXCEPT ![k] =
            [@ EXCEPT !.started = TRUE, !.closed = TRUE, !.anthIndex = nextIndex]]
      BY <2>2 DEF FlushWhole
    <3>2. accumulators[k].seen = TRUE
      BY <1>1, <2>2 DEF Flushable, Accumulator
    <3> QED BY <1>1, <3>1, <3>2 DEF Types, Accumulator
  <2>3. CASE FlushDropped(accumulators[k])
    <3>1. accumulators' = accumulators
      BY <2>3 DEF FlushDropped
    <3>2. ASSUME Callable(k) PROVE accumulators[k].closed = TRUE
      <4>1. accumulators[k].id = TRUE /\ accumulators[k].seen = TRUE
        BY <1>1, <3>2 DEF ToolFlow, Callable
      <4>2. accumulators[k].name # NoName /\ accumulators[k].name \in Declared
        BY <3>2, PipelineAssumption DEF Callable
      <4>3. ~Flushable(accumulators[k])
        BY <2>3, <4>2 DEF FlushDropped
      <4>4. accumulators[k].closed \in {TRUE, FALSE}
        BY <1>1 DEF Accumulator
      <4> QED BY <4>1, <4>2, <4>3, <4>4 DEF Flushable
    <3> QED BY <3>1, <3>2
  <2> QED BY <2>1, <2>2, <2>3, Zenon DEF FlushTool
<1>4. \A i \in Tools : Callable(i)' => Callable(i)
  BY <1>3 DEF Callable
<1>5. \A i \in Tools : i < k' => i < k \/ i = k
  BY <1>1, <1>2
<1>6. \A i \in Tools : i < k' /\ Callable(i)' => accumulators'[i].closed = TRUE
  BY <1>1, <1>3, <1>4, <1>5 DEF ToolFlow
<1>7. \A i \in Tools : accumulators'[i].closed = TRUE \/ accumulators'[i].id = TRUE
                         => accumulators'[i].seen = TRUE
  BY <1>1, <1>3 DEF ToolFlow
<1> QED BY <1>1, <1>6, <1>7 DEF ToolFlow, Unflushed

\* A step to a stage where the accumulators say nothing about the open block.
LEMMA ToolFlowOver ==
  ASSUME Types, ToolFlow, UNCHANGED accumulators,
         stage' = "end" \/ (stage' = "receive" /\ finished' = TRUE)
  PROVE  ToolFlow'
<1>1. ~(finished' = FALSE /\ Unflushed')
  BY DEF Unflushed
<1> QED BY <1>1 DEF ToolFlow

\* Every step keeps what the accumulators say at each stage.
LEMMA ToolFlowKept ==
  ASSUME Types, Flow, ToolFlow, [Next]_vars
  PROVE  ToolFlow'
<1>0. /\ finished = TRUE \/ finished = FALSE
      /\ irregular = TRUE \/ irregular = FALSE
      /\ k \in Nat
  BY DEF Types
<1>1. ASSUME NEW c \in Chunks, Receive(c) PROVE ToolFlow'
  <2>1. /\ stage = "receive" /\ stage' = "metadata"
        /\ UNCHANGED <<finished, accumulators, streamingTool, openType, openIndex>>
    BY <1>1 DEF Receive, Runs, blockVars, flagVars, toolVars
  <2>2. irregular = TRUE => irregular' = TRUE
    BY <1>1 DEF Receive
  <2> QED BY <2>1, <2>2, ToolFlowEarly DEF Early
<1>2. CASE UpstreamEnds
  <2>1. /\ stage = "receive" /\ stage' = "finalize"
        /\ UNCHANGED <<finished, accumulators, streamingTool, openType, openIndex, irregular>>
    BY <1>2 DEF UpstreamEnds, Runs, Yield, blockVars, flagVars, toolVars
  <2> QED BY <2>1, ToolFlowEarly DEF Early
<1>3. CASE UpstreamFails
  <2>1. stage' = "end" /\ UNCHANGED accumulators
    BY <1>3 DEF UpstreamFails, toolVars
  <2> QED BY <2>1, ToolFlowOver
<1>4. CASE Metadata
  <2>1. /\ stage = "metadata" /\ stage' \in {"receive", "image"}
        /\ UNCHANGED <<finished, accumulators, streamingTool, openType, openIndex, irregular>>
    BY <1>4 DEF Metadata, Runs, Yield, blockVars, toolVars
  <2> QED BY <2>1, ToolFlowEarly DEF Early
<1>5. CASE Image
  <2>1. /\ stage = "image" /\ stage' = "reasoning"
        /\ UNCHANGED <<finished, accumulators, streamingTool, irregular>>
    BY <1>5 DEF Image, Runs, Yield, flagVars, toolVars
  <2>2. irregular' = TRUE \/ openType # "tool_use" \/ UNCHANGED <<openType, openIndex>>
    BY <1>5, <2>1 DEF Image, Flow, HasContent, blockVars
  <2> QED BY <2>1, <2>2, ToolFlowEarly DEF Early
<1>6. CASE Reasoning
  <2>1. /\ stage = "reasoning" /\ stage' = "text"
        /\ UNCHANGED <<finished, accumulators, streamingTool, irregular>>
    BY <1>6 DEF Reasoning, StreamInto, Runs, Yield, flagVars, toolVars
  <2>2. irregular' = TRUE \/ openType # "tool_use" \/ UNCHANGED <<openType, openIndex>>
    BY <1>6, <2>1 DEF Reasoning, Flow, HasContent, blockVars
  <2> QED BY <2>1, <2>2, ToolFlowEarly DEF Early
<1>7. CASE Text
  <2>1. /\ stage = "text" /\ stage' = "tool"
        /\ UNCHANGED <<finished, accumulators, streamingTool, irregular>>
    BY <1>7 DEF Text, StreamInto, Runs, Yield, flagVars, toolVars
  <2>2. irregular' = TRUE \/ openType # "tool_use" \/ UNCHANGED <<openType, openIndex>>
    BY <1>7, <2>1 DEF Text, Flow, HasContent, blockVars
  <2> QED BY <2>1, <2>2, ToolFlowEarly DEF Early
<1>8. CASE ToolCall
  BY <1>8, ToolFlowTool
<1>9. CASE ToolTail
  <2>1. /\ stage = "tool" /\ k' = 0 /\ stage' \in {"flush", "safety"}
        /\ stage' = "safety" => chunk.finish # "tool_calls"
        /\ UNCHANGED <<chunk, finished, accumulators, streamingTool, openType, openIndex, irregular>>
    BY <1>9 DEF ToolTail, Flushes, Runs, Yield, loopVars, blockVars, flagVars, toolVars
  <2>2. Unflushed /\ \A i \in Tools : HasStream(i) => HasStream(i)'
    BY <2>1 DEF Unflushed, HasStream
  <2>3. \A i \in Tools : ~(i < 0)
    BY DEF Tools
  <2> QED BY <2>1, <2>2, <2>3 DEF ToolFlow
<1>10. CASE FlushTool
  BY <1>10, ToolFlowFlush
<1>11. CASE FlushDone
  <2>1. /\ stage = "flush" /\ stage' = "safety" /\ k \notin Tools
        /\ UNCHANGED <<chunk, accumulators>>
    BY <1>11 DEF FlushDone, Runs, loopVars, toolVars
  <2>2. \A i \in Tools : i < k
    BY <1>0, <2>1, PipelineAssumption DEF Tools
  <2>3. chunk.finish # "none" /\ ~Unflushed'
    BY <2>1 DEF Flow, Unflushed
  <2> QED BY <2>1, <2>2, <2>3 DEF ToolFlow, Callable
<1>12. CASE SafetyText
  <2>1. /\ stage = "safety" /\ stage' = "safety"
        /\ UNCHANGED <<chunk, accumulators, streamingTool, irregular, openType, openIndex>>
    BY <1>12 DEF SafetyText, Runs, Yield, loopVars, blockVars, toolVars
  <2>2. finished = TRUE => finished' = TRUE
    BY <1>12 DEF SafetyText, StopHere
  <2> QED BY <1>0, <2>1, <2>2, ToolFlowLate
<1>13. CASE SafetyTool
  <2>1. /\ stage = "safety" /\ stage' = "safety"
        /\ UNCHANGED <<chunk, accumulators, streamingTool, irregular, openType, openIndex>>
    BY <1>13 DEF SafetyTool, Runs, Yield, loopVars, blockVars, toolVars
  <2>2. finished = TRUE => finished' = TRUE
    BY <1>13 DEF SafetyTool, StopHere
  <2> QED BY <1>0, <2>1, <2>2, ToolFlowLate
<1>14. CASE SafetyDone
  <2>1. /\ stage = "safety"
        /\ stage' = "finalizer" \/ (stage' = "receive" /\ finished' = TRUE)
        /\ UNCHANGED <<chunk, finished, accumulators, streamingTool, irregular, openType, openIndex>>
    BY <1>14, <1>0 DEF SafetyDone, Runs, Yield, loopVars, blockVars, flagVars, toolVars
  <2> QED BY <2>1, ToolFlowLate, ToolFlowOver
<1>15. CASE Finalizer
  <2>1. /\ stage = "finalizer" /\ stage' = "receive"
        /\ UNCHANGED <<chunk, accumulators, streamingTool, irregular>>
    BY <1>15 DEF Finalizer, Runs, Yield, loopVars, toolVars
  <2>2. CASE chunk.finish = "none"
    <3>1. UNCHANGED <<finished, openType, openIndex>>
      BY <1>15, <2>2 DEF Finalizer
    <3>2. Unflushed /\ \A i \in Tools : HasStream(i) => HasStream(i)'
      BY <2>1, <2>2, <3>1 DEF Unflushed, HasStream
    <3> QED BY <2>1, <3>1, <3>2 DEF ToolFlow
  <2>3. CASE chunk.finish # "none"
    <3>1. finished' = TRUE
      BY <1>15, <2>3 DEF Finalizer
    <3> QED BY <2>1, <3>1, ToolFlowOver
  <2> QED BY <2>2, <2>3
<1>16. CASE Finalize
  <2>1. stage' = "end" /\ UNCHANGED accumulators
    BY <1>16 DEF Finalize, toolVars
  <2> QED BY <2>1, ToolFlowOver
<1>17. CASE Deliver \/ UNCHANGED vars
  <2>1. UNCHANGED <<stage, k, chunk, finished, accumulators, streamingTool, irregular,
                    openType, openIndex>>
    BY <1>17 DEF Deliver, vars, loopVars, blockVars, flagVars, toolVars
  <2> QED BY <2>1 DEF ToolFlow, Unflushed, HasStream, Callable
<1> QED
  BY <1>1, <1>2, <1>3, <1>4, <1>5, <1>6, <1>7, <1>8, <1>9, <1>10, <1>11, <1>12, <1>13, <1>14,
     <1>15, <1>16, <1>17 DEF Next, Step, Ended

-----------------------------------------------------------------------------
(***************************************************************************)
(* The client that the yielded events lead to agrees with the pipeline.    *)
(***************************************************************************)
\* When everything has been received, that client is the client.
LEMMA Now ==
  ASSUME Agreement, out = <<>>
  PROVE  client \in ClientType /\ Agrees(client)
<1>1. PICK v \in ClientType : Path(client, <<>>, v, irregular) /\ Agrees(v)
  BY DEF Agreement
<1>2. v = client
  BY <1>1, PathNone DEF Agreement
<1> QED BY <1>1, <1>2 DEF Agreement

\* The client and the pipeline agree at first, when message_start is all there
\* can be on the way.
LEMMA AgreementInit ==
  ASSUME Init
  PROVE  Agreement
<1>1. /\ NewClient \in ClientType /\ NewClient.phase = "none" /\ NewClient.content = <<>>
      /\ NewClient.stop = "none"
  <2>1. Event("none", 0, "none", 0) \in EventType
    BY DEF Event, EventType, EventNames, Reasons
  <2>2. <<>> \in Seq(Block)
    BY EmptySeq
  <2> QED BY <2>1, <2>2 DEF NewClient, ClientType, Phases, Reasons
<1>2. \A i \in Tools : accumulators[i].started = FALSE
  BY DEF Init, NewAccumulator
<1>3. /\ client = NewClient /\ finished = FALSE /\ stage = "receive"
      /\ nextIndex = 0 /\ openType = "none" /\ openIndex = 0
      /\ started = TRUE \/ started = FALSE
  BY DEF Init
<1>4. CASE started = FALSE
  <2>1. out = <<>>
    BY <1>4 DEF Init
  <2>2. Path(client, out, client, irregular) /\ out \in Seq(EventType)
    BY <1>1, <1>3, <2>1, PathNone, EmptySeq
  <2>3. Agrees(client)
    BY <1>1, <1>2, <1>3, <1>4 DEF Agrees, Holds
  <2> QED BY <1>1, <1>3, <2>2, <2>3 DEF Agreement
<1>5. CASE started = TRUE
  <2>1. out = <<MessageStart>>
    BY <1>5 DEF Init
  <2>2. MessageStart \in EventType
    BY DEF MessageStart, Event, EventType, EventNames, Reasons
  <2>3. out \in Seq(EventType)
    BY <2>1, <2>2, OneEvent
  <2>4. PICK v : Path(client, out, v, irregular) /\ Stands(v, 0, "none", 0) /\ Extends(client, v)
    BY <1>1, <1>3, <2>1, Beginning DEF Leads
  <2>5. v \in ClientType /\ v.phase = "streaming" /\ v.stop = "none"
    BY <1>1, <1>3, <2>4 DEF Stands, Extends, Adds
  <2>6. Agrees(v)
    BY <1>2, <1>3, <1>5, <2>4, <2>5 DEF Agrees, Holds
  <2> QED BY <1>1, <1>3, <2>3, <2>4, <2>5, <2>6 DEF Agreement
<1> QED BY <1>3, <1>4, <1>5

\* The step opens no tool's block and takes no fragment for one that is open.
SameCalls(T) ==
  \A j \in T : accumulators'[j].started = TRUE =>
    /\ accumulators[j].started = TRUE
    /\ accumulators'[j].anthIndex = accumulators[j].anthIndex
    /\ accumulators'[j].args = accumulators[j].args

\* A client that keeps its blocks holds the tool calls it held.
LEMMA HoldsKept ==
  ASSUME NEW c \in ClientType, NEW v \in ClientType, Keeps(c, v), Holds(c),
         NEW T \in SUBSET Tools, SameCalls(T)
  PROVE  \A j \in T : accumulators'[j].started = TRUE =>
           /\ accumulators'[j].anthIndex + 1 \in 1..Len(v.content)
           /\ v.content[accumulators'[j].anthIndex + 1].kind = "tool_use"
           /\ v.content[accumulators'[j].anthIndex + 1].amount = accumulators'[j].args
<1>1. Len(c.content) \in Nat /\ Len(v.content) \in Nat /\ Len(c.content) <= Len(v.content)
  BY Blocks DEF Keeps
<1> TAKE j \in T
<1> HAVE accumulators'[j].started = TRUE
<1> DEFINE x == accumulators[j].anthIndex + 1
<1>2. /\ accumulators[j].started = TRUE /\ accumulators'[j].anthIndex + 1 = x
      /\ accumulators'[j].args = accumulators[j].args
  BY DEF SameCalls
<1>3. x \in 1..Len(c.content) /\ c.content[x].kind = "tool_use"
      /\ c.content[x].amount = accumulators[j].args
  BY <1>2 DEF Holds
<1> HIDE DEF x
<1>4. x \in 1..Len(v.content) /\ v.content[x].kind = c.content[x].kind
      /\ v.content[x].amount = c.content[x].amount
  BY <1>1, <1>3 DEF Keeps
<1> QED BY <1>2, <1>3, <1>4

\* A step that yields nothing and changes neither blocks nor tool calls.
LEMMA Silent ==
  ASSUME Types, Types', Flow', Agreement, out = <<>>, out' = <<>>, UNCHANGED client,
         UNCHANGED <<started, nextIndex, openType, openIndex, accumulators>>, stage # "end",
         finished = TRUE => finished' = TRUE,
         finished' = TRUE => finished = TRUE \/ LimitReached',
         LimitReached => LimitReached', stage' = "end" => finished' = TRUE
  PROVE  Agreement'
<1>1. client \in ClientType /\ Agrees(client)
  BY Now
<1>2. Path(client, <<>>, client, irregular') /\ <<>> \in Seq(EventType)
  BY <1>1, PathNone, EmptySeq
<1>3. /\ started = TRUE \/ started = FALSE
      /\ finished = TRUE \/ finished = FALSE
      /\ finished' = TRUE => started = TRUE
  BY DEF Types, Flow
<1>4. finished = FALSE /\ started = TRUE => client.phase = "streaming"
  BY <1>1 DEF Agrees, Stands
<1>5. client.phase # "failed"
  BY <1>1 DEF Agrees
<1>6. Holds(client) /\ UNCHANGED accumulators
  BY <1>1 DEF Agrees
<1>7. Agrees(client)'
  <2>1. started' = FALSE => client.phase = "none" /\ client.content = <<>>
    BY <1>1 DEF Agrees
  <2>2. started' = TRUE /\ finished' = FALSE /\ stage' # "end"
          => Stands(client, nextIndex', openType', openIndex')
    BY <1>1, <1>3 DEF Agrees
  <2>3. finished' = TRUE => \/ client.phase \in {"stopped", "failed"}
                            \/ client.phase = "streaming" /\ LimitReached'
    BY <1>1, <1>3, <1>4 DEF Agrees
  <2>4. client.stop = "tool_use" =>
          finished' = TRUE /\ \A i \in Tools : Callable(i)' => accumulators'[i].closed = TRUE
    BY <1>1 DEF Agrees, Callable
  <2>5. Holds(client)'
    BY <1>6 DEF Holds
  <2> QED BY <1>5, <2>1, <2>2, <2>3, <2>4, <2>5 DEF Agrees
<1> QED BY <1>1, <1>2, <1>7 DEF Agreement

\* A step that yields events that leave the message open.
LEMMA LeadsAgree ==
  ASSUME Agreement, out = <<>>, out' \in Seq(EventType), UNCHANGED client,
         finished = FALSE, finished' = FALSE, started' = TRUE, stage' # "end", SameCalls(Tools),
         Leads(client, out', irregular', nextIndex', openType', openIndex')
  PROVE  Agreement'
<1>1. client \in ClientType /\ Agrees(client)
  BY Now
<1>2. PICK v : /\ Path(client, out', v, irregular')
               /\ Stands(v, nextIndex', openType', openIndex') /\ Extends(client, v)
  BY DEF Leads
<1>3. v \in ClientType /\ v.phase = "streaming" /\ v.stop = client.stop /\ Keeps(client, v)
  BY <1>1, <1>2, KeepsAll DEF Stands, Extends, Adds
<1>4. v.stop # "tool_use" /\ Holds(client)
  BY <1>1, <1>3 DEF Agrees
<1>5. Holds(v)'
  BY <1>1, <1>3, <1>4, HoldsKept DEF Holds
<1>6. Agrees(v)'
  BY <1>2, <1>3, <1>4, <1>5 DEF Agrees
<1> QED BY <1>1, <1>2, <1>3, <1>6 DEF Agreement

\* A step that opens the block of tool i and sends its fragments.
LEMMA FillsAgree ==
  ASSUME Types, Agreement, out = <<>>, out' \in Seq(EventType), UNCHANGED client,
         finished = FALSE, finished' = FALSE, started' = TRUE, stage' # "end",
         NEW i \in Tools, SameCalls(Tools \ {i}),
         nextIndex' = nextIndex + 1, accumulators'[i].anthIndex = nextIndex,
         Fills(client, out', irregular', nextIndex', openType', openIndex', "tool_use",
               accumulators'[i].args)
  PROVE  Agreement'
<1>1. client \in ClientType /\ Agrees(client)
  BY Now
<1>2. PICK v : /\ Path(client, out', v, irregular')
               /\ Stands(v, nextIndex', openType', openIndex') /\ Extends(client, v)
               /\ v.content[nextIndex'].kind = "tool_use"
               /\ v.content[nextIndex'].amount = accumulators'[i].args
  BY DEF Fills
<1>3. /\ v \in ClientType /\ v.phase = "streaming" /\ v.stop = client.stop /\ Keeps(client, v)
      /\ Len(v.content) = nextIndex'
  BY <1>1, <1>2, KeepsAll DEF Stands, Extends, Adds
<1>4. v.stop # "tool_use" /\ Holds(client)
  BY <1>1, <1>3 DEF Agrees
<1>5. Holds(v)'
  <2>1. accumulators'[i].anthIndex + 1 = nextIndex' /\ nextIndex' \in 1..Len(v.content)
    BY <1>3 DEF Types
  <2>2. \A j \in Tools \ {i} : accumulators'[j].started = TRUE =>
           /\ accumulators'[j].anthIndex + 1 \in 1..Len(v.content)
           /\ v.content[accumulators'[j].anthIndex + 1].kind = "tool_use"
           /\ v.content[accumulators'[j].anthIndex + 1].amount = accumulators'[j].args
    BY <1>1, <1>3, <1>4, HoldsKept
  <2> QED BY <1>2, <2>1, <2>2 DEF Holds
<1>6. Agrees(v)'
  BY <1>2, <1>3, <1>4, <1>5 DEF Agrees
<1> QED BY <1>1, <1>2, <1>3, <1>6 DEF Agreement

\* A step that yields the end of the message.
LEMMA EndsAgree ==
  ASSUME Agreement, out = <<>>, out' \in Seq(EventType), UNCHANGED client,
         finished' = TRUE, started' = TRUE, UNCHANGED accumulators, NEW reason,
         reason = "tool_use" => \A i \in Tools : Callable(i) => accumulators[i].closed = TRUE,
         Ends(client, out', irregular', "stopped", reason)
  PROVE  Agreement'
<1>1. client \in ClientType /\ Agrees(client)
  BY Now
<1>2. PICK v \in ClientType : /\ Path(client, out', v, irregular')
                              /\ v.phase = "stopped" /\ v.stop = reason /\ Keeps(client, v)
  BY DEF Ends
<1>3. Holds(client) /\ SameCalls(Tools)
  BY <1>1 DEF Agrees, SameCalls
<1>4. Holds(v)'
  BY <1>1, <1>2, <1>3, HoldsKept, ZenonT(60) DEF Holds
<1>5. v.stop = "tool_use" => \A i \in Tools : Callable(i)' => accumulators'[i].closed = TRUE
  BY <1>2 DEF Callable
<1>6. Agrees(v)'
  BY <1>2, <1>4, <1>5 DEF Agrees
<1> QED BY <1>1, <1>2, <1>6 DEF Agreement

\* The events that open a tool block with b fragments.
OpeningTool(b) ==
  CloseOpenBlock \o <<BlockStart(nextIndex, "tool_use")>>
    \o (IF b > 0 THEN <<Delta(nextIndex, "input_json_delta", b)>> ELSE <<>>)

\* A tool block takes input_json_delta, and no other delta.
LEMMA ToolKinds ==
  /\ "tool_use" \in Kinds /\ "tool_use" \in Kinds \ {"thinking"}
  /\ "input_json_delta" \in Deltas /\ "input_json_delta" \in Deltas \ {"signature_delta"}
  /\ "input_json_delta" \in Fits("tool_use") /\ "tool_use" # "none"
BY DEF Kinds, Deltas, Fits

\* A tool block is opened and given the fragments buffered so far.
LEMMA StartsTool ==
  ASSUME NEW c, NEW tolerant, openType \in OpenTypes, openIndex \in Nat, nextIndex \in Nat,
         Stands(c, nextIndex, openType, openIndex), NEW b \in Nat
  PROVE  /\ OpeningTool(b) \in Seq(EventType)
         /\ Fills(c, OpeningTool(b), tolerant, nextIndex + 1, "tool_use", nextIndex, "tool_use", b)
<1> DEFINE first == CloseOpenBlock \o <<BlockStart(nextIndex, "tool_use")>>
<1>1. /\ BlockStart(nextIndex, "tool_use") \in EventType
      /\ Delta(nextIndex, "input_json_delta", b) \in EventType
      /\ CloseOpenBlock \in Seq(EventType)
  BY ToolKinds, EventTypes, Closing
<1>2. CASE b > 0
  <2>1. OpeningTool(b) = OpenEvents("tool_use", "input_json_delta", b)
    BY <1>1, <1>2, PairAfter DEF OpeningTool, OpenEvents
  <2> QED BY <2>1, ToolKinds, OpeningWith
<1>3. CASE b = 0
  <2>1. /\ first \in Seq(EventType)
        /\ \E d : /\ Path(c, first, d, tolerant)
                  /\ Stands(d, nextIndex + 1, "tool_use", nextIndex) /\ Extends(c, d)
                  /\ d.content[nextIndex + 1].amount = 0
    BY ToolKinds, Opening
  <2>2. OpeningTool(b) = first
    BY <1>3, <2>1, ConcatEmptySeq DEF OpeningTool
  <2>3. \A d : Stands(d, nextIndex + 1, "tool_use", nextIndex)
                 => d.content[nextIndex + 1].kind = "tool_use"
    BY DEF Stands
  <2> QED BY <1>3, <2>1, <2>2, <2>3 DEF Fills
<1> QED BY <1>2, <1>3

\* One more batch of fragments for the tool block just opened.
LEMMA FillsMore ==
  ASSUME NEW c \in ClientType, NEW events \in Seq(EventType), NEW tolerant, NEW n \in Nat,
         NEW a \in Nat, NEW b \in Nat, n >= Len(c.content),
         Fills(c, events, tolerant, n + 1, "tool_use", n, "tool_use", b)
  PROVE  /\ events \o <<Delta(n, "input_json_delta", a)>> \in Seq(EventType)
         /\ Fills(c, events \o <<Delta(n, "input_json_delta", a)>>, tolerant,
                  n + 1, "tool_use", n, "tool_use", b + a)
<1> DEFINE second == <<Delta(n, "input_json_delta", a)>>
<1>1. second \in Seq(EventType)
  BY ToolKinds, EventTypes, OneEvent
<1>2. PICK d : /\ Path(c, events, d, tolerant) /\ Stands(d, n + 1, "tool_use", n)
               /\ Extends(c, d) /\ d.content[n + 1].amount = b
  BY DEF Fills
<1>3. \E f : /\ Path(d, second, f, tolerant)
             /\ Stands(f, n + 1, "tool_use", n) /\ Adds(d, f, n, a)
  BY <1>2, ToolKinds, Streaming, Zenon
<1>4. PICK f : /\ Path(d, second, f, tolerant)
               /\ Stands(f, n + 1, "tool_use", n) /\ Adds(d, f, n, a)
  BY <1>3
<1>5. d \in ClientType /\ f \in ClientType /\ Len(d.content) = n + 1
      /\ f.content[n + 1].kind = "tool_use"
  BY <1>2, <1>4 DEF Stands
<1>6. Path(c, events \o second, f, tolerant) /\ Extends(c, f)
  BY <1>1, <1>2, <1>4, <1>5, PathJoin, AddsBeyond
<1>7. f.content[n + 1].amount = b + a
  <2>1. n + 1 \in 1..Len(d.content)
    BY <1>5
  <2> QED BY <1>2, <1>4, <2>1 DEF Adds
<1>8. Fills(c, events \o second, tolerant, n + 1, "tool_use", n, "tool_use", b + a)
  BY <1>4, <1>5, <1>6, <1>7 DEF Fills
<1> QED BY <1>1, <1>8, ConcatProperties

\* One element of tool_calls.
LEMMA ToolCallAgrees ==
  ASSUME Types, Flow, ToolFlow, Agreement, ToolCall
  PROVE  Agreement'
<1>1. /\ stage = "tool" /\ stage' = "tool" /\ started = TRUE /\ finished = FALSE
      /\ started' = TRUE /\ finished' = FALSE /\ out = <<>>
      /\ irregular' = irregular /\ client' = client /\ k >= 1
  BY Zenon DEF Flow, ToolCall, Runs, Yield, Sends, flagVars
<1>2. PICK i \in Tools, starts \in BOOLEAN : ToolTaken(i, starts) /\ ToolSent(i, starts, out')
  BY <1>1, ToolCallTakes
<1>3. /\ client \in ClientType /\ Agrees(client) /\ Holds(client)
      /\ Stands(client, nextIndex, openType, openIndex)
      /\ nextIndex \in Nat /\ Len(client.content) = nextIndex
      /\ openType \in OpenTypes /\ openIndex \in Nat
  BY <1>1, Now DEF Agrees, Stands, Types
<1>4. \A j \in Tools : /\ accumulators[j].closed = FALSE
                       /\ accumulators[j].started = TRUE => HasStream(j)
  BY <1>1 DEF ToolFlow, Unflushed
<1>5. SameCalls(Tools \ {i})
  BY <1>2 DEF ToolTaken, SameCalls
<1>6. accumulators[i].args \in Nat /\ accumulators[i].anthIndex \in Nat
  BY Elements
<1>7. CASE starts = TRUE
  <2> DEFINE b == accumulators[i].args
             a == IF chunk.tools[k].args = TRUE THEN 1 ELSE 0
  <2>1. /\ accumulators[i].started = FALSE /\ streamingTool \in {-1, i}
        /\ nextIndex' = nextIndex + 1 /\ openType' = "tool_use" /\ openIndex' = nextIndex
        /\ accumulators'[i].anthIndex = nextIndex /\ accumulators'[i].args = b + a
    BY <1>2, <1>7 DEF ToolTaken
  <2>2. /\ OpeningTool(b) \in Seq(EventType)
        /\ Fills(client, OpeningTool(b), irregular, nextIndex + 1, "tool_use", nextIndex,
                 "tool_use", b)
    BY <1>3, <1>6, StartsTool
  <2>3. out' = OpeningTool(b)
          \o (IF chunk.tools[k].args = TRUE THEN <<Delta(nextIndex, "input_json_delta", 1)>>
              ELSE <<>>)
    BY <1>2, <1>4, <1>7, <2>1 DEF ToolSent, OpeningTool
  <2>4. /\ out' \in Seq(EventType)
        /\ Fills(client, out', irregular, nextIndex + 1, "tool_use", nextIndex, "tool_use", b + a)
    <3>1. CASE chunk.tools[k].args = TRUE
      <4>1. out' = OpeningTool(b) \o <<Delta(nextIndex, "input_json_delta", 1)>> /\ a = 1
        BY <2>3, <3>1
      <4> HIDE DEF a, b
      <4>2. b \in Nat /\ 1 \in Nat
        BY <1>6 DEF b
      <4>3. nextIndex >= Len(client.content)
        BY <1>3
      <4>4. /\ OpeningTool(b) \o <<Delta(nextIndex, "input_json_delta", 1)>> \in Seq(EventType)
            /\ Fills(client, OpeningTool(b) \o <<Delta(nextIndex, "input_json_delta", 1)>>,
                     irregular, nextIndex + 1, "tool_use", nextIndex, "tool_use", b + 1)
        BY ONLY <1>3, <2>2, <4>2, <4>3, FillsMore, Zenon
      <4> QED BY <4>1, <4>4
    <3>2. CASE chunk.tools[k].args # TRUE
      <4>1. b + a = b
        <5>1. a = 0 /\ b \in Nat
          BY <1>6, <3>2
        <5> HIDE DEF a, b
        <5> QED BY <5>1
      <4>2. out' = OpeningTool(b) \o <<>>
        BY <2>3, <3>2
      <4> HIDE DEF a, b
      <4>3. out' = OpeningTool(b)
        BY <2>2, <4>2, ConcatEmptySeq
      <4> QED BY <2>2, <4>1, <4>3
    <3> QED BY <3>1, <3>2
  <2>5. Fills(client, out', irregular', nextIndex', openType', openIndex', "tool_use",
              accumulators'[i].args)
    BY <1>1, <2>1, <2>4
  <2> QED BY <1>1, <1>5, <2>1, <2>4, <2>5, FillsAgree
<1>8. CASE starts = FALSE
  <2>1. /\ nextIndex' = nextIndex /\ openType' = openType /\ openIndex' = openIndex
        /\ accumulators'[i].anthIndex = accumulators[i].anthIndex
        /\ accumulators'[i].started = TRUE => accumulators[i].started = TRUE
        /\ accumulators'[i].args = accumulators[i].args
                                     + (IF chunk.tools[k].args = TRUE THEN 1 ELSE 0)
    BY <1>2, <1>8 DEF ToolTaken
  <2> DEFINE x == accumulators[i].anthIndex
             Sent == accumulators[i].started = TRUE /\ chunk.tools[k].args = TRUE
  <2>2. out' = IF Sent THEN <<Delta(x, "input_json_delta", 1)>> ELSE <<>>
    <3>1. accumulators[i].started = TRUE => streamingTool = i
      BY <1>4 DEF HasStream
    <3>2. <<>> \o <<Delta(x, "input_json_delta", 1)>> = <<Delta(x, "input_json_delta", 1)>>
          /\ <<>> \o <<>> = <<>>
      OBVIOUS
    <3> QED BY <1>2, <1>4, <1>8, <3>1, <3>2 DEF ToolSent
  <2>3. CASE ~Sent
    <3>1. out' = <<>> /\ out' \in Seq(EventType)
      BY <2>2, <2>3, EmptySeq
    <3>2. SameCalls(Tools)
      <4>1. accumulators'[i].started = TRUE => accumulators'[i].args = accumulators[i].args
        BY <1>6, <2>1, <2>3
      <4> QED BY <1>5, <2>1, <4>1 DEF SameCalls
    <3>3. Leads(client, out', irregular', nextIndex', openType', openIndex')
      BY <1>3, <2>1, <3>1, PathNone, ExtendsAll DEF Leads
    <3> QED BY <1>1, <3>1, <3>2, <3>3, LeadsAgree
  <2>4. CASE Sent
    <3>1. /\ out' = <<Delta(x, "input_json_delta", 1)>> /\ out' \in Seq(EventType)
          /\ accumulators'[i].args = accumulators[i].args + 1
      <4>1. Delta(x, "input_json_delta", 1) \in EventType
        BY <1>6, ToolKinds, EventTypes
      <4> QED BY <2>1, <2>2, <2>4, <4>1, OneEvent
    <3>2. /\ x + 1 \in 1..Len(client.content) /\ client.content[x + 1].kind = "tool_use"
          /\ client.content[x + 1].amount = accumulators[i].args
      BY <1>3, <2>4 DEF Holds
    <3>3. irregular = TRUE \/ (openType = "tool_use" /\ openIndex = x)
      BY <1>4, <2>4 DEF HasStream
    <3>4. \E d : /\ Path(client, out', d, irregular) /\ Adds(client, d, x, 1)
                 /\ Stands(d, nextIndex, openType, openIndex)
      <4>1. CASE openType = "tool_use" /\ openIndex = x
        <5>1. Stands(client, nextIndex, "tool_use", x)
          BY <1>3, <4>1
        <5>2. \E d : /\ Path(client, <<Delta(x, "input_json_delta", 1)>>, d, irregular)
                     /\ Stands(d, nextIndex, "tool_use", x) /\ Adds(client, d, x, 1)
          BY <5>1, ToolKinds, 1 \in Nat, Streaming, Zenon
        <5> QED BY <3>1, <4>1, <5>2
      <4>2. CASE irregular = TRUE
        <5>1. Legal(client, Delta(x, "input_json_delta", 1), irregular)
          <6>1. client.phase = "streaming"
            BY <1>3 DEF Stands
          <6>2. /\ Delta(x, "input_json_delta", 1).event = "content_block_delta"
                /\ Delta(x, "input_json_delta", 1).index = x
                /\ Delta(x, "input_json_delta", 1).kind = "input_json_delta"
            BY DEF Delta, Event
          <6> HIDE DEF x
          <6> QED BY <3>2, <4>2, <6>1, <6>2 DEF Legal
        <5>2. "input_json_delta" # "signature_delta" /\ x \in Nat /\ x + 1 \in 1..nextIndex
          BY <1>3, <1>6, <3>2
        <5>3. \E d : /\ Path(client, <<Delta(x, "input_json_delta", 1)>>, d, irregular)
                     /\ Adds(client, d, x, 1) /\ Stands(d, nextIndex, openType, openIndex)
          BY <1>3, <5>1, <5>2, ToolKinds, 1 \in Nat, AddingLate, Zenon
        <5> QED BY <3>1, <5>3
      <4> QED BY <3>3, <4>1, <4>2
    <3>5. PICK v : /\ Path(client, out', v, irregular) /\ Adds(client, v, x, 1)
                   /\ Stands(v, nextIndex, openType, openIndex)
      BY <3>4
    <3>6. v \in ClientType /\ v.phase = "streaming" /\ v.stop = client.stop
      BY <3>5 DEF Stands, Adds
    <3>7. Holds(v)'
      <4>1. \A j \in Tools : accumulators'[j].started = TRUE => j = i
        BY <1>4, <1>5, <2>4 DEF SameCalls, HasStream
      <4>2. /\ x + 1 \in 1..Len(v.content) /\ v.content[x + 1].kind = "tool_use"
            /\ v.content[x + 1].amount = accumulators[i].args + 1
        <5>1. Len(v.content) \in Nat /\ Len(client.content) \in Nat
          BY <1>3, <3>6, Blocks
        <5> HIDE DEF x
        <5> QED BY <3>2, <3>5, <5>1 DEF Adds
      <4> QED BY <2>1, <3>1, <4>1, <4>2 DEF Holds
    <3>8. v.stop # "tool_use"
      BY <1>1, <1>3, <3>6 DEF Agrees
    <3>9. Agrees(v)'
      BY <1>1, <2>1, <3>5, <3>6, <3>7, <3>8 DEF Agrees
    <3> QED BY <1>1, <1>3, <3>1, <3>5, <3>6, <3>9 DEF Agreement
  <2> QED BY <2>3, <2>4
<1> QED BY <1>7, <1>8

\* One accumulator flushed.
LEMMA FlushAgrees ==
  ASSUME Types, Flow, Agreement, FlushTool
  PROVE  Agreement'
<1>1. /\ stage = "flush" /\ stage' = "flush" /\ k \in Tools /\ out = <<>>
      /\ started = TRUE /\ finished = FALSE /\ started' = TRUE /\ finished' = FALSE
      /\ accumulators \in [Tools -> Accumulator]
  BY DEF FlushTool, Runs, Flow, Types, flagVars
<1>2. /\ client \in ClientType /\ Agrees(client) /\ Holds(client)
      /\ Stands(client, nextIndex, openType, openIndex)
      /\ nextIndex \in Nat /\ openType \in OpenTypes /\ openIndex \in Nat
  BY <1>1, Now DEF Agrees, Types
<1>3. client' = client /\ irregular' = irregular
  BY DEF FlushTool, FlushStarted, FlushWhole, FlushDropped, Yield, Sends
<1>4. Leads(client, <<>>, irregular, nextIndex, openType, openIndex) /\ <<>> \in Seq(EventType)
  BY <1>2, PathNone, ExtendsAll, EmptySeq DEF Leads
<1>5. CASE FlushStarted(accumulators[k])
  <2>1. SameCalls(Tools)
    <3>1. accumulators' = [accumulators EXCEPT ![k] = [@ EXCEPT !.closed = TRUE]]
      BY <1>5 DEF FlushStarted
    <3>2. accumulators[k] \in Accumulator
      BY <1>1
    <3> QED BY <1>1, <3>1, <3>2 DEF SameCalls, Accumulator
  <2>2. CASE openType = "tool_use" /\ openIndex = accumulators[k].anthIndex
    <3>1. /\ out' = CloseOpenBlock /\ openType' = "none" /\ openIndex' = 0
          /\ nextIndex' = nextIndex
      BY <1>5, <2>2 DEF FlushStarted, Yield, Sends
    <3>2. /\ CloseOpenBlock \in Seq(EventType)
          /\ Leads(client, CloseOpenBlock, irregular, nextIndex, "none", 0)
      BY <1>2, Closing DEF Leads
    <3> QED BY <1>1, <1>3, <2>1, <3>1, <3>2, LeadsAgree
  <2>3. CASE ~(openType = "tool_use" /\ openIndex = accumulators[k].anthIndex)
    <3>1. /\ out' = <<>> /\ openType' = openType /\ openIndex' = openIndex
          /\ nextIndex' = nextIndex
      BY <1>5, <2>3 DEF FlushStarted, Yield, Sends
    <3> QED BY <1>1, <1>3, <1>4, <2>1, <3>1, LeadsAgree
  <2> QED BY <2>2, <2>3
<1>6. CASE FlushWhole(accumulators[k])
  <2> DEFINE a == accumulators[k].args
  <2>1. /\ nextIndex' = nextIndex + 1 /\ openType' = "none" /\ openIndex' = 0
        /\ out' = ToolEvents(a)
    BY <1>6 DEF FlushWhole, Yield, Sends, ToolEvents
  <2>2. /\ accumulators'[k].anthIndex = nextIndex /\ accumulators'[k].args = a
        /\ SameCalls(Tools \ {k})
    <3>1. accumulators' = [accumulators EXCEPT ![k] =
            [@ EXCEPT !.started = TRUE, !.closed = TRUE, !.anthIndex = nextIndex]]
      BY <1>6 DEF FlushWhole
    <3>2. accumulators[k] \in Accumulator
      BY <1>1
    <3>3. accumulators'[k] =
            [accumulators[k] EXCEPT !.started = TRUE, !.closed = TRUE, !.anthIndex = nextIndex]
      BY <1>1, <3>1
    <3>4. \A j \in Tools \ {k} : accumulators'[j] = accumulators[j]
      BY <1>1, <3>1
    <3> QED BY <3>2, <3>3, <3>4 DEF SameCalls, Accumulator
  <2>3. a \in Nat
    BY <1>1, Elements
  <2> HIDE DEF a
  <2>4. /\ out' \in Seq(EventType)
        /\ Fills(client, out', irregular, nextIndex + 1, "none", 0, "tool_use", a)
    BY <1>2, <2>1, <2>3, ToolBlock
  <2> QED BY <1>1, <1>3, <2>1, <2>2, <2>4, FillsAgree
<1>7. CASE FlushDropped(accumulators[k])
  <2>1. /\ out' = <<>> /\ UNCHANGED <<accumulators, nextIndex, openType, openIndex>>
    BY <1>7 DEF FlushDropped, Yield, Sends, blockVars
  <2>2. SameCalls(Tools)
    BY <2>1 DEF SameCalls
  <2> QED BY <1>1, <1>3, <1>4, <2>1, <2>2, LeadsAgree
<1> QED BY <1>5, <1>6, <1>7, Zenon DEF FlushTool

\* Reasoning and text: a fragment for the block of their kind.
LEMMA StreamAgrees ==
  ASSUME Agreement, out = <<>>, started = TRUE, finished = FALSE, stage # "end",
         openType \in OpenTypes, openIndex \in Nat, nextIndex \in Nat,
         NEW kind \in Kinds, NEW delta \in Deltas \ {"signature_delta"}, delta \in Fits(kind),
         StreamInto(kind, delta)
  PROVE  /\ out' \in Seq(EventType) /\ client' = client
         /\ Leads(client, out', irregular', nextIndex', openType', openIndex')
<1>1. /\ client \in ClientType /\ Stands(client, nextIndex, openType, openIndex)
  BY Now DEF Agrees
<1>2. CASE openType = kind
  <2>1. /\ out' = <<Delta(openIndex, delta, 0)>> /\ client' = client /\ irregular' = irregular
        /\ nextIndex' = nextIndex /\ openType' = openType /\ openIndex' = openIndex
    BY <1>2 DEF StreamInto, Yield, Sends, blockVars
  <2>2. \E d : /\ Path(client, <<Delta(openIndex, delta, 0)>>, d, irregular)
               /\ Stands(d, nextIndex, kind, openIndex) /\ Adds(client, d, openIndex, 0)
    <3>1. Stands(client, nextIndex, kind, openIndex) /\ 0 \in Nat
      BY <1>1, <1>2
    <3> QED BY <3>1, Streaming, Zenon
  <2>3. Leads(client, out', irregular', nextIndex', openType', openIndex')
    <3>1. PICK d : /\ Path(client, <<Delta(openIndex, delta, 0)>>, d, irregular)
                   /\ Stands(d, nextIndex, kind, openIndex) /\ Adds(client, d, openIndex, 0)
      BY <2>2
    <3>2. d \in ClientType
      BY <3>1 DEF Stands
    <3>3. Extends(client, d)
      BY <1>1, <3>1, <3>2, ExtendsAll
    <3> QED BY <1>2, <2>1, <3>1, <3>3 DEF Leads
  <2>4. Delta(openIndex, delta, 0) \in EventType
    BY EventTypes
  <2> QED BY <2>1, <2>3, <2>4, OneEvent
<1>3. CASE openType # kind
  <2>1. /\ out' = OpenEvents(kind, delta, 0) /\ client' = client /\ irregular' = irregular
        /\ nextIndex' = nextIndex + 1 /\ openType' = kind /\ openIndex' = nextIndex
    BY <1>3 DEF StreamInto, Yield, Sends, OpenEvents
  <2>2. /\ OpenEvents(kind, delta, 0) \in Seq(EventType)
        /\ Fills(client, OpenEvents(kind, delta, 0), irregular,
                 nextIndex + 1, kind, nextIndex, kind, 0)
    <3>1. 0 \in Nat
      OBVIOUS
    <3> QED BY <1>1, <3>1, OpeningWith
  <2> QED BY <2>1, <2>2 DEF Fills, Leads
<1> QED BY <1>2, <1>3

\* Every step keeps the client and the pipeline in agreement.
LEMMA AgreementKept ==
  ASSUME Types, Types', Flow, Flow', ToolFlow, Agreement, [Next]_vars
  PROVE  Agreement'
<1>0. /\ finished = TRUE \/ finished = FALSE
      /\ started = TRUE \/ started = FALSE
      /\ nextIndex \in Nat /\ openType \in OpenTypes /\ openIndex \in Nat
      /\ <<>> \in Seq(EventType)
  BY EmptySeq DEF Types
<1>1. ASSUME NEW c \in Chunks, Receive(c) PROVE Agreement'
  <2>1. /\ stage = "receive" /\ stage' = "metadata" /\ out = <<>> /\ out' = <<>>
        /\ UNCHANGED <<client, started, finished, nextIndex, openType, openIndex, accumulators,
                       repetitionCount, hallucinationCount>>
    BY <1>1 DEF Receive, Runs, Sends, blockVars, flagVars, toolVars, safetyVars
  <2> QED BY <2>1, Silent DEF LimitReached
<1>2. CASE UpstreamEnds
  <2>1. /\ stage = "receive" /\ stage' = "finalize" /\ out = <<>> /\ out' = <<>>
        /\ UNCHANGED <<client, started, finished, nextIndex, openType, openIndex, accumulators,
                       repetitionCount, hallucinationCount>>
    BY <1>2 DEF UpstreamEnds, Runs, Yield, Sends, blockVars, flagVars, toolVars, safetyVars
  <2> QED BY <2>1, Silent DEF LimitReached
<1>3. CASE UpstreamFails
  <2>1. /\ stage = "receive" /\ stage' = "end" /\ out = <<>> /\ out' = <<ErrorEvent>>
        /\ UNCHANGED <<client, started, finished, accumulators, repetitionCount,
                       hallucinationCount>>
    BY <1>3 DEF UpstreamFails, Runs, Sends, flagVars, toolVars, safetyVars
  <2>2. started = TRUE /\ (finished = TRUE => irregular' = TRUE)
    BY <1>3, <2>1 DEF UpstreamFails, Flow
  <2>3. client \in ClientType /\ Agrees(client)
    BY <2>1, Now
  <2>4. client.phase = "streaming" \/ (irregular' = TRUE /\ client.phase = "stopped")
    BY <1>0, <2>1, <2>2, <2>3 DEF Agrees, Stands
  <2>5. PICK v \in ClientType : /\ Path(client, out', v, irregular') /\ v.phase = "failed"
                                /\ v.stop = client.stop /\ Keeps(client, v)
    BY <2>1, <2>3, <2>4, Failing DEF Ends
  <2>6. Holds(v)'
    <3>1. Holds(client) /\ SameCalls(Tools)
      BY <2>1, <2>3 DEF Agrees, SameCalls
    <3> QED BY <2>3, <2>5, <3>1, HoldsKept DEF Holds
  <2>7. v.stop = "tool_use" =>
          finished' = TRUE /\ \A i \in Tools : Callable(i)' => accumulators'[i].closed = TRUE
    BY <2>1, <2>3, <2>5 DEF Agrees, Callable
  <2>8. Agrees(v)'
    BY <2>1, <2>2, <2>5, <2>6, <2>7 DEF Agrees
  <2>9. ErrorEvent \in EventType
    BY DEF ErrorEvent, Event, EventType, EventNames, Reasons
  <2> QED BY <2>1, <2>3, <2>5, <2>8, <2>9, OneEvent DEF Agreement
<1>4. CASE Metadata
  <2>1. /\ stage = "metadata" /\ stage' \in {"receive", "image"} /\ out = <<>>
        /\ UNCHANGED <<client, irregular, finished, nextIndex, openType, openIndex, accumulators,
                       repetitionCount, hallucinationCount>>
    BY <1>4 DEF Metadata, Runs, Yield, Sends, blockVars, toolVars, safetyVars
  <2>2. CASE started = TRUE
    <3>1. started' = started /\ out' = <<>>
      BY <1>4, <2>2 DEF Metadata, Yield, Sends
    <3> QED BY <2>1, <3>1, Silent DEF LimitReached
  <2>3. CASE started = FALSE
    <3>1. finished = FALSE /\ nextIndex = 0 /\ openType = "none"
      BY <1>0, <2>3 DEF Flow
    <3>2. started' = TRUE /\ out' = <<MessageStart>>
      BY <1>4, <2>3, <3>1 DEF Metadata, Yield, Sends
    <3>3. client \in ClientType /\ client.phase = "none" /\ client.content = <<>>
      BY <2>1, <2>3, Now DEF Agrees
    <3>4. Leads(client, out', irregular', nextIndex', openType', openIndex')
      <4>1. Leads(client, <<MessageStart>>, irregular, 0, "none", 0)
        BY <3>3, Beginning
      <4>2. \A d : Stands(d, 0, "none", 0) => Stands(d, 0, "none", openIndex)
        BY DEF Stands
      <4> QED BY <2>1, <3>1, <3>2, <4>1, <4>2 DEF Leads
    <3>5. MessageStart \in EventType
      BY DEF MessageStart, Event, EventType, EventNames, Reasons
    <3>6. SameCalls(Tools)
      BY <2>1 DEF SameCalls
    <3> QED BY <2>1, <3>1, <3>2, <3>4, <3>5, <3>6, OneEvent, LeadsAgree
  <2> QED BY <1>0, <2>2, <2>3
<1>5. CASE Image
  <2>1. /\ stage = "image" /\ stage' = "reasoning" /\ out = <<>>
        /\ UNCHANGED <<client, irregular, started, finished, accumulators,
                       repetitionCount, hallucinationCount>>
        /\ started = TRUE /\ finished = FALSE
    BY <1>5 DEF Image, Runs, Yield, Sends, flagVars, toolVars, safetyVars, Flow
  <2>2. CASE chunk.image
    <3>1. /\ out' = ImageEvents
          /\ nextIndex' = nextIndex + 1 /\ openType' = "none" /\ openIndex' = 0
      BY <1>5, <2>2 DEF Image, Yield, Sends
    <3>2. Stands(client, nextIndex, openType, openIndex) /\ SameCalls(Tools)
      BY <2>1, Now DEF Agrees, SameCalls
    <3>3. out' \in Seq(EventType) /\ Leads(client, out', irregular', nextIndex', openType', openIndex')
      BY <1>0, <2>1, <3>1, <3>2, ImageBlock
    <3> QED BY <2>1, <3>2, <3>3, LeadsAgree
  <2>3. CASE ~chunk.image
    <3>1. out' = <<>> /\ UNCHANGED <<nextIndex, openType, openIndex>>
      BY <1>5, <2>3 DEF Image, Yield, Sends, blockVars
    <3> QED BY <2>1, <3>1, Silent DEF LimitReached
  <2> QED BY <2>2, <2>3
<1>6. CASE Reasoning
  <2>1. /\ stage = "reasoning" /\ stage' = "text" /\ out = <<>>
        /\ UNCHANGED <<started, finished, accumulators, repetitionCount, hallucinationCount>>
        /\ started = TRUE /\ finished = FALSE
    BY <1>6 DEF Reasoning, Runs, flagVars, toolVars, safetyVars, Flow
  <2>2. CASE chunk.reasoning
    <3>1. StreamInto("thinking", "thinking_delta")
      BY <1>6, <2>2 DEF Reasoning
    <3>2. /\ "thinking" \in Kinds /\ "thinking_delta" \in Deltas \ {"signature_delta"}
          /\ "thinking_delta" \in Fits("thinking")
      BY DEF Kinds, Deltas, Fits
    <3>3. /\ out' \in Seq(EventType) /\ client' = client
          /\ Leads(client, out', irregular', nextIndex', openType', openIndex')
      BY <1>0, <2>1, <3>1, <3>2, StreamAgrees
    <3>4. SameCalls(Tools)
      BY <2>1 DEF SameCalls
    <3> QED BY <2>1, <3>3, <3>4, LeadsAgree
  <2>3. CASE ~chunk.reasoning
    <3>1. out' = <<>> /\ UNCHANGED <<client, nextIndex, openType, openIndex>>
      BY <1>6, <2>3 DEF Reasoning, Yield, Sends, blockVars
    <3> QED BY <2>1, <3>1, Silent DEF LimitReached
  <2> QED BY <2>2, <2>3
<1>7. CASE Text
  <2>1. /\ stage = "text" /\ stage' = "tool" /\ out = <<>>
        /\ UNCHANGED <<started, finished, accumulators, repetitionCount, hallucinationCount>>
        /\ started = TRUE /\ finished = FALSE
    BY <1>7 DEF Text, Runs, flagVars, toolVars, safetyVars, Flow
  <2>2. CASE chunk.text # "none"
    <3>1. StreamInto("text", "text_delta")
      BY <1>7, <2>2 DEF Text
    <3>2. /\ "text" \in Kinds /\ "text_delta" \in Deltas \ {"signature_delta"}
          /\ "text_delta" \in Fits("text")
      BY DEF Kinds, Deltas, Fits
    <3>3. /\ out' \in Seq(EventType) /\ client' = client
          /\ Leads(client, out', irregular', nextIndex', openType', openIndex')
      BY <1>0, <2>1, <3>1, <3>2, StreamAgrees
    <3>4. SameCalls(Tools)
      BY <2>1 DEF SameCalls
    <3> QED BY <2>1, <3>3, <3>4, LeadsAgree
  <2>3. CASE chunk.text = "none"
    <3>1. out' = <<>> /\ UNCHANGED <<client, nextIndex, openType, openIndex>>
      BY <1>7, <2>3 DEF Text, Yield, Sends, blockVars
    <3> QED BY <2>1, <3>1, Silent DEF LimitReached
  <2> QED BY <2>2, <2>3
<1>8. CASE ToolCall
  BY <1>8, ToolCallAgrees
<1>9. CASE ToolTail
  <2>1. /\ stage = "tool" /\ stage' \in {"flush", "safety"} /\ out = <<>> /\ out' = <<>>
        /\ UNCHANGED <<client, started, finished, nextIndex, openType, openIndex, accumulators,
                       repetitionCount, hallucinationCount>>
    BY <1>9 DEF ToolTail, Runs, Yield, Sends, blockVars, flagVars, toolVars, safetyVars
  <2> QED BY <2>1, Silent DEF LimitReached
<1>10. CASE FlushTool
  BY <1>10, FlushAgrees
<1>11. CASE FlushDone
  <2>1. /\ stage = "flush" /\ stage' = "safety" /\ out = <<>> /\ out' = <<>>
        /\ UNCHANGED <<client, started, finished, nextIndex, openType, openIndex, accumulators,
                       repetitionCount, hallucinationCount>>
    BY <1>11 DEF FlushDone, Runs, Yield, Sends, blockVars, flagVars, toolVars, safetyVars
  <2> QED BY <2>1, Silent DEF LimitReached
<1>12. CASE SafetyText
  <2>1. /\ stage = "safety" /\ stage' = "safety" /\ out = <<>> /\ out' = <<>>
        /\ UNCHANGED <<client, started, nextIndex, openType, openIndex, accumulators,
                       repetitionCount>>
    BY <1>12 DEF SafetyText, Runs, Yield, Sends, blockVars, toolVars
  <2>2. /\ finished = TRUE => finished' = TRUE
        /\ finished' = TRUE => finished = TRUE \/ hallucinationCount' >= MaxHallucinations
    BY <1>0, <1>12, Zenon DEF SafetyText, StopHere
  <2>3. hallucinationCount' >= hallucinationCount
    BY <1>12 DEF SafetyText, Types
  <2>4. LimitReached => LimitReached'
    BY <2>1, <2>3, PipelineAssumption, SMTT(60) DEF LimitReached, Types
  <2> QED BY <2>1, <2>2, <2>4, Silent DEF LimitReached
<1>13. CASE SafetyTool
  <2>1. /\ stage = "safety" /\ stage' = "safety" /\ out = <<>> /\ out' = <<>>
        /\ UNCHANGED <<client, started, nextIndex, openType, openIndex, accumulators,
                       hallucinationCount>>
    BY <1>13 DEF SafetyTool, Runs, Yield, Sends, blockVars, toolVars
  <2>2. PICK loops \in BOOLEAN :
          /\ repetitionCount' = repetitionCount + (IF loops THEN 1 ELSE 0)
          /\ StopHere(loops /\ repetitionCount + 1 >= MaxRepetitions)
    BY <1>13 DEF SafetyTool
  <2>3. /\ finished = TRUE => finished' = TRUE
        /\ finished' = TRUE => finished = TRUE \/ (loops /\ repetitionCount + 1 >= MaxRepetitions)
    BY <1>0, <2>2, Zenon DEF StopHere
  <2>4. /\ loops /\ repetitionCount + 1 >= MaxRepetitions => repetitionCount' >= MaxRepetitions
        /\ repetitionCount' >= repetitionCount
    BY <2>2 DEF Types
  <2>5. LimitReached => LimitReached'
    BY <2>1, <2>4, PipelineAssumption, SMTT(60) DEF LimitReached, Types
  <2> QED BY <2>1, <2>3, <2>4, <2>5, Silent DEF LimitReached
<1>14. CASE SafetyDone
  <2>1. /\ stage = "safety" /\ stage' \in {"receive", "finalizer"} /\ out = <<>> /\ out' = <<>>
        /\ UNCHANGED <<client, started, finished, nextIndex, openType, openIndex, accumulators,
                       repetitionCount, hallucinationCount>>
    BY <1>14 DEF SafetyDone, Runs, Yield, Sends, blockVars, flagVars, toolVars, safetyVars
  <2> QED BY <2>1, Silent DEF LimitReached
<1>15. CASE Finalizer
  <2>1. /\ stage = "finalizer" /\ stage' = "receive" /\ out = <<>>
        /\ UNCHANGED <<client, irregular, started, nextIndex, accumulators,
                       repetitionCount, hallucinationCount>>
        /\ started = TRUE /\ finished = FALSE
    BY <1>15 DEF Finalizer, Runs, Yield, Sends, toolVars, safetyVars, Flow
  <2>2. CASE chunk.finish = "none"
    <3>1. out' = <<>> /\ UNCHANGED <<finished, openType, openIndex>>
      BY <1>15, <2>2 DEF Finalizer, Yield, Sends
    <3> QED BY <2>1, <3>1, Silent DEF LimitReached
  <2>3. CASE chunk.finish # "none"
    <3> DEFINE reason == MapFinishReason[chunk.finish]
    <3>1. finished' = TRUE /\ out' = FinalEvents(reason)
      BY <1>15, <2>3 DEF Finalizer, Yield, Sends
    <3>2. reason \in Reasons /\ (reason = "tool_use" => chunk.finish = "tool_calls")
      BY <2>3, SMTT(60) DEF Types, ChunkType, FinishReasons, MapFinishReason, Reasons
    <3> HIDE DEF reason
    <3>3. Stands(client, nextIndex, openType, openIndex) /\ client.stop # "tool_use"
      BY <2>1, Now DEF Agrees
    <3>4. out' \in Seq(EventType) /\ Ends(client, out', irregular', "stopped", reason)
      BY <1>0, <2>1, <3>1, <3>2, <3>3, Finishing, FinalOutputType
    <3>5. reason = "tool_use" => \A i \in Tools : Callable(i) => accumulators[i].closed = TRUE
      BY <2>1, <3>2 DEF ToolFlow
    <3> QED BY <2>1, <3>1, <3>4, <3>5, EndsAgree
  <2> QED BY <2>2, <2>3
<1>16. CASE Finalize
  <2>1. /\ stage = "finalize" /\ stage' = "end" /\ out = <<>>
        /\ UNCHANGED <<client, nextIndex, accumulators, repetitionCount, hallucinationCount>>
    BY <1>16 DEF Finalize, Runs, Yield, Sends, toolVars, safetyVars
  <2>2. CASE finished = TRUE
    <3>1. out' = <<>> /\ UNCHANGED <<started, finished, openType, openIndex>>
      BY <1>16, <2>2 DEF Finalize, Yield, Sends
    <3> QED BY <2>1, <2>2, <3>1, Silent DEF LimitReached
  <2>3. CASE finished = FALSE
    <3>1. /\ started' = TRUE /\ finished' = TRUE /\ irregular' = irregular
          /\ out' = (IF started THEN <<>> ELSE <<MessageStart>>) \o FinalEvents(stopReason)
      BY <1>16, <2>3 DEF Finalize, Yield, Sends
    <3>2. stopReason = "end_turn" /\ stopReason \in Reasons
      BY <2>3 DEF Flow, Types
    <3>3. client \in ClientType /\ Agrees(client) /\ client.stop # "tool_use"
      BY <2>1, <2>3, Now DEF Agrees
    <3>4. out' \in Seq(EventType) /\ Ends(client, out', irregular', "stopped", stopReason)
      <4>1. CASE started = TRUE
        <5>1. Stands(client, nextIndex, openType, openIndex)
          BY <2>1, <2>3, <3>3, <4>1 DEF Agrees
        <5>2. /\ FinalEvents(stopReason) \in Seq(EventType)
              /\ Ends(client, FinalEvents(stopReason), irregular, "stopped", stopReason)
          BY <1>0, <3>2, <3>3, <5>1, Finishing, FinalOutputType
        <5>3. out' = <<>> \o FinalEvents(stopReason)
          BY <3>1, <4>1
        <5>4. out' = FinalEvents(stopReason)
          BY <5>2, <5>3, ConcatEmptySeq
        <5> QED BY <3>1, <5>2, <5>4
      <4>2. CASE started = FALSE
        <5>1. client.phase = "none" /\ client.content = <<>> /\ nextIndex = 0 /\ openType = "none"
          BY <3>3, <4>2 DEF Agrees, Flow
        <5>2. /\ <<MessageStart>> \o FinalEvents(stopReason) \in Seq(EventType)
              /\ Ends(client, <<MessageStart>> \o FinalEvents(stopReason), irregular, "stopped",
                      stopReason)
          BY <1>0, <3>2, <3>3, <5>1, FinishingNew, FinalOutputType
        <5> QED BY <3>1, <4>2, <5>2
      <4> QED BY <1>0, <4>1, <4>2
    <3>5. stopReason # "tool_use"
      BY <3>2
    <3> QED BY <2>1, <3>1, <3>4, <3>5, EndsAgree
  <2> QED BY <1>0, <2>2, <2>3
<1>17. CASE Deliver
  <2>1. /\ out # <<>> /\ out' = Tail(out) /\ client' = Received(client, Head(out))
        /\ UNCHANGED <<stage, started, finished, nextIndex, openType, openIndex, accumulators,
                       repetitionCount, hallucinationCount, irregular>>
    BY <1>17 DEF Deliver, blockVars, flagVars, toolVars, safetyVars
  <2>2. PICK v \in ClientType : Path(client, out, v, irregular) /\ Agrees(v)
    BY DEF Agreement
  <2>3. client' \in ClientType /\ Path(client', out', v, irregular')
    BY <2>1, <2>2, PathHead DEF Agreement
  <2>4. out' \in Seq(EventType)
    BY <2>1, HeadTailProperties DEF Agreement
  <2>5. Agrees(v)'
    BY <2>1, <2>2 DEF Agrees, Holds, Callable, LimitReached
  <2> QED BY <2>3, <2>4, <2>5 DEF Agreement
<1>18. CASE UNCHANGED vars
  <2>1. UNCHANGED <<stage, started, finished, nextIndex, openType, openIndex, accumulators,
                    repetitionCount, hallucinationCount, irregular, out, client>>
    BY <1>18 DEF vars, loopVars, blockVars, flagVars, toolVars, safetyVars
  <2> QED BY <2>1 DEF Agreement, Agrees, Holds, Callable, LimitReached
<1> QED
  BY <1>1, <1>2, <1>3, <1>4, <1>5, <1>6, <1>7, <1>8, <1>9, <1>10, <1>11, <1>12, <1>13, <1>14,
     <1>15, <1>16, <1>17, <1>18 DEF Next, Step, Ended

\* Everything the pipeline does keeps the yielded events legal and the tool
\* calls whole.
THEOREM PipelineInvariant == Spec => []IInv
<1>1. Init => IInv
  BY TypesInit, FlowInit, ToolFlowInit, AgreementInit DEF IInv
<1>2. IInv /\ [Next]_vars => IInv'
  BY TypesKept, FlowKept, ToolFlowKept, AgreementKept DEF IInv
<1> QED BY <1>1, <1>2, PTL DEF Spec

\* Tool calls arrive, and they arrive whole: a tool block holds exactly the
\* fragments received for its tool, and a response that stops for tool use has
\* delivered every call that was given an id and a declared name, unless a
\* later delta of the call overwrote them (ToolProcessor.process, _flush_tool).
THEOREM ToolCallsArriveAlways == Spec => []ToolCallsArrive
<1>1. IInv => ToolCallsArrive
  <2> SUFFICES ASSUME IInv PROVE ToolCallsArrive
    OBVIOUS
  <2>1. ArgumentsReachTheirBlock
    <3> SUFFICES ASSUME NEW i \in Tools, accumulators[i].started, out = <<>>
                 PROVE  client.content[accumulators[i].anthIndex + 1].amount = accumulators[i].args
      BY DEF ArgumentsReachTheirBlock
    <3>1. accumulators[i].started = TRUE
      BY Elements DEF IInv
    <3>2. Holds(client)
      BY Now DEF IInv, Agrees
    <3> QED BY <3>1, <3>2 DEF Holds
  <2>2. NoToolCallLost
    <3> SUFFICES ASSUME client.stop = "tool_use",
                        NEW i \in Tools, ~Overwritten(accumulators[i])
                 PROVE  accumulators[i].closed
      BY DEF NoToolCallLost
    <3>1. PICK v \in ClientType : Path(client, out, v, irregular) /\ Agrees(v)
      BY DEF IInv, Agreement
    <3>2. v.stop = "tool_use"
      <4>1. 0 \in 0..Len(out)
        BY LenProperties DEF IInv, Agreement
      <4> QED BY <3>1, <4>1 DEF Path
    <3>3. Callable(i)
      BY Elements DEF IInv, Callable, Overwritten
    <3>4. accumulators[i].closed = TRUE
      BY <3>1, <3>2, <3>3 DEF Agrees
    <3> QED BY <3>4
  <2> QED BY <2>1, <2>2 DEF ToolCallsArrive
<1> QED BY <1>1, PipelineInvariant, PTL

\* Only SafetyProcessor, at one of its limits, leaves a response without its
\* end.
THEOREM OnlySafetyLeavesOpenAlways == Spec => []OnlySafetyLeavesOpen
<1>1. IInv => OnlySafetyLeavesOpen
  BY Now DEF IInv, OnlySafetyLeavesOpen, Runs, Agrees, LimitReached
<1> QED BY <1>1, PipelineInvariant, PTL

-----------------------------------------------------------------------------
(***************************************************************************)
(* A delivery is a step of the abstract stream.                            *)
(***************************************************************************)
\* The blocks of client c as the abstract stream sees them.
ViewBlock == [kind : Kinds, closed : BOOLEAN]
Shown(b) == [kind |-> b.kind, closed |-> b.closed]
View(c) == [i \in DOMAIN c.content |-> Shown(c.content[i])]

\* The view has one entry for each block.
LEMMA Viewed ==
  ASSUME NEW c \in ClientType
  PROVE  /\ View(c) \in Seq(ViewBlock) /\ Len(View(c)) = Len(c.content)
         /\ \A i \in 1..Len(c.content) :
              View(c)[i] = Shown(c.content[i])
<1>1. /\ Len(c.content) \in Nat /\ DOMAIN c.content = 1..Len(c.content)
      /\ \A i \in 1..Len(c.content) : c.content[i].kind \in Kinds /\ c.content[i].closed \in BOOLEAN
  BY Blocks
<1>2. View(c) \in [1..Len(c.content) -> ViewBlock]
  BY <1>1 DEF View, Shown, ViewBlock
<1> QED BY <1>1, <1>2, SeqDef, LenProperties DEF View

\* Two sequences of blocks that agree everywhere.
LEMMA SameView ==
  ASSUME NEW s \in Seq(ViewBlock), NEW t \in Seq(ViewBlock), Len(s) = Len(t),
         \A i \in 1..Len(s) : s[i] = t[i]
  PROVE  s = t
BY SeqEqual

\* A fragment does not show in the view.
LEMMA ViewDelta ==
  ASSUME NEW c \in ClientType, NEW e \in EventType, Received(c, e) \in ClientType,
         e.event = "content_block_delta", e.index + 1 \in 1..Len(c.content)
  PROVE  View(Received(c, e)) = View(c) /\ Received(c, e).phase = c.phase
<1> DEFINE d == Received(c, e)
           b == [c.content[e.index + 1] EXCEPT !.amount = @ + e.amount]
<1>1. /\ c.content \in Seq(Block) /\ DOMAIN c.content = 1..Len(c.content)
      /\ \A i \in 1..Len(c.content) : c.content[i] \in Block
  BY Blocks
<1>2. b \in Block /\ b.kind = c.content[e.index + 1].kind /\ b.closed = c.content[e.index + 1].closed
  BY <1>1, BlockChanges DEF EventType
<1>3. d = [c EXCEPT !.last = e, !.content[e.index + 1].amount = @ + e.amount]
  BY <1>1 DEF Received, HasBlock
<1>4. d.content = [c.content EXCEPT ![e.index + 1] = b] /\ d.phase = c.phase
  BY <1>3 DEF ClientType
<1> HIDE DEF b
<1>5. /\ Len(d.content) = Len(c.content)
      /\ \A i \in 1..Len(c.content) : d.content[i] = IF i = e.index + 1 THEN b ELSE c.content[i]
  BY <1>1, <1>2, <1>4, ExceptSeq
<1>6. d \in ClientType
  OBVIOUS
<1> HIDE DEF d
<1>7. \A i \in 1..Len(c.content) : View(d)[i] = View(c)[i]
  <2>1. \A i \in 1..Len(c.content) : View(c)[i] = Shown(c.content[i])
    BY Viewed
  <2>2. \A i \in 1..Len(d.content) : View(d)[i] = Shown(d.content[i])
    BY <1>6, Viewed
  <2>3. Shown(b) = Shown(c.content[e.index + 1])
    BY <1>2 DEF Shown
  <2> QED BY <1>5, <2>1, <2>2, <2>3
<1>8. View(d) = View(c)
  BY <1>5, <1>6, <1>7, Viewed, SameView
<1> QED BY <1>4, <1>8 DEF d

\* A block that is opened is a new entry of the view.
LEMMA ViewStart ==
  ASSUME NEW c \in ClientType, NEW e \in EventType, Received(c, e) \in ClientType,
         e.event = "content_block_start", e.kind \in Kinds
  PROVE  /\ View(Received(c, e)) = Append(View(c), [kind |-> e.kind, closed |-> FALSE])
         /\ Received(c, e).phase = c.phase
<1> DEFINE d == Received(c, e)
           b == [kind |-> e.kind, closed |-> FALSE, amount |-> 0]
           s == [kind |-> e.kind, closed |-> FALSE]
<1>1. c.content \in Seq(Block) /\ Len(c.content) \in Nat /\ b \in Block /\ s \in ViewBlock
  BY Blocks DEF Block, ViewBlock
<1>2. d.content = Append(c.content, b) /\ d.phase = c.phase
  BY DEF Received, ClientType
<1>3. /\ Len(d.content) = Len(c.content) + 1 /\ d.content[Len(c.content) + 1] = b
      /\ \A i \in 1..Len(c.content) : d.content[i] = c.content[i]
  BY <1>1, <1>2, AppendProperties
<1>4. d \in ClientType
  OBVIOUS
<1> HIDE DEF d
<1>5. /\ View(c) \in Seq(ViewBlock) /\ Len(View(c)) = Len(c.content)
      /\ View(d) \in Seq(ViewBlock) /\ Len(View(d)) = Len(c.content) + 1
  BY <1>3, <1>4, Viewed
<1>6. View(d)[Len(c.content) + 1] = s /\ \A i \in 1..Len(c.content) : View(d)[i] = View(c)[i]
  <2>1. \A i \in 1..Len(c.content) : View(c)[i] = Shown(c.content[i])
    BY Viewed
  <2>2. \A i \in 1..Len(d.content) : View(d)[i] = Shown(d.content[i])
    BY <1>4, Viewed
  <2>3. Shown(b) = s
    BY DEF Shown
  <2> QED BY <1>1, <1>3, <2>1, <2>2, <2>3
<1> HIDE DEF s
<1>7. /\ Append(View(c), s) \in Seq(ViewBlock) /\ Len(Append(View(c), s)) = Len(c.content) + 1
      /\ Append(View(c), s)[Len(c.content) + 1] = s
      /\ \A i \in 1..Len(c.content) : Append(View(c), s)[i] = View(c)[i]
  BY <1>1, <1>5, AppendProperties
<1>8. \A i \in 1..(Len(c.content) + 1) : View(d)[i] = Append(View(c), s)[i]
  BY <1>1, <1>6, <1>7
<1>9. View(d) = Append(View(c), s)
  BY <1>5, <1>7, <1>8, SameView
<1> QED BY <1>2, <1>9 DEF d, s

\* A block that is closed is closed in the view.
LEMMA ViewStop ==
  ASSUME NEW c \in ClientType, NEW e \in EventType, Received(c, e) \in ClientType,
         e.event = "content_block_stop", e.index + 1 \in 1..Len(c.content)
  PROVE  /\ View(Received(c, e)) = [View(c) EXCEPT ![e.index + 1].closed = TRUE]
         /\ Received(c, e).phase = c.phase
<1> DEFINE d == Received(c, e)
           x == e.index + 1
           b == [c.content[x] EXCEPT !.closed = TRUE]
           s == [kind |-> c.content[x].kind, closed |-> TRUE]
<1>1. /\ c.content \in Seq(Block) /\ DOMAIN c.content = 1..Len(c.content)
      /\ \A i \in 1..Len(c.content) : c.content[i] \in Block /\ c.content[i].kind \in Kinds
  BY Blocks
<1>2. b \in Block /\ b.kind = c.content[x].kind /\ b.closed = TRUE /\ s \in ViewBlock
  BY <1>1, BlockChanges DEF ViewBlock
<1>3. d = [c EXCEPT !.last = e, !.content[x].closed = TRUE]
  BY <1>1 DEF Received, HasBlock
<1>4. d.content = [c.content EXCEPT ![x] = b] /\ d.phase = c.phase
  BY <1>3 DEF ClientType
<1>5. x \in 1..Len(c.content) /\ d \in ClientType
  OBVIOUS
<1> HIDE DEF b, x, d
<1>6. /\ Len(d.content) = Len(c.content)
      /\ \A i \in 1..Len(c.content) : d.content[i] = IF i = x THEN b ELSE c.content[i]
  BY <1>1, <1>2, <1>4, <1>5, ExceptSeq
<1>7. /\ View(c) \in Seq(ViewBlock) /\ Len(View(c)) = Len(c.content)
      /\ View(d) \in Seq(ViewBlock) /\ Len(View(d)) = Len(c.content)
  BY <1>5, <1>6, Viewed
<1>8. View(d)[x] = s /\ \A i \in 1..Len(c.content) : i # x => View(d)[i] = View(c)[i]
  <2>1. \A i \in 1..Len(c.content) : View(c)[i] = Shown(c.content[i])
    BY Viewed
  <2>2. \A i \in 1..Len(d.content) : View(d)[i] = Shown(d.content[i])
    BY <1>5, Viewed
  <2>3. Shown(b) = s
    BY <1>2 DEF Shown
  <2> QED BY <1>5, <1>6, <2>1, <2>2, <2>3
<1>9. [View(c) EXCEPT ![x].closed = TRUE] = [View(c) EXCEPT ![x] = s]
  <2>1. View(c)[x] = Shown(c.content[x]) /\ View(c)[x] \in ViewBlock
    BY <1>5, <1>7, Viewed
  <2>2. View(c)[x].kind = c.content[x].kind
    BY <2>1 DEF Shown
  <2>3. \A v \in ViewBlock : /\ [v EXCEPT !.closed = TRUE] \in ViewBlock
                              /\ [v EXCEPT !.closed = TRUE].kind = v.kind
                              /\ [v EXCEPT !.closed = TRUE].closed = TRUE
    BY DEF ViewBlock
  <2>4. s \in ViewBlock /\ s.kind = c.content[x].kind /\ s.closed = TRUE
    BY <1>2
  <2>5. \A u, v \in ViewBlock : u.kind = v.kind /\ u.closed = v.closed => u = v
    BY DEF ViewBlock
  <2> HIDE DEF s
  <2>6. [View(c)[x] EXCEPT !.closed = TRUE] = s
    BY <2>1, <2>2, <2>3, <2>4, <2>5, ZenonT(60)
  <2> QED BY <2>6
<1> HIDE DEF s
<1>10. /\ [View(c) EXCEPT ![x] = s] \in Seq(ViewBlock)
       /\ Len([View(c) EXCEPT ![x] = s]) = Len(c.content)
       /\ \A i \in 1..Len(c.content) : [View(c) EXCEPT ![x] = s][i] = IF i = x THEN s ELSE View(c)[i]
  BY <1>2, <1>5, <1>7, ExceptSeq
<1>11. View(d) = [View(c) EXCEPT ![x] = s]
  BY <1>7, <1>8, <1>10, SameView, SMTT(60)
<1> QED BY <1>4, <1>9, <1>11 DEF d, x

\* The first event of a path is one the abstract stream accepts.
LEMMA Delivery ==
  ASSUME client \in ClientType, client' \in ClientType, NEW e \in EventType,
         Legal(client, e, irregular), client' = Received(client, e), irregular' = irregular
  PROVE  Contract!StreamNext
<1>1. /\ ClientContent = View(client) /\ ClientContent' = View(client')
      /\ ClientContent \in Seq(ViewBlock) /\ Len(ClientContent) = Len(client.content)
      /\ Len(client.content) \in Nat
      /\ client.content = <<>> <=> Len(client.content) = 0
  <2>1. ClientContent = View(client)
    BY DEF ClientContent, View, Shown
  <2>2. ClientContent' = View(client')
    BY DEF ClientContent, View, Shown
  <2> QED BY <2>1, <2>2, Viewed, Blocks
<1>2. \A i \in 1..Len(client.content) :
        /\ ClientContent[i].kind = client.content[i].kind
        /\ ClientContent[i].closed = client.content[i].closed
  <2>1. \A i \in 1..Len(client.content) : View(client)[i] = Shown(client.content[i])
    BY Viewed
  <2>2. \A i \in 1..Len(client.content) : ClientContent[i] = Shown(client.content[i])
    BY <1>1, <2>1
  <2>3. \A b : Shown(b).kind = b.kind /\ Shown(b).closed = b.closed
    BY DEF Shown
  <2> QED BY <2>2, <2>3
<1>3. client'.last = e
  BY DEF Received, ClientType
<1>4. ClientLast' = [event |-> e.event, index |-> e.index,
                     kind |-> IF e.event = "message_delta" THEN "none" ELSE e.kind]
  BY <1>3 DEF ClientLast
<1>5. /\ HasOpen(client) => Contract!Open
      /\ ~HasOpen(client) => ~Contract!Open
      /\ ClientContent # <<>> <=> client.content # <<>>
  <2>1. ClientContent # <<>> <=> client.content # <<>>
    BY <1>1, EmptySeq
  <2>2. client.content # <<>> => Len(client.content) \in 1..Len(client.content)
    BY <1>1
  <2>3. client.content # <<>> =>
          /\ ClientContent[Len(client.content)].closed = Top(client).closed
          /\ Top(client).closed \in {TRUE, FALSE}
    BY <1>2, <2>2, Blocks DEF Top
  <2> QED BY <1>1, <2>1, <2>3 DEF HasOpen, Contract!Open
<1>6. Contract!Current = Len(client.content) - 1
  BY <1>1 DEF Contract!Current
<1>7. CASE e.event = "message_start" /\ e.index = 0 /\ e.kind = "none" /\ client.phase = "none"
  <2>1. client'.phase = "streaming" /\ client'.content = client.content
    BY <1>7 DEF Received, ClientType
  <2>2. ClientContent' = ClientContent
    BY <2>1 DEF ClientContent
  <2> QED BY <1>4, <1>7, <2>1, <2>2
        DEF Contract!StreamNext, Contract!Deliver, Contract!MessageStart, Contract!Wire
<1>8. CASE /\ e.event = "content_block_start" /\ e.index = Len(client.content) /\ e.kind \in Kinds
           /\ client.phase = "streaming" /\ ~HasOpen(client)
  <2>1. /\ ClientContent' = Append(ClientContent, [kind |-> e.kind, closed |-> FALSE])
        /\ client'.phase = client.phase
    BY <1>1, <1>8, ViewStart
  <2>2. ClientLast' = Contract!Wire("content_block_start", Len(ClientContent), e.kind)
    BY <1>1, <1>4, <1>8 DEF Contract!Wire
  <2>3. Contract!BlockStart(e.kind)
    BY <1>5, <1>8, <2>1, <2>2 DEF Contract!BlockStart
  <2>4. e.kind \in Contract!BlockKinds
    BY <1>8 DEF Contract!BlockKinds, Kinds
  <2> QED BY <2>3, <2>4 DEF Contract!StreamNext, Contract!Deliver
<1>9. CASE /\ e.event = "content_block_delta" /\ e.index = Len(client.content) - 1
           /\ client.phase = "streaming" /\ HasOpen(client)
           /\ e.kind \in Fits(Top(client).kind) /\ ~Signed(client)
  <2>1. Len(client.content) \in 1..Len(client.content)
    BY <1>1, <1>9 DEF HasOpen
  <2>2. ClientContent' = ClientContent /\ client'.phase = client.phase
    <3>1. e.index + 1 = Len(client.content)
      BY <1>1, <1>9
    <3> QED BY <1>1, <1>9, <2>1, <3>1, ViewDelta
  <2>3. /\ e.kind \in Contract!DeltaKinds[ClientContent[Len(ClientContent)].kind]
        /\ e.kind \in UNION {Contract!DeltaKinds[x] : x \in Contract!BlockKinds}
    <3>1. ClientContent[Len(ClientContent)].kind = Top(client).kind /\ Top(client).kind \in Kinds
      BY <1>1, <1>2, <2>1, Blocks DEF Top
    <3>2. \A x \in Kinds : Fits(x) = Contract!DeltaKinds[x]
      BY DEF Kinds, Fits, Contract!DeltaKinds
    <3> QED BY <1>9, <3>1, <3>2 DEF Kinds, Contract!BlockKinds
  <2>4. ClientLast' = Contract!Wire("content_block_delta", Contract!Current, e.kind)
    BY <1>4, <1>6, <1>9 DEF Contract!Wire
  <2>5. ClientLast # Contract!Wire("content_block_delta", Contract!Current, "signature_delta")
    BY <1>6, <1>9 DEF ClientLast, Signed, Contract!Wire
  <2>6. Contract!BlockDelta(e.kind)
    BY <1>5, <1>9, <2>2, <2>3, <2>4, <2>5 DEF Contract!BlockDelta
  <2> QED BY <2>3, <2>6 DEF Contract!StreamNext, Contract!Deliver
<1>10. CASE /\ e.event = "content_block_delta" /\ e.index + 1 \in 1..Len(client.content)
            /\ e.kind = "input_json_delta" /\ irregular = TRUE /\ client.phase = "streaming"
            /\ client.content[e.index + 1].kind = "tool_use"
  <2>1. ClientContent' = ClientContent /\ client'.phase = client.phase
    BY <1>1, <1>10, ViewDelta
  <2>2. e.index \in 0..Contract!Current
    BY <1>1, <1>6, <1>10 DEF EventType
  <2>3. ClientContent[e.index + 1].kind = "tool_use"
    BY <1>2, <1>10
  <2>4. ClientLast' = Contract!Wire("content_block_delta", e.index, "input_json_delta")
    BY <1>4, <1>10 DEF Contract!Wire
  <2>5. Contract!LateInputDelta(e.index)
    BY <1>10, <2>1, <2>3, <2>4 DEF Contract!LateInputDelta
  <2> QED BY <2>2, <2>5 DEF Contract!StreamNext, Contract!Deliver
<1>11. CASE /\ e.event = "content_block_stop" /\ e.index = Len(client.content) - 1 /\ e.kind = "none"
            /\ client.phase = "streaming" /\ HasOpen(client)
            /\ Top(client).kind = "thinking" => Signed(client)
  <2>1. Len(client.content) \in 1..Len(client.content) /\ e.index + 1 = Len(client.content)
    BY <1>1, <1>11 DEF HasOpen
  <2>2. /\ ClientContent' = [ClientContent EXCEPT ![Len(ClientContent)].closed = TRUE]
        /\ client'.phase = client.phase
    BY <1>1, <1>11, <2>1, ViewStop
  <2>3. ClientContent[Len(ClientContent)].kind = Top(client).kind
    BY <1>1, <1>2, <2>1 DEF Top
  <2>4. ClientLast' = Contract!Wire("content_block_stop", Contract!Current, "none")
    BY <1>4, <1>6, <1>11 DEF Contract!Wire
  <2>5. Signed(client) =>
          ClientLast = Contract!Wire("content_block_delta", Contract!Current, "signature_delta")
    BY <1>6 DEF ClientLast, Signed, Contract!Wire
  <2>6. Contract!BlockStop
    BY <1>5, <1>11, <2>2, <2>3, <2>4, <2>5 DEF Contract!BlockStop
  <2> QED BY <2>6 DEF Contract!StreamNext, Contract!Deliver
<1>12. CASE /\ e.event = "message_delta" /\ e.index = 0 /\ e.kind \in Reasons
            /\ client.phase = "streaming" /\ ~HasOpen(client)
  <2>1. client'.phase = "closing" /\ client'.content = client.content
    BY <1>12 DEF Received, ClientType
  <2>2. ClientContent' = ClientContent
    BY <2>1 DEF ClientContent
  <2> QED BY <1>4, <1>5, <1>12, <2>1, <2>2
        DEF Contract!StreamNext, Contract!Deliver, Contract!MessageDelta, Contract!Wire
<1>13. CASE e.event = "message_stop" /\ e.index = 0 /\ e.kind = "none" /\ client.phase = "closing"
  <2>1. client'.phase = "stopped" /\ client'.content = client.content
    BY <1>13 DEF Received, ClientType
  <2>2. ClientContent' = ClientContent
    BY <2>1 DEF ClientContent
  <2> QED BY <1>4, <1>13, <2>1, <2>2
        DEF Contract!StreamNext, Contract!Deliver, Contract!MessageStop, Contract!Wire
<1>14. CASE /\ e.event = "error" /\ e.index = 0 /\ e.kind = "none"
            /\ client.phase = "streaming" \/ (irregular = TRUE /\ client.phase = "stopped")
  <2>1. client'.phase = "failed" /\ client'.content = client.content
    BY <1>14 DEF Received, ClientType
  <2>2. ClientContent' = ClientContent
    BY <2>1 DEF ClientContent
  <2> QED BY <1>4, <1>14, <2>1, <2>2
        DEF Contract!StreamNext, Contract!Deliver, Contract!StreamError, Contract!Wire
<1> QED BY <1>7, <1>8, <1>9, <1>10, <1>11, <1>12, <1>13, <1>14 DEF Legal

\* Every other step changes nothing the client sees, except that the upstream
\* may have turned irregular.
LEMMA Unseen ==
  ASSUME Types, [Next]_vars, ~Deliver
  PROVE  client' = client /\ (irregular' = irregular \/ irregular' = TRUE)
<1>1. ASSUME NEW c \in Chunks, Receive(c)
      PROVE  client' = client /\ (irregular' = irregular \/ irregular' = TRUE)
  <2>1. irregular' = (irregular \/ (HasContent(c) /\ openType = "tool_use"))
    BY <1>1 DEF Receive
  <2>2. irregular' = irregular \/ irregular' = TRUE
    BY <2>1, Zenon DEF Types
  <2> QED BY <1>1, <2>2 DEF Receive, Sends
<1>2. CASE UpstreamFails
  <2>1. irregular' = irregular \/ irregular' = TRUE
    BY <1>2, Zenon DEF UpstreamFails, Types
  <2> QED BY <1>2, <2>1 DEF UpstreamFails, Sends
<1>3. CASE UpstreamEnds \/ Metadata \/ Image \/ Reasoning \/ Text
  BY <1>3 DEF UpstreamEnds, Metadata, Image, Reasoning, Text, StreamInto, Yield, Sends
<1>4. CASE ToolCall \/ ToolTail \/ FlushTool \/ FlushDone
  BY <1>4, Zenon
     DEF ToolCall, ToolTail, FlushTool, FlushStarted, FlushWhole, FlushDropped, FlushDone, Yield, Sends
<1>5. CASE SafetyText \/ SafetyTool \/ SafetyDone \/ Finalizer \/ Finalize
  BY <1>5, Zenon DEF SafetyText, SafetyTool, SafetyDone, Finalizer, Finalize, Yield, Sends
<1>6. CASE UNCHANGED vars
  BY <1>6 DEF vars
<1> QED BY <1>1, <1>2, <1>3, <1>4, <1>5, <1>6 DEF Next, Step, Ended

\* The events the client receives are a legal Anthropic stream, with the two
\* departures AnthropicStream names and no other.
THEOREM PipelineImplementsAnthropicStream == Spec => HonoursContract
<1>1. Init => Contract!StreamInit
  <2> SUFFICES ASSUME Init PROVE Contract!StreamInit
    OBVIOUS
  <2>1. client = NewClient /\ irregular = FALSE
    BY DEF Init
  <2>2. client \in ClientType
    BY AgreementInit DEF Agreement
  <2>3. /\ client.phase = "none" /\ client.content = <<>>
        /\ client.last = Event("none", 0, "none", 0)
    BY <2>1 DEF NewClient
  <2>4. ClientContent = <<>>
    <3>1. ClientContent = View(client)
      BY DEF ClientContent, View, Shown
    <3>2. View(client) \in Seq(ViewBlock) /\ Len(View(client)) = 0
      BY <2>2, <2>3, Viewed
    <3> QED BY <3>1, <3>2, EmptySeq
  <2>5. ClientLast = Contract!NoEvent
    BY <2>3 DEF ClientLast, Event, Contract!NoEvent, Contract!Wire
  <2> QED BY <2>1, <2>3, <2>4, <2>5 DEF Contract!StreamInit
<1>2. IInv /\ IInv' /\ [Next]_vars => [Contract!StreamNext]_(Contract!streamVars)
  <2> SUFFICES ASSUME IInv, IInv', [Next]_vars
               PROVE  [Contract!StreamNext]_(Contract!streamVars)
    OBVIOUS
  <2>1. CASE Deliver
    <3>1. /\ out # <<>> /\ client' = Received(client, Head(out)) /\ irregular' = irregular
      BY <2>1 DEF Deliver
    <3>2. Legal(client, Head(out), irregular)
      BY <3>1, PathHead DEF IInv, Agreement
    <3>3. /\ client \in ClientType /\ client' \in ClientType /\ Head(out) \in EventType
      BY <3>1, HeadTailProperties DEF IInv, Agreement
    <3> QED BY <3>1, <3>2, <3>3, Delivery
  <2>2. CASE ~Deliver
    <3>1. client' = client /\ (irregular' = irregular \/ irregular' = TRUE)
      BY <2>2, Unseen DEF IInv
    <3>2. UNCHANGED <<client.phase, ClientContent, ClientLast>>
      BY <3>1 DEF ClientContent, ClientLast
    <3> QED BY <3>1, <3>2
          DEF Contract!StreamNext, Contract!BecomeLenient, Contract!streamVars
  <2> QED BY <2>1, <2>2
<1> QED BY <1>1, <1>2, PipelineInvariant, PTL DEF Spec, HonoursContract, Contract!StreamSpec
=============================================================================
