------------------------- MODULE MessageStreamProofs ------------------------
(***************************************************************************)
(* The tasks of a streaming response, for queues, chains and streams of    *)
(* any size: chunks are fed in order and none is left out, a client that   *)
(* stays is told of a failure, an orderly end leaves no task behind, and   *)
(* pings break the silence of a waiting response.                          *)
(*                                                                         *)
(* The argument is about what is on its way to gen() (Flow): the chunks    *)
(* after those already fed, in order, in the queue or in the hand of the   *)
(* pump; behind them the failure, if there was one; behind that SENTINEL;  *)
(* and pings anywhere.                                                     *)
(*                                                                         *)
(* The last section is about the processes of ncp (Launcher): an orderly   *)
(* end, and ncp kill, leave no proxy behind.                               *)
(***************************************************************************)
EXTENDS MessageStream, Launcher, TLAPS

PumpStates == {"none", "reading", "putting", "failing", "ending", "done"}

\* Nothing but pings comes after SENTINEL, nothing but these after a failure.
InOrder(q) ==
  \A i, j \in 1..Len(q) : i < j =>
    /\ q[i].kind = "sentinel" => q[j].kind = "ping"
    /\ q[i].kind \in Errors => q[j].kind \in {"ping", "sentinel"}
    /\ q[i].kind = "chunk" /\ q[j].kind = "chunk" => q[i].n < q[j].n

\* With n chunks produced and f of them fed, the others are in the queue q, but
\* for one that a putting pump may hold.
Between(q, p, h, f, n) ==
  /\ f <= n
  /\ p = "putting" => h.kind = "chunk" /\ h.n = n /\ f < n
  /\ \A i \in 1..Len(q) : q[i].kind = "chunk" =>
       f < q[i].n /\ q[i].n <= n /\ (p = "putting" => q[i].n < n)
  /\ \A m \in Nat : f < m /\ m <= n =>
       (p = "putting" /\ m = n) \/ \E i \in 1..Len(q) : q[i].kind = "chunk" /\ q[i].n = m

\* The failure e of the upstream and SENTINEL, where the pump is in state p.
Ends(q, p, h, e) ==
  /\ p \in PumpStates \ {"none"}
  /\ p \in {"reading", "putting", "failing"} =>
       \A i \in 1..Len(q) : q[i].kind \in {"chunk", "ping"}
  /\ p \in {"reading", "putting"} => e = "none"
  /\ p = "failing" => h.kind = e /\ e \in Errors
  /\ p = "ending" => h = Sentinel /\ \A i \in 1..Len(q) : q[i].kind # "sentinel"
  /\ p \in {"ending", "done"} /\ e # "none" => \E i \in 1..Len(q) : q[i].kind \in Errors

Flow(q, p, h, f, n, e) == InOrder(q) /\ Between(q, p, h, f, n) /\ Ends(q, p, h, e)

(***************************************************************************)
(* The invariant.  There is one attempt at most, since failover raises in  *)
(* the finally clause (OneAttempt); what that clause has cancelled stays   *)
(* cancelled (Cleared); the flow is as above while gen() takes items       *)
(* (Fed), and a failure is told before the end (FailureTold).              *)
(***************************************************************************)
OneAttempt ==
  /\ attempt \in {0, 1}
  /\ attempt = 0 => pc \in {"begin", "ended"}
  /\ pc = "begin" => attempt = 0
  /\ \A a \in Attempts : a # attempt => pump[a] = "none" /\ pinger[a] = "none"
  /\ pc \in {"begin", "peek", "peekAgain", "drain"} => sentinelSeen = "unbound"
  /\ resume = "begin" => pc \in {"drain", "crashed"}
  /\ pc = "drain" => resume = "begin"
  /\ pc \in {"drain", "await", "ended", "crashed"} => wire = NoEvent

Cleared ==
  /\ pc = "await" => pinger[attempt] = "done" /\ pump[attempt] \in {"ending", "done"}
  /\ pc = "ended" /\ attempt # 0 => pinger[attempt] = "done" /\ pump[attempt] = "done"

Taking == pc \in {"peek", "peekAgain", "loop"}

Fed ==
  /\ \A i \in 1..Len(fed) : fed[i] = i
  /\ Taking => Flow(queue[attempt], pump[attempt], held[attempt], Len(fed), produced, failure)
  /\ pc = "save" => pump[attempt] = "done" /\ Len(fed) = produced /\ failure = "none"

FailureTold ==
  /\ pc = "return" => told \/ wire = "error"
  /\ client = "reading" /\ pc \in {"await", "ended", "crashed"} /\ resume = "ended" =>
       told \/ (failure = "none" /\ \A a \in Attempts : pump[a] \in {"none", "ending", "done"})

\* Nothing is on its way before the first attempt.
Fresh == attempt = 0 => queue = [a \in Attempts |-> <<>>]

IInv == TypeOK /\ OneAttempt /\ Cleared /\ Fed /\ FailureTold /\ Fresh

\* The kinds of items are as distinct as their names.
LEMMA KindsDiffer ==
  /\ {"chunk", "ping", "sentinel", "none"} \cap Errors = {}
  /\ Sentinel.kind = "sentinel" /\ Ping.kind = "ping"
BY DEF Errors, Sentinel, Ping, Item

\* Where a pump goes after a put.
LEMMA AfterPutIs ==
  /\ DOMAIN AfterPut = {"putting", "failing", "ending"}
  /\ AfterPut["putting"] = "reading"
  /\ AfterPut["failing"] = "ending"
  /\ AfterPut["ending"] = "done"
BY DEF AfterPut

\* What is appended comes last, and what was there stays.
LEMMA AppendItem ==
  ASSUME NEW S, NEW q \in Seq(S), NEW x \in S
  PROVE  /\ Append(q, x) \in Seq(S)
         /\ Len(q) \in Nat
         /\ Len(Append(q, x)) = Len(q) + 1
         /\ Append(q, x)[Len(q) + 1] = x
         /\ \A i \in 1..Len(q) : Append(q, x)[i] = q[i]
OBVIOUS

\* What is taken was first, and the others move up.
LEMMA TailItem ==
  ASSUME NEW S, NEW q \in Seq(S), q # <<>>
  PROVE  /\ Tail(q) \in Seq(S)
         /\ Len(q) \in Nat /\ Len(q) > 0
         /\ Len(Tail(q)) = Len(q) - 1
         /\ Head(q) = q[1] /\ q[1] \in S
         /\ \A i \in 1..(Len(q) - 1) : Tail(q)[i] = q[i + 1]
OBVIOUS

\* A ping may join at any time.
LEMMA PingJoins ==
  ASSUME NEW q \in Seq(ItemType), NEW p, NEW h, NEW f \in Nat, NEW n \in Nat, NEW e,
         Flow(q, p, h, f, n, e), Ping \in ItemType
  PROVE  Flow(Append(q, Ping), p, h, f, n, e)
<1> DEFINE r == Append(q, Ping)
<1>1. /\ Len(q) \in Nat /\ Len(r) = Len(q) + 1 /\ r[Len(q) + 1] = Ping
      /\ \A i \in 1..Len(q) : r[i] = q[i]
  BY AppendItem
<1>2. r[Len(q) + 1].kind = "ping"
  BY <1>1, KindsDiffer
<1>. HIDE DEF r
<1>3. InOrder(r)
  BY <1>1, <1>2, KindsDiffer DEF Flow, InOrder
<1>4. Between(r, p, h, f, n)
  <2>1. \A i \in 1..Len(r) : r[i].kind = "chunk" => i \in 1..Len(q) /\ r[i] = q[i]
    BY <1>1, <1>2
  <2>2. \A i \in 1..Len(q) : i \in 1..Len(r) /\ r[i] = q[i]
    BY <1>1
  <2> QED BY <2>1, <2>2 DEF Flow, Between
<1>5. Ends(r, p, h, e)
  <2>1. \A i \in 1..Len(r) : r[i].kind = "ping" \/ (i \in 1..Len(q) /\ r[i] = q[i])
    BY <1>1, <1>2
  <2>2. \A i \in 1..Len(q) : i \in 1..Len(r) /\ r[i] = q[i]
    BY <1>1
  <2> QED BY <2>1, <2>2 DEF Flow, Ends
<1> QED BY <1>3, <1>4, <1>5 DEF Flow, r

\* The pump puts what it holds.
LEMMA HeldJoins ==
  ASSUME NEW q \in Seq(ItemType), NEW p \in DOMAIN AfterPut, NEW h \in ItemType,
         NEW f \in Nat, NEW n \in Nat, NEW e, Flow(q, p, h, f, n, e)
  PROVE  Flow(Append(q, h), AfterPut[p], Sentinel, f, n, e)
<1> DEFINE r == Append(q, h)
<1>1. /\ Len(q) \in Nat /\ Len(r) = Len(q) + 1 /\ r[Len(q) + 1] = h
      /\ \A i \in 1..Len(q) : r[i] = q[i]
  BY AppendItem
<1>2. /\ \A i \in 1..Len(r) : i = Len(q) + 1 \/ (i \in 1..Len(q) /\ r[i] = q[i])
      /\ \A i \in 1..Len(q) : i \in 1..Len(r) /\ r[i] = q[i]
      /\ Len(q) + 1 \in 1..Len(r)
  BY <1>1
<1>. HIDE DEF r
<1>3. CASE p = "putting"
  <2>1. h.kind = "chunk" /\ h.n = n /\ f < n
    BY <1>3 DEF Flow, Between
  <2>2. \A i \in 1..Len(q) : q[i].kind \in {"chunk", "ping"}
    BY <1>3 DEF Flow, Ends
  <2>3. InOrder(r)
    <3>1. \A i \in 1..Len(q) : q[i].kind \notin Errors \cup {"sentinel"}
      BY <2>2, KindsDiffer
    <3>2. \A i \in 1..Len(q) : q[i].kind = "chunk" => q[i].n < h.n
      BY <1>3, <2>1 DEF Flow, Between
    <3>3. h.kind \notin Errors \cup {"sentinel"}
      BY <2>1, KindsDiffer
    <3> QED BY <1>1, <3>1, <3>2, <3>3, SMTT(60) DEF Flow, InOrder
  <2>4. Between(r, "reading", Sentinel, f, n)
    BY <1>1, <1>2, <1>3, <2>1, SMTT(60) DEF Flow, Between
  <2>5. Ends(r, "reading", Sentinel, e)
    BY <1>1, <1>2, <1>3, <2>1, <2>2 DEF Flow, Ends, PumpStates
  <2> QED BY <1>3, <2>3, <2>4, <2>5, AfterPutIs DEF Flow, r
<1>4. CASE p = "failing"
  <2>1. h.kind = e /\ e \in Errors
    BY <1>4 DEF Flow, Ends
  <2>2. \A i \in 1..Len(q) : q[i].kind \in {"chunk", "ping"}
    BY <1>4 DEF Flow, Ends
  <2>3. InOrder(r)
    BY <1>1, <2>1, <2>2, KindsDiffer, SMTT(60) DEF Flow, InOrder
  <2>4. Between(r, "ending", Sentinel, f, n)
    BY <1>1, <1>2, <1>4, <2>1, KindsDiffer, SMTT(60) DEF Flow, Between
  <2>5. Ends(r, "ending", Sentinel, e)
    BY <1>1, <1>2, <2>1, <2>2, KindsDiffer DEF Flow, Ends, PumpStates
  <2> QED BY <1>4, <2>3, <2>4, <2>5, AfterPutIs DEF Flow, r
<1>5. CASE p = "ending"
  <2>1. h = Sentinel /\ h.kind = "sentinel"
    BY <1>5, KindsDiffer DEF Flow, Ends
  <2>2. \A i \in 1..Len(q) : q[i].kind # "sentinel"
    BY <1>5 DEF Flow, Ends
  <2>3. InOrder(r)
    BY <1>1, <2>1, <2>2, KindsDiffer DEF Flow, InOrder
  <2>4. Between(r, "done", Sentinel, f, n)
    BY <1>1, <1>2, <1>5, <2>1, KindsDiffer DEF Flow, Between
  <2>5. Ends(r, "done", Sentinel, e)
    BY <1>1, <1>2, <1>5, <2>1 DEF Flow, Ends, PumpStates
  <2> QED BY <1>5, <2>3, <2>4, <2>5, AfterPutIs DEF Flow, r
<1> QED BY <1>3, <1>4, <1>5, AfterPutIs

\* gen() takes a ping.
LEMMA PingGoes ==
  ASSUME NEW q \in Seq(ItemType), NEW p, NEW h, NEW f \in Nat, NEW n \in Nat, NEW e,
         Flow(q, p, h, f, n, e), q # <<>>, Head(q).kind = "ping"
  PROVE  Flow(Tail(q), p, h, f, n, e)
<1> DEFINE r == Tail(q)
<1>1. /\ Len(q) \in Nat /\ Len(q) > 0 /\ Len(r) = Len(q) - 1 /\ q[1].kind = "ping"
      /\ \A i \in 1..(Len(q) - 1) : r[i] = q[i + 1]
  BY TailItem
<1>. HIDE DEF r
<1>2. \A i \in 1..Len(r) : i + 1 \in 1..Len(q) /\ r[i] = q[i + 1]
  BY <1>1
<1>3. \A i \in 1..Len(q) : q[i].kind # "ping" => i - 1 \in 1..Len(r) /\ r[i - 1] = q[i]
  <2>1. SUFFICES ASSUME NEW i \in 1..Len(q), q[i].kind # "ping"
                 PROVE  i - 1 \in 1..Len(r) /\ r[i - 1] = q[i]
    OBVIOUS
  <2>2. i # 1 BY <1>1, <2>1
  <2>3. i - 1 \in 1..(Len(q) - 1) /\ (i - 1) + 1 = i BY <1>1, <2>2
  <2> QED BY <1>1, <2>3
<1>4. InOrder(r)
  <2>1. SUFFICES ASSUME NEW i \in 1..Len(r), NEW j \in 1..Len(r), i < j
                 PROVE  /\ r[i].kind = "sentinel" => r[j].kind = "ping"
                        /\ r[i].kind \in Errors => r[j].kind \in {"ping", "sentinel"}
                        /\ r[i].kind = "chunk" /\ r[j].kind = "chunk" => r[i].n < r[j].n
    BY DEF InOrder
  <2>2. i + 1 \in 1..Len(q) /\ j + 1 \in 1..Len(q) /\ i + 1 < j + 1
    BY <1>1, <2>1
  <2> QED BY <1>2, <2>1, <2>2 DEF Flow, InOrder
<1>5. Between(r, p, h, f, n)
  <2>1. \A i \in 1..Len(q) : q[i].kind = "chunk" => i - 1 \in 1..Len(r) /\ r[i - 1] = q[i]
    BY <1>3
  <2>2. \A i \in 1..Len(r) : r[i].kind = "chunk" =>
          f < r[i].n /\ r[i].n <= n /\ (p = "putting" => r[i].n < n)
    BY <1>2 DEF Flow, Between
  <2>3. \A m \in Nat : f < m /\ m <= n =>
          (p = "putting" /\ m = n) \/ \E i \in 1..Len(r) : r[i].kind = "chunk" /\ r[i].n = m
    BY <2>1, SMTT(60) DEF Flow, Between
  <2> QED BY <2>2, <2>3 DEF Flow, Between
<1>6. Ends(r, p, h, e)
  BY <1>2, <1>3, KindsDiffer DEF Flow, Ends
<1> QED BY <1>4, <1>5, <1>6 DEF Flow, r

\* gen() takes a chunk: it is the next one.
LEMMA ChunkGoes ==
  ASSUME NEW q \in Seq(ItemType), NEW p, NEW h, NEW f \in Nat, NEW n \in Nat, NEW e,
         Flow(q, p, h, f, n, e), q # <<>>, Head(q).kind = "chunk"
  PROVE  Head(q).n = f + 1 /\ Flow(Tail(q), p, h, f + 1, n, e)
<1> DEFINE r == Tail(q)
<1>1. /\ Len(q) \in Nat /\ Len(q) > 0 /\ Len(r) = Len(q) - 1 /\ q[1] = Head(q)
      /\ \A i \in 1..(Len(q) - 1) : r[i] = q[i + 1]
      /\ q[1] \in ItemType
  BY TailItem
<1>. HIDE DEF r
<1>2. \A i \in 1..Len(r) : i + 1 \in 1..Len(q) /\ r[i] = q[i + 1] /\ 1 < i + 1
  BY <1>1
<1>3. \A i \in 1..Len(q) : i # 1 => i - 1 \in 1..Len(r) /\ r[i - 1] = q[i]
  <2>1. SUFFICES ASSUME NEW i \in 1..Len(q), i # 1
                 PROVE  i - 1 \in 1..Len(r) /\ r[i - 1] = q[i]
    OBVIOUS
  <2>2. i - 1 \in 1..(Len(q) - 1) /\ (i - 1) + 1 = i BY <1>1, <2>1
  <2> QED BY <1>1, <2>2
<1>4. q[1].kind = "chunk" /\ 1 \in 1..Len(q) /\ q[1].n \in Nat
  BY <1>1 DEF ItemType
<1>5. f < q[1].n /\ q[1].n <= n /\ (p = "putting" => q[1].n < n)
  BY <1>4 DEF Flow, Between
<1>6. q[1].n = f + 1
  <2>1. SUFFICES ASSUME f + 1 < q[1].n PROVE FALSE
    BY <1>4, <1>5
  <2>2. f + 1 \in Nat /\ f < f + 1 /\ f + 1 <= n /\ (p = "putting" => f + 1 # n)
    BY <1>4, <1>5, <2>1
  <2>3. PICK i \in 1..Len(q) : q[i].kind = "chunk" /\ q[i].n = f + 1
    BY <2>2 DEF Flow, Between
  <2>4. i # 1 /\ 1 < i
    BY <2>1, <2>3, <1>1
  <2>5. q[1].n < q[i].n
    BY <1>4, <2>3, <2>4 DEF Flow, InOrder
  <2> QED BY <2>1, <2>3, <2>5, <1>4
<1>7. InOrder(r)
  <2>1. SUFFICES ASSUME NEW i \in 1..Len(r), NEW j \in 1..Len(r), i < j
                 PROVE  /\ r[i].kind = "sentinel" => r[j].kind = "ping"
                        /\ r[i].kind \in Errors => r[j].kind \in {"ping", "sentinel"}
                        /\ r[i].kind = "chunk" /\ r[j].kind = "chunk" => r[i].n < r[j].n
    BY DEF InOrder
  <2>2. i + 1 \in 1..Len(q) /\ j + 1 \in 1..Len(q) /\ i + 1 < j + 1
    BY <1>1, <2>1
  <2> QED BY <1>2, <2>1, <2>2 DEF Flow, InOrder
<1>8. Between(r, p, h, f + 1, n)
  <2>1. f + 1 <= n /\ (p = "putting" => h.kind = "chunk" /\ h.n = n /\ f + 1 < n)
    BY <1>5, <1>6 DEF Flow, Between
  <2>2. ASSUME NEW i \in 1..Len(r), r[i].kind = "chunk"
        PROVE  f + 1 < r[i].n /\ r[i].n <= n /\ (p = "putting" => r[i].n < n)
    <3>1. i + 1 \in 1..Len(q) /\ r[i] = q[i + 1] /\ 1 < i + 1 BY <1>2
    <3>2. q[1].n < q[i + 1].n BY <1>4, <2>2, <3>1 DEF Flow, InOrder
    <3> QED BY <1>6, <2>2, <3>1, <3>2 DEF Flow, Between
  <2>3. ASSUME NEW m \in Nat, f + 1 < m, m <= n
        PROVE  (p = "putting" /\ m = n) \/ \E i \in 1..Len(r) : r[i].kind = "chunk" /\ r[i].n = m
    <3>1. f < m BY <2>3
    <3>2. CASE p = "putting" /\ m = n BY <3>2
    <3>3. CASE \E i \in 1..Len(q) : q[i].kind = "chunk" /\ q[i].n = m
      <4>1. PICK i \in 1..Len(q) : q[i].kind = "chunk" /\ q[i].n = m BY <3>3
      <4>2. i # 1 BY <1>6, <2>3, <4>1
      <4> QED BY <1>3, <4>1, <4>2
    <3> QED BY <2>3, <3>1, <3>2, <3>3 DEF Flow, Between
  <2> QED BY <2>1, <2>2, <2>3 DEF Between
<1>9. Ends(r, p, h, e)
  <2>1. \A i \in 1..Len(q) : q[i].kind \in Errors => i # 1
    BY <1>4, KindsDiffer
  <2> QED BY <1>2, <1>3, <2>1 DEF Flow, Ends
<1> QED BY <1>1, <1>6, <1>7, <1>8, <1>9 DEF Flow, r

\* gen() meets SENTINEL: everything has been fed and nothing failed.
LEMMA SentinelComes ==
  ASSUME NEW q \in Seq(ItemType), NEW p, NEW h, NEW f \in Nat, NEW n \in Nat, NEW e,
         Flow(q, p, h, f, n, e), q # <<>>, Head(q).kind = "sentinel"
  PROVE  p = "done" /\ f = n /\ e = "none"
<1>1. Len(q) \in Nat /\ 1 \in 1..Len(q) /\ q[1].kind = "sentinel"
  BY TailItem
<1>2. \A j \in 1..Len(q) : j # 1 => q[j].kind = "ping"
  <2>1. SUFFICES ASSUME NEW j \in 1..Len(q), j # 1 PROVE q[j].kind = "ping"
    OBVIOUS
  <2>2. 1 < j BY <1>1, <2>1
  <2> QED BY <1>1, <2>2 DEF Flow, InOrder
<1>3. \A j \in 1..Len(q) : q[j].kind \in {"sentinel", "ping"}
  BY <1>1, <1>2
<1>4. p = "done"
  BY <1>1, KindsDiffer DEF Flow, Ends, PumpStates
<1>5. e = "none"
  BY <1>3, <1>4, KindsDiffer DEF Flow, Ends
<1>6. f = n
  <2>1. f <= n BY DEF Flow, Between
  <2>2. ASSUME f < n PROVE FALSE
    BY <1>3, <1>4, <2>2 DEF Flow, Between
  <2> QED BY <2>1, <2>2
<1> QED BY <1>4, <1>5, <1>6

-----------------------------------------------------------------------------
(***************************************************************************)
(* The types.                                                              *)
(***************************************************************************)
LEMMA Items ==
  /\ Sentinel \in ItemType /\ Ping \in ItemType
  /\ \A e \in Errors : Item(e, 0) \in ItemType
  /\ \A k \in 0..MaxChunks : Item("chunk", k) \in ItemType
BY StreamAssumption DEF Sentinel, Ping, Item, ItemType, Errors

\* A pump that is cancelled still has SENTINEL to put, or is done.
LEMMA LeaveType ==
  ASSUME TypeOK, attempt \in Attempts, Leave
  PROVE  /\ pc' \in {"crashed", "await"}
         /\ held' \in [Attempts -> ItemType]
         /\ pump' \in [Attempts -> PumpStates]
         /\ pinger' \in [Attempts -> {"none", "sleeping", "putting", "done"}]
BY Items DEF TypeOK, Leave, CancelPump, PumpStates

\* The upstream sends, fails or ends.
LEMMA TypePump ==
  ASSUME TypeOK, NEW a \in Attempts, UpstreamStep(a)
  PROVE  TypeOK'
<1>. USE StreamAssumption, Items DEF TypeOK, Attempts, genVars, taskVars, historyVars
<1>1. CASE PumpChunk(a)
  <2>1. produced' \in 0..MaxChunks /\ produced' = produced + 1 BY <1>1 DEF PumpChunk
  <2> QED BY <1>1, <2>1, SMTT(30) DEF PumpChunk
<1>2. ASSUME NEW e \in Errors, PumpFails(a, e) PROVE TypeOK'
  BY <1>2 DEF PumpFails
<1>3. CASE PumpEnds(a)
  BY <1>3, SMTT(30) DEF PumpEnds
<1> QED BY <1>1, <1>2, <1>3 DEF UpstreamStep

\* A queue with room for one more item.
LEMMA QueueGrows ==
  ASSUME TypeOK, NEW a \in Attempts, Room(a), NEW x \in ItemType,
         queue' = [queue EXCEPT ![a] = Append(@, x)]
  PROVE  queue' \in [Attempts -> Seq(ItemType)] /\ \A b \in Attempts : Len(queue'[b]) <= QueueSize
<1>1. queue[a] \in Seq(ItemType) /\ Len(queue[a]) < QueueSize
  BY DEF TypeOK, Room
<1>2. Append(queue[a], x) \in Seq(ItemType) /\ Len(Append(queue[a], x)) <= QueueSize
  BY <1>1, AppendItem, StreamAssumption
<1> QED BY <1>2 DEF TypeOK

\* A queue after get().
LEMMA QueueShrinks ==
  ASSUME TypeOK, attempt \in Attempts, queue[attempt] # <<>>,
         queue' = [queue EXCEPT ![attempt] = Tail(@)]
  PROVE  /\ queue' \in [Attempts -> Seq(ItemType)]
         /\ \A b \in Attempts : Len(queue'[b]) <= QueueSize
         /\ Head(queue[attempt]) \in ItemType
<1>1. queue[attempt] \in Seq(ItemType) /\ Len(queue[attempt]) <= QueueSize
  BY DEF TypeOK
<1>2. Tail(queue[attempt]) \in Seq(ItemType) /\ Len(Tail(queue[attempt])) <= QueueSize
  BY <1>1, TailItem, StreamAssumption
<1> QED BY <1>1, <1>2, TailItem DEF TypeOK

\* A pump or a ping scheduler moves.
LEMMA TypeTask ==
  ASSUME TypeOK, NEW a \in Attempts, TaskStep(a)
  PROVE  TypeOK'
<1>. USE StreamAssumption, Items DEF Attempts, genVars, taskVars, historyVars
<1>1. CASE PumpPuts(a)
  <2>1. queue' = [queue EXCEPT ![a] = Append(@, held[a])] /\ held[a] \in ItemType /\ Room(a)
    BY <1>1 DEF PumpPuts, TypeOK
  <2>2. queue' \in [Attempts -> Seq(ItemType)] /\ \A b \in Attempts : Len(queue'[b]) <= QueueSize
    BY <2>1, QueueGrows
  <2>3. pump' \in [Attempts -> PumpStates]
    BY <1>1, AfterPutIs DEF PumpPuts, TypeOK, PumpStates
  <2> QED BY <1>1, <2>2, <2>3, SMTT(60) DEF PumpPuts, TypeOK, PumpStates
<1>2. CASE PingerWakes(a)
  BY <1>2, SMTT(60) DEF PingerWakes, TypeOK
<1>3. CASE PingerPuts(a)
  <2>1. queue' = [queue EXCEPT ![a] = Append(@, Ping)] /\ Room(a)
    BY <1>3 DEF PingerPuts
  <2>2. queue' \in [Attempts -> Seq(ItemType)] /\ \A b \in Attempts : Len(queue'[b]) <= QueueSize
    BY <2>1, QueueGrows
  <2> QED BY <1>3, <2>2, SMTT(60) DEF PingerPuts, TypeOK
<1> QED BY <1>1, <1>2, <1>3 DEF TaskStep

\* gen() is past the head of its loop.
LEMMA InAttempt ==
  ASSUME TypeOK, attempt # 0
  PROVE  attempt \in Attempts
BY StreamAssumption DEF TypeOK, Attempts

\* gen() moves.
LEMMA TypeGen ==
  ASSUME TypeOK, OneAttempt, GenStep
  PROVE  TypeOK'
<1>. USE StreamAssumption DEF Attempts, genVars, taskVars, historyVars
<1>1. CASE BeginAttempt
  <2>1. attempt' \in 1..chain /\ attempt' \in Attempts
    BY <1>1 DEF BeginAttempt, Runs, TypeOK
  <2>2. fed' \in Seq(0..MaxChunks)
    BY <1>1 DEF BeginAttempt
  <2> QED BY <1>1, <2>1, <2>2 DEF BeginAttempt, TypeOK
<1>2. CASE Peek
  <2>1. attempt \in Attempts /\ queue[attempt] # <<>> /\ queue' = [queue EXCEPT ![attempt] = Tail(@)]
    BY <1>2, InAttempt DEF Peek, Peeking, Runs, Get, OneAttempt
  <2>2. /\ queue' \in [Attempts -> Seq(ItemType)]
        /\ \A b \in Attempts : Len(queue'[b]) <= QueueSize
        /\ Head(queue[attempt]).n \in 0..MaxChunks
    BY <2>1, QueueShrinks DEF ItemType
  <2>3. waitAge' = 0
    BY <1>2 DEF Peek, Get
  <2>4. /\ fed' \in Seq(0..MaxChunks)
        /\ wire' \in {wire, NoEvent, "content", "error"}
        /\ pc' \in {"drain", "return", "loop", "save"}
        /\ sentinelSeen' \in {sentinelSeen, "no", "yes"}
        /\ resume' \in {resume, "begin"}
    <3>1. PICK item \in {Head(queue[attempt])} :
            PeekFailover(item) \/ PeekError(item) \/ PeekPing(item) \/ PeekChunk(item) \/ PeekSentinel(item)
      BY <1>2 DEF Peek
    <3>2. fed \in Seq(0..MaxChunks) /\ item.n \in 0..MaxChunks
      BY <2>2 DEF TypeOK
    <3>3. CASE PeekFailover(item) BY <3>2, <3>3 DEF PeekFailover
    <3>4. CASE PeekError(item) BY <3>2, <3>4 DEF PeekError
    <3>5. CASE PeekPing(item) BY <3>2, <3>5 DEF PeekPing
    <3>6. CASE PeekChunk(item) BY <3>2, <3>6, AppendItem DEF PeekChunk, Feed
    <3>7. CASE PeekSentinel(item) BY <3>2, <3>7 DEF PeekSentinel, Finalize
    <3> QED BY <3>1, <3>3, <3>4, <3>5, <3>6, <3>7
  <2> QED BY <1>2, <2>2, <2>3, <2>4, SMTT(60) DEF Peek, TypeOK
<1>3. CASE PeekTimeout \/ LoopTimeout
  <2>1. /\ waitAge' = 0 /\ wire' = "ping" /\ pc' \in {pc, "peekAgain"}
        /\ UNCHANGED <<chain, attempt, sentinelSeen, resume, taskVars, reported, client, historyVars>>
    BY <1>3 DEF PeekTimeout, LoopTimeout
  <2> QED BY <2>1 DEF TypeOK
<1>4. CASE Drain
  <2>1. attempt \in Attempts
    BY <1>4, InAttempt DEF Drain, Runs, OneAttempt
  <2>2. queue' \in [Attempts -> Seq(ItemType)] /\ \A b \in Attempts : Len(queue'[b]) <= QueueSize
    BY <1>4, <2>1, QueueShrinks DEF Drain, TypeOK
  <2>3. Leave
    BY <1>4 DEF Drain
  <2> QED BY <1>4, <2>1, <2>2, <2>3, LeaveType DEF Drain, TypeOK, PumpStates
<1>5. CASE Loop
  <2>1. attempt \in Attempts /\ queue[attempt] # <<>> /\ queue' = [queue EXCEPT ![attempt] = Tail(@)]
    BY <1>5, InAttempt DEF Loop, Runs, Get, OneAttempt
  <2>2. /\ queue' \in [Attempts -> Seq(ItemType)]
        /\ \A b \in Attempts : Len(queue'[b]) <= QueueSize
        /\ Head(queue[attempt]).n \in 0..MaxChunks
    BY <2>1, QueueShrinks DEF ItemType
  <2>3. waitAge' = 0
    BY <1>5 DEF Loop, Get
  <2>4. /\ fed' \in Seq(0..MaxChunks)
        /\ wire' \in {wire, NoEvent, "content", "error", "ping"}
        /\ pc' \in {"return", "loop", "save"}
        /\ sentinelSeen' \in {sentinelSeen, "no", "yes"}
        /\ reported' \in BOOLEAN
    <3>1. PICK item \in {Head(queue[attempt])} :
            LoopChunk(item) \/ LoopPing(item) \/ LoopError(item) \/ LoopSentinel(item)
      BY <1>5 DEF Loop
    <3>2. /\ fed \in Seq(0..MaxChunks) /\ item.n \in 0..MaxChunks
          /\ reported \in BOOLEAN /\ pc = "loop"
      BY <1>5, <2>2 DEF TypeOK, Loop, Runs
    <3>3. CASE LoopChunk(item) BY <3>2, <3>3, AppendItem DEF LoopChunk, Feed
    <3>4. CASE LoopPing(item) BY <3>2, <3>4 DEF LoopPing
    <3>5. CASE LoopError(item) BY <3>2, <3>5 DEF LoopError
    <3>6. CASE LoopSentinel(item) BY <3>2, <3>6 DEF LoopSentinel, Finalize
    <3> QED BY <3>1, <3>3, <3>4, <3>5, <3>6
  <2> QED BY <1>5, <2>2, <2>3, <2>4, SMTT(60) DEF Loop, TypeOK
<1>6. CASE Return \/ Save
  <2>1. attempt \in Attempts /\ Leave
    BY <1>6, InAttempt DEF Return, Save, Runs, OneAttempt
  <2>2. UNCHANGED <<chain, attempt, sentinelSeen, resume, waitAge, wire, queue, pingAge, reported,
                    client, historyVars>>
    BY <1>6 DEF Return, Save
  <2> QED BY <2>1, <2>2, LeaveType, SMTT(60) DEF TypeOK, PumpStates
<1>7. CASE AwaitPump
  BY <1>7 DEF AwaitPump, TypeOK
<1>8. CASE GenInterrupted
  <2>1. attempt \in Attempts /\ Leave
    BY <1>8, InAttempt DEF GenInterrupted
  <2> QED BY <1>8, <2>1, LeaveType DEF GenInterrupted, TypeOK, PumpStates
<1>9. CASE GenDropped
  BY <1>9 DEF GenDropped, TypeOK
<1> QED BY <1>1, <1>2, <1>3, <1>4, <1>5, <1>6, <1>7, <1>8, <1>9 DEF GenStep

\* The client moves, time passes, or nothing changes.
LEMMA TypeOthers ==
  ASSUME TypeOK, ClientTakes \/ ClientLeaves \/ Tick \/ UNCHANGED vars
  PROVE  TypeOK'
<1>. USE StreamAssumption DEF Attempts, genVars, taskVars, historyVars
<1>1. CASE ClientTakes
  BY <1>1 DEF ClientTakes, TypeOK
<1>2. CASE ClientLeaves
  BY <1>2 DEF ClientLeaves, TypeOK
<1>3. CASE Tick
  <2>1. \A cap \in Nat : \A n \in 0..cap : UpTo(n, cap) \in 0..cap
    BY DEF UpTo
  <2>2. pingAge' \in [Attempts -> 0..PingEvery] /\ waitAge' \in 0..PingInterval
          /\ silence' \in 0..MaxSilence /\ stalled' \in BOOLEAN
    BY <1>3, <2>1 DEF Tick, TypeOK
  <2> QED BY <1>3, <2>2, SMTT(60) DEF Tick, TypeOK
<1>4. CASE UNCHANGED vars
  BY <1>4 DEF vars, TypeOK
<1> QED BY <1>1, <1>2, <1>3, <1>4
-----------------------------------------------------------------------------
(***************************************************************************)
(* The rest of the invariant.                                              *)
(***************************************************************************)
Rest == OneAttempt /\ Cleared /\ Fed /\ FailureTold

\* What the upstream sends joins the flow in the pump's hand.
LEMMA UpstreamFlows ==
  ASSUME NEW q \in Seq(ItemType), NEW h, NEW f \in Nat, NEW n \in Nat, NEW e,
         Flow(q, "reading", h, f, n, e)
  PROVE  /\ Flow(q, "putting", Item("chunk", n + 1), f, n + 1, e)
         /\ \A x \in Errors : Flow(q, "failing", Item(x, 0), f, n, x)
         /\ Flow(q, "ending", Sentinel, f, n, e)
<1>1. \A i \in 1..Len(q) : q[i].kind \in {"chunk", "ping"}
  BY DEF Flow, Ends
<1>2. \A i \in 1..Len(q) : q[i].kind = "chunk" => f < q[i].n /\ q[i].n <= n /\ q[i].n \in Nat
  <2>1. \A i \in 1..Len(q) : q[i] \in ItemType OBVIOUS
  <2>2. \A x \in ItemType : x.n \in Nat BY DEF ItemType
  <2> QED BY <2>1, <2>2 DEF Flow, Between
<1>3. e = "none" /\ f <= n
  BY DEF Flow, Between, Ends
<1>4. Flow(q, "putting", Item("chunk", n + 1), f, n + 1, e)
  <2>1. Between(q, "putting", Item("chunk", n + 1), f, n + 1)
    <3>1. \A i \in 1..Len(q) : q[i].kind = "chunk" => f < q[i].n /\ q[i].n <= n + 1 /\ q[i].n < n + 1
      BY <1>2
    <3>2. \A m \in Nat : f < m /\ m <= n + 1 =>
            m = n + 1 \/ \E i \in 1..Len(q) : q[i].kind = "chunk" /\ q[i].n = m
      <4>1. \A m \in Nat : m <= n + 1 => m = n + 1 \/ m <= n OBVIOUS
      <4> QED BY <4>1 DEF Flow, Between
    <3> QED BY <1>3, <3>1, <3>2 DEF Between, Item
  <2>2. Ends(q, "putting", Item("chunk", n + 1), e)
    BY <1>1, <1>3 DEF Ends, PumpStates
  <2> QED BY <2>1, <2>2 DEF Flow
<1>5. ASSUME NEW x \in Errors PROVE Flow(q, "failing", Item(x, 0), f, n, x)
  <2>1. Between(q, "failing", Item(x, 0), f, n)
    BY DEF Flow, Between
  <2>2. Ends(q, "failing", Item(x, 0), x)
    BY <1>1 DEF Ends, PumpStates, Item
  <2> QED BY <2>1, <2>2 DEF Flow
<1>6. Flow(q, "ending", Sentinel, f, n, e)
  <2>1. Between(q, "ending", Sentinel, f, n)
    BY DEF Flow, Between
  <2>2. Ends(q, "ending", Sentinel, e)
    BY <1>1, <1>3 DEF Ends, PumpStates
  <2> QED BY <2>1, <2>2 DEF Flow
<1> QED BY <1>4, <1>5, <1>6

\* The numbers of chunks are numbers, and the queues sequences.
LEMMA Lengths ==
  ASSUME TypeOK
  PROVE  Len(fed) \in Nat /\ produced \in Nat /\ \A a \in Attempts : queue[a] \in Seq(ItemType)
BY StreamAssumption DEF TypeOK

\* The upstream sends, fails or ends.
LEMMA RestPump ==
  ASSUME IInv, NEW a \in Attempts, UpstreamStep(a)
  PROVE  Rest'
<1>1. /\ pump[a] = "reading" /\ a = attempt /\ a # 0
      /\ queue' = queue /\ fed' = fed /\ UNCHANGED <<genVars, wire, pinger, told, client>>
  <2>1. pump[a] = "reading"
    BY DEF UpstreamStep, PumpChunk, PumpFails, PumpEnds
  <2>2. a = attempt
    BY <2>1 DEF IInv, OneAttempt
  <2>3. a # 0
    BY StreamAssumption DEF Attempts
  <2>4. queue' = queue /\ fed' = fed /\ UNCHANGED <<genVars, wire, pinger, told, client>>
    BY DEF UpstreamStep, PumpChunk, PumpFails, PumpEnds, historyVars
  <2> QED BY <2>1, <2>2, <2>3, <2>4
<1>2. pc \notin {"await", "ended", "save"} /\ UNCHANGED <<pc, attempt, sentinelSeen, resume>>
  BY <1>1 DEF IInv, Cleared, Fed, genVars
<1>3. \A b \in Attempts : b # a => pump'[b] = pump[b]
  BY DEF UpstreamStep, PumpChunk, PumpFails, PumpEnds, IInv, TypeOK
<1>4. OneAttempt'
  BY <1>1, <1>2, <1>3 DEF IInv, OneAttempt
<1>5. Cleared'
  BY <1>2 DEF Cleared
<1>6. FailureTold'
  <2>1. pc = "return" => told \/ wire = "error"
    BY DEF IInv, FailureTold
  <2>2. client = "reading" /\ pc = "crashed" /\ resume = "ended" => told
    BY <1>1 DEF IInv, FailureTold
  <2> QED BY <1>1, <1>2, <2>1, <2>2 DEF FailureTold
<1>7. Fed'
  <2>1. CASE ~Taking
    BY <2>1, <1>1, <1>2 DEF IInv, Fed, Taking
  <2>2. CASE Taking
    <3>1. Flow(queue[a], "reading", held[a], Len(fed), produced, failure)
      BY <1>1, <2>2 DEF IInv, Fed
    <3>2. Flow(queue[a], pump'[a], held'[a], Len(fed), produced', failure')
      <4>1. CASE PumpChunk(a)
        <5>1. pump'[a] = "putting" /\ held'[a] = Item("chunk", produced + 1)
              /\ produced' = produced + 1 /\ failure' = failure
          BY <4>1 DEF PumpChunk, IInv, TypeOK
        <5> QED BY <3>1, <5>1, UpstreamFlows, Lengths DEF IInv
      <4>2. ASSUME NEW e \in Errors, PumpFails(a, e)
            PROVE  Flow(queue[a], pump'[a], held'[a], Len(fed), produced', failure')
        <5>1. pump'[a] = "failing" /\ held'[a] = Item(e, 0)
              /\ produced' = produced /\ failure' = e
          BY <4>2 DEF PumpFails, IInv, TypeOK
        <5> QED BY <3>1, <5>1, UpstreamFlows, Lengths DEF IInv
      <4>3. CASE PumpEnds(a)
        <5>1. pump'[a] = "ending" /\ held'[a] = Sentinel
              /\ produced' = produced /\ failure' = failure
          BY <4>3 DEF PumpEnds, IInv, TypeOK, historyVars
        <5> QED BY <3>1, <5>1, UpstreamFlows, Lengths DEF IInv
      <4> QED BY <4>1, <4>2, <4>3 DEF UpstreamStep
    <3> QED BY <1>1, <1>2, <2>2, <3>2 DEF IInv, Fed, Taking
  <2> QED BY <2>1, <2>2
<1> QED BY <1>4, <1>5, <1>6, <1>7 DEF Rest

\* A pump or a ping scheduler moves.
LEMMA RestTask ==
  ASSUME IInv, NEW a \in Attempts, TaskStep(a)
  PROVE  Rest'
<1>1. a = attempt /\ a # 0
  <2>1. pump[a] # "none" \/ pinger[a] # "none"
    BY AfterPutIs DEF TaskStep, PumpPuts, PingerWakes, PingerPuts, PingerDue
  <2> QED BY <2>1, StreamAssumption DEF IInv, OneAttempt, Attempts
<1>2. UNCHANGED <<genVars, wire, client, historyVars>>
  BY DEF TaskStep, PumpPuts, PingerWakes, PingerPuts
<1>3. UNCHANGED <<pc, attempt, sentinelSeen, resume, told, failure, fed, produced>>
  BY <1>2 DEF genVars, historyVars
<1>4. CASE PumpPuts(a)
  <2>1. /\ pump[a] \in DOMAIN AfterPut
        /\ pump' = [pump EXCEPT ![a] = AfterPut[pump[a]]]
        /\ queue' = [queue EXCEPT ![a] = Append(@, held[a])]
        /\ held' = [held EXCEPT ![a] = Sentinel]
        /\ pinger' = pinger
    BY <1>4 DEF PumpPuts
  <2>2. /\ pump'[a] = AfterPut[pump[a]] /\ queue'[a] = Append(queue[a], held[a])
        /\ held'[a] = Sentinel
        /\ \A b \in Attempts : b # a => pump'[b] = pump[b]
    BY <2>1 DEF IInv, TypeOK
  <2>3. OneAttempt'
    BY <1>1, <1>2, <1>3, <2>1, <2>2 DEF IInv, OneAttempt
  <2>4. Cleared'
    BY <1>1, <1>3, <2>1, <2>2, AfterPutIs DEF IInv, Cleared
  <2>5. FailureTold'
    BY <1>2, <1>3, <2>1, <2>2, AfterPutIs DEF IInv, FailureTold
  <2>6. Fed'
    <3>1. pc # "save"
      BY <1>1, <2>1, AfterPutIs DEF IInv, Fed
    <3>2. Taking => Flow(queue'[a], pump'[a], held'[a], Len(fed), produced, failure)
      <4>1. queue[a] \in Seq(ItemType) /\ held[a] \in ItemType
        BY DEF IInv, TypeOK
      <4> QED BY <1>1, <2>1, <2>2, <4>1, HeldJoins, Lengths DEF IInv, Fed
    <3> QED BY <1>1, <1>3, <3>1, <3>2 DEF IInv, Fed, Taking
  <2> QED BY <2>3, <2>4, <2>5, <2>6 DEF Rest
<1>5. CASE PingerWakes(a) \/ PingerPuts(a)
  <2>1. /\ pinger[a] \in {"sleeping", "putting"} /\ pump' = pump /\ held' = held
        /\ \A b \in Attempts : b # a => pinger'[b] = pinger[b]
    BY <1>5 DEF PingerWakes, PingerPuts, PingerDue, IInv, TypeOK
  <2>2. pc \notin {"await", "ended"}
    BY <1>1, <2>1 DEF IInv, Cleared
  <2>3. OneAttempt'
    BY <1>1, <1>2, <1>3, <2>1 DEF IInv, OneAttempt
  <2>4. Cleared'
    BY <1>3, <2>2 DEF Cleared
  <2>5. FailureTold'
    BY <1>2, <1>3, <2>1 DEF IInv, FailureTold
  <2>6. Fed'
    <3>1. queue'[a] \in {queue[a], Append(queue[a], Ping)} /\ queue[a] \in Seq(ItemType)
      BY <1>5 DEF PingerWakes, PingerPuts, IInv, TypeOK
    <3>2. Taking => Flow(queue'[a], pump[a], held[a], Len(fed), produced, failure)
      BY <1>1, <3>1, PingJoins, Items, Lengths DEF IInv, Fed
    <3> QED BY <1>1, <1>3, <2>1, <3>2 DEF IInv, Fed, Taking
  <2> QED BY <2>3, <2>4, <2>5, <2>6 DEF Rest
<1> QED BY <1>4, <1>5 DEF TaskStep

\* The client moves, time passes, or nothing changes.
LEMMA RestOthers ==
  ASSUME IInv, ClientTakes \/ ClientLeaves \/ Tick \/ UNCHANGED vars
  PROVE  Rest'
<1>1. /\ UNCHANGED <<pc, attempt, sentinelSeen, resume, fed, produced, failure>>
      /\ UNCHANGED <<queue, pump, held, pinger>>
      /\ wire' \in {wire, NoEvent}
      /\ told \/ wire = "error" => told' \/ wire' = "error"
      /\ client' = "reading" => client = "reading"
      /\ told => told'
  <2>1. CASE ClientTakes
    <3>1. told' = (told \/ wire = "error") BY <2>1 DEF ClientTakes
    <3> QED BY <2>1, <3>1 DEF ClientTakes, taskVars
  <2>2. CASE ClientLeaves
    <3>1. told' = told /\ wire' = wire /\ client' = "gone"
      BY <2>2 DEF ClientLeaves, historyVars
    <3> QED BY <2>2, <3>1 DEF ClientLeaves, genVars, taskVars, historyVars
  <2>3. CASE Tick
    <3>1. told' = told /\ wire' = wire /\ client' = client
      BY <2>3 DEF Tick
    <3> QED BY <2>3, <3>1 DEF Tick
  <2>4. CASE UNCHANGED vars
    <3>1. told' = told /\ wire' = wire /\ client' = client
      BY <2>4 DEF vars, historyVars
    <3> QED BY <2>4, <3>1 DEF vars, genVars, taskVars, historyVars
  <2> QED BY <2>1, <2>2, <2>3, <2>4
<1>2. OneAttempt'
  BY <1>1 DEF IInv, OneAttempt
<1>3. Cleared'
  BY <1>1 DEF IInv, Cleared
<1>4. Fed'
  BY <1>1 DEF IInv, Fed, Taking
<1>5. FailureTold'
  BY <1>1 DEF IInv, FailureTold
<1> QED BY <1>2, <1>3, <1>4, <1>5 DEF Rest

\* The finally clause, from wherever it is entered.
LEMMA Leaving ==
  ASSUME IInv, Leave, attempt # 0, UNCHANGED <<attempt, sentinelSeen, fed, produced, failure, told, client>>,
         wire' = NoEvent, resume' \in {resume, "ended"},
         pc = "drain" => sentinelSeen = "unbound",
         resume' = "begin" => sentinelSeen = "unbound",
         client = "reading" /\ resume' = "ended" =>
           told \/ (failure = "none" /\ pump[attempt] \in {"ending", "done"})
  PROVE  Rest'
<1>1. attempt \in Attempts /\ attempt = 1
  BY InAttempt DEF IInv, OneAttempt
<1>2. CASE sentinelSeen = "unbound"
  <2>1. pc' = "crashed" /\ UNCHANGED <<pump, held, pinger>>
    BY <1>2 DEF Leave
  <2>2. OneAttempt'
    BY <1>1, <2>1 DEF IInv, OneAttempt
  <2>3. Cleared' /\ Fed'
    BY <2>1 DEF Cleared, Fed, Taking, IInv
  <2>4. FailureTold'
    <3>1. \A a \in Attempts : a # attempt => pump[a] = "none"
      BY DEF IInv, OneAttempt
    <3> QED BY <2>1, <3>1 DEF FailureTold
  <2> QED BY <2>2, <2>3, <2>4 DEF Rest
<1>3. CASE sentinelSeen # "unbound"
  <2>1. /\ pc' = "await"
        /\ pinger'[attempt] = "done" /\ pump'[attempt] \in {"ending", "done"}
        /\ \A a \in Attempts : a # attempt => pump'[a] = pump[a] /\ pinger'[a] = pinger[a]
    BY <1>1, <1>3 DEF Leave, CancelPump, IInv, TypeOK
  <2>2. OneAttempt'
    BY <1>1, <1>3, <2>1 DEF IInv, OneAttempt
  <2>3. Cleared' /\ Fed'
    BY <2>1 DEF Cleared, Fed, Taking, IInv
  <2>4. FailureTold'
    <3>1. \A a \in Attempts : a # attempt => pump[a] = "none"
      BY DEF IInv, OneAttempt
    <3>2. resume' = "ended" /\ client' = "reading" => told' \/ failure' = "none"
      OBVIOUS
    <3> QED BY <2>1, <3>1, <3>2 DEF FailureTold
  <2> QED BY <2>2, <2>3, <2>4 DEF Rest
<1> QED BY <1>2, <1>3

\* gen() takes an item.
LEMMA Taken ==
  ASSUME IInv, Taking, Get
  PROVE  /\ attempt \in Attempts /\ attempt = 1
         /\ queue[attempt] \in Seq(ItemType) /\ queue[attempt] # <<>>
         /\ queue'[attempt] = Tail(queue[attempt])
         /\ Flow(queue[attempt], pump[attempt], held[attempt], Len(fed), produced, failure)
         /\ fed \in Seq(0..MaxChunks) /\ produced \in Nat
<1>1. attempt # 0
  BY DEF IInv, OneAttempt, Taking
<1>2. attempt \in Attempts /\ attempt = 1
  BY <1>1, InAttempt DEF IInv, OneAttempt
<1>3. queue'[attempt] = Tail(queue[attempt])
  BY <1>2 DEF Get, IInv, TypeOK
<1> QED BY <1>2, <1>3, StreamAssumption DEF Get, IInv, TypeOK, Fed

\* The next number joins the numbers fed.
LEMMA FedGrows ==
  ASSUME NEW S, NEW s \in Seq(S), NEW k, \A i \in 1..Len(s) : s[i] = i, k = Len(s) + 1
  PROVE  /\ Len(Append(s, k)) = Len(s) + 1
         /\ \A i \in 1..Len(Append(s, k)) : Append(s, k)[i] = i
<1>1. s \in Seq(S \cup {k})
  OBVIOUS
<1> QED BY <1>1, AppendItem

\* gen() looks at its first item.
LEMMA RestPeek ==
  ASSUME IInv, Peek
  PROVE  Rest'
<1>1. PICK item \in {Head(queue[attempt])} :
        PeekFailover(item) \/ PeekError(item) \/ PeekPing(item) \/ PeekChunk(item) \/ PeekSentinel(item)
  BY DEF Peek
<1>2. /\ Taking /\ Get /\ wire = NoEvent /\ pc \in {"peek", "peekAgain"}
      /\ UNCHANGED <<attempt, pump, held, pinger, client, produced, failure, told>>
  BY DEF Peek, Peeking, Runs, Taking
<1>3. resume = "ended" /\ sentinelSeen = "unbound"
  BY <1>2 DEF IInv, TypeOK, OneAttempt
<1>4. CASE PeekFailover(item)
  <2>1. pc' = "drain" /\ resume' = "begin" /\ UNCHANGED <<sentinelSeen, wire, fed>>
    BY <1>4 DEF PeekFailover
  <2>2. OneAttempt' BY <1>2, <1>3, <2>1 DEF IInv, OneAttempt, Taking
  <2>3. Cleared' /\ Fed' /\ FailureTold'
    BY <2>1 DEF Cleared, Fed, FailureTold, Taking, IInv
  <2> QED BY <2>2, <2>3 DEF Rest
<1>5. CASE PeekError(item)
  <2>1. pc' = "return" /\ wire' = "error" /\ UNCHANGED <<sentinelSeen, resume, fed>>
    BY <1>5 DEF PeekError
  <2>2. OneAttempt' BY <1>2, <1>3, <2>1 DEF IInv, OneAttempt, Taking
  <2>3. Cleared' /\ Fed' /\ FailureTold'
    BY <2>1 DEF Cleared, Fed, FailureTold, Taking, IInv
  <2> QED BY <2>2, <2>3 DEF Rest
<1>6. CASE PeekPing(item)
  <2>1. pc' = "loop" /\ UNCHANGED <<resume, fed>>
    BY <1>6 DEF PeekPing
  <2>2. OneAttempt' BY <1>2, <1>3, <2>1 DEF IInv, OneAttempt, Taking
  <2>3. Cleared' /\ FailureTold'
    BY <2>1 DEF Cleared, FailureTold
  <2>4. Flow(queue'[attempt], pump[attempt], held[attempt], Len(fed), produced, failure)
    BY <1>2, <1>6, Taken, PingGoes, Lengths DEF PeekPing, IInv
  <2>5. Fed'
    BY <1>2, <2>1, <2>4 DEF Fed, Taking, IInv
  <2> QED BY <2>2, <2>3, <2>5 DEF Rest
<1>7. CASE PeekChunk(item)
  <2>1. pc' = "loop" /\ UNCHANGED resume /\ fed' = Append(fed, item.n)
    BY <1>7 DEF PeekChunk, Feed
  <2>2. OneAttempt' BY <1>2, <1>3, <2>1 DEF IInv, OneAttempt, Taking
  <2>3. Cleared' /\ FailureTold'
    BY <2>1 DEF Cleared, FailureTold
  <2>4. /\ item.n = Len(fed) + 1
        /\ Flow(queue'[attempt], pump[attempt], held[attempt], Len(fed) + 1, produced, failure)
    BY <1>2, <1>7, Taken, ChunkGoes, Lengths DEF PeekChunk, IInv
  <2>5. fed \in Seq(0..MaxChunks)
    BY DEF IInv, TypeOK
  <2>6. Len(fed') = Len(fed) + 1 /\ \A i \in 1..Len(fed') : fed'[i] = i
    BY <2>1, <2>4, <2>5, FedGrows DEF IInv, Fed
  <2>7. Fed'
    BY <1>2, <2>1, <2>4, <2>6 DEF Fed, Taking
  <2> QED BY <2>2, <2>3, <2>7 DEF Rest
<1>8. CASE PeekSentinel(item)
  <2>1. pc' = "save" /\ UNCHANGED <<resume, fed>>
    BY <1>8 DEF PeekSentinel, Finalize
  <2>2. OneAttempt' BY <1>2, <1>3, <2>1 DEF IInv, OneAttempt, Taking
  <2>3. Cleared' /\ FailureTold'
    BY <2>1 DEF Cleared, FailureTold
  <2>4. pump[attempt] = "done" /\ Len(fed) = produced /\ failure = "none"
    BY <1>2, <1>8, Taken, SentinelComes, Lengths DEF PeekSentinel, IInv
  <2>5. Fed'
    BY <1>2, <2>1, <2>4 DEF Fed, Taking, IInv
  <2> QED BY <2>2, <2>3, <2>5 DEF Rest
<1> QED BY <1>1, <1>4, <1>5, <1>6, <1>7, <1>8

\* gen() takes an item in its loop.
LEMMA RestLoop ==
  ASSUME IInv, Loop
  PROVE  Rest'
<1>1. PICK item \in {Head(queue[attempt])} :
        LoopChunk(item) \/ LoopPing(item) \/ LoopError(item) \/ LoopSentinel(item)
  BY DEF Loop
<1>2. /\ Taking /\ Get /\ wire = NoEvent /\ pc = "loop"
      /\ UNCHANGED <<attempt, resume, pump, held, pinger, client, produced, failure, told>>
  BY DEF Loop, Runs, Taking
<1>3. resume = "ended"
  BY <1>2 DEF IInv, TypeOK, OneAttempt
<1>4. ASSUME pc' \in {"loop", "return", "save"}
      PROVE  OneAttempt' /\ Cleared'
  BY <1>2, <1>3, <1>4 DEF IInv, OneAttempt, Cleared, Taking
<1>5. CASE LoopError(item)
  <2>1. pc' = "return" /\ wire' = "error" /\ UNCHANGED <<sentinelSeen, fed>>
    BY <1>5 DEF LoopError
  <2>2. Fed' /\ FailureTold'
    BY <2>1 DEF Fed, FailureTold, Taking, IInv
  <2> QED BY <1>4, <2>1, <2>2 DEF Rest
<1>6. CASE LoopPing(item)
  <2>1. pc' = "loop" /\ UNCHANGED fed
    BY <1>2, <1>6 DEF LoopPing
  <2>2. FailureTold'
    BY <2>1 DEF FailureTold
  <2>3. Flow(queue'[attempt], pump[attempt], held[attempt], Len(fed), produced, failure)
    BY <1>2, <1>6, Taken, PingGoes, Lengths DEF LoopPing, IInv
  <2>4. Fed'
    BY <1>2, <2>1, <2>3 DEF Fed, Taking, IInv
  <2> QED BY <1>4, <2>1, <2>2, <2>4 DEF Rest
<1>7. CASE LoopChunk(item)
  <2>1. pc' = "loop" /\ fed' = Append(fed, item.n)
    BY <1>2, <1>7 DEF LoopChunk, Feed
  <2>2. FailureTold'
    BY <2>1 DEF FailureTold
  <2>3. /\ item.n = Len(fed) + 1
        /\ Flow(queue'[attempt], pump[attempt], held[attempt], Len(fed) + 1, produced, failure)
    BY <1>2, <1>7, Taken, ChunkGoes, Lengths DEF LoopChunk, IInv
  <2>4. fed \in Seq(0..MaxChunks)
    BY DEF IInv, TypeOK
  <2>5. Len(fed') = Len(fed) + 1 /\ \A i \in 1..Len(fed') : fed'[i] = i
    BY <2>1, <2>3, <2>4, FedGrows DEF IInv, Fed
  <2>6. Fed'
    BY <1>2, <2>1, <2>3, <2>5 DEF Fed, Taking
  <2> QED BY <1>4, <2>1, <2>2, <2>6 DEF Rest
<1>8. CASE LoopSentinel(item)
  <2>1. pc' = "save" /\ UNCHANGED fed
    BY <1>8 DEF LoopSentinel, Finalize
  <2>2. FailureTold'
    BY <2>1 DEF FailureTold
  <2>3. pump[attempt] = "done" /\ Len(fed) = produced /\ failure = "none"
    BY <1>2, <1>8, Taken, SentinelComes, Lengths DEF LoopSentinel, IInv
  <2>4. Fed'
    BY <1>2, <2>1, <2>3 DEF Fed, Taking, IInv
  <2> QED BY <1>4, <2>1, <2>2, <2>4 DEF Rest
<1> QED BY <1>1, <1>5, <1>6, <1>7, <1>8

\* The start of the first attempt: nothing is on its way yet.
LEMMA RestBegin ==
  ASSUME IInv, BeginAttempt
  PROVE  Rest'
<1>1. pc = "begin" /\ attempt = 0 /\ attempt' = 1 /\ pc' = "peek" /\ attempt' \in Attempts
  <2>1. attempt + 1 \in Attempts
    BY StreamAssumption DEF BeginAttempt, IInv, TypeOK, Attempts
  <2> QED BY <2>1 DEF BeginAttempt, Runs, IInv, OneAttempt
<1>2. /\ queue'[attempt'] = <<>> /\ pump'[attempt'] = "reading"
      /\ fed' = <<>> /\ produced' = 0 /\ failure' = "none"
      /\ \A a \in Attempts : a # attempt' => pump'[a] = pump[a] /\ pinger'[a] = pinger[a]
      /\ UNCHANGED <<sentinelSeen, resume, wire>>
  BY <1>1 DEF BeginAttempt, IInv, TypeOK, Fresh
<1>3. OneAttempt'
  BY <1>1, <1>2, StreamAssumption DEF IInv, OneAttempt, Attempts
<1>4. Cleared' /\ FailureTold'
  BY <1>1 DEF Cleared, FailureTold
<1>5. Flow(<<>>, "reading", held'[attempt'], 0, 0, "none")
  BY DEF Flow, InOrder, Between, Ends, PumpStates
<1>6. Fed'
  BY <1>1, <1>2, <1>5 DEF Fed, Taking
<1> QED BY <1>3, <1>4, <1>6 DEF Rest

\* gen() waits, cleans up or is thrown out of a wait or a yield.
LEMMA RestGen ==
  ASSUME IInv, GenStep
  PROVE  Rest'
<1>. USE DEF genVars, taskVars, historyVars
<1>1. CASE BeginAttempt BY <1>1, RestBegin
<1>2. CASE Peek BY <1>2, RestPeek
<1>3. CASE Loop BY <1>3, RestLoop
<1>4. CASE PeekTimeout \/ LoopTimeout
  <2>1. /\ pc \in {"peek", "loop"}
        /\ pc = "loop" => pc' = "loop"
        /\ pc = "peek" => pc' = "peekAgain"
        /\ UNCHANGED <<attempt, sentinelSeen, resume, queue, pump, held, pinger, fed, produced,
                       failure>>
    BY <1>4 DEF PeekTimeout, LoopTimeout, Runs
  <2>2. OneAttempt'
    BY <2>1 DEF IInv, OneAttempt
  <2>3. Cleared' /\ FailureTold'
    BY <2>1 DEF Cleared, FailureTold
  <2>4. Fed'
    BY <2>1 DEF IInv, Fed, Taking
  <2> QED BY <2>2, <2>3, <2>4 DEF Rest
<1>5. CASE Drain
  <2>1. /\ Leave /\ pc = "drain" /\ wire' = NoEvent
        /\ UNCHANGED <<attempt, sentinelSeen, resume, fed, produced, failure, told, client>>
    BY <1>5 DEF Drain, Runs
  <2>2. resume = "begin"
    BY <2>1 DEF IInv, OneAttempt
  <2> QED BY <2>1, <2>2, Leaving DEF IInv, OneAttempt
<1>6. CASE Return
  <2>1. /\ Leave /\ pc = "return" /\ wire = NoEvent /\ wire' = NoEvent
        /\ UNCHANGED <<attempt, sentinelSeen, resume, fed, produced, failure, told, client>>
    BY <1>6 DEF Return, Runs
  <2>2. attempt # 0 /\ resume = "ended" /\ told
    BY <2>1 DEF IInv, TypeOK, OneAttempt, FailureTold, NoEvent
  <2> QED BY <2>1, <2>2, Leaving
<1>7. CASE Save
  <2>1. /\ Leave /\ pc = "save" /\ wire' = NoEvent
        /\ UNCHANGED <<attempt, sentinelSeen, resume, fed, produced, failure, told, client>>
    BY <1>7 DEF Save, Runs
  <2>2. attempt # 0 /\ resume = "ended" /\ failure = "none" /\ pump[attempt] = "done"
    BY <2>1 DEF IInv, TypeOK, OneAttempt, Fed
  <2> QED BY <2>1, <2>2, Leaving
<1>8. CASE AwaitPump
  <2>1. /\ pc = "await" /\ pump[attempt] = "done" /\ pc' = resume /\ wire = NoEvent
        /\ UNCHANGED <<attempt, sentinelSeen, resume, wire, queue, pump, held, pinger, fed, produced,
                       failure, told, client>>
    BY <1>8 DEF AwaitPump, Runs
  <2>2. resume = "ended" /\ attempt # 0 /\ pc' = "ended"
    BY <2>1 DEF IInv, TypeOK, OneAttempt
  <2>3. OneAttempt'
    BY <2>1, <2>2 DEF IInv, OneAttempt
  <2>4. Cleared' /\ Fed' /\ FailureTold'
    BY <2>1, <2>2 DEF IInv, Cleared, Fed, FailureTold, Taking
  <2> QED BY <2>3, <2>4 DEF Rest
<1>9. CASE GenInterrupted
  <2>1. /\ Leave /\ attempt # 0 /\ wire' = NoEvent /\ client = "gone" /\ resume' = "ended"
        /\ UNCHANGED <<attempt, sentinelSeen, fed, produced, failure, told, client>>
    BY <1>9 DEF GenInterrupted
  <2>2. pc = "drain" => sentinelSeen = "unbound"
    BY DEF IInv, OneAttempt
  <2> QED BY <2>1, <2>2, Leaving
<1>10. CASE GenDropped
  <2>1. /\ attempt = 0 /\ client = "gone" /\ pc' = "ended" /\ wire' = NoEvent
        /\ UNCHANGED <<attempt, sentinelSeen, resume, queue, pump, held, pinger, fed, produced,
                       failure, told, client>>
    BY <1>10 DEF GenDropped
  <2>2. OneAttempt'
    BY <2>1 DEF IInv, OneAttempt
  <2>3. Cleared' /\ Fed' /\ FailureTold'
    BY <2>1 DEF IInv, Cleared, Fed, FailureTold, Taking
  <2> QED BY <2>2, <2>3 DEF Rest
<1> QED BY <1>1, <1>2, <1>3, <1>4, <1>5, <1>6, <1>7, <1>8, <1>9, <1>10 DEF GenStep

\* Nothing moves before the first attempt, and no attempt is undone.
LEMMA FreshStays ==
  ASSUME IInv, [Next]_vars
  PROVE  Fresh'
<1>. USE DEF genVars, taskVars, historyVars
<1>1. ASSUME NEW a \in Attempts, UpstreamStep(a) \/ TaskStep(a)
      PROVE  Fresh'
  <2>1. pump[a] # "none" \/ pinger[a] # "none"
    BY <1>1, AfterPutIs DEF UpstreamStep, TaskStep, PumpChunk, PumpFails, PumpEnds, PumpPuts,
       PingerWakes, PingerPuts, PingerDue
  <2>2. attempt # 0
    BY <2>1, StreamAssumption DEF IInv, OneAttempt, Attempts
  <2>3. attempt' = attempt
    BY <1>1 DEF UpstreamStep, TaskStep, PumpChunk, PumpFails, PumpEnds, PumpPuts,
       PingerWakes, PingerPuts
  <2> QED BY <2>2, <2>3 DEF Fresh
<1>2. CASE GenStep
  <2>1. CASE BeginAttempt
    BY <2>1 DEF BeginAttempt, IInv, TypeOK, Fresh
  <2>2. CASE Peek \/ Loop \/ Drain
    <3>1. attempt' = attempt /\ attempt # 0
      BY <2>2 DEF Peek, Peeking, Loop, Drain, Runs, IInv, OneAttempt
    <3> QED BY <3>1 DEF Fresh
  <2>3. CASE PeekTimeout \/ LoopTimeout \/ Return \/ Save \/ AwaitPump \/ GenInterrupted \/ GenDropped
    <3>1. attempt' = attempt /\ queue' = queue
      BY <2>3 DEF PeekTimeout, LoopTimeout, Return, Save, AwaitPump, GenInterrupted, GenDropped
    <3> QED BY <3>1 DEF IInv, Fresh
  <2> QED BY <1>2, <2>1, <2>2, <2>3 DEF GenStep
<1>3. CASE ClientTakes \/ ClientLeaves \/ Tick \/ UNCHANGED vars
  <2>1. attempt' = attempt /\ queue' = queue
    BY <1>3 DEF ClientTakes, ClientLeaves, Tick, vars
  <2> QED BY <2>1 DEF IInv, Fresh
<1> QED BY <1>1, <1>2, <1>3 DEF Next

\* The invariant holds before the first step,
LEMMA InvStarts == Init => IInv
<1>. SUFFICES ASSUME Init PROVE IInv
  OBVIOUS
<1>1. TypeOK
  <2>1. <<>> \in Seq(0..MaxChunks) /\ <<>> \in Seq(ItemType) /\ Len(<<>>) <= QueueSize
    BY StreamAssumption
  <2>2. /\ fed \in Seq(0..MaxChunks) /\ queue \in [Attempts -> Seq(ItemType)]
        /\ \A a \in Attempts : Len(queue[a]) <= QueueSize
    BY <2>1 DEF Init
  <2>3. held \in [Attempts -> ItemType] /\ pingAge \in [Attempts -> 0..PingEvery]
    BY StreamAssumption, Items DEF Init
  <2>4. chain \in Attempts /\ attempt \in 0..chain
    BY StreamAssumption DEF Init, Attempts
  <2>5. {reported, told, stalled} \subseteq BOOLEAN
    BY DEF Init
  <2> QED BY <2>2, <2>3, <2>4, <2>5, StreamAssumption DEF Init, TypeOK
<1>2. OneAttempt /\ Cleared /\ Fresh
  BY DEF Init, OneAttempt, Cleared, Fresh
<1>3. Fed /\ FailureTold
  BY DEF Init, Fed, FailureTold, Taking
<1> QED BY <1>1, <1>2, <1>3 DEF IInv

\* and every step keeps it.
LEMMA InvStays == IInv /\ [Next]_vars => IInv'
<1>. SUFFICES ASSUME IInv, [Next]_vars PROVE IInv'
  OBVIOUS
<1>1. TypeOK /\ OneAttempt
  BY DEF IInv
<1>2. TypeOK'
  <2>1. CASE \E a \in Attempts : UpstreamStep(a) \/ TaskStep(a)
    BY <1>1, <2>1, TypePump, TypeTask
  <2>2. CASE GenStep
    BY <1>1, <2>2, TypeGen
  <2>3. CASE ClientTakes \/ ClientLeaves \/ Tick \/ UNCHANGED vars
    BY <1>1, <2>3, TypeOthers
  <2> QED BY <2>1, <2>2, <2>3 DEF Next
<1>3. Rest'
  <2>1. CASE \E a \in Attempts : UpstreamStep(a) \/ TaskStep(a)
    BY <2>1, RestPump, RestTask
  <2>2. CASE GenStep
    BY <2>2, RestGen
  <2>3. CASE ClientTakes \/ ClientLeaves \/ Tick \/ UNCHANGED vars
    BY <2>3, RestOthers
  <2> QED BY <2>1, <2>2, <2>3 DEF Next
<1> QED BY <1>2, <1>3, FreshStays DEF IInv, Rest

-----------------------------------------------------------------------------
(***************************************************************************)
(* The theorems.                                                           *)
(***************************************************************************)
\* The invariant holds in every state.
LEMMA AlwaysIInv == Spec => []IInv
BY InvStarts, InvStays, PTL DEF Spec

\* Every variable of gen() and its tasks keeps to its values, and no queue
\* grows past its maxsize.
THEOREM TypeCorrect == Spec => []TypeOK
<1>1. IInv => TypeOK BY DEF IInv
<1> QED BY <1>1, AlwaysIInv, PTL

\* Chunks reach the pipeline in the order in which the upstream sent them, and
\* a response that is finalized has been fed every one of them and covers up no
\* failure, whatever the sizes of queue and stream.
THEOREM FeedingIsComplete == Spec => []ChunksAllFed
<1>1. IInv => ChunksAllFed BY DEF IInv, Fed, ChunksAllFed
<1> QED BY <1>1, AlwaysIInv, PTL

\* A client that stays to the end of a response whose upstream failed has had an
\* error event.
THEOREM FailureReachesClient == Spec => []FailureIsTold
<1>1. IInv => FailureIsTold BY DEF IInv, FailureTold, FailureIsTold, Over
<1> QED BY <1>1, AlwaysIInv, PTL

\* When gen() has ended in order, its pump and its ping scheduler have ended.
THEOREM EndLeavesNoTask == Spec => []NoTaskOutlivesResponse
<1>1. IInv => NoTaskOutlivesResponse
  <2>1. IInv => \A a \in Attempts : a # attempt => pump[a] = "none" /\ pinger[a] = "none"
    BY DEF IInv, OneAttempt
  <2>2. IInv /\ pc = "ended" /\ attempt # 0 => pump[attempt] = "done" /\ pinger[attempt] = "done"
    BY DEF IInv, Cleared
  <2>3. \A a \in Attempts : a # 0
    BY StreamAssumption DEF Attempts
  <2> QED BY <2>1, <2>2, <2>3 DEF NoTaskOutlivesResponse
<1> QED BY <1>1, AlwaysIInv, PTL
-----------------------------------------------------------------------------
(***************************************************************************)
(* Silence.  While gen() waits, a ping is in its queue, or it has been     *)
(* silent for no longer than the ping scheduler has slept: by one period   *)
(* more in the loop, since the first ping may have been dropped before it. *)
(***************************************************************************)
\* A ping is on its way to gen().
HasPing(q) == \E i \in 1..Len(q) : q[i].kind = "ping"

\* gen() serves an attempt of the chain.
Serving == pc \in {"peek", "peekAgain", "loop", "drain"}

\* Its ping scheduler sleeps, or waits for room with a period over.
PingerAlive ==
  Serving =>
    /\ pinger[attempt] \in {"sleeping", "putting"}
    /\ pinger[attempt] = "putting" => pingAge[attempt] = PingEvery

\* What bounds the silence, at each place where gen() may wait.
BoundedSilence ==
  /\ silence <= 2 * PingEvery
  /\ attempt = 0 => silence = 0
  /\ wire = NoEvent /\ pc \in {"peek", "peekAgain"} =>
       /\ silence <= PingEvery
       /\ silence <= pingAge[attempt] \/ HasPing(queue[attempt])
  /\ wire = NoEvent /\ pc = "loop" =>
       silence <= PingEvery + pingAge[attempt] \/ HasPing(queue[attempt])
  /\ wire = NoEvent /\ pc = "drain" => silence <= PingEvery + waitAge /\ waitAge <= 1

\* A timer that runs late ends the bound.
SilenceInv == PingerAlive /\ (~stalled => BoundedSilence)

\* A ping stays in the queue until gen() takes it.
LEMMA PingStays ==
  ASSUME NEW q \in Seq(ItemType)
  PROVE  /\ \A x \in ItemType : HasPing(q) => HasPing(Append(q, x))
         /\ HasPing(Append(q, Ping))
         /\ q # <<>> /\ HasPing(q) /\ Head(q).kind # "ping" => HasPing(Tail(q))
<1>1. ASSUME NEW x, x \in ItemType \/ x = Ping, HasPing(q) \/ x = Ping
      PROVE  HasPing(Append(q, x))
  <2>1. x \in ItemType BY <1>1, Items
  <2>2. /\ Len(q) \in Nat /\ Len(Append(q, x)) = Len(q) + 1 /\ Append(q, x)[Len(q) + 1] = x
        /\ \A i \in 1..Len(q) : Append(q, x)[i] = q[i]
    BY <2>1, AppendItem
  <2>3. CASE HasPing(q)
    <3>1. PICK i \in 1..Len(q) : q[i].kind = "ping" BY <2>3 DEF HasPing
    <3>2. i \in 1..Len(Append(q, x)) BY <2>2
    <3> QED BY <2>2, <3>1, <3>2 DEF HasPing
  <2>4. CASE x = Ping
    <3>1. Len(q) + 1 \in 1..Len(Append(q, x)) BY <2>2
    <3> QED BY <2>2, <2>4, <3>1, KindsDiffer DEF HasPing
  <2> QED BY <1>1, <2>3, <2>4
<1>2. ASSUME q # <<>>, HasPing(q), Head(q).kind # "ping"
      PROVE  HasPing(Tail(q))
  <2>1. /\ Len(q) \in Nat /\ Len(Tail(q)) = Len(q) - 1 /\ Head(q) = q[1]
        /\ \A i \in 1..(Len(q) - 1) : Tail(q)[i] = q[i + 1]
    BY <1>2, TailItem
  <2>2. PICK i \in 1..Len(q) : q[i].kind = "ping" BY <1>2 DEF HasPing
  <2>3. i # 1 BY <1>2, <2>1, <2>2
  <2>4. i - 1 \in 1..(Len(q) - 1) /\ (i - 1) + 1 = i BY <2>1, <2>2, <2>3
  <2>5. Tail(q)[i - 1].kind = "ping" BY <2>1, <2>2, <2>4
  <2> QED BY <2>1, <2>4, <2>5 DEF HasPing
<1> QED BY <1>1, <1>2

\* The tasks of an attempt do not take a ping away, and do not turn the scheduler's
\* clock back without putting one.
LEMMA SilenceTask ==
  ASSUME IInv, SilenceInv, NEW a \in Attempts, UpstreamStep(a) \/ TaskStep(a)
  PROVE  SilenceInv'
<1>. USE DEF genVars, historyVars
<1>1. TypeOK BY DEF IInv
<1>2. /\ UNCHANGED <<pc, attempt, wire, waitAge, silence, stalled>>
      /\ attempt # 0 => attempt \in Attempts
  <2>1. UNCHANGED <<pc, attempt, wire, waitAge, silence, stalled>>
    BY DEF UpstreamStep, TaskStep, PumpChunk, PumpFails, PumpEnds, PumpPuts, PingerWakes, PingerPuts
  <2> QED BY <1>1, <2>1, InAttempt
<1>3. Serving => attempt \in Attempts BY <1>2 DEF IInv, OneAttempt, Serving
<1>4. CASE PumpChunk(a) \/ (\E e \in Errors : PumpFails(a, e)) \/ PumpEnds(a)
  <2>1. UNCHANGED <<queue, pinger, pingAge>>
    BY <1>4 DEF PumpChunk, PumpFails, PumpEnds
  <2> QED BY <1>2, <2>1 DEF SilenceInv, PingerAlive, BoundedSilence, Serving
<1>5. CASE PumpPuts(a)
  <2>1. UNCHANGED <<pinger, pingAge>> BY <1>5 DEF PumpPuts
  <2>2. attempt \in Attempts => (HasPing(queue[attempt]) => HasPing(queue'[attempt]))
    <3>1. SUFFICES ASSUME attempt \in Attempts, attempt = a, HasPing(queue[attempt])
                   PROVE  HasPing(queue'[attempt])
      BY <1>1, <1>5 DEF PumpPuts, TypeOK
    <3>2. queue[a] \in Seq(ItemType) /\ held[a] \in ItemType BY <1>1 DEF TypeOK
    <3>3. queue'[a] = Append(queue[a], held[a]) BY <1>1, <1>5 DEF PumpPuts, TypeOK
    <3> QED BY <3>1, <3>2, <3>3, PingStays
  <2> QED BY <1>2, <1>3, <2>1, <2>2 DEF SilenceInv, PingerAlive, BoundedSilence, Serving
<1>6. CASE PingerWakes(a)
  <2>1. UNCHANGED <<queue, pingAge>> BY <1>6 DEF PingerWakes, taskVars
  <2>2. /\ pinger[a] = "sleeping" /\ pinger' = [pinger EXCEPT ![a] = "putting"]
        /\ pingAge[a] = PingEvery
    BY <1>1, <1>6, StreamAssumption DEF PingerWakes, PingerDue, TypeOK
  <2>3. PingerAlive' BY <1>1, <1>2, <1>3, <2>1, <2>2 DEF SilenceInv, PingerAlive, Serving, TypeOK
  <2> QED BY <1>2, <2>1, <2>3 DEF SilenceInv, BoundedSilence
<1>7. CASE PingerPuts(a)
  <2>1. /\ pinger' = [pinger EXCEPT ![a] = "sleeping"]
        /\ queue' = [queue EXCEPT ![a] = Append(@, Ping)]
        /\ pingAge' = [pingAge EXCEPT ![a] = 0]
    BY <1>7 DEF PingerPuts
  <2>2. PingerAlive' BY <1>1, <1>2, <1>3, <2>1 DEF SilenceInv, PingerAlive, Serving, TypeOK
  <2>3. CASE attempt = a
    <3>1. queue[a] \in Seq(ItemType) BY <1>1 DEF TypeOK
    <3>2. HasPing(queue'[attempt])
      BY <1>1, <2>1, <2>3, <3>1, PingStays DEF TypeOK
    <3> QED BY <1>2, <2>2, <3>2 DEF SilenceInv, BoundedSilence
  <2>4. CASE attempt # a
    <3>1. attempt \in Attempts =>
            queue'[attempt] = queue[attempt] /\ pingAge'[attempt] = pingAge[attempt]
      BY <1>1, <2>1, <2>4 DEF TypeOK
    <3> QED BY <1>2, <1>3, <2>2, <3>1 DEF SilenceInv, BoundedSilence, Serving
  <2> QED BY <2>3, <2>4
<1> QED BY <1>4, <1>5, <1>6, <1>7 DEF UpstreamStep, TaskStep

\* Time passes for a waiting gen() only while the scheduler sleeps.
LEMMA SilenceTick ==
  ASSUME IInv, SilenceInv, Tick
  PROVE  SilenceInv'
<1>1. /\ TypeOK /\ UNCHANGED <<pc, attempt, wire, queue, pinger>>
  BY DEF IInv, Tick
<1>2. /\ PingEvery \in Nat /\ PingEvery > 0 /\ PingInterval \in Nat /\ PingInterval > 0
      /\ silence \in Nat /\ waitAge \in Nat /\ QueueSize \in Nat /\ QueueSize > 0
      /\ MaxSilence \in Nat
  BY <1>1, StreamAssumption DEF TypeOK
<1>3. Serving => /\ attempt \in Attempts /\ pingAge[attempt] \in 0..PingEvery
  <2>1. Serving => attempt # 0 BY DEF IInv, OneAttempt, Serving
  <2>2. pingAge \in [Attempts -> 0..PingEvery] BY <1>1 DEF TypeOK
  <2> QED BY <1>1, <2>1, <2>2, InAttempt
<1>4. \A a \in Attempts :
        pingAge'[a] = IF pinger[a] = "sleeping" THEN UpTo(pingAge[a], PingEvery) ELSE pingAge[a]
  BY DEF Tick
<1>5. PingerAlive'
  BY <1>1, <1>3, <1>4 DEF SilenceInv, PingerAlive, Serving
<1>6. ASSUME ~stalled' PROVE BoundedSilence'
  <2>1. ~stalled /\ ~TimerDue /\ ~Ready BY <1>1, <1>6 DEF Tick, TypeOK
  <2>2. BoundedSilence BY <2>1 DEF SilenceInv
  <2>3. CASE GenWaits
    <3>1. Serving /\ wire = NoEvent /\ attempt \in Attempts /\ queue[attempt] = <<>>
      BY <1>3, <2>1, <2>3 DEF GenWaits, Serving, Ready
    <3>2. ~HasPing(queue[attempt]) /\ ~HasPing(queue'[attempt]) BY <1>1, <3>1 DEF HasPing
    <3>3. Room(attempt) BY <1>2, <3>1 DEF Room
    <3>4. pinger[attempt] = "sleeping"
      BY <2>1, <3>1, <3>3 DEF SilenceInv, PingerAlive, Ready
    <3>5. pingAge[attempt] < PingEvery
      BY <1>2, <1>3, <2>1, <3>1, <3>4 DEF TimerDue, PingerDue
    <3>6. pingAge'[attempt] = pingAge[attempt] + 1
      BY <1>4, <3>1, <3>4, <3>5 DEF UpTo
    <3>7. silence' \in Nat /\ silence' <= silence + 1
      BY <1>1, <1>2, <2>3 DEF Tick, UpTo, TypeOK
    <3>8. pc = "drain" => waitAge = 0 /\ waitAge' = 1
      BY <1>2, <2>1, <2>3, <3>1 DEF TimerDue, Tick, UpTo
    <3>9. attempt # 0 BY <3>1 DEF Attempts
    <3>10. pc \in {"peek", "peekAgain"} => silence' <= PingEvery /\ silence' <= pingAge'[attempt]
      BY <1>2, <1>3, <2>2, <3>1, <3>2, <3>5, <3>6, <3>7 DEF BoundedSilence
    <3>11. pc = "loop" => silence' <= PingEvery + pingAge'[attempt] /\ silence' <= 2 * PingEvery
      BY <1>2, <1>3, <2>2, <3>1, <3>2, <3>5, <3>6, <3>7 DEF BoundedSilence
    <3>12. pc = "drain" => silence' <= PingEvery + waitAge' /\ silence' <= 2 * PingEvery
      BY <1>2, <2>2, <3>1, <3>7, <3>8 DEF BoundedSilence
    <3>13. silence' <= 2 * PingEvery
      BY <1>2, <3>1, <3>7, <3>10, <3>11, <3>12 DEF Serving
    <3> QED BY <1>1, <3>8, <3>9, <3>10, <3>11, <3>12, <3>13 DEF BoundedSilence
  <2>4. CASE ~GenWaits
    <3>1. silence' = silence BY <2>4 DEF Tick
    <3>2. wire = NoEvent => ~Serving BY <2>4 DEF GenWaits, Serving
    <3> QED BY <1>1, <2>2, <3>1, <3>2 DEF BoundedSilence, Serving
  <2> QED BY <2>3, <2>4
<1> QED BY <1>5, <1>6 DEF SilenceInv

\* What gen() takes first may be a ping, which is dropped; later ones it sends on.
LEMMA SilenceGen ==
  ASSUME IInv, SilenceInv, GenStep
  PROVE  SilenceInv'
<1>. USE DEF genVars, taskVars, historyVars
<1>1. TypeOK /\ OneAttempt BY DEF IInv
<1>2. /\ PingEvery \in Nat /\ PingEvery > 0 /\ silence \in Nat
  BY <1>1, StreamAssumption DEF TypeOK
<1>3. UNCHANGED <<silence, stalled>>
  BY DEF GenStep, BeginAttempt, Peek, PeekTimeout, Drain, Loop, LoopTimeout, Return, Save,
     AwaitPump, GenInterrupted, GenDropped
<1>4. Serving => attempt \in Attempts /\ attempt # 0 /\ pingAge[attempt] \in 0..PingEvery
  <2>1. Serving => attempt # 0 BY <1>1 DEF OneAttempt, Serving
  <2>2. Serving => attempt \in Attempts BY <1>1, <2>1, InAttempt
  <2>3. pingAge \in [Attempts -> 0..PingEvery] BY <1>1 DEF TypeOK
  <2> QED BY <2>1, <2>2, <2>3
<1>5. ASSUME ~Serving', attempt' # 0 PROVE SilenceInv'
  BY <1>1, <1>3, <1>5 DEF SilenceInv, PingerAlive, BoundedSilence, Serving, NoEvent
<1>6. CASE BeginAttempt
  <2>1. pc = "begin" /\ attempt = 0 /\ attempt' = 1 /\ pc' = "peek" /\ attempt' \in Attempts
    BY <1>1, <1>6, StreamAssumption DEF BeginAttempt, Runs, OneAttempt, Attempts
  <2>2. pinger'[attempt'] = "sleeping" /\ pingAge' = pingAge /\ pingAge[attempt'] \in 0..PingEvery
    BY <1>1, <1>6, <2>1 DEF BeginAttempt, TypeOK
  <2>3. ~stalled => silence = 0 BY <2>1 DEF SilenceInv, BoundedSilence
  <2>4. PingerAlive' BY <2>2 DEF PingerAlive
  <2>5. ~stalled => BoundedSilence'
    BY <1>2, <1>3, <2>1, <2>2, <2>3 DEF BoundedSilence
  <2> QED BY <1>3, <2>4, <2>5 DEF SilenceInv
<1>7. CASE Peek
  <2>1. PICK item : /\ item = Head(queue[attempt])
                    /\ \/ PeekFailover(item) \/ PeekError(item) \/ PeekPing(item)
                       \/ PeekChunk(item) \/ PeekSentinel(item)
    BY <1>7 DEF Peek
  <2>2. /\ pc \in {"peek", "peekAgain"} /\ Serving /\ wire = NoEvent
        /\ queue[attempt] # <<>> /\ queue' = [queue EXCEPT ![attempt] = Tail(@)] /\ waitAge' = 0
        /\ UNCHANGED <<attempt, pinger, pingAge>>
    BY <1>7 DEF Peek, Peeking, Runs, Get, Serving
  <2>3. PingerAlive' BY <2>2 DEF SilenceInv, PingerAlive
  <2>4. ~stalled => /\ silence <= PingEvery
                    /\ silence <= pingAge[attempt] \/ HasPing(queue[attempt])
    BY <2>2 DEF SilenceInv, BoundedSilence
  <2>5. pc' \in {"drain", "return", "loop", "save"}
    BY <2>1 DEF PeekFailover, PeekError, PeekPing, PeekChunk, PeekSentinel, Finalize
  <2>6. ~stalled => BoundedSilence'
    BY <1>2, <1>3, <1>4, <2>2, <2>4, <2>5 DEF BoundedSilence
  <2> QED BY <1>3, <2>3, <2>6 DEF SilenceInv
<1>8. CASE Loop
  <2>1. PICK item : /\ item = Head(queue[attempt])
                    /\ LoopChunk(item) \/ LoopPing(item) \/ LoopError(item) \/ LoopSentinel(item)
    BY <1>8 DEF Loop
  <2>2. /\ pc = "loop" /\ Serving /\ wire = NoEvent
        /\ queue[attempt] # <<>> /\ queue' = [queue EXCEPT ![attempt] = Tail(@)] /\ waitAge' = 0
        /\ UNCHANGED <<attempt, pinger, pingAge>>
    BY <1>8 DEF Loop, Runs, Get, Serving
  <2>3. PingerAlive' BY <2>2 DEF SilenceInv, PingerAlive
  <2>4. pc' \in {"return", "loop", "save"}
    BY <2>1, <2>2 DEF LoopChunk, LoopPing, LoopError, LoopSentinel, Finalize
  <2>5. wire' = NoEvent /\ pc' = "loop" => item.kind # "ping"
    BY <2>1, <2>2 DEF LoopChunk, LoopPing, LoopError, LoopSentinel, Finalize, NoEvent
  <2>6. queue[attempt] \in Seq(ItemType) /\ queue'[attempt] = Tail(queue[attempt])
    BY <1>1, <1>4, <2>2 DEF TypeOK
  <2>7. HasPing(queue[attempt]) /\ item.kind # "ping" => HasPing(queue'[attempt])
    BY <2>1, <2>2, <2>6, PingStays
  <2>8. ~stalled => BoundedSilence'
    BY <1>3, <1>4, <2>2, <2>4, <2>5, <2>7 DEF SilenceInv, BoundedSilence
  <2> QED BY <1>3, <2>3, <2>8 DEF SilenceInv
<1>9. CASE PeekTimeout \/ LoopTimeout
  <2>1. /\ Serving /\ pc' \in {"peekAgain", "loop"} /\ wire' = "ping"
        /\ UNCHANGED <<attempt, queue, pinger, pingAge>>
    BY <1>9 DEF PeekTimeout, LoopTimeout, Runs, Serving
  <2>2. PingerAlive' BY <2>1 DEF SilenceInv, PingerAlive
  <2>3. ~stalled => BoundedSilence'
    BY <1>3, <1>4, <2>1 DEF SilenceInv, BoundedSilence, NoEvent
  <2> QED BY <1>3, <2>2, <2>3 DEF SilenceInv
<1>10. CASE Drain \/ Return \/ Save \/ GenInterrupted
  <2>1. attempt' = attempt /\ attempt # 0 /\ pc' \in {"crashed", "await"}
    BY <1>1, <1>10 DEF Drain, Return, Save, GenInterrupted, Leave, Runs, OneAttempt, TypeOK
  <2> QED BY <1>5, <2>1 DEF Serving
<1>11. CASE AwaitPump \/ GenDropped
  <2>1. attempt' = attempt /\ pc' \in {"begin", "ended"}
    BY <1>1, <1>11 DEF AwaitPump, GenDropped, TypeOK
  <2> QED BY <1>3, <2>1 DEF SilenceInv, PingerAlive, BoundedSilence, Serving
<1> QED BY <1>6, <1>7, <1>8, <1>9, <1>10, <1>11 DEF GenStep

\* No step breaks the bound.
LEMMA SilenceStays == IInv /\ SilenceInv /\ [Next]_vars => SilenceInv'
<1>. SUFFICES ASSUME IInv, SilenceInv, [Next]_vars PROVE SilenceInv'
  OBVIOUS
<1>1. CASE ClientTakes
  <2>1. /\ UNCHANGED <<pc, attempt, pinger, pingAge, queue, stalled>>
        /\ silence' = 0 /\ waitAge' = 0
    BY <1>1 DEF ClientTakes, taskVars
  <2>2. Serving => pingAge[attempt] \in 0..PingEvery
    <3>1. Serving => attempt # 0 BY DEF IInv, OneAttempt, Serving
    <3>2. pingAge \in [Attempts -> 0..PingEvery] BY DEF IInv, TypeOK
    <3> QED BY <3>1, <3>2, InAttempt DEF IInv
  <2>3. PingEvery \in Nat BY StreamAssumption
  <2>4. BoundedSilence' BY <2>1, <2>2, <2>3 DEF BoundedSilence, Serving
  <2>5. PingerAlive' BY <2>1 DEF SilenceInv, PingerAlive, Serving
  <2> QED BY <2>4, <2>5 DEF SilenceInv
<1>2. CASE ClientLeaves \/ UNCHANGED vars
  <2>1. UNCHANGED <<pc, attempt, wire, waitAge, pinger, pingAge, queue, silence, stalled>>
    BY <1>2 DEF ClientLeaves, vars, genVars, taskVars, historyVars
  <2> QED BY <2>1 DEF SilenceInv, PingerAlive, BoundedSilence, Serving
<1> QED BY <1>1, <1>2, SilenceTask, SilenceTick, SilenceGen DEF Next

\* While it waits for the upstream, gen() is silent for no longer than two periods of
\* its ping scheduler, unless the event loop ran a timer late.
THEOREM PingsAlwaysBreakSilence == Spec => []PingsBreakSilence
<1>1. Init => SilenceInv
  BY StreamAssumption DEF Init, SilenceInv, PingerAlive, BoundedSilence, Serving, NoEvent
<1>2. SilenceInv => PingsBreakSilence
  BY DEF SilenceInv, BoundedSilence, PingsBreakSilence
<1> QED BY <1>1, <1>2, AlwaysIInv, SilenceStays, PTL DEF Spec

-----------------------------------------------------------------------------
(***************************************************************************)
(* Launcher.  What must be known besides: a proxy that is gone stays so    *)
(* once its launcher is past the first check, as nobody else starts it     *)
(* (Idle), and ncp kill only goes after processes there are (Hunted).      *)
(***************************************************************************)
PCs == {"checking", "verifying", "waiting", "preparing", "running", "stopping",
        "terminating", "ended", "interrupted", "lost"}
States == Alive \cup Gone

LauncherType == at \in [Launchers -> PCs] /\ proxy \in [Launchers -> States]

Idle == \A l \in Launchers : at[l] \in {"checking", "verifying"} => proxy[l] = "none"

Hunted ==
  /\ pending \in SUBSET Launchers /\ stopped \in SUBSET Launchers
  /\ port \in Launchers \cup {None}
  /\ \A l \in Launchers : l = port \/ l = victim \/ l \in pending => proxy[l] # "none"

LauncherInvariant == LauncherType /\ Idle /\ Hunted /\ NothingIsLeft

\* What a signal may do to the proxy of l: nothing to one that is gone.
Moves(l) ==
  \E state \in States :
    /\ proxy' = [proxy EXCEPT ![l] = state]
    /\ port' \in {port, None}
    /\ proxy[l] \in Gone => state = proxy[l]
    /\ proxy[l] # "none" => state # "none"

\* A signal moves its launcher's proxy along the automaton, KILL to its end.
LEMMA SignalledMoves ==
  ASSUME LauncherInvariant, NEW l \in Launchers, NEW signal, Signalled(l, signal)
  PROVE  Moves(l) /\ (signal = "KILL" => proxy'[l] \in Gone)
<1>1. PICK state \in After(proxy[l], signal) : Becomes(l, state)
  BY DEF Signalled
<1>2. proxy[l] \in States
  BY DEF LauncherInvariant, LauncherType
<1>3. /\ state \in States
      /\ proxy[l] \in Gone => state = proxy[l]
      /\ proxy[l] # "none" => state # "none"
      /\ signal = "KILL" => state \in Gone
  <2>1. CASE proxy[l] \in Gone
    BY <2>1, <1>1, <1>2 DEF After, Gone, States
  <2>2. CASE proxy[l] \in Alive
    <3>1. state \in Alive \cup {"dead"} /\ (signal = "KILL" => state = "dead")
      BY <2>2, <1>1 DEF After, Gone, Alive
    <3> QED BY <2>2, <3>1 DEF Gone, Alive, States
  <2> QED BY <2>1, <2>2, <1>2 DEF States
<1>4. proxy' = [proxy EXCEPT ![l] = state] /\ port' \in {port, None}
  BY <1>1 DEF Becomes
<1>5. proxy'[l] = state
  BY <1>4 DEF LauncherInvariant, LauncherType
<1> QED BY <1>3, <1>4, <1>5 DEF Moves

\* Moving proxies keeps the invariant as long as launchers stay where they are or
\* go on without ending.
LEMMA MovesInv ==
  ASSUME LauncherInvariant, NEW l \in Launchers, Moves(l),
         UNCHANGED <<at, pending, victim, stopped>>
  PROVE  LauncherInvariant'
<1>1. PICK state \in States :
        /\ proxy' = [proxy EXCEPT ![l] = state]
        /\ port' \in {port, None}
        /\ proxy[l] \in Gone => state = proxy[l]
        /\ proxy[l] # "none" => state # "none"
  BY DEF Moves
<1> USE LauncherAssumption
<1>2. LauncherType'
  BY <1>1 DEF LauncherInvariant, LauncherType
<1>3. Idle'
  BY <1>1 DEF LauncherInvariant, LauncherType, Idle, Gone
<1>4. Hunted'
  BY <1>1 DEF LauncherInvariant, LauncherType, Hunted
<1>5. NothingIsLeft'
  BY <1>1 DEF LauncherInvariant, LauncherType, NothingIsLeft, Gone, Hunted
<1> QED BY <1>2, <1>3, <1>4, <1>5 DEF LauncherInvariant

\* The invariant holds in the beginning.
LEMMA LauncherStarts == LauncherInit => LauncherInvariant
BY LauncherAssumption
DEF LauncherInit, LauncherInvariant, LauncherType, Idle, Hunted, NothingIsLeft,
    PCs, States, Gone, Alive

\* The proxy's own steps: only one that is alive takes them.
LEMMA ProxyInv ==
  ASSUME LauncherInvariant, NEW l \in Launchers, ProxyStep(l) \/ Crashes(l)
  PROVE  LauncherInvariant'
<1> USE LauncherAssumption
<1>1. CASE Binds(l) /\ port = None
  <2>1. /\ proxy[l] = "starting" /\ proxy' = [proxy EXCEPT ![l] = "serving"] /\ port' = l
        /\ UNCHANGED <<at, pending, victim, stopped>>
    BY <1>1 DEF Binds, killVars
  <2> QED BY <2>1
    DEF LauncherInvariant, LauncherType, Idle, Hunted, NothingIsLeft, States, Gone, Alive
<1>2. CASE \/ Binds(l) /\ port # None
           \/ DrainEnds(l)
           \/ Crashes(l)
  <2>1. proxy[l] \in Alive /\ Becomes(l, "dead") /\ UNCHANGED <<at, pending, victim, stopped>>
    BY <1>2 DEF Binds, DrainEnds, Crashes, killVars, Alive
  <2>2. Moves(l)
    BY <2>1 DEF Moves, Becomes, States, Gone, Alive
  <2> QED BY <2>1, <2>2, MovesInv
<1> QED BY <1>1, <1>2 DEF ProxyStep

\* The launcher's steps that leave its proxy alone, and the first, which starts it.
LEMMA LauncherInv ==
  ASSUME LauncherInvariant, NEW l \in Launchers,
         Check(l) \/ Verify(l) \/ WaitEnds(l) \/ Prepared(l) \/ RunEnds(l)
  PROVE  LauncherInvariant'
<1> USE LauncherAssumption
<1>1. CASE Check(l) /\ at'[l] = "waiting"
  <2>1. /\ at[l] = "checking" /\ at' = [at EXCEPT ![l] = "waiting"]
        /\ proxy' = [proxy EXCEPT ![l] = "starting"] /\ port' \in {port, None}
        /\ UNCHANGED <<pending, victim, stopped>>
    BY <1>1 DEF Check, Goes, Becomes, killVars, LauncherInvariant, LauncherType
  <2>2. proxy[l] = "none"
    BY <2>1 DEF LauncherInvariant, Idle
  <2> QED BY <2>1, <2>2
    DEF LauncherInvariant, LauncherType, Idle, Hunted, NothingIsLeft, PCs, States, Gone, Alive
<1>2. CASE \/ Check(l) /\ at'[l] # "waiting"
           \/ Verify(l) \/ WaitEnds(l) \/ Prepared(l) \/ RunEnds(l)
  <2>1. /\ \E to \in {"verifying", "preparing", "ended", "stopping", "running"} :
             /\ at' = [at EXCEPT ![l] = to]
             /\ to = "verifying" => at[l] = "checking"
             /\ to = "ended" => at[l] = "verifying"
        /\ UNCHANGED <<proxy, port, pending, victim, stopped>>
    BY <1>2
    DEF Check, Verify, WaitEnds, Prepared, RunEnds, Goes, killVars, LauncherInvariant, LauncherType
  <2> QED BY <2>1
    DEF LauncherInvariant, LauncherType, Idle, Hunted, NothingIsLeft, PCs, Gone
<1> QED BY <1>1, <1>2

\* The end of _stop_proxy, and the ends without it.
LEMMA EndInv ==
  ASSUME LauncherInvariant, NEW l \in Launchers,
         StopProxy(l) \/ ProxyStopped(l) \/ Interrupt(l) \/ Lose(l)
  PROVE  LauncherInvariant'
<1>1. Moves(l) \/ UNCHANGED <<proxy, port>>
  BY SignalledMoves
  DEF StopProxy, ProxyStopped, Interrupt, Lose, FromTerminal
<1>2. Moves(l)
  <2>1. CASE UNCHANGED <<proxy, port>>
    BY <2>1 DEF Moves, LauncherInvariant, LauncherType
  <2> QED BY <1>1, <2>1
<1>3. PICK state \in States :
        /\ proxy' = [proxy EXCEPT ![l] = state]
        /\ port' \in {port, None}
        /\ proxy[l] \in Gone => state = proxy[l]
        /\ proxy[l] # "none" => state # "none"
  BY <1>2 DEF Moves
<1>4. /\ \E to \in {"terminating", "ended", "stopping", "interrupted", "lost"} :
           at' = [at EXCEPT ![l] = to]
      /\ at'[l] = "ended" => proxy'[l] \in Gone
      /\ UNCHANGED <<pending, victim, stopped>>
  <2>1. CASE StopProxy(l)
    BY <2>1 DEF StopProxy, Goes, killVars, LauncherInvariant, LauncherType
  <2>2. CASE ProxyStopped(l)
    BY <2>2, SignalledMoves DEF ProxyStopped, Goes, killVars, LauncherInvariant, LauncherType
  <2>3. CASE Interrupt(l) \/ Lose(l)
    BY <2>3 DEF Interrupt, Lose, killVars, LauncherInvariant, LauncherType
  <2> QED BY <2>1, <2>2, <2>3
<1> USE LauncherAssumption
<1>5. LauncherType'
  BY <1>3, <1>4 DEF LauncherInvariant, LauncherType, PCs
<1>6. Idle'
  BY <1>3, <1>4 DEF LauncherInvariant, LauncherType, Idle, Gone
<1>7. Hunted'
  BY <1>3, <1>4 DEF LauncherInvariant, LauncherType, Hunted
<1>8. NothingIsLeft'
  BY <1>3, <1>4 DEF LauncherInvariant, LauncherType, NothingIsLeft, Gone, Hunted
<1> QED BY <1>5, <1>6, <1>7, <1>8 DEF LauncherInvariant

\* ncp kill hunts what has a socket of the port, and is done with it when dead.
LEMMA KillInv ==
  ASSUME LauncherInvariant, KillStep
  PROVE  LauncherInvariant'
<1> USE LauncherAssumption
<1>1. CASE KillFinds
  <2>1. PICK connected \in SUBSET {l \in Launchers : proxy[l] = "draining"} :
          pending' = connected \cup ({port} \ {None})
    BY <1>1 DEF KillFinds
  <2>2. UNCHANGED <<at, proxy, port, victim, stopped>>
    BY <1>1 DEF KillFinds
  <2> QED BY <2>1, <2>2 DEF LauncherInvariant, LauncherType, Idle, Hunted, NothingIsLeft
<1>2. ASSUME NEW l \in Launchers, KillTerminates(l) PROVE LauncherInvariant'
  <2>1. Moves(l)
    BY <1>2, SignalledMoves DEF KillTerminates
  <2>2. PICK state \in States :
          /\ proxy' = [proxy EXCEPT ![l] = state]
          /\ port' \in {port, None}
          /\ proxy[l] \in Gone => state = proxy[l]
          /\ proxy[l] # "none" => state # "none"
    BY <2>1 DEF Moves
  <2>3. /\ l \in pending /\ pending' = pending \ {l} /\ victim' \in {None, l}
        /\ UNCHANGED <<at, stopped>>
    BY <1>2 DEF KillTerminates
  <2>4. LauncherType' /\ Idle'
    BY <2>2, <2>3 DEF LauncherInvariant, LauncherType, Idle, Gone
  <2>5. Hunted'
    BY <2>2, <2>3 DEF LauncherInvariant, LauncherType, Hunted
  <2>6. NothingIsLeft'
    BY <2>2, <2>3 DEF LauncherInvariant, LauncherType, NothingIsLeft, Gone, Hunted
  <2> QED BY <2>4, <2>5, <2>6 DEF LauncherInvariant
<1>3. ASSUME NEW l \in Launchers, KillEnds(l) PROVE LauncherInvariant'
  <2>1. Moves(l) /\ proxy'[l] \in Gone
    BY <1>3, SignalledMoves DEF KillEnds
  <2>2. PICK state \in States :
          /\ proxy' = [proxy EXCEPT ![l] = state]
          /\ port' \in {port, None}
          /\ proxy[l] \in Gone => state = proxy[l]
          /\ proxy[l] # "none" => state # "none"
    BY <2>1 DEF Moves
  <2>3. /\ victim = l /\ victim' = None /\ stopped' = stopped \cup {l}
        /\ UNCHANGED <<at, pending>>
    BY <1>3 DEF KillEnds
  <2>4. LauncherType' /\ Idle'
    BY <2>2, <2>3 DEF LauncherInvariant, LauncherType, Idle, Gone
  <2>5. Hunted'
    BY <2>2, <2>3 DEF LauncherInvariant, LauncherType, Hunted
  <2>6. proxy'[l] = "dead"
    BY <2>1, <2>2, <2>3 DEF LauncherInvariant, LauncherType, Hunted, Gone
  <2>7. NothingIsLeft'
    BY <2>2, <2>3, <2>6 DEF LauncherInvariant, LauncherType, NothingIsLeft, Gone, Hunted
  <2> QED BY <2>4, <2>5, <2>7 DEF LauncherInvariant
<1> QED BY <1>1, <1>2, <1>3 DEF KillStep

\* Every step keeps the invariant.
LEMMA LauncherSteps == LauncherInvariant /\ [LauncherNext]_launcherVars => LauncherInvariant'
<1> SUFFICES ASSUME LauncherInvariant, [LauncherNext]_launcherVars PROVE LauncherInvariant'
  OBVIOUS
<1>1. CASE UNCHANGED launcherVars
  BY <1>1 DEF launcherVars, LauncherInvariant, LauncherType, Idle, Hunted, NothingIsLeft
<1>2. ASSUME NEW l \in Launchers,
             LauncherStep(l) \/ ProxyStep(l) \/ Crashes(l) \/ Interrupt(l) \/ Lose(l)
      PROVE  LauncherInvariant'
  BY <1>2, LauncherInv, EndInv, ProxyInv DEF LauncherStep
<1> QED BY <1>1, <1>2, KillInv DEF LauncherNext, Quiet

\* However launchers, their proxies, the terminals and ncp kill interleave, the
\* clean-up of cli/main.py (_stop_proxy, kill) leaves no process behind.
THEOREM NothingLeft == LauncherSpec => []NothingIsLeft
<1>1. LauncherSpec => []LauncherInvariant
  BY LauncherStarts, LauncherSteps, PTL DEF LauncherSpec
<1>2. LauncherInvariant => NothingIsLeft
  BY DEF LauncherInvariant
<1> QED BY <1>1, <1>2, PTL
=============================================================================
