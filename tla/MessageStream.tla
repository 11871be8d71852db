---------------------------- MODULE MessageStream ----------------------------
(***************************************************************************)
(* The tasks behind one streaming response: gen() of routes/messages.py.   *)
(*                                                                         *)
(*   upstream --> pump --\                                                 *)
(*                        >-- upstream_queue --> gen() --> wire --> client *)
(*         ping scheduler/                                                 *)
(*                                                                         *)
(* Each attempt of the failover chain has a queue, a pump and a ping       *)
(* scheduler of its own; a task that nobody cancelled goes on when gen()   *)
(* has left its attempt.  Between two suspension points a task runs alone, *)
(* so each action is what one task does from one to the next.  gen() is    *)
(* suspended at a yield while wire holds an event.                         *)
(*                                                                         *)
(* Time is counted in units of 5 s.  Chunks are numbered; which events the *)
(* pipeline makes of one is StreamPipeline's subject, here it is some or   *)
(* none.                                                                   *)
(***************************************************************************)
EXTENDS Naturals, Sequences

CONSTANTS
  MaxChain,      \* bound: length of spec_chain
  QueueSize,     \* maxsize of upstream_queue (256)
  MaxChunks,     \* bound: chunks of one upstream stream
  PingEvery,     \* the sleep of _ping_scheduler (10 s)
  PingInterval,  \* _PING_INTERVAL_SECONDS (15 s)
  MaxSilence,    \* bound: silence is counted up to here
  MayDisconnect, \* may the client go away?
  LoopStalls     \* may the event loop run timers late?

ASSUME StreamAssumption ==
  /\ {MaxChain, QueueSize, PingEvery, PingInterval} \subseteq Nat \ {0}
  /\ {MaxChunks, MaxSilence} \subseteq Nat
  /\ {MayDisconnect, LoopStalls} \subseteq BOOLEAN

Attempts == 1..MaxChain

VARIABLES
  \* gen()
  chain,         \* len(spec_chain)
  pc,            \* where it is suspended, or what it does next
  attempt,       \* attempt_idx + 1; 0 before the loop
  sentinelSeen,  \* "unbound" until the first item has been looked at
  resume,        \* where the finally clause leads: "begin" (continue) or "ended"
  waitAge,       \* since its wait for an item began
  wire,          \* the event it is suspended with, or NoEvent
  \* the tasks of each attempt
  queue, pump, held, pinger, pingAge,
  \* the breaker and the client
  reported,      \* has record_failure() been called?
  client         \* "reading" or "gone"

VARIABLES \* history: read by properties only
  produced,  \* chunks the upstream of the current attempt has sent
  fed,       \* chunks handed to the pipeline, in order
  failure,   \* how the upstream failed, or "none"
  told,      \* has the client received an error event?
  silence,   \* how long gen() has waited since its last event
  stalled    \* has a timer fired late?

genVars == <<chain, pc, attempt, sentinelSeen, resume, waitAge>>
taskVars == <<queue, pump, held, pinger, pingAge>>
historyVars == <<produced, fed, failure, told, silence, stalled>>
vars == <<genVars, wire, taskVars, reported, client, historyVars>>

NoEvent == "none"
Errors == {"server_error", "rate_limited", "client_error", "transport"}
ServerErrors == {"server_error", "transport"}     \* what the breaker is told of
FailoverErrors == {"server_error", "rate_limited"} \* 5xx or 429

Item(kind, n) == [kind |-> kind, n |-> n]
Sentinel == Item("sentinel", 0)
Ping == Item("ping", 0)

Init ==
  /\ chain \in 1..MaxChain
  /\ pc = "begin" /\ attempt = 0 /\ sentinelSeen = "unbound" /\ resume = "ended"
  /\ waitAge = 0
  /\ wire = "message_start"
  /\ queue = [a \in Attempts |-> <<>>]
  /\ pump = [a \in Attempts |-> "none"]
  /\ held = [a \in Attempts |-> Sentinel]
  /\ pinger = [a \in Attempts |-> "none"]
  /\ pingAge = [a \in Attempts |-> 0]
  /\ reported = FALSE /\ client = "reading"
  /\ produced = 0 /\ fed = <<>> /\ failure = "none" /\ told = FALSE
  /\ silence = 0 /\ stalled = FALSE

-----------------------------------------------------------------------------
(***************************************************************************)
(* pump(): astream_chat_completions feeds the queue; an exception becomes  *)
(* an item; SENTINEL comes last.                                           *)
(***************************************************************************)
Room(a) == Len(queue[a]) < QueueSize

PumpChunk(a) ==
  /\ pump[a] = "reading"
  /\ produced < MaxChunks
  /\ produced' = produced + 1
  /\ held' = [held EXCEPT ![a] = Item("chunk", produced')]
  /\ pump' = [pump EXCEPT ![a] = "putting"]
  /\ UNCHANGED <<genVars, wire, queue, pinger, pingAge, reported, client,
                 fed, failure, told, silence, stalled>>

\* A status is known before the first chunk; the connection breaks any time.
PumpFails(a, e) ==
  /\ pump[a] = "reading"
  /\ produced = 0 \/ e = "transport"
  /\ failure' = e
  /\ held' = [held EXCEPT ![a] = Item(e, 0)]
  /\ pump' = [pump EXCEPT ![a] = "failing"]
  /\ UNCHANGED <<genVars, wire, queue, pinger, pingAge, reported, client,
                 produced, fed, told, silence, stalled>>

\* Mutant: no SENTINEL after [DONE].
PumpEndsSilently(a) ==
  /\ pump[a] = "reading"
  /\ pump' = [pump EXCEPT ![a] = "done"]
  /\ UNCHANGED <<genVars, wire, queue, held, pinger, pingAge, reported, client, historyVars>>

\* [DONE], or the end of the body.
PumpEnds(a) ==
  /\ pump[a] = "reading"
  /\ held' = [held EXCEPT ![a] = Sentinel]
  /\ pump' = [pump EXCEPT ![a] = "ending"]
  /\ UNCHANGED <<genVars, wire, queue, pinger, pingAge, reported, client, historyVars>>

AfterPut == [putting |-> "reading", failing |-> "ending", ending |-> "done"]

\* Mutant: what finds the queue full is dropped (put_nowait).
PumpPutsOrDrops(a) ==
  /\ pump[a] \in DOMAIN AfterPut
  /\ queue' = IF Room(a) THEN [queue EXCEPT ![a] = Append(@, held[a])] ELSE queue
  /\ pump' = [pump EXCEPT ![a] = AfterPut[@]]
  /\ held' = [held EXCEPT ![a] = Sentinel]
  /\ UNCHANGED <<genVars, wire, pinger, pingAge, reported, client, historyVars>>

\* await upstream_queue.put(...): waits for room.
PumpPuts(a) ==
  /\ pump[a] \in DOMAIN AfterPut
  /\ Room(a)
  /\ queue' = [queue EXCEPT ![a] = Append(@, held[a])]
  /\ pump' = [pump EXCEPT ![a] = AfterPut[@]]
  /\ held' = [held EXCEPT ![a] = Sentinel]
  /\ UNCHANGED <<genVars, wire, pinger, pingAge, reported, client, historyVars>>

\* Mutant: the pump is awaited without being cancelled.
CancelNothing(a) == UNCHANGED <<pump, held>>

\* task.cancel(): the pump is thrown out of its read or its put, and its
\* finally clause still puts SENTINEL; thrown out of that, it ends.
CancelPump(a) ==
  /\ pump' = [pump EXCEPT ![a] = IF @ \in {"ending", "done"} THEN "done" ELSE "ending"]
  /\ held' = [held EXCEPT ![a] = Sentinel]

-----------------------------------------------------------------------------
(***************************************************************************)
(* _ping_scheduler()                                                       *)
(***************************************************************************)
PingerDue(a) == pinger[a] = "sleeping" /\ pingAge[a] >= PingEvery

PingerWakes(a) ==
  /\ PingerDue(a)
  /\ pinger' = [pinger EXCEPT ![a] = "putting"]
  /\ UNCHANGED <<genVars, wire, queue, pump, held, pingAge, reported, client, historyVars>>

\* Mutant: one ping and no more.
PingerPutsOnce(a) ==
  /\ pinger[a] = "putting"
  /\ Room(a)
  /\ queue' = [queue EXCEPT ![a] = Append(@, Ping)]
  /\ pinger' = [pinger EXCEPT ![a] = "done"]
  /\ UNCHANGED <<genVars, wire, pump, held, pingAge, reported, client, historyVars>>

PingerPuts(a) ==
  /\ pinger[a] = "putting"
  /\ Room(a)
  /\ queue' = [queue EXCEPT ![a] = Append(@, Ping)]
  /\ pinger' = [pinger EXCEPT ![a] = "sleeping"]
  /\ pingAge' = [pingAge EXCEPT ![a] = 0]
  /\ UNCHANGED <<genVars, wire, pump, held, reported, client, historyVars>>

-----------------------------------------------------------------------------
(***************************************************************************)
(* gen().  It runs when the client has taken the event it yielded.         *)
(***************************************************************************)
Runs(p) == pc = p /\ wire = NoEvent

\* Mutant: the ping scheduler is not cancelled.
LeavePinging ==
  IF sentinelSeen = "unbound"
    THEN pc' = "crashed" /\ UNCHANGED <<pump, held, pinger>>
    ELSE CancelPump(attempt) /\ UNCHANGED pinger /\ pc' = "await"

\* The finally clause.  It reads sentinel_seen first: unbound, it raises
\* UnboundLocalError and neither task is cancelled.
Leave ==
  IF sentinelSeen = "unbound"
    THEN pc' = "crashed" /\ UNCHANGED <<pump, held, pinger>>
    ELSE /\ CancelPump(attempt)
         /\ pinger' = [pinger EXCEPT ![attempt] = "done"]
         /\ pc' = "await"

\* The head of the loop over spec_chain: fresh queue, pump and scheduler.
BeginAttempt ==
  /\ Runs("begin")
  /\ attempt < chain
  /\ attempt' = attempt + 1
  /\ pump' = [pump EXCEPT ![attempt'] = "reading"]
  /\ pinger' = [pinger EXCEPT ![attempt'] = "sleeping"]
  /\ pc' = "peek"
  /\ waitAge' = 0
  /\ produced' = 0 /\ fed' = <<>> /\ failure' = "none"
  /\ UNCHANGED <<chain, sentinelSeen, resume, wire, queue, held, pingAge, reported, client,
                 told, silence, stalled>>

\* await upstream_queue.get()
Get ==
  /\ queue[attempt] # <<>>
  /\ queue' = [queue EXCEPT ![attempt] = Tail(@)]
  /\ waitAge' = 0

\* A chunk goes through pipeline.feed and comes out as events or nothing.
Feed(item) ==
  /\ fed' = Append(fed, item.n)
  /\ \E e \in {"content", NoEvent} : wire' = e

Peeking == Runs("peek") \/ Runs("peekAgain")

\* The first item is an error with a failover status, and there is another
\* spec: the next item is waited for, then continue.
PeekFailover(item) ==
  /\ item.kind \in FailoverErrors
  /\ attempt < chain
  /\ pc' = "drain"
  /\ resume' = "begin"
  /\ UNCHANGED <<sentinelSeen, wire, fed>>

\* Mutant: return without an error event.
PeekErrorSilently(item) ==
  /\ item.kind \in Errors
  /\ item.kind \in FailoverErrors => attempt = chain
  /\ pc' = "return"
  /\ UNCHANGED <<sentinelSeen, resume, wire, fed>>

\* Any other error: an error event, then return.
PeekError(item) ==
  /\ item.kind \in Errors
  /\ item.kind \in FailoverErrors => attempt = chain
  /\ pc' = "return"
  /\ wire' = "error"
  /\ UNCHANGED <<sentinelSeen, resume, fed>>

\* A ping is neither a chunk nor an error: it is dropped.
PeekPing(item) ==
  /\ item.kind = "ping"
  /\ sentinelSeen' = "no"
  /\ pc' = "loop"
  /\ UNCHANGED <<resume, wire, fed>>

PeekChunk(item) ==
  /\ item.kind = "chunk"
  /\ sentinelSeen' = "no"
  /\ pc' = "loop"
  /\ Feed(item)
  /\ UNCHANGED resume

\* pipeline.finalize() closes the message, unless it is closed already; then
\* the session is saved.
Finalize ==
  /\ sentinelSeen' = "yes"
  /\ \E e \in {"content", NoEvent} : wire' = e
  /\ pc' = "save"

PeekSentinel(item) ==
  /\ item.kind = "sentinel"
  /\ Finalize
  /\ UNCHANGED <<resume, fed>>

Peek ==
  /\ Peeking
  /\ Get
  /\ LET item == Head(queue[attempt])
     IN \/ PeekFailover(item) \/ PeekError(item) \/ PeekPing(item)
        \/ PeekChunk(item) \/ PeekSentinel(item)
  /\ UNCHANGED <<chain, attempt, pump, held, pinger, pingAge, reported, client,
                 produced, failure, told, silence, stalled>>

TimedOut == queue[attempt] = <<>> /\ waitAge >= PingInterval

\* wait_for gave up: a ping, and a second wait without a timeout.
PeekTimeout ==
  /\ Runs("peek")
  /\ TimedOut
  /\ pc' = "peekAgain"
  /\ wire' = "ping"
  /\ waitAge' = 0
  /\ UNCHANGED <<chain, attempt, sentinelSeen, resume, taskVars, reported, client, historyVars>>

\* The item after a failover error, or 5 s without one; then continue.
Drain ==
  /\ Runs("drain")
  /\ IF queue[attempt] # <<>>
       THEN queue' = [queue EXCEPT ![attempt] = Tail(@)]
       ELSE waitAge >= 1 /\ UNCHANGED queue
  /\ Leave
  /\ UNCHANGED <<chain, attempt, sentinelSeen, resume, waitAge, wire, pingAge, reported, client,
                 historyVars>>

LoopChunk(item) ==
  /\ item.kind = "chunk"
  /\ Feed(item)
  /\ UNCHANGED <<pc, sentinelSeen, reported>>

LoopPing(item) ==
  /\ item.kind = "ping"
  /\ wire' = "ping"
  /\ UNCHANGED <<pc, sentinelSeen, reported, fed>>

\* An error event, then return.
LoopError(item) ==
  /\ item.kind \in Errors
  /\ reported' = (reported \/ item.kind \in ServerErrors)
  /\ wire' = "error"
  /\ pc' = "return"
  /\ UNCHANGED <<sentinelSeen, fed>>

LoopSentinel(item) ==
  /\ item.kind = "sentinel"
  /\ Finalize
  /\ UNCHANGED <<reported, fed>>

Loop ==
  /\ Runs("loop")
  /\ Get
  /\ LET item == Head(queue[attempt])
     IN LoopChunk(item) \/ LoopPing(item) \/ LoopError(item) \/ LoopSentinel(item)
  /\ UNCHANGED <<chain, attempt, resume, pump, held, pinger, pingAge, client,
                 produced, failure, told, silence, stalled>>

LoopTimeout ==
  /\ Runs("loop")
  /\ TimedOut
  /\ wire' = "ping"
  /\ waitAge' = 0
  /\ UNCHANGED <<chain, pc, attempt, sentinelSeen, resume, taskVars, reported, client, historyVars>>

\* The error event has been taken: return.
Return ==
  /\ Runs("return")
  /\ Leave
  /\ UNCHANGED <<chain, attempt, sentinelSeen, resume, waitAge, wire, queue, pingAge, reported, client,
                 historyVars>>

\* save_session_state() has returned: return.
Save ==
  /\ Runs("save")
  /\ Leave
  /\ UNCHANGED <<chain, attempt, sentinelSeen, resume, waitAge, wire, queue, pingAge, reported, client,
                 historyVars>>

\* await task
AwaitPump ==
  /\ Runs("await")
  /\ pump[attempt] = "done"
  /\ pc' = resume
  /\ UNCHANGED <<chain, attempt, sentinelSeen, resume, waitAge, wire, taskVars, reported, client,
                 historyVars>>

-----------------------------------------------------------------------------
(***************************************************************************)
(* The client, and StreamingResponse between it and gen().                 *)
(***************************************************************************)
ClientTakes ==
  /\ wire # NoEvent
  /\ client = "reading"
  /\ told' = (told \/ wire = "error")
  /\ wire' = NoEvent
  /\ silence' = 0
  /\ waitAge' = 0
  /\ UNCHANGED <<chain, pc, attempt, sentinelSeen, resume, taskVars, reported, client,
                 produced, fed, failure, stalled>>

ClientLeaves ==
  /\ MayDisconnect
  /\ client = "reading"
  /\ client' = "gone"
  /\ UNCHANGED <<genVars, wire, taskVars, reported, historyVars>>

\* gen() has begun its loop, and ends early: by CancelledError while it waits,
\* or by GeneratorExit at a yield.  An ending that has begun goes on.
Waiting ==
  \/ pc \in {"peek", "peekAgain", "loop", "drain"} /\ queue[attempt] = <<>>
  \/ pc = "save"

GenInterrupted ==
  /\ client = "gone"
  /\ attempt > 0
  /\ wire # NoEvent \/ Waiting
  /\ wire' = NoEvent
  /\ Leave
  /\ resume' = "ended"
  /\ UNCHANGED <<chain, attempt, sentinelSeen, waitAge, queue, pingAge, reported, client, historyVars>>

\* The first yield is outside every try.
GenDropped ==
  /\ client = "gone"
  /\ attempt = 0
  /\ wire # NoEvent
  /\ wire' = NoEvent
  /\ pc' = "ended"
  /\ UNCHANGED <<chain, attempt, sentinelSeen, resume, waitAge, taskVars, reported, client, historyVars>>

-----------------------------------------------------------------------------
(***************************************************************************)
(* Time.  Timers fire when they are due, before time goes on, unless the   *)
(* event loop stalls.                                                      *)
(***************************************************************************)
GenWaits == pc \in {"peek", "peekAgain", "loop", "drain"} /\ wire = NoEvent

TimerDue ==
  \/ \E a \in Attempts : PingerDue(a)
  \/ GenWaits /\ \/ pc \in {"peek", "loop"} /\ waitAge >= PingInterval
                 \/ pc = "drain" /\ waitAge >= 1

\* A task that can run does not wait for time to pass.
Ready ==
  \/ \E a \in Attempts : (pump[a] \in DOMAIN AfterPut \/ pinger[a] = "putting") /\ Room(a)
  \/ GenWaits /\ queue[attempt] # <<>>
  \/ wire = NoEvent /\ pc \in {"begin", "save", "return"}
  \/ pc = "await" /\ pump[attempt] = "done"

UpTo(n, cap) == IF n < cap THEN n + 1 ELSE cap

Tick ==
  /\ ~Ready
  /\ LoopStalls \/ ~TimerDue
  /\ pingAge' = [a \in Attempts |-> IF pinger[a] = "sleeping" THEN UpTo(pingAge[a], PingEvery)
                                    ELSE pingAge[a]]
  /\ waitAge' = IF GenWaits THEN UpTo(waitAge, PingInterval) ELSE waitAge
  /\ silence' = IF GenWaits THEN UpTo(silence, MaxSilence) ELSE silence
  /\ stalled' = (stalled \/ TimerDue)
  /\ UNCHANGED <<chain, pc, attempt, sentinelSeen, resume, wire, queue, pump, held, pinger, reported,
                 client, produced, fed, failure, told>>

UpstreamStep(a) ==
  \/ PumpChunk(a)
  \/ \E e \in Errors : PumpFails(a, e)
  \/ PumpEnds(a)

TaskStep(a) == PumpPuts(a) \/ PingerWakes(a) \/ PingerPuts(a)

GenStep ==
  \/ BeginAttempt \/ Peek \/ PeekTimeout \/ Drain
  \/ Loop \/ LoopTimeout \/ Return \/ Save \/ AwaitPump
  \/ GenInterrupted \/ GenDropped

Next ==
  \/ \E a \in Attempts : UpstreamStep(a) \/ TaskStep(a)
  \/ GenStep
  \/ ClientTakes \/ ClientLeaves
  \/ Tick

Spec == Init /\ [][Next]_vars

(***************************************************************************)
(* Fairness: the event loop runs every ready task and time passes; a       *)
(* client that stays reads what it is sent.  asyncio.Queue wakes blocked   *)
(* putters first come first served, so the pump, which may wait for room   *)
(* beside the ping scheduler, gets its turn (SF).  Nothing is assumed of   *)
(* the upstream, whose answers no timeout bounds (Timeout(read=None)).     *)
(***************************************************************************)
FairSpec ==
  /\ Spec
  /\ \A a \in Attempts : SF_vars(PumpPuts(a)) /\ WF_vars(PingerWakes(a) \/ PingerPuts(a))
  /\ WF_vars(GenStep)
  /\ WF_vars(ClientTakes)
  /\ WF_vars(Tick)

-----------------------------------------------------------------------------
(***************************************************************************)
(* Properties                                                              *)
(***************************************************************************)
ItemType == [kind : {"chunk", "ping", "sentinel"} \cup Errors, n : 0..MaxChunks]

TypeOK ==
  /\ pc \in {"begin", "peek", "peekAgain", "drain", "loop", "save", "return", "await",
             "ended", "crashed"}
  /\ chain \in Attempts
  /\ attempt \in 0..chain
  /\ sentinelSeen \in {"unbound", "no", "yes"}
  /\ resume \in {"begin", "ended"}
  /\ waitAge \in 0..PingInterval
  /\ wire \in {NoEvent, "message_start", "content", "ping", "error"}
  /\ queue \in [Attempts -> Seq(ItemType)]
  /\ \A a \in Attempts : Len(queue[a]) <= QueueSize
  /\ held \in [Attempts -> ItemType]
  /\ pump \in [Attempts -> {"none", "reading", "putting", "failing", "ending", "done"}]
  /\ pinger \in [Attempts -> {"none", "sleeping", "putting", "done"}]
  /\ pingAge \in [Attempts -> 0..PingEvery]
  /\ {reported, told, stalled} \subseteq BOOLEAN
  /\ client \in {"reading", "gone"}
  /\ produced \in 0..MaxChunks
  /\ fed \in Seq(0..MaxChunks)
  /\ failure \in Errors \cup {"none"}
  /\ silence \in 0..MaxSilence

Over == pc \in {"ended", "crashed"}

\* The pipeline is fed the upstream's chunks in order, and, when the response
\* is finalized, every one of them: whatever pings, a full queue and a slow
\* client do in between (pump, _ping_scheduler, the drain loop).
ChunksAllFed ==
  /\ \A i \in DOMAIN fed : fed[i] = i
  /\ pc = "save" => Len(fed) = produced /\ failure = "none"

\* A client that stays to the end of the response has been told of the
\* failure of the upstream, unless the failure called for failover.
FailureIsTold ==
  Over /\ client = "reading" /\ wire = NoEvent /\ failure # "none" /\ resume = "ended" => told

\* When the generator has ended in order, none of its tasks is left.
NoTaskOutlivesResponse ==
  pc = "ended" =>
    \A a \in Attempts : pump[a] \in {"none", "done"} /\ pinger[a] \in {"none", "done"}

\* While it waits for the upstream, gen() sends something within twice the
\* scheduler's period, whatever happened before: at most one ping is dropped
\* as the first item, and timers are on time.
PingsBreakSilence == ~stalled => silence <= 2 * PingEvery

\* Once the upstream has answered to its end, the response ends, unless the
\* client goes away: a full queue, pings and a slow client do not block it.
ResponseEnds ==
  \A a \in Attempts : (pump[a] \in {"ending", "done"}) ~> (Over \/ client = "gone")

\* Once the finally clause has cancelled the tasks, the generator and its
\* tasks end, though the pump still has to put SENTINEL, if there is room.
CleanUpEnds ==
  \A a \in Attempts :
    (pc = "await" /\ attempt = a /\ Room(a)) ~> (pc = resume /\ pump[a] = "done")

\* An attempt that meets a failover status while there is another spec is
\* followed by an attempt with that spec.
FailsOver == \A a \in Attempts : (pc = "drain" /\ attempt = a) ~> (attempt > a)

\* A response whose client is gone leaves nothing running.
DisconnectFreesTasks ==
  (client = "gone") ~> \A a \in Attempts : pump[a] \in {"none", "done"}
                                           /\ pinger[a] \in {"none", "done"}

=============================================================================
