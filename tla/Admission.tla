------------------------------ MODULE Admission -----------------------------
(***************************************************************************)
(* What a request meets before its handler: the middleware stack that      *)
(* app.py assembles, with the layers that count (load shedding, rate       *)
(* limiting) and the layers that only look at the request.                 *)
(*                                                                         *)
(* Everything runs on one event loop, and a layer is suspended only where  *)
(* it awaits something: the layer inside it, or a reply of Redis.  The     *)
(* check of the load and the increment of the counter have no such point   *)
(* between them (the asyncio.Lock is never contended: nothing is awaited   *)
(* while it is held), and neither have the look at a bucket and the append *)
(* to it.  So each of these is one action.                                 *)
(***************************************************************************)
EXTENDS Integers, Sequences, FiniteSets, SequencesExt

CONSTANTS
  Requests,       \* the requests, each sent once
  Keys,           \* rate-limit keys: a user id, or else the client's address
  Offered,        \* what a request may be: its kind, key and path
  Limits,         \* values of rate_limit_rpm (rpm_limit); 0 is no limit
  Setups,         \* configurations to start from
  Window,         \* the 60 seconds of a window
  TicksPerSecond, \* time.time() has fractions, Retry-After has not
  MaxTime,        \* bound: when the clock stops, for each limiter
  MaxQueueDepth,  \* LoadSheddingConfig.max_queue_depth
  RollingWindow,  \* LoadSheddingConfig.rolling_window_size
  ResponseTimes,  \* milliseconds a handler may take
  FastMs, SlowMs, \* fast_response_threshold_ms, and the 500 of the threshold
  None

RequestKinds == {"plain", "keyless", "badUrl", "tooLarge"}
RequestType ==
  [kind : RequestKinds, key : Keys, path : {"/v1/messages", "other"}]

ASSUME AdmissionAssumption ==
  /\ IsFiniteSet(Requests)
  /\ Limits \subseteq Nat
  /\ Offered \subseteq RequestType
  /\ {Window, TicksPerSecond, RollingWindow} \subseteq Nat \ {0}
  /\ {MaxQueueDepth, FastMs, SlowMs} \cup ResponseTimes \subseteq Nat
  /\ MaxTime \in [{"sliding", "memory", "redis", "sqlite"} -> Nat]
  /\ None \notin Nat

VARIABLES
  limiter,  \* "sliding" (RateLimiterMiddleware) or the engine in use
  limit,    \* the configured limit
  shedding, \* is LoadSheddingMiddleware installed?
  now,
  hits,     \* _requests or _rate_limits: the time stamps of each key
  counter,  \* Redis: the counter of each key and when it expires
  reply,    \* what INCR returned to each request
  active,   \* _active_requests
  times,    \* _response_times
  pc,       \* where each request is
  sent,     \* what each request is: its kind, key and path
  outcome   \* history: what the limiter made of it, when, and its Retry-After

serverVars == <<limiter, limit, shedding>>
limiterVars == <<hits, counter, reply, outcome>>
loadVars == <<active, times>>
vars == <<serverVars, now, limiterVars, loadVars, pc, sent>>

Span == Window * TicksPerSecond

(***************************************************************************)
(* create_storage_engine: RedisStorageEngine() does not connect, so a dead *)
(* Redis is chosen all the same; without a URL, or without the redis       *)
(* package, the engine is the in-memory one.                               *)
(***************************************************************************)
Engine(setting, hasUrl, importable) ==
  IF setting = "redis" /\ hasUrl /\ importable THEN "redis"
  ELSE IF setting = "sqlite" THEN "sqlite" ELSE "memory"

Engines ==
  {Engine(s, u, i) : s \in {"redis", "sqlite"}, u \in BOOLEAN, i \in BOOLEAN}

(***************************************************************************)
(* The stack.  create_app adds the layers in this order and Starlette puts *)
(* each new one outside the others; add_load_shedding_middleware() is for  *)
(* the application create_app has returned.                                *)
(***************************************************************************)
Added == <<"logging", "limiter", "body", "session", "audit", "timing",
           "suspicious", "ssrf", "auth", "headers">>

Stack == Reverse(IF shedding THEN Append(Added, "shedding") ELSE Added)

\* The kind of request that a layer answers by itself.
Refuses == [auth |-> "keyless", ssrf |-> "badUrl", body |-> "tooLarge"]

Position(layer) == CHOOSE i \in DOMAIN Stack : Stack[i] = layer

\* How many layers a request of kind k gets into on its way to the limiter.
Reaches(k) ==
  LET refusing == {i \in DOMAIN Stack :
                     Stack[i] \in DOMAIN Refuses /\ Refuses[Stack[i]] = k}
      stops == {i \in refusing : i < Position("limiter")}
  IN  IF stops = {} THEN Position("limiter")
      ELSE CHOOSE i \in stops : \A j \in stops : i <= j

Outcome(verdict, time, retry) ==
  [verdict |-> verdict, time |-> time, retry |-> retry]
Undecided == Outcome("none", None, 0)

Init ==
  /\ limiter \in Engines \cup {"sliding"}
  /\ limit \in Limits
  /\ shedding \in BOOLEAN
  /\ [limiter |-> limiter, limit |-> limit, shedding |-> shedding] \in Setups
  /\ now = 0
  /\ hits = [k \in Keys |-> <<>>]
  /\ counter = [k \in Keys |-> [value |-> 0, expires |-> 0]]
  /\ active = 0
  /\ times = <<>>
  /\ reply = [r \in Requests |-> 0]
  /\ pc = [r \in Requests |-> "new"]
  /\ sent = [r \in Requests |-> None]
  /\ outcome = [r \in Requests |-> Undecided]

\* Where the load shedder waits for the layers inside it.
Inside == {"down", "limiter", "storage", "reply", "handling", "refused"}

Goes(r, from, to) == pc[r] = from /\ pc' = [pc EXCEPT ![r] = to]
Decided(r, verdict, retry) ==
  outcome' = [outcome EXCEPT ![r] = Outcome(verdict, now, retry)]
-----------------------------------------------------------------------------
(***************************************************************************)
(* Load shedding.                                                          *)
(***************************************************************************)
Total == FoldLeft(LAMBDA sum, t : sum + t, 0, times)

\* avg_response_time_ms against a bound, without the division; it starts at 0.
AverageBelow(bound) == times = <<>> \/ Total < bound * Len(times)
AverageAbove(bound) == times # <<>> /\ Total > bound * Len(times)

QueueThreshold ==
  IF AverageBelow(FastMs) THEN (3 * MaxQueueDepth) \div 2
  ELSE IF AverageAbove(SlowMs) THEN MaxQueueDepth \div 2
  ELSE MaxQueueDepth

\* hot: the CPU or the memory is above its threshold.
ShouldShed(hot) == hot \/ active >= QueueThreshold

Arrive(r, offer, hot) ==
  /\ sent' = [sent EXCEPT ![r] = offer]
  /\ \/ /\ shedding /\ ShouldShed(hot)
        /\ Goes(r, "new", "done")
        /\ UNCHANGED active
     \/ /\ ~(shedding /\ ShouldShed(hot))
        /\ Goes(r, "new", "down")
        /\ active' = IF shedding THEN active + 1 ELSE active
  /\ UNCHANGED <<serverVars, now, limiterVars, times>>

\* Through the layers that look at the request only, as far as it gets.
Descend(r) ==
  /\ Goes(r, "down", IF Stack[Reaches(sent[r].kind)] = "limiter"
                     THEN "limiter" ELSE "refused")
  /\ UNCHANGED <<serverVars, now, limiterVars, loadVars, sent>>

Recorded(ms) ==
  IF Len(times) < RollingWindow THEN Append(times, ms)
  ELSE Append(Tail(times), ms)

Release == active' = IF shedding /\ active > 0 THEN active - 1 ELSE active

\* The response starts: the load shedder is done with the request, and what
\* is left of it is the stream.
Respond(r, ms, streams) ==
  /\ pc[r] = "handling" \/ (pc[r] = "refused" /\ ~streams)
  /\ Goes(r, pc[r], IF streams THEN "streaming" ELSE "done")
  /\ times' = IF shedding THEN Recorded(ms) ELSE times
  /\ Release
  /\ UNCHANGED <<serverVars, now, limiterVars, sent>>

\* Mutant: no finally clause.
HandlerRaisesHeld(r) ==
  /\ Goes(r, "handling", "done")
  /\ UNCHANGED <<serverVars, now, limiterVars, loadVars, sent>>

HandlerRaises(r) ==
  /\ Goes(r, "handling", "done")
  /\ Release
  /\ UNCHANGED <<serverVars, now, limiterVars, times, sent>>

StreamEnds(r) ==
  /\ Goes(r, "streaming", "done")
  /\ UNCHANGED <<serverVars, now, limiterVars, loadVars, sent>>
-----------------------------------------------------------------------------
(***************************************************************************)
(* Rate limiting.                                                          *)
(***************************************************************************)
NotLimited(r) ==
  /\ Goes(r, "limiter", "handling")
  /\ limit = 0 \/ (limiter = "sliding" /\ sent[r].path # "/v1/messages")
  /\ UNCHANGED <<serverVars, now, limiterVars, loadVars, sent>>

\* Where the first stamp after time t is: behind the last one, if there is none.
FirstAfter(stamps, t) ==
  CHOOSE i \in 1 .. (Len(stamps) + 1) :
    /\ \A j \in 1 .. (i - 1) : stamps[j] <= t
    /\ i <= Len(stamps) => stamps[i] > t

\* Mutant: ticks are taken for seconds.
FreshForSeconds(stamps) ==
  SubSeq(stamps, FirstAfter(stamps, now - Window), Len(stamps))

\* The stale stamps go from the left, up to the first that is not.  The clock
\* does not go back, so this is also what the filter of the memory engine leaves.
Fresh(stamps) == SubSeq(stamps, FirstAfter(stamps, now - Span), Len(stamps))

\* Mutant: the time since the oldest request, not what is left of its window.
RetryAfterElapsed(bucket) ==
  LET elapsed == (now - bucket[1]) \div TicksPerSecond
  IN  IF elapsed > 1 THEN elapsed ELSE 1

RetryAfter(bucket) ==
  LET left == (Span - (now - bucket[1])) \div TicksPerSecond
  IN  IF left > 1 THEN left ELSE 1

\* RateLimiterMiddleware: only admitted requests are remembered.
SlidingCheck(r) ==
  LET key == sent[r].key
      bucket == Fresh(hits[key])
  IN  /\ limiter = "sliding" /\ limit > 0
      /\ pc[r] = "limiter" /\ sent[r].path = "/v1/messages"
      /\ \/ /\ Len(bucket) >= limit
            /\ Goes(r, "limiter", "refused")
            /\ hits' = [hits EXCEPT ![key] = bucket]
            /\ Decided(r, "limited", RetryAfter(bucket))
         \/ /\ Len(bucket) < limit
            /\ Goes(r, "limiter", "handling")
            /\ hits' = [hits EXCEPT ![key] = Append(bucket, now)]
            /\ Decided(r, "admitted", 0)
      /\ UNCHANGED <<serverVars, now, counter, reply, loadVars, sent>>

Verdict(count) == IF count > limit THEN "limited" ELSE "admitted"
AfterVerdict(count) == IF count > limit THEN "refused" ELSE "handling"

\* InMemoryStorageEngine.increment_rate_limit: refused requests count too.
MemoryCheck(r) ==
  LET key == sent[r].key
      stamps == Fresh(Append(hits[key], now))
  IN  /\ limiter = "memory" /\ limit > 0
      /\ Goes(r, "limiter", AfterVerdict(Len(stamps)))
      /\ hits' = [hits EXCEPT ![key] = stamps]
      /\ Decided(r, Verdict(Len(stamps)), 0)
      /\ UNCHANGED <<serverVars, now, counter, reply, loadVars, sent>>

\* SQLiteStorageEngine.increment_rate_limit counts nothing and returns 1.
SqliteCheck(r) ==
  /\ limiter = "sqlite" /\ limit > 0
  /\ Goes(r, "limiter", AfterVerdict(1))
  /\ Decided(r, Verdict(1), 0)
  /\ UNCHANGED <<serverVars, now, hits, counter, reply, loadVars, sent>>

RedisSend(r) ==
  /\ limiter = "redis" /\ limit > 0
  /\ Goes(r, "limiter", "storage")
  /\ UNCHANGED <<serverVars, now, limiterVars, loadVars, sent>>

\* Mutant: a counter that never expires.
IncrementedForever(c) ==
  [value |-> c.value + 1, expires |-> IF c.value > 0 THEN c.expires ELSE now + Span]

\* The transaction INCR, EXPIRE NX on the server.
Incremented(c) ==
  IF c.value > 0 /\ now < c.expires THEN [c EXCEPT !.value = @ + 1]
  ELSE [value |-> 1, expires |-> now + Span]

RedisExecutes(r) ==
  LET key == sent[r].key IN
  /\ Goes(r, "storage", "reply")
  /\ counter' = [counter EXCEPT ![key] = Incremented(@)]
  /\ reply' = [reply EXCEPT ![r] = Incremented(counter[key]).value]
  /\ Decided(r, Verdict(reply'[r]), 0)
  /\ UNCHANGED <<serverVars, now, hits, loadVars, sent>>

RedisReplies(r) ==
  /\ Goes(r, "reply", AfterVerdict(reply[r]))
  /\ UNCHANGED <<serverVars, now, limiterVars, loadVars, sent>>

\* No connection, or the reply is lost: the request goes on.
RedisFails(r) ==
  /\ pc[r] \in {"storage", "reply"}
  /\ Goes(r, pc[r], "handling")
  /\ outcome' = [outcome EXCEPT ![r].verdict = "open"]
  /\ UNCHANGED <<serverVars, now, hits, counter, reply, loadVars, sent>>

Tick ==
  /\ now < MaxTime[limiter]
  /\ now' = now + 1
  /\ UNCHANGED <<serverVars, limiterVars, loadVars, pc, sent>>

Quiet == (\A r \in Requests : pc[r] = "done") /\ UNCHANGED vars

RequestStep(r) ==
  \/ \E offer \in Offered, hot \in BOOLEAN : Arrive(r, offer, hot)
  \/ Descend(r)
  \/ NotLimited(r) \/ SlidingCheck(r) \/ MemoryCheck(r) \/ SqliteCheck(r)
  \/ RedisSend(r) \/ RedisExecutes(r) \/ RedisReplies(r) \/ RedisFails(r)
  \/ \E ms \in ResponseTimes, streams \in BOOLEAN : Respond(r, ms, streams)
  \/ HandlerRaises(r) \/ StreamEnds(r)

Next == Tick \/ Quiet \/ \E r \in Requests : RequestStep(r)

Spec == Init /\ [][Next]_vars
-----------------------------------------------------------------------------
(***************************************************************************)
(* Properties                                                              *)
(***************************************************************************)
LoadType ==
  /\ shedding \in BOOLEAN
  /\ active \in Nat
  /\ pc \in [Requests -> Inside \cup {"new", "streaming", "done"}]

\* The load shedder's counter is the number of requests inside it: no way out
\* (answer, refusal by an inner layer, exception) forgets the decrement or
\* makes it twice, and a request whose response has started is not counted.
ActiveIsExact ==
  active = IF shedding THEN Cardinality({r \in Requests : pc[r] \in Inside})
           ELSE 0

\* However fast the responses become and whatever is refused inside, there are
\* never more requests than one and a half times max_queue_depth.
LoadIsBounded == active <= (3 * MaxQueueDepth) \div 2

\* The two together, which no step of a request breaks.
LoadInvariant == LoadType /\ ActiveIsExact /\ LoadIsBounded

\* Requests of a key that the limiter decided on after time t, and in the window
\* that ends now.
Since(key, t) ==
  {r \in Requests : /\ outcome[r].time # None
                    /\ outcome[r].time > t
                    /\ sent[r].key = key}
Recent(key) == Since(key, now - Span)

Admitted(S) == {r \in S : outcome[r].verdict = "admitted"}

\* No key gets more than rpm_limit requests through in any 60 seconds; with the
\* fixed windows of Redis, which begin with a key's first request, no more than
\* twice as many.  SQLite does not count, and a storage error lets all through.
LimitHolds ==
  limit > 0 /\ limiter # "sqlite" =>
    \A key \in Keys :
      Cardinality(Admitted(Recent(key)))
        <= IF limiter = "redis" THEN 2 * limit ELSE limit

\* A request is refused only if its own key has used up the limit within the
\* last 60 seconds, with admitted requests (sliding), or with any (storage).
RefusalsAreDeserved ==
  [][\A r \in Requests :
       outcome[r].time = None /\ outcome'[r].verdict = "limited" =>
         LET others == Recent(sent[r].key)
         IN  Cardinality(IF limiter = "sliding" THEN Admitted(others) ELSE others)
               >= limit]_vars

\* Retry-After is cut to whole seconds, so a client may come back too early, by
\* less than a second; after that it is admitted, unless its key was admitted in
\* the meantime.
RetryAfterSuffices ==
  [][\A r, s \in Requests :
       /\ limiter = "sliding"
       /\ outcome[r].verdict = "limited"
       /\ outcome[s].time = None /\ outcome'[s].verdict = "limited"
       /\ sent[r].key = sent[s].key
       /\ now >= outcome[r].time + (outcome[r].retry + 1) * TicksPerSecond - 1
       => \E q \in Admitted(Recent(sent[r].key)) :
            outcome[q].time > outcome[r].time]_vars

\* The compatibility table promises the limit on SQLite as well.
LimitHoldsEverywhere ==
  limit > 0 => \A key \in Keys :
    Cardinality(Admitted(Recent(key)))
      <= IF limiter = "redis" THEN 2 * limit ELSE limit
=============================================================================
