# nvd-claude-proxy in TLA+

nvd-claude-proxy accepts requests of the Anthropic Messages API, translates
them into chat-completions requests of the NVIDIA API and translates the answers
back, as JSON or as a stream of Anthropic events.  This directory holds TLA+
modules translated from the Python source, the TLC configurations that check
them on small instances, and TLAPS proofs.  Paths below are relative to
`src/src/nvd_claude_proxy/` unless they begin with `src/`.

    tlc -config MCBreaker.cfg MCCircuitBreaker      # one run; the others likewise
    tlapm UpstreamProofs.tla                        # the proofs of one module

`PROJECT.json` lists components, runs, mutants, the map from definitions to
source lines, findings, hazards and theorems.

## 1. Inventory

| Component | Source | State it keeps | Operations |
|---|---|---|---|
| Circuit breaker | `util/circuit_breaker.py` | state, failures, last failure time, half-open slots, successes | `_before_call`, `_on_success`, `_on_failure`, `record_failure`, `force_open`, `force_close` |
| Streaming translation pipeline | `core/pipeline.py`, `core/processors.py`, `core/events.py` | `StreamState` (open block, indexes, flags, usage), tool accumulators, repetition counters | `feed`, `finalize` |
| Streaming response generator | `routes/messages.py:504-856` | failover position, queue and two tasks per attempt | the pump, the ping scheduler, peek, failover, drain loop, finalisation, the finally clause |
| Non-streaming handler | `routes/messages.py:153-502` | none of its own | idempotency lookup, failover walk, response translation, session save, idempotency record |
| Upstream client, SSE decoder | `clients/nvidia_client.py`, `util/sse.py` | retry counter, byte buffer | `chat_completions`, `astream_chat_completions`, `feed` |
| Legacy stream translator | `translators/stream_translator.py` | block state, tag holdback, thinking budget, tool buffers | `feed`, `finalize` |
| Sessions and storage | `services/storage/*.py`, `middleware/session_middleware.py`, `db/` | sessions, token totals, tool-id maps, idempotency records | lookup-or-create, load, save, `get/save_idempotency` |
| Rate limiting | `middleware/rate_limiter.py` and the storage engines | windows per key | window check in the middleware, `increment_rate_limit` |
| Tool naming and ids | `translators/tool_translator.py`, `tool_controller.py` | `ToolIdMap` both ways, renames, call order | `register_anthropic`, `openai_to_anthropic`, `anthropic_to_openai`, `register_tool_rename`, `is_declared`, `to_dict`, `from_dict` |
| Request translation | `translators/request_translator.py` | none | truncation, clamp of `max_tokens`, ordering of tool results |
| Transformer chain | `translators/transformers.py`, `services/session_service.py` | the transformers of a session | build, load, save, transform a request or a response |
| Registry, router, capabilities | `config/models.py`, `util/router.py`, `app.py` | the model table, reloaded on SIGHUP | load, resolve, failover chain, scenario, capability checks |
| Load shedding | `middleware/load_shedding.py` | active-request counter, response times | admit, release, threshold |
| Middleware stack, live monitor | `app.py` | the order of the layers; subscriber sockets | assemble; subscribe, broadcast |
| Command line | `cli/main.py` | the proxy process of a launcher, whatever holds the port | `ncp`, `ncp proxy`, `ncp kill` |
| Dashboard, security filters, schemas, auxiliary routes | `routes/`, `middleware/security.py`, `schemas/` | rows for display | checks, display |

How they interact.  A launcher (`ncp`) starts the proxy, or finds one on its port.
A request passes the middleware (load shedder, checks, session, rate limit), and
the handler routes it to a model of the registry, loads its session's tool map and
transformers, translates it, and asks the breaker for admission.  A non-streaming request then runs inside
`CircuitBreaker.call()`.  A streaming request only runs `_before_call()` and
returns `StreamingResponse(gen())`.  `gen()` starts, for each upstream model it
tries, a *pump* task that puts upstream chunks into a bounded queue and a *ping
scheduler* that puts pings into the same queue, and takes items from the queue,
feeds chunks to the pipeline and yields the events; a slow client suspends it
at the yield.  At the end the session (tokens, tool map) is saved.  The breaker
is shared by all requests of the process, the storage engine by all requests,
the queue by three tasks.

What is hard about it: results that reach the breaker after its state changed,
ended requests it never hears of, and slots nobody gives back; fragments of
several tool calls, text and reasoning in any order, translated by five lazily
consumed generators that share mutable state; three tasks and a client around a
bounded queue, with two kinds of timer, failover and cancellation at any
suspension point; concurrent read-modify-write of one session; retries of
requests that have been executed; tags and separators cut anywhere by the
network; a registry replaced under the requests that use it; processes that
share a port and get signals they do not expect.

What makes each component correct:

* breaker: it opens on consecutive failures and only then; a half-open period
  admits a bounded number of probes, closes after enough successes; the circuit
  recovers with the upstream;
* pipeline: whatever the upstream sends, the client receives a legal Anthropic
  stream in which every argument fragment is in the block of its tool and no
  tool call is missing that was not overwritten; the stream ends;
* generator: every chunk is fed once and in order; failures reach the client or
  lead to the next model; no task outlives the response; the client is never
  left in silence; the response ends;
* sessions: token totals add up, no id mapping is lost, a key has one session and
  sees its own ids, a retried request is executed once;
* limits: no more than the configured number of requests per window, refusals
  with a reason, a load counter that never drifts;
* client: the events decoded are the events sent, and a POST is repeated only when
  that may help;
* routing: one request goes down one chain, whatever is reloaded, and what the
  proxy adds to a request stays between it and the model;
* launcher: nothing it started is left when it ends;
* translation: ids survive the round trip, every tool result has its call, the
  token budget fits the model.

## 2. What is modelled

### CircuitBreaker.tla

One variable per field of the breaker, `pc` for the requests, `upstream` for
the NVIDIA API.  Every method body of the breaker holds its lock without
awaiting, so each is one action.  `Admit` is `_before_call` (a refused request
changes nothing).  `CallSucceeds`, `CallFails` and `CallCancelled` are the three
ways out of `call()`: the third runs neither handler because `CancelledError` is
not an `Exception`.  `StreamSucceeds`, `StreamFailsFirst`, `StreamFailsLater` and
`StreamCancelled` are the ways out of `gen()` as the breaker sees them: only the
third tells it anything.  `ForceOpen` and `ForceClose` are the operator's
methods, which nothing in the repository calls, so a constant enables them.

The counters saturate at the constant they are compared with, and time is the
age of `last_failure_time` in ticks, saturated one past `recovery_timeout`:
the code makes no other use of either.  `time.time()` is assumed not to go back.

History variables record what the requests experienced (`failRun`, `trialsOk`),
what the breaker was told (`probesOk`, `quiet`), what it let through (`trials`)
and how the requests ended that it was not told of (`unheard`).  The
properties compare the breaker with that history.

### StreamPipeline.tla and AnthropicStream.tla

`AnthropicStream` is the abstract promise: an acceptor of the event sequences
the Messages API allows.  `StreamPipeline` is `Pipeline.feed` and `finalize` with
the five processors.  The generators are consumed lazily, so the module has
a program counter (`stage`, and `k` for the inner loops), one action per processor
part that may yield, and `out`, the yielded events that the client has not
received: nothing runs until `out` is empty.  `Received` is what an SDK
accumulates from the events.  Texts are single tokens (with or without a
hallucinated tag), arguments are counted in fragments, a chunk says which fields
of its delta are present.  The keys `id` and `name` of a tool delta are absent, null
or empty, or given: `Merged` overwrites what an earlier delta said whenever the key
is there, as the code does, and keeps in the history field `known` whether the
call ever had an id and a declared name.  Whether a tool name is declared
(`ToolInvocationController.is_declared`) is a constant set.  Character-based
token estimates become fragment counts, so `FinalOutput` keeps the shape of the
reconciliation rule, not its figures.  The thinking budget is absent because
nothing on this path sets `thinking_budget_hit`.

`HonoursContract` is refinement of `AnthropicStream` by the pipeline under a
mapping of what the client has accumulated.  The abstract module is
parameterised by `lenient`, and the mapping makes it the history flag
`irregular`: from the moment the upstream sends content while a tool block is
open, or breaks after its finish chunk, two departures are tolerated (see the
findings) and nothing else.  `AlwaysHonoursContract` is the same refinement
without tolerance.

### MessageStream.tla

`gen()` with its tasks.  Each attempt has its own queue, pump and ping scheduler,
so tasks that nobody cancelled keep running in the model as they do in the
program.  An action is what a task does between two suspension points.  `wire`
is the event `gen()` is suspended with.  The finally clause is `Leave`: it
reads `sentinel_seen`, which is unbound until the first item has been looked
at, and raises then.  `CancelPump` is `task.cancel()` on a task whose own finally
clause awaits `queue.put(SENTINEL)`.  What the pipeline makes of a chunk is some
event or none; StreamPipeline is the module about that.

Time is in units of 5 s: the scheduler sleeps 2 units, `_PING_INTERVAL_SECONDS`
is 3.  Ready tasks run before time passes (`Ready`), and timers are on time
unless `LoopStalls`.

### Conversation.tla

The attempts (HTTP requests) of several clients around what outlives them: the
`sessions` table, the session state of the configured storage engine, and the
idempotency cache.  `pc[a]` is the `await` where attempt `a` stands, and an
action runs from one suspension to the next:

    session -> insert       SessionMiddleware: select, then insert the key's row
    lookup                  get_idempotency: Replay, Mismatch or NotRecorded
    load                    the session's ToolIdMap, or a fresh one
    call                    the upstream; CallFailsOver walks spec_chain
    saving -> writing       save_session_state: read, then write back
    recording               save_idempotency

The three engines differ in where they suspend, so `engine` is chosen in `Init`.
The memory engine has no `await` that suspends: `SaveState` is one action, and
an attempt that is `Unsuspended` moves before any other.  It also stores the very
dictionaries of the attempt's `ToolIdMap` (`ref`, `heap`), so that concurrent
attempts of a session share one map.  SQLite and Redis read and write back in two
actions (`ReadState`, `WriteState`), and SQLite writes only the columns that
changed (`Written`).  `StorageFails` is an exception of an engine or of the
database, `RecordFails` the one Redis swallows; `SessionExpires` and
`RecordExpires` are the times to live; `Restart` kills every attempt and empties
what each engine keeps in memory.  A failover replaces the loaded map by a fresh
one, as `routes/messages.py:388` does.

Data: an upstream response has one tool call and costs one token; an Anthropic
tool id is the attempt that made it up; a body is a model value, equal when the
hashes are.  The transformer settings travel with the tool ids and are left out,
and so are ids registered from a request's history.  The idempotency cache is looked
up by the client's key alone (`Recorded`, `Matches`), so a record may be replayed to
another session than its own.  A stream ends here as
MessageStream says: no failover, saved after its last event, never recorded.

### ToolDialogue.tla

One conversation, request after request, as the tools see it: the client's
history, `translate_request` over it, the upstream's tool calls,
`translate_response` (or ToolProcessor, when the request streams), the client's
results, the next request.  `phase` says which of the code's loops runs and
`cursor` is its variable; an action is one iteration:

    client --Ask--> messages (TranslateMessage) --MessagesDone--> tools (MapTool)
      --ToolsDone--> fitting (DropMessage, SimplifyTools, DropTool; Overflow)
      --Send--> upstream --Respond--> response (NextCall) --Finish--> reading
      --Continue--> client

`map` is the `ToolIdMap` of the request: both directions, and `originals` for the
renames.  `callOrder` is its `_call_order`, which `to_dict` leaves out, so it starts
empty with every request while the rest comes from the session (`store`), if
there is one.  `IdsFor` is `openai_to_anthropic`: a known upstream id keeps its
Anthropic id, another gets a new one (`new_tool_use_id` is assumed to be unique).
An upstream error saves nothing (`UpstreamFails`).  Answers have 0 to `MaxCalls`
calls of any names, also of tools that were not offered, and the client answers
them in any order.

Data: a name, an id and an estimate.  `sanitize_tool_name` is a constant
function and the tokens of a message and of a tool are constants, so that what
matters of the truncation and the clamp is exact: what is dropped, in which
order, and what is left for the answer.  `simplified` adds a token to a tool, as
the code does (see the divergences).  `Send` is followed in the code by
`transform_request`, where ExitTool, if the model has it, adds its schema and a reminder;
`Added` is what they cost (`ExitToolTokens`, 0 for other models), seen by neither `Estimate`
nor the clamp.  No other transformer makes a request longer.  Storage, failover and retries are
Conversation's subject and left out.

History variables: `full` is the translation before it was made to fit, `made`
the ids made up, `reused` says that the upstream used an id again while one map
lived, `names` the names declared in that time.

### Admission.tla

The middleware around the handler.  `Stack` is the order of the layers, computed
from the order in which `create_app` adds them and Starlette's rule that the layer
added last is outermost.  A layer that only looks at a request is a row of
`Refuses`; the two that count are modelled step by step:

    new --Arrive--> down --Descend--> limiter --(a check)--> handling --Respond--> streaming, done
         (shed: done)     (a layer refuses: refused)   (limited: refused)

`Arrive` is the load shedder's check with its increment, nothing awaited in between;
`Respond`, `HandlerRaises` and the end of a refusal are the ways out through its
finally clause, which runs when the response *starts*.  `QueueThreshold` is the
bound that moves with the rolling average, without the division.  The limiter is
`RateLimiterMiddleware` (`SlidingCheck`) or the distributed one over an engine:
`MemoryCheck` (a log of time stamps, refused requests included), `SqliteCheck` (the
constant 1), and Redis in three steps (`RedisSend`, `RedisExecutes`, `RedisReplies`)
with `RedisFails` between them, which admits the request.  `Engine` is the factory.
`now` is in fractions of a second, because Retry-After is in whole ones.

Whether CPU and memory are above their thresholds (`hot`) is nondeterministic.
`outcome` is history: what the limiter decided for a request, when, and its Retry-After.

### UpstreamClient.tla

One call of `chat_completions` with its retries, or of `astream_chat_completions`
with the bytes of its response cut anywhere.  `PostEnds` is one POST with any status
or exception; `Retried` has the code's two lists and `MayRetry` its attempt count.
`Receive(n)` hands the next *n* bytes to `SSEDecoder.decode`, whose `while` loop is two
actions: `DecodeEvent` is one turn of it, which cuts the buffer at the `Separator` that
comes first and takes the data lines out of the raw event (`DataOf`, over the lines
of `split` and `removesuffix`), and `DecodeReturns` is its `break`, which leaves the rest in
the buffer.  `TakeEvent` is one turn of the generator: `[DONE]` ends it, what
`json.loads` refuses is skipped.  The property compares with `Events`, a reader
that goes through the bytes received byte by byte, as the format is defined, and knows of
no buffer, chunk or separator.

A line is a few letters, the first of which stands for its field name, and the data of
an event is the sequence of its data lines; UTF-8 and JSON are abstracted to which
payloads parse.  `Texts` are streams with one kind of line end (`HasOneLineEnd`): the
decoder does not know a blank line whose two ends differ, see section 5.

### StreamTranslator.tla

The class the pipeline replaced, which the tests still exercise.  `feed()`
and `finalize()` run to their ends, so each is one step of the record `t`, the
translator's fields, and `t.out`, the events yielded.  The definitions follow
the methods: `Closed` and `Opened` for the blocks, `EmitText` and `EmitThinking`,
`Scanned` for the tag scanner with its holdback and `Turn` for a turn of its loop,
`Reasoning` with the budget, `Tool` with the repetition stop and the one tool that is
streamed, `Flushed` for the tools held to the end.  The loops, here and in `AllTools`
and `AllFlushed`, are recursive functions of the number of turns.  Text and arguments are sequences of pieces, and a tag
is two or three of them, so that it may be cut anywhere.  `HonoursContract` is the
refinement of `AnthropicStream` without tolerance: `lenient` is FALSE.
Transformers, and `finalize()` on a translator that was fed nothing, are left out.

### Routing.tla

A registry is what `Loaded` makes of a file (`load_model_registry`), and `Reload` is
the SIGHUP handler, which may run between any two steps of a request.  `Arrive`
covers what `messages()` does before its first `await` on storage: the scenario router
(`UseModel`), `Resolve`, the capability checks (`Lacks`) and the chain, all from one
registry.  `LoadSession` chooses the transformers, the session's or fresh ones, and
translates the first payload; `AttemptFails` is the failover walk, in which
`Overflows` is `ContextOverflowError`; `AttemptAnswers` delivers the answer through
ExitTool's `transform_response`; `Save` keeps the transformers for the session.

Names are model values with constant functions for "the name without its version" and
"its prefixes"; of the transformers only ExitTool changes which calls there are.
How MessageStream's failover ends is taken from there: a stream has one attempt.

### Launcher.tla

The processes of `ncp`.  A launcher `l` goes through `at[l]`, from the two health
checks over starting, waiting, preparing and running to stopping, as
`_run_proxy_and_claude` does; `proxy[l]` is its subprocess and `port` whose proxy
listens.  `After` is what a signal does to a proxy in each state, by uvicorn and the
SIGHUP handler; `FromTerminal` is Ctrl-C or a closed terminal, which reach the
launcher and its proxy, being of one process group.  `Interrupt` leads to the
finally clause only from `running`.  A health check may miss a proxy that is there,
so its failure is always possible.  `KillFinds`, `KillTerminates` and `KillEnds` are
`ncp kill` with the processes `lsof` shows.  Claude Code itself, banners, logs and
the other commands are left out.

The modules meet at these interfaces: the ways `gen()` ends are the
`Stream...` actions of CircuitBreaker; the chunks MessageStream counts are
those UpstreamClient decodes and StreamPipeline translates, in the order
`ChunksAllFed` guarantees; `PostEnds`, with what is left of the retries, is one call
of CircuitBreaker and one attempt of Routing; the map that ToolDialogue loads and
saves is the one Conversation's engines keep, beside the transformers of Routing;
the reload of Routing is the `HUP` of Launcher.

## 3. The runs

| Run | Expectation | What it shows |
|---|---|---|
| `breaker` (MCBreaker) | holds | the breaker opens, probes and closes on the evidence it has, and recovers from any outage all of which it was told |
| `breaker_streams` | `AlwaysRecovers` fails | probes that are streams are never answered: the circuit saturates |
| `pipeline` (MCPipeline) | holds | legal streams, no lost argument, no lost tool call but an overwritten one |
| `stream` (MCStream) | holds | chunks, failures, tasks, pings, termination of `gen()` |
| `stream_failover` | `FailsOver` fails | a failover status never leads to a second attempt |
| `conversation` (MCConversation) | holds | faithful replays, isolated sessions, token totals, tool maps, order of saving and recording |
| `dialogue` (MCDialogue) | holds | results follow their calls up to the cut of a truncation, fitting is minimal, the answer fits, ids are distinct, calls come back under the client's names |
| `admission` (MCAdmission) | holds | limits in every window, deserved refusals, Retry-After, an exact load counter |
| `upstream` (MCUpstream) | holds | the decoder against every split, retries justified and within budget |
| `translator` (MCTranslator) | holds | legal streams, no lost text, each tool call once |
| `routing` (MCRouting) | holds | the failover walk under reloads, ExitTool stays inside |
| `launcher` (MCLauncher) | holds | ends and kills leave no process, Ctrl-C in the end neither |

Bounds, and why they are enough.

* `breaker`: two calls and one stream, thresholds 3 and 2, two half-open slots,
  a pause of two ticks, with cancellation and operator control.  Late results need
  one request more than the slots a period hands out: two calls and the
  stream meet two slots.  Threshold 3 separates "one failure", "some" and "enough";
  threshold 2 separates the first probe from the last.
  `Recovers` promises something only where every result is heard, and a stream
  that goes well never is; but no fairness brings streams or cancels calls, so the run has
  fair behaviours with calls alone, and with streams that break off after their first
  item: the circuit opens, probes with both calls, reopens or closes, with late results
  and operator control.  They meet the condition, and the mutant of `OnFailure` under which
  a failed probe does not reopen the circuit breaks the property on one of them.  There is
  no symmetry reduction, as the property is a liveness one.
* `pipeline`: five chunks of eighteen kinds, two tools.  Five chunks make a
  head, an argument, something between, an argument and an end; each multi-tool
  order that matters (second tool before the first, name after arguments,
  undeclared name, a repeated key with null or empty value) is a kind of its own.  The limits of SafetyProcessor are scaled
  down (2 hallucinations, 1 repetition, windows of 2 and 3) so that the chunks
  reach them.
* `stream`: two models, a queue of two, three chunks.  A queue of two fills with
  one chunk and one ping; three chunks keep the pump blocked while the queue
  is full.  Silence is counted to 6 units, above the bound of 4.
* `conversation`: three attempts, so that two of one session race while a third of
  another session, or of none, uses the same idempotency key; four request
  contents that agree or differ in session, key, body and stream flag; every engine.
  One tool id of the upstream is enough because properties compare one entry
  at a time, and reuse of the same id is the interesting case; two models in
  the chain give one failover; one restart separates before from after.
  Attempts are interchangeable, and no property of the run is a liveness one.
* `dialogue`: two answers of up to two calls make a history with two pairs of
  assistant and user message, the least in which an id can come back, a rename can
  outlive its request and dropping the oldest message orphans a result (both happen: what is
  sent after a cut has results that follow their calls, and results that have lost them).  Four
  Anthropic ids are as many as are made up; two upstream ids are enough for
  reuse.  Three declarations: a name longer than 64 characters alone, with the name
  it is cut to, and with another.  A window of 12 with messages of 2, tools of 3 and
  a floor of 2 makes requests fit at once, after messages, after tools, and never;
  ExitTool's token is the whole headroom of 1, so the sum in `AnswerFits` is met exactly.
  Anthropic ids, and upstream ids, are interchangeable.
* `admission`: three requests of two clients.  A limit of 1 (and of 2 for the sliding
  window) is filled and passed; the window is two seconds of two ticks, and the clock
  goes on for a window and more, so that a stamp of exactly a window ago, a Redis
  window that expires between two commands, and an early return by less than a
  second all occur.  With the load shedder on, `max_queue_depth` is 2: the threshold
  is 1, 2 or 3 as the responses are slow, medium or fast, and three requests fill it.
  With three requests the counter cannot pass a threshold of 3, so that what the run says
  of it is that it equals the requests inside; its bound, for any number of requests, is
  a matter of the proof.
* `upstream`: two retries, so that a first, a middle and a last attempt differ; streams
  of up to four lines out of six, with either line end, cut into reads at every
  byte: an event on two lines, two events, a comment, `[DONE]` before data.
* `translator`: four chunks of sixteen kinds, two tools.  Tags come in up to three
  chunks, with other content between them; a budget of one token (four characters)
  is passed inside the second fragment; the stops are scaled as for
  `pipeline`.
* `routing`: two requests of one session or none, one reload between two files, the
  empty and the bundled one.  The files disagree about capabilities, defaults and
  failover order, name a model that does not exist, and one that is named twice.
* `launcher`: three terminals, two with one version and one after an upgrade, one `ncp
  kill`.  Two race for the port while the third reuses or finds a stale proxy.

Every run checks for deadlock.  What ends says so with a step of its own (`Ended` of
StreamPipeline, `Quiet` elsewhere); in MessageStream time goes on.

### Fairness

* CircuitBreaker: time passes; the clients of non-streaming requests come back, so an
  admissible call is eventually admitted, while nothing says that a streaming client ever
  comes; an admitted request ends.  The last is an assumption on
  the NVIDIA API, because the client sets no read timeout.
* MessageStream: ready tasks run, a client that stays reads, time passes.
  `asyncio.Queue` wakes blocked putters in order of arrival, so the pump, which
  competes with the ping scheduler for room, gets strong fairness.  Nothing is
  assumed of the upstream: `ResponseEnds` starts when its stream has ended.
* Launcher: a proxy that starts binds the port or exits, one that drains has
  clients that end, and the two waits of `_stop_proxy` have time limits.  Nobody is
  assumed to end Claude Code, to close a terminal or to run `ncp kill`.

The other modules state no fairness, and their runs no liveness.

## 4. The proofs

Every theorem is about the whole specification of its module and every value of its
constants that the module's assumption admits.  Each rests on an inductive
invariant: the property alone is seldom kept by every step, so a stronger one
is, one lemma per part or per action, and the theorem follows from it.
Where an argument goes by induction over a sequence, it is one about a least
counterexample: the provers cannot instantiate the induction theorems of the library,
but its theorem that a set of numbers has a least element they can use.

`UpstreamProofs`, for CircuitBreaker (positive thresholds and slot count, disjoint kinds
of requests): `TypeOK`, `CountersAreAccurate`, `ProbingIsBounded`, `OutageOpens`,
`EnoughSuccessesClose` and the three action properties.  `TypeOK /\
CountersAreAccurate` is inductive.  That a half-open period admits at most
`half_open_max_calls` requests depends on `halfOpenCalls` being the number it
admitted (`trials`) and being 0 outside such a period; that a closed circuit
has not seen too many failures depends on `failures` being the length of the
failure run while every result is heard; that probing starts only after quiet
depends on `last_failure_time` measuring the quiet.  `CountersAreAccurate` says
those things.  The action properties follow from it in the state before the step.

The same module, for UpstreamClient (streams of letters with one kind of line end, any
`max_retries`): `RetriesAreJustified` and `ChunksAsSent`.  The first rests on `Posting`,
where the loop of `chat_completions` is and how many POSTs have ended.  `ChunksAsSent` compares two
programs: the decoder, which searches a buffer for separators, cuts at them and splits what it
cut off, and the reader `Events`.  The invariant `Streaming` says where they
meet: there is a point `p` of the bytes received such that the buffer is what lies
behind it and the reader, having come to it, has neither a line nor data begun (`Between`), and the
generator has come to some number `t` of the events the reader found before it (`Taken`).
`ScanRaw` says that the reader, going over a raw event, gathers the data that
`DataOf` takes out of it, so that a turn of the loop moves `p` behind the next separator
(`ScanEvent`); `ScanNone`, that without a separator it finds no event to the end,
so that what waits in the buffer has hidden none.  Receiving moves nothing,
because the reader's state at `p` depends only on the bytes before it.
The reader and `DataOf` are recursive functions.  `Recursion` shows that there is such a
function and `Climb` is the induction along it, both by a least counterexample, so
what they compute is proved for byte strings of any length.

`ToolDialogueProofs` (numbers are natural, `Sanitized` maps names to names, the two
kinds of ids are disjoint): `TypeOK`, `AnswerFits` and `IdsDistinct`.
`AnswerFits` is inductive together with the types: `ClampFits` shows that the
clamp leaves `Estimate + maxTokens` within the window when `Fits` holds, the floor
`_MIN_OUTPUT` included, and `Headroom` besides where the floor has not taken it, which
covers what `Added` puts in afterwards if that is no more; and no step changes the payload between `Send` and the end of
the answer.  `IdsDistinct` is not inductive: a new call gets a fresh id only if its
upstream id is not in the map, and a fresh id differs from the others only if
those were made up here.  `MapIsSeen` and `IdsMade` say so, for the map of the
request and the one in the session, and `IdsInv`, the three together, is kept.

`FittingIsMinimal`, `CallsArrive` and `ResultsFollowCalls` have an invariant each.
`Fitting` says at every turn of the fitting loop what the property says of its end:
`messages` is `full` without a segment behind the system messages, the tools are
among the declarations that do not collide, and with one message or one tool more
the payload was too large.  It has to begin in the phases before, where the
tools are counted (`ToolsSoFar`).  `Naming` says that a map calls a tool by its own name
or by one declared in the map's life that is sanitised to it, and that the renames of
the request are in the map once its declarations were translated.  `Following` says that the
history alternates, that the ids of the messages translated so far are registered in the
order of their calls, and that the last message translated is the one whose calls the
next one answers.  Sorting the results by registration then puts the result of call
`u` at place `u` (`OrderKeepsPlaces`: a permutation that keeps the order is the
identity), which needs `IdsDistinct`.  That is about the translation, `full`.  What is sent is
`full` without a segment behind the system messages (`Fitting`, `SystemsFirst`), so a result that
follows its call in the one follows it in the other, unless the cut lies between them, and then
nothing but results is left before it (`CutOrFollows`): `Orphaned`, which `ResultsFollowCalls` names.

`MessageStreamProofs` (at least one model, a queue of at least one place): `TypeOK`,
`ChunksAllFed`, `FailureIsTold`, `NoTaskOutlivesResponse`, `PingsBreakSilence`.  The
heart is `Flow`,
which says what is on its way to `gen()`: the chunks after those already fed, in
order, in the queue or in the hand of a pump that waits for room; behind them the
failure, if there was one; behind that `SENTINEL`; and pings anywhere.  Taking,
putting and cancelling keep it, with lemmas about the queue after each.
`OneAttempt` says that attempts after the first have no tasks: the failover
branch raises before it starts any, which is the finding of `stream_failover`; the
proof of `NoTaskOutlivesResponse` uses it, and a repaired failover needs another.
`SilenceInv` relates three clocks: while an attempt is served its ping scheduler lives, and
sleeps or waits for room with its period over (`PingerAlive`); and, unless a
timer ran late, the silence of the client is at most the time the scheduler has slept,
one period more in the main loop, or a ping is in the queue (`BoundedSilence`).

`StreamPipelineProofs` (the chunks have the fields of `ChunkType`, declared tools have
names, the limits are positive): `ToolCallsArrive`, `OnlySafetyLeavesOpen`, and
`HonoursContract`, the refinement of `AnthropicStream`.  `IInv` has four parts.
`Types` and `Flow` say what each stage may find; `ToolFlow` follows the
calls to the flush, which closes every call that has an id and a declared name by then, in order;
a call that had both (`known`) and lost one is the exception `Overwritten` of `ToolCallsArrive`.
`Agreement` is the heart.  The
events in `out` take the client by legal events only (`Path`) to one that agrees
with the pipeline (`Agrees`): its phase with the flags, its last block with the open
block (`Stands`), its tool blocks with the accumulators (`Holds`).  A
processor yields only when `out` is empty, so its event goes to the end of the path,
where the client is what the pipeline takes it to be; a delivery takes the
path's first event, which is legal, and so is a step of `AnthropicStream`.

`ConversationProofs` (`None` is neither an attempt nor a request): `TypeOK`,
`ReplayIsFaithful`, `RetriesAreReplayed`, `RecordedIsSaved`, `SessionsIsolated`,
`TokensAddUp`, and the action property `MapOnlyGrows`.
`Stages` says what an attempt has by the time it stands at an `await`.  `Apart` says
that every `ToolIdMap` object, every stored map and every answer holds ids of its own
session, which has to include the objects, because the memory engine's sessions
share them.  `Sourced` says of every id a client was given that it was made up for its
session or for its own request, or came with the record of an attempt that sent the same key and
body, and that records hold nothing else.  `Recording`, `Replayed` and `Kept` follow one answer from its record to
its replays: a record is an answer that does not change any more, and a request that
comes later finds it unless it expired, was refused by the storage or went with the
process.
`Accounts` is for the last two: an uncontended session is in the hands of one attempt from its
load to its save (`Ownership`); the stored tokens are the number of attempts saved since
the session last expired, and never more than all of them (`Tallied`); the map
an attempt is about to save extends the stored one, or is the stored object (`Extending`).

`AdmissionProofs` (finitely many requests, natural thresholds): `LoadInvariant`,
`LimitHolds`, and the action properties `RefusalsAreDeserved` and `RetryAfterSuffices`.
For the load shedder, the counter is the cardinality of the set of requests inside, so each
action is a lemma about a set that gains one element, loses one or stays; every way out
has to go through the `finally`.  `LimiterInvariant` compares what the limiters keep
with what happened.  In process (`HitsAreExact`), the stamps of a key behind any time of the
window are as many as its requests since; the stamps are in order, so the
`deque` that drops its old end and the list that is filtered keep the same ones.  With
Redis (`CounterIsExact`), the counter is the number of requests since its window began,
at most the limit of them admitted, and as many at most in the time of a window before:
a window of any alignment meets two of the counter's, hence the factor 2 of `LimitHolds`.
`RetryIsEnough` says of a refusal that, of those admitted before it, fewer than the
limit are left in the window when its Retry-After is over.

`RoutingProofs`: `ExitToolStaysInside` and `WalkFollowsChain`.  `Sourced` says that a
session's settings name ExitTool only because an answered request of that session was
routed to a model that has it, and needs `Stages`, where each request is.
`WalkFollowsChain` rests on two facts about the registry: a name is always resolved to
one of its models (`ResolveType`), and a chain begins with that model and holds
models of the registry, no two with one alias (`ChainType`).  `WalkInv` says that a
request's attempts are a prefix of that chain, in the registry that was loaded when it
came, every one but the last ended by a transient error.

`MessageStreamProofs` ends with Launcher (any launchers and signals): `NothingIsLeft`.
What must be known besides is that a launcher that has not started a proxy has none
(`Idle`) and that `ncp kill` only goes after processes there are (`Hunted`).

`StreamTranslatorProofs` (any chunks of `ChunkType`, tools, budgets and positive
limits): `ContentArrives`, `CallsArriveOnce`, and `HonoursContract`, the refinement of
`AnthropicStream` with `lenient` FALSE.  Here a step is a whole `feed()`, a composition
of parts that end in loops; so each part is shown to do one thing for any
translator it may be handed, and these facts are composed as the calls are: `Speaks` and
`Emits` for a piece of text, `Scans` for a turn of the scanner and `Reads` for
`_scan_text`, `Thinks` for a fragment of reasoning, `Tooled` for an element of
`tool_calls`, `Flushes` for a call at the end, `Feeds` and `Ends` for `feed()` and
`finalize()`.  They speak of the client as it will be when it has everything on its way
(`After`): the events are legal from where it stands (`Lawful`), and it then agrees with
the translator about the last block and its number (`Agrees`); `Ready` says so.  The
invariant, `TranslatorInvariant`, is about that client (`Told`), so a delivery leaves it
alone, and what a delivery takes is legal, which is the refinement (`LegalDelivery`).

* `TextTold`: what is told, with what is held back behind it, is the text that came, or
  a part of it from the front once the stream was stopped.  A tag is not text and may lie
  in two chunks, so texts are compared apart from their tags (`Same`: the other pieces, in
  order, and how many more `<` than `think>`).  That is additive, and so
  holds wherever the text was cut (`TextMore`).
* `Budgeted`: the characters of reasoning told are those that came or, once the
  budget is spent, four times the budget exactly.
* `CallsTold`: while the calls come in the usual order, each has a block if it was
  started and none otherwise, with the arguments it has gathered, and the only
  one that may still grow is open (`InOrder`); once the finish chunk has come, every call
  that was due has arrived (`Arrived`).

That the recursive functions of the model exist, and that a fact kept from each
point to the next holds at the end, is again by least counterexample (`Recursion`,
`Climb`, `OneRun`).

The theorems about `TypeOK` and `EnoughSuccessesClose` are about definitions
that no run spends a property on.

Only model-checked is liveness (`Recovers`, `ResponseEnds`, `CleanUpEnds`,
`NoOrphanOfInterrupt`), which the proof system's temporal backend does not cover with
fairness and `ENABLED`.

Every other property of a run that passes, invariant, action property or refinement,
is a theorem.

## 5. What the code does otherwise than it says

Two disagreements have runs:

1. *Saturated breaker* (`breaker_streams`): a streaming request takes a half-open
   slot and success is never reported, so after `half_open_max_calls` streams
   every request is refused, the healthy upstream notwithstanding
   (`routes/messages.py:822`).
2. *Failover raises* (`stream_failover`): the finally clause reads `sentinel_seen`
   before its assignment (`routes/messages.py:805`), so a stream has one attempt.

Nine more are definitions of the modules that TLC refutes when they are added to
their module's run, and that stay out of the runs:

* `DisconnectFreesTasks` (MessageStream): a client that leaves before the first item
  leaves both tasks running, for the same reason;
* `AlwaysHonoursContract` (StreamPipeline): content between two argument fragments
  closes the tool block while the accumulator stays open, and later fragments go to
  a closed block (`core/processors.py:267`);
* `UsageComesFromUpstream` (StreamPipeline): the finish chunk finishes the stream,
  the usage chunk after it is ignored (`core/processors.py:77`);
* `KnownCallsArrive` (StreamPipeline): a later delta of a tool call that repeats the
  key `id` with null, or `name` with an empty string, erases what was known
  (`core/processors.py:209`).  A call that is streamed goes on; one that is buffered behind
  another is dropped at the flush without a trace, although the response stops for
  tool use.  `src/README.md:66` says that "parallel tool calls are correctly
  reconstructed".  The legacy translator tests the values for truth and keeps them;
* `AnswersStayInSession` (Conversation): the idempotency cache is keyed by the
  client's key alone (`routes/messages.py:167`), so who sends the key and body of another
  session's request gets that session's answer, with tool ids its own map does not know;
  `src/docs/DESIGN.md:16` says that each session has its own isolated `ToolIdMap`, and
  `src/docs/REMEDIATION_BLUEPRINT.md:94` lists the key's scope as a defect;
* `RequestsExecuteOnce` (Conversation): the idempotency cache is read before the
  upstream call and written after it (`routes/messages.py:167`), so only a retry
  that comes after the answer is deduplicated (`RetriesAreReplayed`);
* `StreamedCallsArrive` (ToolDialogue): ToolProcessor asks `is_declared` about
  the sanitised name, the schemas are keyed by the client's names
  (`core/processors.py:229`, `routes/messages.py:146`), although
  `translators/tool_controller.py:46` says they are sanitised.  An answer that is not
  streamed has no such check (`CallsArrive`);
* `LimitHoldsEverywhere` (Admission): with SQLite every request counts as the first
  (`services/storage/sqlite.py:69`), where `src/docs/ANTHROPIC_COMPAT.md:146` lists
  the per-client limit "via Redis/SQLite";
* `ToolsNeedSupport` (Routing): the loader puts the setting into `tools.supports`
  and never sets `supports_tools`, which the request handler reads
  (`config/models.py:138`, `routes/messages.py:285`), so a model without tools is
  sent tools.

Divergences and surprises the models contain, by module.

CircuitBreaker and MessageStream:

* an error met as the first item of a stream is not reported to the breaker
  (`StreamFailsFirst`);
* a ping that is the first item is dropped, so a client may wait 20 s, where
  `src/docs/ANTHROPIC_COMPAT.md:70` says every 15 s and `src/CHANGELOG.md:31`
  every 10 s; `PingsBreakSilence` has the bound that holds;
* an upstream that neither answers nor closes holds the request for ever
  (`clients/nvidia_client.py:29`);
* after a disconnect with a full queue the finally clause waits for the pump
  and the pump for room (`CleanUpEnds` is stated for a queue with room).

StreamPipeline:

* the connection breaking after the finish chunk yields an error event after
  `message_stop`;
* a stop by SafetyProcessor ends the stream without `message_delta` and
  `message_stop` (`OnlySafetyLeavesOpen` says nothing else does);
* a usage figure of 0 is not reconciled, the case its comment names
  (`core/processors.py:459`), and streamed argument fragments are counted twice.

Conversation:

* two requests of one session lose a token increment and a tool map on SQLite and
  Redis (`services/storage/sqlite.py:56`, `redis.py:49`); `TokensAddUp` and
  `MapOnlyGrows` hold outside that race, and `TokensAddUp` bounds the total in it;
* after a failover the session is saved with the fresh map of the fallback model,
  and the ids the session had are gone (`routes/messages.py:388`);
* of two first requests of a key, one is answered 500 (`InsertSession`);
* streams are never recorded for replay.

ToolDialogue:

* an upstream id that comes back later in a session gets the Anthropic id it had,
  although the docstring of `ToolIdMap` says upstream ids are per response;
* truncation drops messages one at a time, so an assistant message goes and the
  results of its tools stay, against the adjacency its neighbour asks for
  (`translators/request_translator.py:80` and `:275`); `ResultsFollowCalls` says that
  such orphans are at the head of a truncated history and nowhere else;
* the schema and the reminder of ExitTool are added to the payload after the estimate and the
  clamp (`translators/request_translator.py:450`), so they are paid from the headroom of
  8192 tokens, and not covered when the floor has used that up; the bundled models do not
  enable it;
* "simplifying" a tool sets a description beside the one inside `function`, which
  makes the estimate larger (`translators/request_translator.py:88`);
* a `max_tokens` below `_MIN_OUTPUT` is raised to it, where the comment says it is
  honoured (`translators/request_translator.py:361` and `:408`);
* the rename of a tool that is dropped as a duplicate is registered all the same,
  so a call of the tool that was kept comes back under the other's name
  (`translators/tool_translator.py:89`), and renames live on in the session;
  `CallsArrive` is stated for names that do not collide;
* tool calls of the history are sent upstream under the client's names, tools
  under sanitised ones (`translators/request_translator.py:195`).

Admission:

* `app.py:139` calls its order "Outermost -> Innermost", but Starlette runs the
  layer added last first: what an outer layer refuses is not logged, and is not
  counted by the limiter;
* a `storage_engine` of "redis" without a URL falls back to memory, where the
  warning says SQLite (`services/storage/factory.py:31`);
* Retry-After is truncated to whole seconds (`middleware/rate_limiter.py:41`), so
  `RetryAfterSuffices` allows for the second; the memory engine counts refused
  requests too, and the distributed limiter counts every path;
* the load shedder does not count running streams, and fast refusals lower the
  rolling average that raises its threshold (`middleware/load_shedding.py:146`).

UpstreamClient:

* the comment above the retry list says that a 429 is "worth one gentle try"
  (`clients/nvidia_client.py:17-19`); it is retried like the others, `max_retries` times;
* timeouts are not retried (`clients/nvidia_client.py:80`), though errors of the
  same cause are;
* a blank line whose two ends differ (`\n\r\n`) does not end an event, and a
  connection that closes without `[DONE]` looks like a complete stream;
* each model of a failover chain gets `max_retries + 1` POSTs.

StreamTranslator (exercised by tests only):

* streamed arguments keep the prose before the JSON, which the header says is
  discarded (`translators/stream_translator.py:32`);
* a second finish chunk emits flushed blocks again, a stream without a finish
  reason never emits its buffered tools, and a safety stop ends without
  `message_delta` and `message_stop`;
* `finalize()` emits held-back text into an open thinking block (`:812`), inline
  `<think>` text is not counted against the budget, and a budget that is reached
  exactly opens and closes an empty thinking block.

Routing:

* a streamed answer through ExitTool is dropped, as the live pipeline never calls
  `transform_stream_chunk`; an unwrapped one keeps the stop reason `tool_use`;
  when it is the first call the others are dropped, and when it is not it is
  delivered as it is (`translators/transformers.py`);
* a session keeps the transformers of its first model, a fallback model gets a
  payload without any, and is not asked whether it can do what the request needs;
* a request that fits the first model's window and not the fallback's ends the walk
  with a 500 (`routes/messages.py:389`);
* `long_context` goes before `vision` in the scenario router, so an image request may
  be routed to a model that refuses images;
* a `models.yaml` without aliases is loaded, and every request is then answered 500.

Launcher:

* a closed terminal leaves the proxy running, because SIGHUP reloads its models
  (`app.py:84`);
* the readiness check takes anybody's answer for its own proxy's, and one that
  answers the first check and not the second is reported as stale
  (`cli/main.py:322`);
* the launcher that owns a proxy stops it while others use it, and Claude Code may
  be started after the proxy has died;
* Ctrl-C while the launcher waits, or stops the proxy, skips its finally clause.

## 6. Plan

Modelled, checked, and proved as far as section 4 says: everything the table
of section 1 names but the last row and the live monitor.  What remains worth doing:

1. *PubSub*: the live monitor's fan-out (`app.py:30`), whose list of subscribers is
   changed while a broadcast awaits.
2. *Images and documents* in the request translation, as far as they change which
   content blocks there are.

## 7. What is not modelled

* Dashboard, wire schemas, auxiliary routes and metrics: they keep rows and
  counters nobody else reads, or check fields one by one.  That a request may be
  refused by a schema or by the security filters is an input of Routing and of
  Admission; which strings they refuse is not modelled.
* The transformers that rewrite strings (control characters, JSON repair,
  reasoning, search): functions without state between calls.
* `ncp init`, `config`, `models`, `test`, `status` and the like, which read or
  write one file or print.
* Of requests: sampling parameters, images, documents, system prompts and input
  schemas.
* Texts, prompts, model names, token estimates by characters, and logging are
  abstracted everywhere.
* Deployments of several processes: the breaker, the load shedder and the
  generator are per process in the code.
