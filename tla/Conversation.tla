----------------------------- MODULE Conversation -----------------------------
(***************************************************************************)
(* Concurrent requests to /v1/messages around the state that outlives      *)
(* them: the sessions table (SessionMiddleware), the session state of the  *)
(* storage engine (tool ids and tokens; SessionService), and the           *)
(* idempotency cache (routes/messages.py).                                 *)
(*                                                                         *)
(*   session -> insert -> lookup -> load -> call -> saving -> writing      *)
(*                                                      -> recording       *)
(*                                                                         *)
(* An attempt is one HTTP request; a client that retries sends an attempt  *)
(* with the same contents.  pc[a] is the suspension point where a stands.  *)
(* The memory engine never suspends, so some stretches of an attempt run   *)
(* as one: while an attempt is Unsuspended no other one moves.             *)
(*                                                                         *)
(* Each upstream response calls one tool and costs one token.  A tool id   *)
(* of the Anthropic side is named by the attempt that made it up.          *)
(***************************************************************************)
EXTENDS Naturals, FiniteSets

CONSTANTS
  Attempts,      \* HTTP requests
  Requests,      \* what they may contain: key, idem, body, stream
  Engines,       \* subset of {"memory", "sqlite", "redis"}
  UpstreamIds,   \* tool_calls[].id of the upstream
  MaxChain,      \* bound: length of spec_chain
  MaxRestarts,   \* bound: restarts of the proxy
  StorageMayFail,\* may the storage engine or the database raise?
  MayExpire,     \* may the entries with a time to live expire?
  None

Keys == {r.key : r \in Requests} \ {None}
IdemKeys == {r.idem : r \in Requests} \ {None}

ASSUME ConversationAssumption ==
  /\ Engines \subseteq {"memory", "sqlite", "redis"}
  /\ \A r \in Requests : DOMAIN r = {"key", "idem", "body", "stream"} /\ r.stream \in BOOLEAN
  /\ None \notin Attempts \cup Requests
  /\ MaxChain \in Nat \ {0} /\ MaxRestarts \in Nat
  /\ {StorageMayFail, MayExpire} \subseteq BOOLEAN

VARIABLES
  engine,   \* settings.storage_engine
  rows,     \* api_key column of the sessions table
  store,    \* session state: ToolIdMap and tokens_used
  idem,     \* idempotency cache: the attempt recorded, or None
  pc, request, hop,
  ref, heap,\* the ToolIdMap object an attempt uses, and what the objects hold
  seen,     \* the session state read by save_session_state
  result,   \* what the client has been answered, or is about to be
  restarts

VARIABLES \* history: read by properties only
  executed, \* attempts the upstream has answered
  saved,    \* attempts that added to the stored tokens
  forgotten,\* those of them whose session state has gone since
  contended,\* sessions whose state another one, or its expiry, changed during an attempt
  switched, \* attempts that went on with a fallback model
  late,     \* attempts that came when their like had been answered already
  lost      \* idempotency keys whose record may have gone

stateVars == <<engine, rows, store, idem, restarts>>
localVars == <<request, hop, ref, heap, seen>>
historyVars == <<executed, saved, forgotten, contended, switched, late, lost>>
vars == <<stateVars, localVars, pc, result, historyVars>>

EmptyMap == [u \in UpstreamIds |-> None]

\* map is the serialised ToolIdMap; the memory engine keeps the object itself.
NoState == [map |-> EmptyMap, object |-> None, tokens |-> 0]
NoResult == [kind |-> "none", of |-> None, id |-> None]

Key(a) == request[a].key
StateOf(a) == IF Key(a) = None THEN NoState ELSE store[Key(a)]
StoredMap(k) == IF store[k].object = None THEN store[k].map ELSE heap[store[k].object]

Init ==
  /\ engine \in Engines
  /\ rows = {}
  /\ store = [k \in Keys |-> NoState]
  /\ idem = [i \in IdemKeys |-> None]
  /\ pc = [a \in Attempts |-> "idle"]
  /\ request = [a \in Attempts |-> None]
  /\ hop = [a \in Attempts |-> 1]
  /\ ref = [a \in Attempts |-> a]
  /\ heap = [a \in Attempts |-> EmptyMap]
  /\ seen = [a \in Attempts |-> NoState]
  /\ result = [a \in Attempts |-> NoResult]
  /\ restarts = 0
  /\ executed = {} /\ saved = {} /\ forgotten = {} /\ contended = {} /\ switched = {} /\ late = {} /\ lost = {}

-----------------------------------------------------------------------------
(***************************************************************************)
(* Scheduling.                                                             *)
(***************************************************************************)
Unsuspended(a) ==
  \/ pc[a] = "load" /\ (engine = "memory" \/ Key(a) = None)
  \/ pc[a] = "recording" /\ (engine = "memory" \/ (engine = "sqlite" /\ Key(a) = None))
  \/ pc[a] = "saving" /\ engine = "memory" /\ ~request[a].stream

At(a, point) == pc[a] = point /\ \A b \in Attempts \ {a} : ~Unsuspended(b)

Goto(a, point) == pc' = [pc EXCEPT ![a] = point]

Answer(a, kind, of, id) ==
  /\ Goto(a, "done")
  /\ result' = [result EXCEPT ![a] = [kind |-> kind, of |-> of, id |-> id]]

-----------------------------------------------------------------------------
(***************************************************************************)
(* SessionMiddleware.dispatch                                              *)
(***************************************************************************)
SameRequest(r, b) == request[b] = r

Arrive(a, r) ==
  /\ At(a, "idle")
  /\ request' = [request EXCEPT ![a] = r]
  /\ Goto(a, IF r.key = None THEN "lookup" ELSE "session")
  /\ late' = IF r.idem # None /\ \E b \in Attempts : SameRequest(r, b) /\ result[b].kind = "ok"
               THEN late \cup {a} ELSE late
  /\ UNCHANGED <<stateVars, hop, ref, heap, seen, result, executed, saved, forgotten, contended,
                 switched, lost>>

SelectSession(a) ==
  /\ At(a, "session")
  /\ Goto(a, IF Key(a) \in rows THEN "lookup" ELSE "insert")
  /\ UNCHANGED <<stateVars, localVars, result, historyVars>>

\* The unique constraint fails the second of two inserts: a 500.
InsertSession(a) ==
  /\ At(a, "insert")
  /\ rows' = rows \cup {Key(a)}
  /\ IF Key(a) \in rows
       THEN Answer(a, "error", None, None)
       ELSE Goto(a, "lookup") /\ UNCHANGED result
  /\ UNCHANGED <<engine, store, idem, restarts, localVars, historyVars>>

-----------------------------------------------------------------------------
(***************************************************************************)
(* The idempotency check of messages(), and the loading of the session.    *)
(***************************************************************************)
Recorded(a) == IF request[a].idem = None THEN None ELSE idem[request[a].idem]

\* Mutant: the hash of the body is not compared.
MatchesAny(a) == Recorded(a) # None

\* req_hash is taken of the whole body, the stream flag included.
Matches(a) ==
  /\ Recorded(a) # None
  /\ request[Recorded(a)].body = request[a].body
  /\ request[Recorded(a)].stream = request[a].stream

Replay(a) ==
  /\ At(a, "lookup")
  /\ Matches(a)
  /\ Answer(a, "replayed", Recorded(a), result[Recorded(a)].id)
  /\ UNCHANGED <<stateVars, localVars, historyVars>>

Mismatch(a) ==
  /\ At(a, "lookup")
  /\ Recorded(a) # None
  /\ ~Matches(a)
  /\ Answer(a, "mismatch", None, None)
  /\ UNCHANGED <<stateVars, localVars, historyVars>>

NotRecorded(a) ==
  /\ At(a, "lookup")
  /\ Recorded(a) = None
  /\ Goto(a, "load")
  /\ UNCHANGED <<stateVars, localVars, result, historyVars>>

Busy(a) == pc[a] \in {"call", "saving", "writing"}

\* Mutant: one ToolIdMap for everybody.
LoadedForAll(a) ==
  IF \E k \in Keys : store[k] # NoState
    THEN store[CHOOSE k \in Keys : store[k] # NoState]
    ELSE NoState

\* get_isolated_tool_id_map: from_dict keeps the dicts it is given, and the
\* memory engine gives its own.
Loaded(a) == StateOf(a)

Load(a) ==
  /\ At(a, "load")
  /\ ref' = [ref EXCEPT ![a] = IF Loaded(a).object = None THEN a ELSE Loaded(a).object]
  /\ heap' = [heap EXCEPT ![a] = Loaded(a).map]
  /\ Goto(a, "call")
  /\ contended' = IF \E b \in Attempts \ {a} : Busy(b) /\ Key(b) = Key(a)
                     THEN contended \cup {Key(a)} ELSE contended
  /\ UNCHANGED <<stateVars, request, hop, seen, result, executed, saved, forgotten, switched, late, lost>>

-----------------------------------------------------------------------------
(***************************************************************************)
(* The upstream call and the failover walk.                                *)
(***************************************************************************)
AfterSave(a) == IF request[a].idem # None /\ ~request[a].stream THEN "recording" ELSE "done"

\* Mutant: a request with an idempotency key is recorded, and no more.
AfterCallRecords(a) ==
  IF AfterSave(a) # "recording" /\ Key(a) # None THEN "saving" ELSE AfterSave(a)

AfterCall(a) == IF Key(a) # None THEN "saving" ELSE AfterSave(a)

\* openai_to_anthropic: a known upstream id keeps its Anthropic id.
IdFor(a, u) == IF heap[ref[a]][u] = None THEN a ELSE heap[ref[a]][u]

\* The client of a stream has its answer before the session is saved.
CallSucceeds(a, u) ==
  /\ At(a, "call")
  /\ heap' = [heap EXCEPT ![ref[a]][u] = IdFor(a, u)]
  /\ Goto(a, AfterCall(a))
  /\ result' = [result EXCEPT ![a] =
                  [kind |-> IF request[a].stream \/ AfterCall(a) = "done" THEN "ok" ELSE "pending",
                   of |-> a, id |-> IdFor(a, u)]]
  /\ executed' = executed \cup {a}
  /\ UNCHANGED <<stateVars, request, hop, ref, seen, saved, forgotten, contended, switched, late, lost>>

\* attempt_idx < len(spec_chain) - 1
AnotherSpec(a) == hop[a] < MaxChain

\* 5xx, 429 or an exception, and another spec: translate_request again, with
\* a ToolIdMap of its own.  (A stream never gets that far: see MessageStream.)
CallFailsOver(a) ==
  /\ At(a, "call")
  /\ ~request[a].stream
  /\ AnotherSpec(a)
  /\ hop' = [hop EXCEPT ![a] = @ + 1]
  /\ ref' = [ref EXCEPT ![a] = a]
  /\ heap' = [heap EXCEPT ![a] = EmptyMap]
  /\ switched' = switched \cup {a}
  /\ UNCHANGED <<stateVars, pc, request, seen, result, executed, saved, forgotten, contended, late, lost>>

\* An error status, an exception with no spec left, or an open breaker.
CallFails(a) ==
  /\ At(a, "call")
  /\ Answer(a, "error", None, None)
  /\ UNCHANGED <<stateVars, localVars, historyVars>>

-----------------------------------------------------------------------------
(***************************************************************************)
(* save_session_state of the three engines, then save_idempotency.         *)
(***************************************************************************)
Proceed(a) ==
  /\ Goto(a, AfterSave(a))
  /\ result' = [result EXCEPT ![a].kind = IF AfterSave(a) = "done" THEN "ok" ELSE @]

\* Mutant: the tokens are set, not added.
SaveSetsTokens(a) ==
  /\ engine = "memory"
  /\ store' = [store EXCEPT ![Key(a)] = [map |-> EmptyMap, object |-> ref[a], tokens |-> 1]]

\* In one stretch, and the object itself is kept.
SaveToMemory(a) ==
  /\ engine = "memory"
  /\ store' = [store EXCEPT ![Key(a)] =
                 [map |-> EmptyMap, object |-> ref[a], tokens |-> @.tokens + 1]]

SaveState(a) ==
  /\ At(a, "saving")
  /\ SaveToMemory(a)
  /\ Proceed(a)
  /\ saved' = saved \cup {a}
  /\ UNCHANGED <<engine, rows, idem, restarts, localVars, executed, forgotten, contended, switched,
                 late, lost>>

ReadState(a) ==
  /\ At(a, "saving")
  /\ engine # "memory"
  /\ seen' = [seen EXCEPT ![a] = StateOf(a)]
  /\ Goto(a, "writing")
  /\ UNCHANGED <<stateVars, request, hop, ref, heap, result, historyVars>>

\* Mutant: only the ids of this response are written.
WrittenOwn(a) ==
  [u \in UpstreamIds |-> IF heap[ref[a]][u] = a THEN a ELSE None]

\* SQLAlchemy updates the columns whose value changed since they were read.
Written(a) ==
  IF engine = "sqlite" /\ heap[ref[a]] = seen[a].map THEN StateOf(a).map ELSE heap[ref[a]]

WriteState(a) ==
  /\ At(a, "writing")
  /\ store' = [store EXCEPT ![Key(a)] =
                 [map |-> Written(a), object |-> None, tokens |-> seen[a].tokens + 1]]
  /\ seen' = [seen EXCEPT ![a] = NoState]
  /\ Proceed(a)
  /\ saved' = saved \cup {a}
  /\ UNCHANGED <<engine, rows, idem, restarts, request, hop, ref, heap, executed, forgotten, contended, switched,
                 late, lost>>

\* The client of a stream leaves before its session is saved.
StreamLeaves(a) ==
  /\ At(a, "saving")
  /\ request[a].stream
  /\ Goto(a, "done")
  /\ UNCHANGED <<stateVars, localVars, result, historyVars>>

\* Mutant: only a request with a session is recorded.
RecordSessionOnly(a) ==
  idem' = IF Key(a) # None THEN [idem EXCEPT ![request[a].idem] = a] ELSE idem

RecordResponse(a) == idem' = [idem EXCEPT ![request[a].idem] = a]

Record(a) ==
  /\ At(a, "recording")
  /\ RecordResponse(a)
  /\ Answer(a, "ok", a, result[a].id)
  /\ UNCHANGED <<engine, rows, store, restarts, localVars, historyVars>>

-----------------------------------------------------------------------------
(***************************************************************************)
(* Failures.                                                               *)
(***************************************************************************)
\* Where each engine, or the database behind the middleware, may raise.
RaisingPoints ==
  [memory |-> {"session", "insert"},
   sqlite |-> {"session", "insert", "load", "saving", "writing"},
   redis |-> {"session", "insert", "lookup", "load", "saving", "writing"}]

\* An exception nobody catches: a 500, or the end of a stream.
StorageFails(a) ==
  /\ StorageMayFail
  /\ \E point \in RaisingPoints[engine] : At(a, point)
  /\ pc[a] = "lookup" => request[a].idem # None
  /\ pc[a] = "load" => Key(a) # None
  /\ IF result[a].kind = "ok"
       THEN Goto(a, "done") /\ UNCHANGED result
       ELSE Answer(a, "error", None, None)
  /\ UNCHANGED <<stateVars, localVars, historyVars>>

\* save_idempotency of Redis swallows its exception.
RecordFails(a) ==
  /\ StorageMayFail
  /\ engine = "redis"
  /\ At(a, "recording")
  /\ Answer(a, "ok", a, result[a].id)
  /\ lost' = lost \cup {request[a].idem}
  /\ UNCHANGED <<stateVars, localVars, executed, saved, forgotten, contended, switched, late>>

OfKey(k) == {a \in Attempts : request[a] # None /\ Key(a) = k}

\* Sessions live a day in Redis, idempotency records in every engine.
SessionExpires(k) ==
  /\ MayExpire
  /\ engine = "redis"
  /\ store[k] # NoState
  /\ store' = [store EXCEPT ![k] = NoState]
  /\ forgotten' = forgotten \cup (saved \cap OfKey(k))
  /\ contended' = IF \E a \in OfKey(k) : pc[a] = "writing" THEN contended \cup {k} ELSE contended
  /\ UNCHANGED <<engine, rows, idem, restarts, localVars, pc, result,
                 executed, saved, switched, late, lost>>

RecordExpires(i) ==
  /\ MayExpire
  /\ idem[i] # None
  /\ idem' = [idem EXCEPT ![i] = None]
  /\ lost' = lost \cup {i}
  /\ UNCHANGED <<engine, rows, store, restarts, localVars, pc, result,
                 executed, saved, forgotten, contended, switched, late>>

\* The process dies and comes back.  The memory engine loses everything, the
\* SQLite engine its idempotency cache.
Restart ==
  /\ restarts < MaxRestarts
  /\ restarts' = restarts + 1
  /\ pc' = [a \in Attempts |-> IF pc[a] = "idle" THEN "idle" ELSE "done"]
  /\ store' = IF engine = "memory" THEN [k \in Keys |-> NoState] ELSE store
  /\ forgotten' = IF engine = "memory" THEN saved ELSE forgotten
  /\ idem' = IF engine = "redis" THEN idem ELSE [i \in IdemKeys |-> None]
  /\ lost' = IF engine = "redis" THEN lost ELSE IdemKeys
  /\ UNCHANGED <<engine, rows, localVars, result, executed, saved, contended, switched, late>>

Quiet == (\A a \in Attempts : pc[a] = "done") /\ UNCHANGED vars

Step(a) ==
  \/ \E r \in Requests : Arrive(a, r)
  \/ SelectSession(a) \/ InsertSession(a)
  \/ Replay(a) \/ Mismatch(a) \/ NotRecorded(a) \/ Load(a)
  \/ \E u \in UpstreamIds : CallSucceeds(a, u)
  \/ CallFailsOver(a) \/ CallFails(a)
  \/ SaveState(a) \/ ReadState(a) \/ WriteState(a) \/ StreamLeaves(a)
  \/ Record(a)
  \/ StorageFails(a) \/ RecordFails(a)

Next ==
  \/ \E a \in Attempts : Step(a)
  \/ \E k \in Keys : SessionExpires(k)
  \/ \E i \in IdemKeys : RecordExpires(i)
  \/ Restart
  \/ Quiet

Spec == Init /\ [][Next]_vars

-----------------------------------------------------------------------------
(***************************************************************************)
(* Properties                                                              *)
(***************************************************************************)
MapType == [UpstreamIds -> Attempts \cup {None}]
StateType == [map : MapType, object : Attempts \cup {None}, tokens : Nat]

TypeOK ==
  /\ engine \in Engines
  /\ rows \subseteq Keys
  /\ store \in [Keys -> StateType]
  /\ idem \in [IdemKeys -> Attempts \cup {None}]
  /\ pc \in [Attempts -> {"idle", "session", "insert", "lookup", "load", "call", "saving",
                          "writing", "recording", "done"}]
  /\ request \in [Attempts -> Requests \cup {None}]
  /\ hop \in [Attempts -> 1..MaxChain]
  /\ ref \in [Attempts -> Attempts]
  /\ heap \in [Attempts -> MapType]
  /\ seen \in [Attempts -> StateType]
  /\ result \in [Attempts -> [kind : {"none", "pending", "ok", "replayed", "mismatch", "error"},
                              of : Attempts \cup {None}, id : Attempts \cup {None}]]
  /\ restarts \in 0..MaxRestarts
  /\ {executed, saved, forgotten, switched, late} \subseteq SUBSET Attempts
  /\ contended \subseteq {r.key : r \in Requests}
  /\ lost \subseteq IdemKeys

\* A replayed response is the upstream's answer to a request with the same
\* idempotency key and the same body (get_idempotency, req_hash).
ReplayIsFaithful ==
  \A a \in Attempts : result[a].kind = "replayed" =>
    LET b == result[a].of
    IN /\ b \in executed /\ result[b].id = result[a].id
       /\ \A field \in {"idem", "body", "stream"} : request[a][field] = request[b][field]

\* A retry sent after its like was answered does not run again, whatever
\* else uses the same session or the same key, unless the record expired,
\* went with the process, or could not be written.  Streams are not recorded.
RetriesAreReplayed ==
  \A a \in late : ~request[a].stream /\ request[a].idem \notin lost => a \notin executed

\* Two requests with the same idempotency key and the same body are executed
\* once, unless the record expired, went with the process or was not written.
RequestsExecuteOnce ==
  \A a, b \in executed :
    /\ request[a] = request[b]
    /\ request[a].idem # None /\ ~request[a].stream /\ request[a].idem \notin lost
    => a = b

\* The tokens of a session are those of the requests saved: exactly with the
\* memory engine, and with the others unless the session's state changed
\* between an attempt's load and its save; never more (save_session_state).
TokensAddUp ==
  \A k \in Keys :
    /\ engine = "memory" \/ k \notin contended
         => store[k].tokens = Cardinality((saved \ forgotten) \cap OfKey(k))
    /\ store[k].tokens <= Cardinality(saved \cap OfKey(k))

\* Was the tool id made up for the session of a, or for a itself, if it has none?
MadeUpFor(a, id) == IF Key(a) = None THEN id = a ELSE id \in OfKey(Key(a))

\* A tool id in the state of a session was made up for that session.  So was
\* one given to a client, and a client without a session gets ids of its own;
\* the one way around it is the idempotency cache, whose keys belong to nobody:
\* who sends the key and the body of another session's request is answered
\* with what that session was, its tool ids included (save_session_state,
\* get_isolated_tool_id_map, get_idempotency).
SessionsIsolated ==
  /\ \A k \in Keys : \A u \in UpstreamIds :
       StoredMap(k)[u] # None => StoredMap(k)[u] \in OfKey(k)
  /\ \A a \in Attempts : result[a].id # None =>
       \/ MadeUpFor(a, result[a].id)
       \/ LET b == result[a].of
          IN /\ result[a].kind = "replayed" /\ MadeUpFor(b, result[a].id)
             /\ \A field \in {"idem", "body"} : request[a][field] = request[b][field]

\* The same without that way: every tool id a client is given was made up for
\* its session.
AnswersStayInSession ==
  \A a \in Attempts : result[a].id # None => MadeUpFor(a, result[a].id)

\* What a client was told its tool call is named stays known to its session:
\* saving extends the stored map, if the session was not contended and none of
\* its requests went on with a fallback model.
MapOnlyGrows ==
  [][\A k \in Keys : k \notin contended /\ switched \cap OfKey(k) = {} =>
       \/ \A u \in UpstreamIds : StoredMap(k)[u] # None => StoredMap(k)'[u] = StoredMap(k)[u]
       \/ SessionExpires(k) \/ Restart]_vars

\* What is replayed has been accounted for: a response is recorded for replay
\* only when the session it belongs to has been saved, so that the tokens of a
\* replay are in the total and its tool ids were in the map.
RecordedIsSaved ==
  \A i \in IdemKeys : idem[i] # None => Key(idem[i]) = None \/ idem[i] \in saved

=============================================================================
