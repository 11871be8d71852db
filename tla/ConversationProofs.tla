--------------------------- MODULE ConversationProofs ---------------------------
(***************************************************************************)
(* Concurrent requests, for any number of them, of sessions, of            *)
(* idempotency keys and of upstream ids: what is replayed is what was      *)
(* answered to the same body, it is replayed whenever it can be, what is   *)
(* recorded has been accounted for, sessions stay apart, and their tokens  *)
(* and tool maps add up where attempts do not overlap.                     *)
(***************************************************************************)
EXTENDS Conversation, FiniteSetTheorems, TLAPS

\* How far an attempt has come, and what it has by then.
Stage(a) ==
  /\ pc[a] = "idle" => request[a] = None /\ ref[a] = a /\ a \notin executed \cup late
  /\ pc[a] # "idle" => request[a] \in Requests
  /\ pc[a] \in {"session", "insert", "saving", "writing"} => Key(a) # None
  /\ a \in executed => pc[a] \in {"saving", "writing", "recording", "done"}
  /\ pc[a] \in {"saving", "writing", "recording"} => a \in executed
  /\ pc[a] \in {"idle", "session", "insert", "lookup", "load", "call"} => result[a] = NoResult
  /\ pc[a] = "recording" =>
       request[a].idem # None /\ ~request[a].stream /\ (Key(a) = None \/ a \in saved)

Stages == \A a \in Attempts : Stage(a)

\* May the session of b know the id that c made up?
Kin(b, c) == IF Key(b) = None THEN c = b ELSE c \in OfKey(Key(b))

\* Objects, stored maps and answers hold ids of their own session only.
Apart ==
  /\ \A a \in Attempts : pc[a] # "idle" => Kin(a, ref[a])
  /\ \A a \in Attempts : \A u \in UpstreamIds :
       heap[a][u] # None => request[a] # None /\ Kin(a, heap[a][u])
  /\ \A k \in Keys :
       /\ \A u \in UpstreamIds : store[k].map[u] # None => store[k].map[u] \in OfKey(k)
       /\ store[k].object # None => store[k].object \in OfKey(k)
  /\ \A a \in executed : result[a].id # None => Kin(a, result[a].id)

\* A record is the answer of an attempt that is over, and stands for its key.
Recording ==
  \A i \in IdemKeys : idem[i] # None =>
    /\ idem[i] \in executed /\ pc[idem[i]] = "done"
    /\ request[idem[i]].idem = i
    /\ Key(idem[i]) = None \/ idem[i] \in saved

\* A replay repeats an answer that does not change any more.
Replayed ==
  \A a \in Attempts : result[a].kind = "replayed" =>
    /\ pc[a] = "done"
    /\ result[a].of \in executed /\ pc[result[a].of] = "done"
    /\ result[result[a].of].id = result[a].id
    /\ \A field \in {"idem", "body", "stream"} : request[a][field] = request[result[a].of][field]

\* A tool id in an answer comes from the upstream, or from a record.
Sourced == \A a \in Attempts :
  result[a].id # None => a \in executed \/ result[a].kind = "replayed"

\* An answer that should be recorded is, until its record may have gone; who
\* comes later finds it.
Kept ==
  \A a \in Attempts :
    /\ a \in late => request[a].idem # None
    /\ request[a] # None /\ request[a].idem # None /\ ~request[a].stream
         /\ request[a].idem \notin lost =>
         /\ result[a].kind = "ok" \/ a \in late => idem[request[a].idem] # None
         /\ a \in late => pc[a] \in {"session", "insert", "lookup", "done"} /\ a \notin executed

IInv == TypeOK /\ Stages /\ Apart /\ Recording /\ Replayed /\ Sourced /\ Kept

\* Keys and idempotency keys are those that some request has.
LEMMA KeysKnown ==
  ASSUME NEW r \in Requests
  PROVE  /\ r.key # None => r.key \in Keys
         /\ r.idem # None => r.idem \in IdemKeys
         /\ r # None
BY ConversationAssumption DEF Keys, IdemKeys

\* The empty map and the empty session state.
LEMMA Nothing ==
  /\ EmptyMap \in MapType /\ NoState \in StateType
  /\ \A u \in UpstreamIds : EmptyMap[u] = None
  /\ NoState.map = EmptyMap /\ NoState.object = None /\ NoState.tokens = 0
  /\ NoResult = [kind |-> "none", of |-> None, id |-> None]
BY DEF EmptyMap, NoState, NoResult, MapType, StateType

\* No engine raises where an attempt does not call it.
LEMMA RaisesWhere ==
  \A e \in Engines : RaisingPoints[e] \subseteq
    {"session", "insert", "lookup", "load", "saving", "writing"}
<1>1. \A e \in {"memory", "sqlite", "redis"} : RaisingPoints[e] \subseteq
        {"session", "insert", "lookup", "load", "saving", "writing"}
  BY DEF RaisingPoints
<1> QED BY <1>1, ConversationAssumption

-----------------------------------------------------------------------------
Pcs == {"idle", "session", "insert", "lookup", "load", "call", "saving", "writing", "recording",
        "done"}
Results == [kind : {"none", "pending", "ok", "replayed", "mismatch", "error"},
            of : Attempts \cup {None}, id : Attempts \cup {None}]

\* Where an attempt goes after a step.
LEMMA Points ==
  ASSUME NEW a \in Attempts
  PROVE  /\ AfterSave(a) \in {"recording", "done"}
         /\ AfterCall(a) \in {"saving", "recording", "done"}
BY DEF AfterSave, AfterCall

\* An attempt moves, and it alone.
LEMMA Goes ==
  ASSUME TypeOK, NEW a \in Attempts, NEW p \in Pcs, Goto(a, p)
  PROVE  pc' \in [Attempts -> Pcs] /\ pc'[a] = p /\ \A b \in Attempts \ {a} : pc'[b] = pc[b]
BY DEF TypeOK, Goto, Pcs

\* An attempt is answered, and it alone.
LEMMA Answers ==
  ASSUME TypeOK, NEW a \in Attempts, NEW kind \in {"ok", "replayed", "mismatch", "error"},
         NEW b \in Attempts \cup {None}, NEW id \in Attempts \cup {None},
         Answer(a, kind, b, id)
  PROVE  /\ pc' \in [Attempts -> Pcs] /\ pc'[a] = "done"
         /\ result' \in [Attempts -> Results]
         /\ result'[a] = [kind |-> kind, of |-> b, id |-> id]
         /\ \A c \in Attempts \ {a} : pc'[c] = pc[c] /\ result'[c] = result[c]
BY DEF TypeOK, Answer, Goto, Pcs, Results

\* An attempt has saved its session: its answer keeps its id.
LEMMA Proceeds ==
  ASSUME TypeOK, NEW a \in Attempts, Proceed(a)
  PROVE  /\ pc' \in [Attempts -> Pcs] /\ pc'[a] = AfterSave(a)
         /\ result' \in [Attempts -> Results]
         /\ result'[a].id = result[a].id
         /\ result'[a].kind = IF AfterSave(a) = "done" THEN "ok" ELSE result[a].kind
         /\ \A c \in Attempts \ {a} : pc'[c] = pc[c] /\ result'[c] = result[c]
<1>1. result[a] \in Results /\ result \in [Attempts -> Results]
  BY DEF TypeOK, Results
<1>2. result' = [result EXCEPT ![a] =
                   [result[a] EXCEPT !.kind = IF AfterSave(a) = "done" THEN "ok" ELSE result[a].kind]]
  BY DEF Proceed
<1>3. pc' \in [Attempts -> Pcs] /\ pc'[a] = AfterSave(a) /\ \A c \in Attempts \ {a} : pc'[c] = pc[c]
  BY Points, Goes DEF Proceed, Pcs
<1> QED BY <1>1, <1>2, <1>3 DEF Results

-----------------------------------------------------------------------------
(***************************************************************************)
(* The types.                                                              *)
(***************************************************************************)
\* A request keeps its contents, and an attempt gets them once.
LEMMA TypeStays == TypeOK /\ Stages /\ [Next]_vars => TypeOK'
<1>. SUFFICES ASSUME TypeOK, Stages, [Next]_vars PROVE TypeOK'
  OBVIOUS
<1>. USE DEF stateVars, localVars, historyVars
<1>t. TypeOK <=>
       /\ engine \in Engines /\ rows \subseteq Keys /\ store \in [Keys -> StateType]
       /\ idem \in [IdemKeys -> Attempts \cup {None}]
       /\ pc \in [Attempts -> Pcs] /\ request \in [Attempts -> Requests \cup {None}]
       /\ hop \in [Attempts -> 1..MaxChain]
       /\ ref \in [Attempts -> Attempts] /\ heap \in [Attempts -> MapType]
       /\ seen \in [Attempts -> StateType] /\ result \in [Attempts -> Results]
       /\ restarts \in 0..MaxRestarts
       /\ executed \subseteq Attempts /\ saved \subseteq Attempts /\ forgotten \subseteq Attempts
       /\ switched \subseteq Attempts /\ late \subseteq Attempts
       /\ contended \subseteq {r.key : r \in Requests} /\ lost \subseteq IdemKeys
  BY DEF TypeOK, Pcs, Results
<1>1. ASSUME NEW a \in Attempts, Step(a) PROVE TypeOK'
  <2>1. ASSUME NEW r \in Requests, Arrive(a, r) PROVE TypeOK'
    <3>1. pc' \in [Attempts -> Pcs]
      BY <2>1, <1>t DEF Arrive, Goto, Pcs
    <3>2. /\ request' \in [Attempts -> Requests \cup {None}] /\ late' \subseteq Attempts
          /\ UNCHANGED <<stateVars, hop, ref, heap, seen, result, executed, saved, forgotten,
                         contended, switched, lost>>
      BY <2>1, <1>t DEF Arrive
    <3> QED BY <3>1, <3>2, <1>t DEF TypeOK, Pcs, Results
  <2>2. CASE SelectSession(a) \/ NotRecorded(a) \/ StreamLeaves(a)
    <3>1. pc' \in [Attempts -> Pcs]
      BY <2>2, <1>t DEF SelectSession, NotRecorded, StreamLeaves, Goto, Pcs
    <3> QED BY <2>2, <3>1 DEF SelectSession, NotRecorded, StreamLeaves, TypeOK, Pcs
  <2>3. CASE InsertSession(a)
    <3>1. pc' \in [Attempts -> Pcs] /\ result' \in [Attempts -> Results]
      BY <2>3, <1>t, Goes, Answers DEF InsertSession, Pcs
    <3>2. Key(a) \in Keys
      BY <2>3, KeysKnown DEF InsertSession, At, Stages, Stage, Key
    <3> QED BY <2>3, <3>1, <3>2 DEF InsertSession, TypeOK, Pcs, Results
  <2>4. CASE Replay(a) \/ Mismatch(a)
    <3>1. Replay(a) => Recorded(a) \in Attempts /\ result[Recorded(a)].id \in Attempts \cup {None}
      <4>1. Replay(a) => Recorded(a) # None /\ request[a].idem # None /\ request[a] \in Requests
        BY DEF Replay, Matches, Recorded, At, Stages, Stage
      <4> QED BY <4>1, <1>t, KeysKnown DEF Recorded, Results
    <3>2. pc' \in [Attempts -> Pcs] /\ result' \in [Attempts -> Results]
      BY <2>4, <3>1, Answers DEF Replay, Mismatch
    <3> QED BY <2>4, <3>2 DEF Replay, Mismatch, TypeOK, Pcs, Results
  <2>5. CASE Load(a)
    <3>1. request[a] \in Requests /\ Key(a) \in {r.key : r \in Requests}
          /\ (Key(a) # None => Key(a) \in Keys)
      BY <2>5, KeysKnown DEF Load, At, Stages, Stage, Key
    <3>2. Loaded(a) \in StateType
      BY <3>1, <1>t, Nothing DEF Loaded, StateOf
    <3>3. ref' \in [Attempts -> Attempts] /\ heap' \in [Attempts -> MapType]
      BY <2>5, <1>t, <3>2 DEF Load, StateType
    <3>4. pc' \in [Attempts -> Pcs]
      BY <2>5, Goes DEF Load, Pcs
    <3> QED BY <2>5, <3>1, <3>3, <3>4 DEF Load, TypeOK, Pcs
  <2>6. ASSUME NEW u \in UpstreamIds, CallSucceeds(a, u) PROVE TypeOK'
    <3>1. IdFor(a, u) \in Attempts
      BY <1>t DEF IdFor, MapType
    <3>2. heap' \in [Attempts -> MapType]
      BY <2>6, <1>t, <3>1 DEF CallSucceeds, MapType
    <3>3. result' \in [Attempts -> Results]
      BY <2>6, <1>t, <3>1 DEF CallSucceeds, Results
    <3>4. pc' \in [Attempts -> Pcs]
      BY <2>6, Points, Goes DEF CallSucceeds, Pcs
    <3> QED BY <2>6, <3>2, <3>3, <3>4 DEF CallSucceeds, TypeOK, Pcs, Results
  <2>7. CASE CallFailsOver(a)
    <3>1. hop' \in [Attempts -> 1..MaxChain]
      BY <2>7, <1>t, ConversationAssumption DEF CallFailsOver, AnotherSpec
    <3>2. ref' \in [Attempts -> Attempts] /\ heap' \in [Attempts -> MapType]
      BY <2>7, <1>t, Nothing DEF CallFailsOver
    <3> QED BY <2>7, <3>1, <3>2 DEF CallFailsOver, TypeOK
  <2>8. CASE CallFails(a)
    <3>1. pc' \in [Attempts -> Pcs] /\ result' \in [Attempts -> Results]
      BY <2>8, Answers DEF CallFails
    <3> QED BY <2>8, <3>1 DEF CallFails, TypeOK, Pcs, Results
  <2>9. CASE SaveState(a) \/ WriteState(a)
    <3>1. Key(a) \in Keys
      BY <2>9, KeysKnown DEF SaveState, WriteState, At, Stages, Stage, Key
    <3>2. store' \in [Keys -> StateType]
      <4>1. SaveState(a) => [map |-> EmptyMap, object |-> ref[a], tokens |-> store[Key(a)].tokens + 1] \in StateType
        BY <3>1, <1>t, Nothing DEF StateType
      <4>2. WriteState(a) => [map |-> Written(a), object |-> None, tokens |-> seen[a].tokens + 1] \in StateType
        <5>1. WriteState(a) => Written(a) \in MapType
          BY <3>1, <1>t, Nothing DEF Written, StateOf, StateType
        <5> QED BY <5>1, <1>t DEF StateType
      <4> QED BY <2>9, <3>1, <4>1, <4>2, <1>t DEF SaveState, SaveToMemory, WriteState
    <3>3. pc' \in [Attempts -> Pcs] /\ result' \in [Attempts -> Results]
      BY <2>9, Proceeds DEF SaveState, WriteState
    <3>4. seen' \in [Attempts -> StateType]
      BY <2>9, <1>t, Nothing DEF SaveState, WriteState
    <3> QED BY <2>9, <3>2, <3>3, <3>4 DEF SaveState, WriteState, TypeOK, Pcs, Results
  <2>10. CASE ReadState(a)
    <3>1. StateOf(a) \in StateType
      BY <2>10, <1>t, Nothing, KeysKnown DEF ReadState, At, Stages, Stage, Key, StateOf
    <3>2. pc' \in [Attempts -> Pcs] /\ seen' \in [Attempts -> StateType]
      BY <2>10, <3>1, <1>t, Goes DEF ReadState, Pcs
    <3> QED BY <2>10, <3>2 DEF ReadState, TypeOK, Pcs
  <2>11. CASE Record(a) \/ RecordFails(a)
    <3>1. request[a].idem \in IdemKeys /\ result[a].id \in Attempts \cup {None}
      BY <2>11, <1>t, KeysKnown DEF Record, RecordFails, At, Stages, Stage, Results
    <3>2. pc' \in [Attempts -> Pcs] /\ result' \in [Attempts -> Results]
      BY <2>11, <3>1, Answers DEF Record, RecordFails
    <3>3. idem' \in [IdemKeys -> Attempts \cup {None}]
      BY <2>11, <3>1, <1>t DEF Record, RecordResponse, RecordFails
    <3> QED BY <2>11, <3>1, <3>2, <3>3 DEF Record, RecordFails, TypeOK, Pcs, Results
  <2>12. CASE StorageFails(a)
    <3>1. pc' \in [Attempts -> Pcs] /\ result' \in [Attempts -> Results]
      BY <2>12, <1>t, Goes, Answers DEF StorageFails, Pcs
    <3> QED BY <2>12, <3>1 DEF StorageFails, TypeOK, Pcs, Results
  <2> QED BY <1>1, <2>1, <2>2, <2>3, <2>4, <2>5, <2>6, <2>7, <2>8, <2>9, <2>10, <2>11, <2>12 DEF Step
<1>2. ASSUME NEW k \in Keys, SessionExpires(k) PROVE TypeOK'
  <2>1. store' \in [Keys -> StateType] /\ k \in {r.key : r \in Requests}
    BY <1>2, <1>t, Nothing DEF SessionExpires, Keys
  <2> QED BY <1>2, <2>1 DEF SessionExpires, TypeOK
<1>3. ASSUME NEW i \in IdemKeys, RecordExpires(i) PROVE TypeOK'
  BY <1>3 DEF RecordExpires, TypeOK
<1>4. CASE Restart
  <2>1. pc' \in [Attempts -> Pcs]
    BY <1>4, <1>t DEF Restart, Pcs
  <2>2. store' \in [Keys -> StateType] /\ idem' \in [IdemKeys -> Attempts \cup {None}]
    BY <1>4, <1>t, Nothing DEF Restart
  <2>3. restarts' \in 0..MaxRestarts
    BY <1>4, <1>t, ConversationAssumption DEF Restart
  <2> QED BY <1>4, <2>1, <2>2, <2>3 DEF Restart, TypeOK, Pcs
<1>5. CASE UNCHANGED vars
  BY <1>5 DEF vars, TypeOK
<1> QED BY <1>1, <1>2, <1>3, <1>4, <1>5 DEF Next, Quiet

-----------------------------------------------------------------------------
(***************************************************************************)
(* Stages.                                                                 *)
(***************************************************************************)
\* An attempt gets its contents once, when it arrives.
LEMMA ContentsStay ==
  ASSUME TypeOK, Stages, [Next]_vars
  PROVE  /\ \A a \in Attempts : request[a] # None =>
              request'[a] = request[a] /\ Key(a)' = Key(a)
         /\ \A k : OfKey(k) \subseteq OfKey(k)'
         /\ \A a, b \in Attempts : request[a] # None /\ Kin(a, b) => Kin(a, b)'
         /\ executed \subseteq executed' /\ saved \subseteq saved'
<1>. USE DEF stateVars, localVars, historyVars
<1>1. /\ \A a \in Attempts : request[a] # None => request'[a] = request[a]
      /\ executed \subseteq executed' /\ saved \subseteq saved'
  <2>1. ASSUME NEW a \in Attempts, NEW r \in Requests, Arrive(a, r)
        PROVE  /\ \A b \in Attempts : request[b] # None => request'[b] = request[b]
               /\ executed \subseteq executed' /\ saved \subseteq saved'
    BY <2>1 DEF Arrive, TypeOK, At, Stages, Stage
  <2>2. ASSUME NEW a \in Attempts,
               \/ SelectSession(a) \/ InsertSession(a) \/ Replay(a) \/ Mismatch(a) \/ NotRecorded(a)
               \/ Load(a) \/ (\E u \in UpstreamIds : CallSucceeds(a, u))
               \/ CallFailsOver(a) \/ CallFails(a)
        PROVE  request' = request /\ executed \subseteq executed' /\ saved \subseteq saved'
    BY <2>2 DEF SelectSession, InsertSession, Replay, Mismatch, NotRecorded, Load, CallSucceeds,
       CallFailsOver, CallFails
  <2>3. ASSUME NEW a \in Attempts,
               \/ SaveState(a) \/ ReadState(a) \/ WriteState(a) \/ StreamLeaves(a)
               \/ Record(a) \/ StorageFails(a) \/ RecordFails(a)
        PROVE  request' = request /\ executed \subseteq executed' /\ saved \subseteq saved'
    BY <2>3 DEF SaveState, ReadState, WriteState, StreamLeaves, Record, StorageFails, RecordFails
  <2>4. ASSUME \/ \E k \in Keys : SessionExpires(k)
               \/ \E i \in IdemKeys : RecordExpires(i)
               \/ Restart \/ Quiet \/ UNCHANGED vars
        PROVE  request' = request /\ executed \subseteq executed' /\ saved \subseteq saved'
    BY <2>4 DEF SessionExpires, RecordExpires, Restart, Quiet, vars
  <2> QED BY <2>1, <2>2, <2>3, <2>4 DEF Next, Step
<1>2. \A a \in Attempts : request[a] # None => Key(a)' = Key(a)
  BY <1>1 DEF Key
<1>3. \A k : OfKey(k) \subseteq OfKey(k)'
  BY <1>1, <1>2 DEF OfKey
<1>4. \A a, b \in Attempts : request[a] # None /\ Kin(a, b) => Kin(a, b)'
  BY <1>2, <1>3 DEF Kin
<1> QED BY <1>1, <1>2, <1>3, <1>4

\* What one attempt does leaves the stage of the others alone.
LEMMA StagesStay == TypeOK /\ Stages /\ [Next]_vars => Stages'
<1>. SUFFICES ASSUME TypeOK, Stages, [Next]_vars, NEW b \in Attempts PROVE Stage(b)'
  BY DEF Stages, Stage
<1>. USE DEF stateVars, localVars, historyVars
<1>1. Stage(b) /\ pc \in [Attempts -> Pcs] /\ result \in [Attempts -> Results]
      /\ request \in [Attempts -> Requests \cup {None}]
  BY DEF Stages, Stage, TypeOK, Pcs, Results
<1>2. ASSUME UNCHANGED <<pc[b], request[b], ref[b], result[b]>>,
             b \in executed' \cup late' => b \in executed \cup late,
             (b \in executed') = (b \in executed), b \in saved => b \in saved'
      PROVE  Stage(b)'
  BY <1>1, <1>2 DEF Stage, Key
<1>3. ASSUME NEW a \in Attempts, Step(a) PROVE Stage(b)'
  <2>1. CASE a # b
    <3>1. ASSUME NEW r \in Requests, Arrive(a, r) PROVE Stage(b)'
      BY <2>1, <3>1, <1>2, <1>1 DEF Arrive, Goto
    <3>2. CASE SelectSession(a) \/ NotRecorded(a) \/ StreamLeaves(a) \/ ReadState(a)
      BY <2>1, <3>2, <1>2, <1>1 DEF SelectSession, NotRecorded, StreamLeaves, ReadState, Goto
    <3>3. CASE InsertSession(a) \/ Replay(a) \/ Mismatch(a) \/ CallFails(a)
      BY <2>1, <3>3, <1>2, <1>1 DEF InsertSession, Replay, Mismatch, CallFails, Answer, Goto
    <3>4. CASE Load(a) \/ CallFailsOver(a)
      BY <2>1, <3>4, <1>2, <1>1 DEF Load, CallFailsOver, Goto, TypeOK
    <3>5. ASSUME NEW u \in UpstreamIds, CallSucceeds(a, u) PROVE Stage(b)'
      BY <2>1, <3>5, <1>2, <1>1 DEF CallSucceeds, Goto
    <3>6. CASE SaveState(a) \/ WriteState(a)
      BY <2>1, <3>6, <1>2, <1>1 DEF SaveState, WriteState, Proceed, Goto
    <3>7. CASE Record(a) \/ RecordFails(a) \/ StorageFails(a)
      BY <2>1, <3>7, <1>2, <1>1 DEF Record, RecordFails, StorageFails, Answer, Goto
    <3> QED BY <1>3, <3>1, <3>2, <3>3, <3>4, <3>5, <3>6, <3>7 DEF Step
  <2>2. CASE a = b
    <3>1. ASSUME NEW r \in Requests, Arrive(b, r) PROVE Stage(b)'
      <4>1. pc[b] = "idle" /\ pc'[b] = (IF r.key = None THEN "lookup" ELSE "session")
            /\ request'[b] = r /\ UNCHANGED <<result, executed>>
        BY <3>1, <1>1 DEF Arrive, At, Goto
      <4> QED BY <4>1, <1>1 DEF Stage, Key
    <3>2. CASE SelectSession(b) \/ NotRecorded(b)
      <4>1. /\ pc[b] \in {"session", "lookup"}
            /\ pc'[b] \in {"lookup", "insert", "load"}
            /\ pc[b] = "lookup" => pc'[b] # "insert"
            /\ UNCHANGED <<request, result, executed>>
        BY <3>2, <1>1 DEF SelectSession, NotRecorded, At, Goto
      <4> QED BY <4>1, <1>1 DEF Stage, Key
    <3>3. CASE InsertSession(b) \/ Replay(b) \/ Mismatch(b) \/ CallFails(b) \/ StreamLeaves(b)
               \/ Record(b) \/ RecordFails(b) \/ StorageFails(b)
      <4>1. /\ pc[b] # "idle" /\ pc'[b] \in {"done", "lookup"}
            /\ pc'[b] = "lookup" => pc[b] = "insert" /\ result'[b] = result[b]
            /\ UNCHANGED <<request, executed>>
        <5>1. CASE InsertSession(b)
          BY <5>1, <1>1 DEF InsertSession, At, Answer, Goto
        <5>2. CASE Replay(b) \/ Mismatch(b) \/ CallFails(b) \/ StreamLeaves(b)
          BY <5>2, <1>1 DEF Replay, Mismatch, CallFails, StreamLeaves, At, Answer, Goto
        <5>3. CASE Record(b) \/ RecordFails(b)
          BY <5>3, <1>1 DEF Record, RecordFails, At, Answer, Goto
        <5>4. CASE StorageFails(b)
          <6>1. pc[b] # "idle"
            BY <5>4, RaisesWhere DEF StorageFails, At, TypeOK
          <6> QED BY <5>4, <6>1, <1>1 DEF StorageFails, Answer, Goto
        <5> QED BY <3>3, <5>1, <5>2, <5>3, <5>4
      <4> QED BY <4>1, <1>1 DEF Stage, Key
    <3>4. CASE Load(b) \/ CallFailsOver(b)
      <4>1. /\ pc[b] \in {"load", "call"} /\ pc'[b] = "call"
            /\ UNCHANGED <<request, result, executed>>
        BY <3>4, <1>1 DEF Load, CallFailsOver, At, Goto
      <4> QED BY <4>1, <1>1 DEF Stage, Key
    <3>5. ASSUME NEW u \in UpstreamIds, CallSucceeds(b, u) PROVE Stage(b)'
      <4>1. /\ pc[b] = "call" /\ pc'[b] = AfterCall(b)
            /\ request' = request /\ b \in executed'
        BY <3>5, <1>1 DEF CallSucceeds, At, Goto
      <4> QED BY <4>1, <1>1 DEF Stage, Key, AfterCall, AfterSave
    <3>6. CASE SaveState(b) \/ WriteState(b)
      <4>1. /\ pc[b] \in {"saving", "writing"} /\ pc'[b] = AfterSave(b)
            /\ UNCHANGED <<request, executed>> /\ b \in saved'
        BY <3>6, <1>1 DEF SaveState, WriteState, Proceed, At, Goto
      <4> QED BY <4>1, <1>1 DEF Stage, Key, AfterSave
    <3>7. CASE ReadState(b)
      <4>1. /\ pc[b] = "saving" /\ pc'[b] = "writing"
            /\ UNCHANGED <<request, result, executed>>
        BY <3>7, <1>1 DEF ReadState, At, Goto
      <4> QED BY <4>1, <1>1 DEF Stage, Key
    <3> QED BY <1>3, <2>2, <3>1, <3>2, <3>3, <3>4, <3>5, <3>6, <3>7 DEF Step
  <2> QED BY <2>1, <2>2
<1>4. CASE Restart
  <2>1. pc'[b] = (IF pc[b] = "idle" THEN "idle" ELSE "done")
        /\ UNCHANGED <<request, ref, result, executed, late, saved>>
    BY <1>4 DEF Restart
  <2> QED BY <2>1, <1>1 DEF Stage, Key
<1>5. CASE (\E k \in Keys : SessionExpires(k)) \/ (\E i \in IdemKeys : RecordExpires(i)) \/ Quiet
           \/ UNCHANGED vars
  BY <1>5, <1>2 DEF SessionExpires, RecordExpires, Quiet, vars
<1> QED BY <1>3, <1>4, <1>5 DEF Next

-----------------------------------------------------------------------------
(***************************************************************************)
(* Records and replays.                                                    *)
(***************************************************************************)
\* What an attempt that is over was answered does not change.
LEMMA DoneStays ==
  ASSUME TypeOK, [Next]_vars, NEW b \in Attempts, pc[b] = "done"
  PROVE  pc'[b] = "done" /\ result'[b] = result[b]
<1>. USE DEF stateVars, localVars, historyVars
<1>1. pc \in [Attempts -> Pcs] /\ result \in [Attempts -> Results]
  BY DEF TypeOK, Pcs, Results
<1>2. ASSUME NEW a \in Attempts, Step(a) PROVE pc'[b] = "done" /\ result'[b] = result[b]
  <2>1. ASSUME NEW r \in Requests, Arrive(a, r) PROVE pc'[b] = "done" /\ result'[b] = result[b]
    BY <2>1, <1>1 DEF Arrive, At, Goto
  <2>2. CASE SelectSession(a) \/ NotRecorded(a) \/ StreamLeaves(a) \/ ReadState(a)
    BY <2>2, <1>1 DEF SelectSession, NotRecorded, StreamLeaves, ReadState, At, Goto
  <2>3. CASE InsertSession(a) \/ Replay(a) \/ Mismatch(a) \/ CallFails(a)
    BY <2>3, <1>1 DEF InsertSession, Replay, Mismatch, CallFails, At, Answer, Goto
  <2>4. CASE Load(a) \/ CallFailsOver(a)
    BY <2>4, <1>1 DEF Load, CallFailsOver, At, Goto
  <2>5. ASSUME NEW u \in UpstreamIds, CallSucceeds(a, u)
        PROVE  pc'[b] = "done" /\ result'[b] = result[b]
    BY <2>5, <1>1 DEF CallSucceeds, At, Goto
  <2>6. CASE SaveState(a) \/ WriteState(a)
    BY <2>6, <1>1 DEF SaveState, WriteState, At, Proceed, Goto
  <2>7. CASE Record(a) \/ RecordFails(a)
    BY <2>7, <1>1 DEF Record, RecordFails, At, Answer, Goto
  <2>8. CASE StorageFails(a)
    <3>1. a # b
      BY <2>8, RaisesWhere DEF StorageFails, At, TypeOK
    <3> QED BY <2>8, <3>1, <1>1 DEF StorageFails, Answer, Goto
  <2> QED BY <1>2, <2>1, <2>2, <2>3, <2>4, <2>5, <2>6, <2>7, <2>8 DEF Step
<1>3. CASE (\E k \in Keys : SessionExpires(k)) \/ (\E i \in IdemKeys : RecordExpires(i)) \/ Quiet
           \/ UNCHANGED vars
  BY <1>3 DEF SessionExpires, RecordExpires, Quiet, vars
<1>4. CASE Restart
  BY <1>4, <1>1 DEF Restart
<1> QED BY <1>2, <1>3, <1>4 DEF Next

\* How an answer comes about.
NewAnswer(b) ==
  \/ Replay(b)
  \/ /\ \E u \in UpstreamIds : CallSucceeds(b, u) /\ result'[b].id = IdFor(b, u)
     /\ result'[b].kind \in {"ok", "pending"}
     /\ result'[b].kind = "ok" => request[b].stream \/ AfterCall(b) = "done"
  \/ /\ SaveState(b) \/ WriteState(b)
     /\ result'[b].id = result[b].id
     /\ result'[b].kind = (IF AfterSave(b) = "done" THEN "ok" ELSE result[b].kind)
  \/ /\ Record(b) \/ RecordFails(b)
     /\ result'[b].id = result[b].id /\ result'[b].kind = "ok"
  \/ result'[b].kind \in {"mismatch", "error"} /\ result'[b].id = None

\* No answer comes about in any other way.
LEMMA AnswersChange ==
  ASSUME TypeOK, [Next]_vars, NEW b \in Attempts, result'[b] # result[b]
  PROVE  NewAnswer(b)
<1>. USE DEF NewAnswer, stateVars, localVars, historyVars
<1>1. pc \in [Attempts -> Pcs] /\ result \in [Attempts -> Results]
  BY DEF TypeOK, Pcs, Results
<1>2. ASSUME NEW a \in Attempts, Step(a) PROVE NewAnswer(b)
  <2>1. CASE \/ \E r \in Requests : Arrive(a, r)
             \/ SelectSession(a) \/ NotRecorded(a) \/ StreamLeaves(a) \/ ReadState(a)
             \/ Load(a) \/ CallFailsOver(a)
    BY <2>1 DEF Arrive, SelectSession, NotRecorded, StreamLeaves, ReadState, Load, CallFailsOver
  <2>2. CASE InsertSession(a) \/ Mismatch(a) \/ CallFails(a)
    BY <2>2, <1>1 DEF InsertSession, Mismatch, CallFails, Answer
  <2>3. CASE Replay(a)
    BY <2>3, <1>1 DEF Replay, Answer
  <2>4. ASSUME NEW u \in UpstreamIds, CallSucceeds(a, u) PROVE NewAnswer(b)
    <3>1. /\ a = b
          /\ result'[a] = [kind |-> IF request[a].stream \/ AfterCall(a) = "done" THEN "ok" ELSE "pending",
                           of |-> a, id |-> IdFor(a, u)]
      BY <2>4, <1>1 DEF CallSucceeds
    <3> QED BY <2>4, <3>1
  <2>5. CASE SaveState(a) \/ WriteState(a)
    <3>1. Proceed(a)
      BY <2>5 DEF SaveState, WriteState
    <3>2. a = b
      BY <3>1, Proceeds
    <3> QED BY <2>5, <3>1, <3>2, Proceeds
  <2>6. CASE Record(a) \/ RecordFails(a)
    BY <2>6, <1>1 DEF Record, RecordFails, Answer
  <2>7. CASE StorageFails(a)
    BY <2>7, <1>1 DEF StorageFails, Answer
  <2> QED BY <1>2, <2>1, <2>2, <2>3, <2>4, <2>5, <2>6, <2>7 DEF Step
<1>3. CASE (\E k \in Keys : SessionExpires(k)) \/ (\E i \in IdemKeys : RecordExpires(i)) \/ Quiet
           \/ Restart \/ UNCHANGED vars
  BY <1>3 DEF SessionExpires, RecordExpires, Quiet, Restart, vars
<1> QED BY <1>2, <1>3 DEF Next

\* Only Record writes the idempotency cache; records may go.
LEMMA RecordsChange ==
  ASSUME TypeOK, [Next]_vars, NEW i \in IdemKeys
  PROVE  \/ idem'[i] = idem[i]
         \/ idem'[i] = None /\ i \in lost'
         \/ \E a \in Attempts : Record(a) /\ request[a].idem = i /\ idem'[i] = a
<1>. USE DEF stateVars, localVars, historyVars
<1>1. ASSUME NEW a \in Attempts, Step(a), ~Record(a) PROVE idem' = idem
  <2>1. CASE \/ \E r \in Requests : Arrive(a, r)
             \/ SelectSession(a) \/ InsertSession(a) \/ Replay(a) \/ Mismatch(a) \/ NotRecorded(a)
             \/ Load(a) \/ (\E u \in UpstreamIds : CallSucceeds(a, u))
             \/ CallFailsOver(a) \/ CallFails(a)
    BY <2>1 DEF Arrive, SelectSession, InsertSession, Replay, Mismatch, NotRecorded, Load,
       CallSucceeds, CallFailsOver, CallFails
  <2>2. CASE \/ SaveState(a) \/ ReadState(a) \/ WriteState(a) \/ StreamLeaves(a)
             \/ StorageFails(a) \/ RecordFails(a)
    BY <2>2 DEF SaveState, ReadState, WriteState, StreamLeaves, StorageFails, RecordFails
  <2> QED BY <1>1, <2>1, <2>2 DEF Step
<1>2. ASSUME NEW a \in Attempts, Record(a)
      PROVE  idem'[i] = idem[i] \/ (request[a].idem = i /\ idem'[i] = a)
  BY <1>2 DEF Record, RecordResponse, TypeOK
<1>3. ASSUME NEW j \in IdemKeys, RecordExpires(j)
      PROVE  idem'[i] = idem[i] \/ (idem'[i] = None /\ i \in lost')
  BY <1>3 DEF RecordExpires, TypeOK
<1>4. CASE Restart
  BY <1>4 DEF Restart
<1>5. CASE (\E k \in Keys : SessionExpires(k)) \/ Quiet \/ UNCHANGED vars
  BY <1>5 DEF SessionExpires, Quiet, vars
<1> QED BY <1>1, <1>2, <1>3, <1>4, <1>5 DEF Next

\* Record enters an attempt that has been answered and accounted for.
LEMMA RecordingStays == TypeOK /\ Stages /\ Recording /\ [Next]_vars => Recording'
<1>. SUFFICES ASSUME TypeOK, Stages, Recording, [Next]_vars,
                     NEW i \in IdemKeys, idem'[i] # None
              PROVE  /\ idem'[i] \in executed' /\ pc'[idem'[i]] = "done"
                     /\ request'[idem'[i]].idem = i
                     /\ Key(idem[i])' = None \/ idem'[i] \in saved'
  BY DEF Recording
<1>1. CASE idem'[i] = idem[i]
  <2>1. /\ idem[i] \in executed /\ pc[idem[i]] = "done" /\ request[idem[i]].idem = i
        /\ Key(idem[i]) = None \/ idem[i] \in saved
        /\ idem[i] \in Attempts /\ request[idem[i]] # None
    BY <1>1, ConversationAssumption DEF Recording, TypeOK, Stages, Stage
  <2> QED BY <1>1, <2>1, ContentsStay, DoneStays DEF Key
<1>2. ASSUME NEW a \in Attempts, Record(a), request[a].idem = i, idem'[i] = a
      PROVE  /\ idem'[i] \in executed' /\ pc'[idem'[i]] = "done"
             /\ request'[idem'[i]].idem = i
             /\ Key(idem[i])' = None \/ idem'[i] \in saved'
  <2>1. /\ a \in executed /\ request' = request /\ pc'[a] = "done"
        /\ Key(a) = None \/ a \in saved
    BY <1>2 DEF Record, At, Answer, Goto, Stages, Stage, TypeOK, localVars
  <2> QED BY <1>2, <2>1, ContentsStay DEF Key
<1> QED BY <1>1, <1>2, RecordsChange

\* A replay answers with the record of its key.
LEMMA ReplayedStays == TypeOK /\ Stages /\ Recording /\ Replayed /\ [Next]_vars => Replayed'
<1>. SUFFICES ASSUME TypeOK, Stages, Recording, Replayed, [Next]_vars,
                     NEW a \in Attempts, result'[a].kind = "replayed"
              PROVE  /\ pc'[a] = "done"
                     /\ result'[a].of \in executed' /\ pc'[result'[a].of] = "done"
                     /\ result'[result'[a].of].id = result'[a].id
                     /\ \A field \in {"idem", "body", "stream"} :
                          request'[a][field] = request'[result'[a].of][field]
  BY DEF Replayed
<1>1. CASE result[a].kind = "replayed"
  <2>. DEFINE b == result[a].of
  <2>1. /\ pc[a] = "done" /\ b \in executed /\ pc[b] = "done" /\ result[b].id = result[a].id
        /\ \A field \in {"idem", "body", "stream"} : request[a][field] = request[b][field]
    BY <1>1 DEF Replayed
  <2>2. b \in Attempts /\ request[a] # None /\ request[b] # None
    BY <2>1, ConversationAssumption DEF TypeOK, Stages, Stage
  <2>3. request'[a] = request[a] /\ request'[b] = request[b] /\ b \in executed'
    BY <2>1, <2>2, ContentsStay
  <2>4. pc'[a] = "done" /\ result'[a] = result[a] /\ pc'[b] = "done" /\ result'[b] = result[b]
    BY <2>1, <2>2, DoneStays
  <2> QED BY <2>1, <2>3, <2>4
<1>2. CASE result[a].kind # "replayed"
  <2>1. Replay(a)
    BY <1>2, AnswersChange DEF NewAnswer
  <2>2. Recorded(a) # None /\ request[a].idem \in IdemKeys /\ Recorded(a) = idem[request[a].idem]
        /\ request[Recorded(a)].body = request[a].body
        /\ request[Recorded(a)].stream = request[a].stream
    BY <2>1, KeysKnown DEF Replay, Matches, Recorded, At, Stages, Stage
  <2>3. /\ Recorded(a) \in executed /\ pc[Recorded(a)] = "done"
        /\ request[Recorded(a)].idem = request[a].idem
    BY <2>2 DEF Recording
  <2>4. /\ Recorded(a) \in Attempts /\ Recorded(a) # a
        /\ result'[a] = [kind |-> "replayed", of |-> Recorded(a), id |-> result[Recorded(a)].id]
        /\ pc'[a] = "done" /\ request' = request /\ executed' = executed
        /\ pc'[Recorded(a)] = "done" /\ result'[Recorded(a)] = result[Recorded(a)]
    BY <2>1, <2>3, DoneStays DEF Replay, Answer, Goto, At, TypeOK, localVars, historyVars
  <2> QED BY <2>2, <2>3, <2>4
<1> QED BY <1>1, <1>2

\* An answer with a tool id is that of an executed request, or a replay.
LEMMA SourcedStays == TypeOK /\ Stages /\ Sourced /\ [Next]_vars => Sourced'
<1>. SUFFICES ASSUME TypeOK, Stages, Sourced, [Next]_vars,
                     NEW a \in Attempts, result'[a].id # None
              PROVE  a \in executed' \/ result'[a].kind = "replayed"
  BY DEF Sourced
<1>1. a \in executed => a \in executed'
  BY ConversationAssumption, ContentsStay DEF TypeOK, Stages, Stage
<1>2. CASE result'[a] = result[a]
  BY <1>1, <1>2 DEF Sourced
<1>3. CASE result'[a] # result[a]
  <2>1. CASE Replay(a)
    BY <2>1 DEF Replay, Answer, TypeOK
  <2>2. ASSUME NEW u \in UpstreamIds, CallSucceeds(a, u) PROVE a \in executed'
    BY <2>2 DEF CallSucceeds
  <2>3. CASE SaveState(a) \/ WriteState(a) \/ Record(a) \/ RecordFails(a)
    BY <1>1, <2>3 DEF SaveState, WriteState, Record, RecordFails, At, Stages, Stage
  <2> QED BY <1>3, <2>1, <2>2, <2>3, AnswersChange DEF NewAnswer
<1> QED BY <1>2, <1>3

-----------------------------------------------------------------------------
(***************************************************************************)
(* Retries.                                                                *)
(***************************************************************************)
\* Only an arriving attempt becomes late; records once lost stay lost; an
\* attempt whose record is found goes no further.
LateChange(b) ==
  /\ lost \subseteq lost'
  /\ b \in late' /\ b \notin late =>
       \E r \in Requests : /\ Arrive(b, r) /\ r.idem # None
                           /\ \E c \in Attempts : request[c] = r /\ result[c].kind = "ok"
  /\ b \in executed' /\ b \notin executed => pc[b] = "call"
  /\ pc[b] \in {"session", "insert", "lookup"} =>
       pc'[b] \in {"session", "insert", "lookup", "done"} \/ NotRecorded(b)

\* Every step is like that.
LEMMA LateChanges ==
  ASSUME TypeOK, Stages, [Next]_vars, NEW b \in Attempts
  PROVE  LateChange(b)
<1>. USE DEF LateChange, stateVars, localVars, historyVars
<1>1. pc \in [Attempts -> Pcs] /\ lost \subseteq IdemKeys
  BY DEF TypeOK, Pcs
<1>2. ASSUME NEW a \in Attempts, Step(a) PROVE LateChange(b)
  <2>1. ASSUME NEW r \in Requests, Arrive(a, r) PROVE LateChange(b)
    BY <2>1, <1>1 DEF Arrive, At, Goto, SameRequest
  <2>2. CASE SelectSession(a) \/ NotRecorded(a) \/ StreamLeaves(a) \/ ReadState(a)
    BY <2>2, <1>1 DEF SelectSession, NotRecorded, StreamLeaves, ReadState, At, Goto
  <2>3. CASE InsertSession(a) \/ Replay(a) \/ Mismatch(a) \/ CallFails(a)
    BY <2>3, <1>1 DEF InsertSession, Replay, Mismatch, CallFails, At, Answer, Goto
  <2>4. CASE Load(a) \/ CallFailsOver(a)
    BY <2>4, <1>1 DEF Load, CallFailsOver, At, Goto
  <2>5. ASSUME NEW u \in UpstreamIds, CallSucceeds(a, u) PROVE LateChange(b)
    BY <2>5, <1>1 DEF CallSucceeds, At, Goto
  <2>6. CASE SaveState(a) \/ WriteState(a)
    BY <2>6, <1>1 DEF SaveState, WriteState, At, Proceed, Goto
  <2>7. CASE Record(a) \/ RecordFails(a)
    BY <2>7, <1>1 DEF Record, RecordFails, At, Answer, Goto
  <2>8. CASE StorageFails(a)
    BY <2>8, <1>1 DEF StorageFails, Answer, Goto
  <2> QED BY <1>2, <2>1, <2>2, <2>3, <2>4, <2>5, <2>6, <2>7, <2>8 DEF Step
<1>3. CASE (\E k \in Keys : SessionExpires(k)) \/ (\E i \in IdemKeys : RecordExpires(i)) \/ Quiet
           \/ UNCHANGED vars
  BY <1>3 DEF SessionExpires, RecordExpires, Quiet, vars
<1>4. CASE Restart
  BY <1>4, <1>1 DEF Restart
<1> QED BY <1>2, <1>3, <1>4 DEF Next

\* An answer is given after its record; a later attempt meets the record.
LEMMA KeptStays == TypeOK /\ Stages /\ Kept /\ [Next]_vars => Kept'
<1>. SUFFICES ASSUME TypeOK, Stages, Kept, [Next]_vars, NEW a \in Attempts
              PROVE  /\ a \in late' => request'[a].idem # None
                     /\ request'[a] # None /\ request'[a].idem # None /\ ~request'[a].stream
                          /\ request'[a].idem \notin lost' =>
                          /\ result'[a].kind = "ok" \/ a \in late' => idem'[request'[a].idem] # None
                          /\ a \in late' => pc'[a] \in {"session", "insert", "lookup", "done"}
                                            /\ a \notin executed'
  BY DEF Kept
<1>1. a \in late => request[a] # None /\ request'[a] = request[a]
  BY ContentsStay, ConversationAssumption DEF Stages, Stage, TypeOK
<1>2. a \in late' /\ a \notin late =>
        \E r \in Requests :
          /\ Arrive(a, r) /\ r.idem # None /\ request'[a] = r
          /\ \E c \in Attempts : request[c] = r /\ result[c].kind = "ok"
  BY LateChanges, SMTT(60) DEF Arrive, TypeOK, LateChange
<1>3. a \in late' => request'[a].idem # None
  BY <1>1, <1>2 DEF Kept
<1>4. ASSUME request'[a] # None, request'[a].idem # None, ~request'[a].stream,
             request'[a].idem \notin lost'
      PROVE  /\ result'[a].kind = "ok" \/ a \in late' => idem'[request'[a].idem] # None
             /\ a \in late' => pc'[a] \in {"session", "insert", "lookup", "done"} /\ a \notin executed'
  <2>. DEFINE i == request'[a].idem
  <2>1. i \in IdemKeys /\ i \notin lost
    <3>1. request'[a] \in Requests
      BY <1>4, TypeStays DEF TypeOK
    <3> QED BY <1>4, <3>1, KeysKnown, LateChanges DEF LateChange
  <2>2. idem[i] # None => idem'[i] # None
    BY <1>4, <2>1, RecordsChange, ConversationAssumption
  <2>3. ASSUME a \in late PROVE idem[i] # None
    BY <1>1, <1>4, <2>1, <2>3 DEF Kept
  <2>4. ASSUME a \in late', a \notin late PROVE idem[i] # None
    <3>1. PICK c \in Attempts : request[c] = request'[a] /\ result[c].kind = "ok"
      BY <1>2, <2>4
    <3> QED BY <1>4, <2>1, <3>1 DEF Kept
  <2>5. ASSUME result'[a].kind = "ok", result'[a] = result[a] PROVE idem'[i] # None
    <3>1. request[a] # None
      BY <2>5, Nothing, ConversationAssumption DEF Stages, Stage
    <3> QED BY <1>4, <2>1, <2>2, <2>5, <3>1, ContentsStay DEF Kept
  <2>6. ASSUME result'[a].kind = "ok", result'[a] # result[a] PROVE idem'[i] # None
    <3>1. CASE Replay(a)
      BY <2>6, <3>1 DEF Replay, Answer, TypeOK
    <3>2. CASE /\ \E u \in UpstreamIds : CallSucceeds(a, u)
               /\ result'[a].kind = "ok" => request[a].stream \/ AfterCall(a) = "done"
      <4>1. request' = request
        BY <3>2 DEF CallSucceeds
      <4> QED BY <1>4, <2>6, <3>2, <4>1 DEF AfterCall, AfterSave
    <3>3. CASE /\ SaveState(a) \/ WriteState(a)
               /\ result'[a].kind = (IF AfterSave(a) = "done" THEN "ok" ELSE result[a].kind)
      <4>1. request' = request
        BY <3>3 DEF SaveState, WriteState, localVars
      <4>2. request[a] # None /\ result[a].kind = "ok"
        BY <1>4, <2>6, <3>3, <4>1 DEF AfterSave
      <4> QED BY <1>4, <2>1, <2>2, <4>1, <4>2 DEF Kept
    <3>4. CASE Record(a)
      <4>1. request' = request /\ idem'[request[a].idem] = a
        BY <2>1, <3>4 DEF Record, RecordResponse, TypeOK, localVars
      <4> QED BY <4>1, ConversationAssumption
    <3>5. CASE RecordFails(a)
      BY <1>4, <3>5 DEF RecordFails, localVars
    <3> QED BY <2>6, <3>1, <3>2, <3>3, <3>4, <3>5, AnswersChange DEF NewAnswer
  <2>7. ASSUME a \in late' PROVE pc'[a] \in {"session", "insert", "lookup", "done"} /\ a \notin executed'
    <3>1. CASE a \in late
      <4>1. /\ pc[a] \in {"session", "insert", "lookup", "done"} /\ a \notin executed
            /\ Recorded(a) # None
        BY <1>1, <1>4, <2>1, <2>3, <3>1 DEF Kept, Recorded
      <4>2. ~NotRecorded(a)
        BY <4>1 DEF NotRecorded
      <4> QED BY <4>1, <4>2, LateChanges, DoneStays DEF LateChange
    <3>2. CASE a \notin late
      <4>1. PICK r \in Requests : Arrive(a, r)
        BY <1>2, <2>7, <3>2
      <4>2. a \notin executed /\ executed' = executed /\ pc'[a] \in {"lookup", "session"}
        BY <4>1 DEF Arrive, At, Goto, Stages, Stage, TypeOK
      <4> QED BY <4>2
    <3> QED BY <3>1, <3>2
  <2> QED BY <2>2, <2>3, <2>4, <2>5, <2>6, <2>7
<1> QED BY <1>3, <1>4

-----------------------------------------------------------------------------
(***************************************************************************)
(* Sessions stay apart.                                                    *)
(***************************************************************************)
\* An attempt is of its own session, and the session of an object it uses is
\* its own.
LEMMA KinRules ==
  ASSUME NEW a \in Attempts, request[a] # None
  PROVE  /\ Kin(a, a)
         /\ \A b \in Attempts : Kin(a, b) => \A c : Kin(b, c) => Kin(a, c)
         /\ \A b \in Attempts : Kin(a, b) => Kin(b, a) /\ request[b] # None
BY DEF Kin, OfKey

\* The id an upstream id is given is of the session.
LEMMA IdIsKin ==
  ASSUME TypeOK, Stages, Apart, NEW a \in Attempts, pc[a] # "idle", NEW u \in UpstreamIds
  PROVE  Kin(a, IdFor(a, u)) /\ Kin(ref[a], IdFor(a, u)) /\ request[ref[a]] # None
<1>1. request[a] # None /\ ref[a] \in Attempts /\ Kin(a, ref[a])
  BY ConversationAssumption DEF Stages, Stage, Apart, TypeOK
<1>2. CASE heap[ref[a]][u] = None
  BY <1>1, <1>2, KinRules DEF IdFor
<1>3. CASE heap[ref[a]][u] # None
  BY <1>1, <1>3, KinRules DEF IdFor, Apart
<1> QED BY <1>2, <1>3

\* Load hands out the session's own object; failover makes a new one.
LEMMA RefsApart ==
  ASSUME TypeOK, Stages, Apart, [Next]_vars, NEW b \in Attempts, pc'[b] # "idle"
  PROVE  Kin(b, ref[b])'
<1>. USE DEF stateVars, localVars, historyVars
<1>1. pc \in [Attempts -> Pcs] /\ ref \in [Attempts -> Attempts]
  BY DEF TypeOK, Pcs
<1>2. request'[b] # None
  BY TypeStays, StagesStay, ConversationAssumption DEF Stages, Stage
<1>3. CASE ref'[b] = b
  <2>1. b \in OfKey(Key(b))'
    BY <1>2 DEF OfKey
  <2> QED BY <1>3, <2>1 DEF Kin
<1>4. ASSUME ref'[b] = ref[b], pc[b] # "idle" PROVE Kin(b, ref[b])'
  <2>1. Kin(b, ref[b]) /\ request[b] # None
    BY <1>4, ConversationAssumption DEF Apart, Stages, Stage
  <2> QED BY <1>1, <1>4, <2>1, ContentsStay DEF Kin
<1>5. ASSUME ref'[b] = ref[b], pc[b] = "idle" PROVE Kin(b, ref[b])'
  BY <1>3, <1>5 DEF Stages, Stage
<1>6. ASSUME Load(b), Loaded(b).object # None PROVE Kin(b, ref[b])'
  <2>1. Key(b) # None /\ Key(b) \in Keys /\ request[b] # None
    BY <1>6, KeysKnown, Nothing DEF Loaded, StateOf, Load, At, Stages, Stage, Key
  <2>2. Loaded(b).object \in OfKey(Key(b))
    BY <1>6, <2>1 DEF Loaded, StateOf, Apart
  <2>3. ref'[b] = Loaded(b).object /\ request' = request
    BY <1>1, <1>6 DEF Load
  <2> QED BY <2>1, <2>2, <2>3 DEF Kin, OfKey, Key
<1>7. ref'[b] = ref[b] \/ ref'[b] = b \/ (Load(b) /\ Loaded(b).object # None)
  <2>1. ASSUME NEW a \in Attempts, Step(a), ~Load(a), ~CallFailsOver(a) PROVE ref' = ref
    <3>1. CASE \/ \E r \in Requests : Arrive(a, r)
               \/ SelectSession(a) \/ InsertSession(a) \/ Replay(a) \/ Mismatch(a) \/ NotRecorded(a)
               \/ (\E u \in UpstreamIds : CallSucceeds(a, u)) \/ CallFails(a)
      BY <3>1 DEF Arrive, SelectSession, InsertSession, Replay, Mismatch, NotRecorded,
         CallSucceeds, CallFails
    <3>2. CASE \/ SaveState(a) \/ ReadState(a) \/ WriteState(a) \/ StreamLeaves(a)
               \/ Record(a) \/ StorageFails(a) \/ RecordFails(a)
      BY <3>2 DEF SaveState, ReadState, WriteState, StreamLeaves, Record, StorageFails, RecordFails
    <3> QED BY <2>1, <3>1, <3>2 DEF Step
  <2>2. ASSUME NEW a \in Attempts, Load(a) \/ CallFailsOver(a)
        PROVE  ref'[b] = ref[b] \/ ref'[b] = b \/ (Load(b) /\ Loaded(b).object # None)
    BY <1>1, <2>2 DEF Load, CallFailsOver
  <2>3. CASE (\E k \in Keys : SessionExpires(k)) \/ (\E i \in IdemKeys : RecordExpires(i)) \/ Quiet
             \/ Restart \/ UNCHANGED vars
    BY <2>3 DEF SessionExpires, RecordExpires, Quiet, Restart, vars
  <2> QED BY <2>1, <2>2, <2>3 DEF Next
<1> QED BY <1>3, <1>4, <1>5, <1>6, <1>7

\* An object is filled from its session, or with ids made up in it.
LEMMA HeapsApart ==
  ASSUME TypeOK, Stages, Apart, [Next]_vars, NEW b \in Attempts, NEW v \in UpstreamIds,
         heap'[b][v] # None
  PROVE  request'[b] # None /\ Kin(b, heap[b][v])'
<1>. USE DEF stateVars, localVars, historyVars
<1>1. heap \in [Attempts -> MapType] /\ ref \in [Attempts -> Attempts]
  BY DEF TypeOK
<1>2. CASE heap'[b][v] = heap[b][v]
  <2>1. request[b] # None /\ Kin(b, heap[b][v])
    BY <1>2 DEF Apart
  <2>2. heap[b][v] \in Attempts
    BY <1>1, <1>2 DEF MapType
  <2>3. request'[b] # None
    BY <2>1, ContentsStay
  <2> QED BY <1>2, <2>1, <2>2, <2>3, ContentsStay DEF Kin
<1>3. ASSUME NEW a \in Attempts, Load(a), heap'[b][v] # heap[b][v]
      PROVE  request'[b] # None /\ Kin(b, heap[b][v])'
  <2>1. a = b /\ heap'[b] = Loaded(b).map /\ request' = request
    BY <1>1, <1>3 DEF Load
  <2>2. Key(b) # None /\ Key(b) \in Keys /\ request[b] # None
    BY <1>3, <2>1, KeysKnown, Nothing DEF Loaded, StateOf, Load, At, Stages, Stage, Key
  <2>3. heap'[b][v] \in OfKey(Key(b))
    BY <2>1, <2>2 DEF Loaded, StateOf, Apart
  <2> QED BY <2>1, <2>2, <2>3 DEF Kin, OfKey, Key
<1>4. ASSUME NEW a \in Attempts, NEW u \in UpstreamIds, CallSucceeds(a, u), heap'[b][v] # heap[b][v]
      PROVE  request'[b] # None /\ Kin(b, heap[b][v])'
  <2>1. b = ref[a] /\ v = u /\ heap'[b][v] = IdFor(a, u) /\ request' = request
    BY <1>1, <1>4 DEF CallSucceeds, MapType
  <2>2. Kin(ref[a], IdFor(a, u)) /\ request[ref[a]] # None
    BY <1>4, IdIsKin DEF CallSucceeds, At
  <2> QED BY <2>1, <2>2 DEF Kin, OfKey, Key
<1>5. heap'[b][v] = heap[b][v] \/ (\E a \in Attempts : Load(a))
      \/ (\E a \in Attempts : \E u \in UpstreamIds : CallSucceeds(a, u))
  <2>1. ASSUME NEW a \in Attempts, Step(a), ~Load(a), ~(\E u \in UpstreamIds : CallSucceeds(a, u)),
               ~CallFailsOver(a)
        PROVE  heap' = heap
    <3>1. CASE \/ \E r \in Requests : Arrive(a, r)
               \/ SelectSession(a) \/ InsertSession(a) \/ Replay(a) \/ Mismatch(a) \/ NotRecorded(a)
               \/ CallFails(a)
      BY <3>1 DEF Arrive, SelectSession, InsertSession, Replay, Mismatch, NotRecorded, CallFails
    <3>2. CASE \/ SaveState(a) \/ ReadState(a) \/ WriteState(a) \/ StreamLeaves(a)
               \/ Record(a) \/ StorageFails(a) \/ RecordFails(a)
      BY <3>2 DEF SaveState, ReadState, WriteState, StreamLeaves, Record, StorageFails, RecordFails
    <3> QED BY <2>1, <3>1, <3>2 DEF Step
  <2>2. ASSUME NEW a \in Attempts, CallFailsOver(a) PROVE heap'[b][v] = heap[b][v]
    BY <1>1, <2>2, Nothing DEF CallFailsOver
  <2>3. CASE (\E k \in Keys : SessionExpires(k)) \/ (\E i \in IdemKeys : RecordExpires(i)) \/ Quiet
             \/ Restart \/ UNCHANGED vars
    BY <2>3 DEF SessionExpires, RecordExpires, Quiet, Restart, vars
  <2> QED BY <2>1, <2>2, <2>3 DEF Next
<1> QED BY <1>2, <1>3, <1>4, <1>5

\* What is saved for a session comes from an object of that session.
LEMMA SavedIsKin ==
  ASSUME TypeOK, Stages, Apart, NEW a \in Attempts, pc[a] \in {"saving", "writing"}
  PROVE  /\ Key(a) \in Keys /\ ref[a] \in OfKey(Key(a))
         /\ \A u \in UpstreamIds : heap[ref[a]][u] # None => heap[ref[a]][u] \in OfKey(Key(a))
<1>1. request[a] # None /\ Key(a) # None /\ Key(a) \in Keys
  BY KeysKnown DEF Stages, Stage, Key
<1>2. ref[a] \in OfKey(Key(a)) /\ Key(ref[a]) = Key(a) /\ ref[a] \in Attempts
  BY <1>1 DEF Apart, Kin, OfKey
<1> QED BY <1>1, <1>2 DEF Apart, Kin

\* Saving stores an object of the session, or what it holds.
LEMMA StoreApart ==
  ASSUME TypeOK, Stages, Apart, [Next]_vars, NEW k \in Keys
  PROVE  /\ \A u \in UpstreamIds : store'[k].map[u] # None => store'[k].map[u] \in OfKey(k)'
         /\ store'[k].object # None => store'[k].object \in OfKey(k)'
<1>. DEFINE Goal ==
         /\ \A u \in UpstreamIds : store'[k].map[u] # None => store'[k].map[u] \in OfKey(k)
         /\ store'[k].object # None => store'[k].object \in OfKey(k)
<1>. SUFFICES Goal
  BY ContentsStay
<1>. USE DEF stateVars, localVars, historyVars
<1>1. store \in [Keys -> StateType]
  BY DEF TypeOK
<1>2. CASE store'[k] = store[k]
  BY <1>2 DEF Apart
<1>3. CASE store'[k] = NoState
  BY <1>3, Nothing
<1>4. ASSUME NEW a \in Attempts, SaveState(a) PROVE Goal
  <2>1. pc[a] = "saving"
    BY <1>4 DEF SaveState, At
  <2>2. store'[k] = store[k] \/ (k = Key(a) /\ store'[k].map = EmptyMap /\ store'[k].object = ref[a])
    BY <1>1, <1>4 DEF SaveState, SaveToMemory
  <2> QED BY <1>2, <2>1, <2>2, SavedIsKin, Nothing
<1>5. ASSUME NEW a \in Attempts, WriteState(a) PROVE Goal
  <2>1. pc[a] = "writing"
    BY <1>5 DEF WriteState, At
  <2>2. store'[k] = store[k] \/ (k = Key(a) /\ store'[k].map = Written(a) /\ store'[k].object = None)
    BY <1>1, <1>5 DEF WriteState
  <2>3. Key(a) \in Keys /\ Key(a) # None
    BY <2>1, SavedIsKin DEF Keys
  <2>4. Written(a) = store[Key(a)].map \/ Written(a) = heap[ref[a]]
    BY <2>3 DEF Written, StateOf
  <2>5. \A u \in UpstreamIds : Written(a)[u] # None => Written(a)[u] \in OfKey(Key(a))
    BY <2>1, <2>3, <2>4, SavedIsKin DEF Apart
  <2> QED BY <1>2, <2>2, <2>5
<1>6. \/ store'[k] = store[k] \/ store'[k] = NoState
      \/ \E a \in Attempts : SaveState(a) \/ WriteState(a)
  <2>1. ASSUME NEW a \in Attempts, Step(a), ~SaveState(a), ~WriteState(a) PROVE store' = store
    <3>1. CASE \/ \E r \in Requests : Arrive(a, r)
               \/ SelectSession(a) \/ InsertSession(a) \/ Replay(a) \/ Mismatch(a) \/ NotRecorded(a)
               \/ Load(a) \/ (\E u \in UpstreamIds : CallSucceeds(a, u)) \/ CallFailsOver(a)
               \/ CallFails(a)
      BY <3>1 DEF Arrive, SelectSession, InsertSession, Replay, Mismatch, NotRecorded, Load,
         CallSucceeds, CallFailsOver, CallFails
    <3>2. CASE \/ ReadState(a) \/ StreamLeaves(a)
               \/ Record(a) \/ StorageFails(a) \/ RecordFails(a)
      BY <3>2 DEF ReadState, StreamLeaves, Record, StorageFails, RecordFails
    <3> QED BY <2>1, <3>1, <3>2 DEF Step
  <2>2. ASSUME NEW j \in Keys, SessionExpires(j) PROVE store'[k] = store[k] \/ store'[k] = NoState
    BY <1>1, <2>2 DEF SessionExpires
  <2>3. CASE Restart
    BY <2>3 DEF Restart
  <2>4. CASE (\E i \in IdemKeys : RecordExpires(i)) \/ Quiet \/ UNCHANGED vars
    BY <2>4 DEF RecordExpires, Quiet, vars
  <2> QED BY <2>1, <2>2, <2>3, <2>4 DEF Next
<1> QED BY <1>2, <1>3, <1>4, <1>5, <1>6

\* An answer names its tool call by an id of its session.
LEMMA AnswersApart ==
  ASSUME TypeOK, Stages, Apart, [Next]_vars, NEW b \in executed', result'[b].id # None
  PROVE  Kin(b, result[b].id)'
<1>1. b \in Attempts
  BY TypeStays DEF TypeOK
<1>2. ASSUME b \in executed, result'[b].id = result[b].id PROVE Kin(b, result[b].id)'
  <2>1. Kin(b, result[b].id) /\ request[b] # None
    BY <1>1, <1>2, ConversationAssumption DEF Apart, Stages, Stage
  <2> QED BY <1>1, <1>2, <2>1, ContentsStay DEF Kin
<1>3. ASSUME NEW u \in UpstreamIds, CallSucceeds(b, u), result'[b].id = IdFor(b, u)
      PROVE  Kin(b, result[b].id)'
  <2>1. Kin(b, IdFor(b, u)) /\ request' = request
    BY <1>1, <1>3, IdIsKin DEF CallSucceeds, At
  <2> QED BY <1>3, <2>1 DEF Kin, OfKey, Key
<1>4. CASE result'[b] = result[b]
  <2>1. b \in executed
    BY <1>1, <1>4, LateChanges, Nothing DEF Stages, Stage, LateChange
  <2> QED BY <1>2, <1>4, <2>1
<1>5. CASE result'[b] # result[b]
  <2>1. ~Replay(b)
    <3>1. SUFFICES ASSUME Replay(b) PROVE FALSE
      OBVIOUS
    <3>2. pc[b] = "lookup" /\ b \in executed
      BY <1>1, <3>1, LateChanges DEF Replay, At, LateChange
    <3> QED BY <1>1, <3>2 DEF Stages, Stage
  <2>2. SaveState(b) \/ WriteState(b) \/ Record(b) \/ RecordFails(b) => b \in executed
    BY <1>1 DEF SaveState, WriteState, Record, RecordFails, At, Stages, Stage
  <2> QED BY <1>1, <1>2, <1>3, <1>5, <2>1, <2>2, AnswersChange DEF NewAnswer
<1> QED BY <1>4, <1>5

\* The four parts together.
LEMMA ApartStays == TypeOK /\ Stages /\ Apart /\ [Next]_vars => Apart'
BY RefsApart, HeapsApart, StoreApart, AnswersApart DEF Apart

-----------------------------------------------------------------------------
(***************************************************************************)
(* Accounts.  Tokens add up, and maps grow, as long as a session is in the *)
(* hands of one attempt between its load and its save.                     *)
(***************************************************************************)
\* What the saves rest on: an attempt saves once, as its last step but the
\* recording; the objects that are shared belong to attempts that have saved;
\* and a session that is not contended is in the hands of one attempt.
Ownership ==
  /\ IsFiniteSet(saved) /\ forgotten \subseteq saved
  /\ \A a \in saved : pc[a] \in {"recording", "done"}
  /\ \A a \in Attempts :
       /\ pc[a] = "writing" => engine # "memory"
       /\ ref[a] # a => ref[a] \in saved /\ engine = "memory"
  /\ \A k \in Keys :
       /\ store[k].object # None => store[k].object \in saved /\ engine = "memory"
       /\ engine = "memory" => store[k].map = EmptyMap
  /\ \A a, b \in Attempts :
       Busy(a) /\ Busy(b) /\ Key(a) = Key(b) /\ Key(a) \notin contended => a = b

\* The attempts of a session that have saved, and those not forgotten since.
Counted(k) == saved \cap OfKey(k)
Standing(k) == (saved \ forgotten) \cap OfKey(k)

\* The tokens of a session, in the store and in the hand of a writer.
Tokens(k) ==
  /\ store[k].tokens <= Cardinality(Counted(k))
  /\ engine = "memory" \/ k \notin contended => store[k].tokens = Cardinality(Standing(k))
  /\ \A a \in Attempts : pc[a] = "writing" /\ Key(a) = k =>
       /\ seen[a].tokens <= Cardinality(Counted(k))
       /\ k \notin contended => seen[a] = store[k]

Tallied == \A k \in Keys : Tokens(k)

\* The map that an attempt is about to save extends the stored one.
Extending ==
  \A a \in Attempts : Busy(a) /\ Key(a) # None /\ Key(a) \notin contended /\ a \notin switched =>
    /\ engine = "memory" => store[Key(a)].object \in {None, ref[a]}
    /\ engine # "memory" => \A u \in UpstreamIds :
         store[Key(a)].map[u] # None => heap[a][u] = store[Key(a)].map[u]

\* The invariant of the accounts, beside IInv.
Accounts == Ownership /\ Tallied /\ Extending

\* A step of an attempt that neither takes up nor saves a session.
Bystanding ==
  /\ UNCHANGED <<engine, store, ref, heap, seen, saved, forgotten, contended, switched>>
  /\ \A a \in Attempts :
       \/ pc'[a] = pc[a] \/ pc'[a] = "done"
       \/ pc[a] \notin {"recording", "done"} /\ pc'[a] \in {"session", "insert", "lookup", "load"}

\* The steps that matter to a session.
Handling(a) ==
  \/ Load(a) \/ (\E u \in UpstreamIds : CallSucceeds(a, u)) \/ CallFailsOver(a)
  \/ SaveState(a) \/ ReadState(a) \/ WriteState(a)

\* Every other step of an attempt is one of a bystander.
LEMMA Bystanders ==
  ASSUME TypeOK, [Next]_vars
  PROVE  \/ Bystanding \/ Restart
         \/ \E a \in Attempts : Handling(a)
         \/ \E k \in Keys : SessionExpires(k)
<1>. USE DEF stateVars, localVars, historyVars
<1>1. pc \in [Attempts -> Pcs] BY DEF TypeOK, Pcs
<1>2. ASSUME NEW a \in Attempts, Step(a), ~Handling(a) PROVE Bystanding
  <2>1. ASSUME NEW r \in Requests, Arrive(a, r) PROVE Bystanding
    BY <1>1, <2>1 DEF Arrive, At, Goto, Bystanding
  <2>2. CASE SelectSession(a) \/ NotRecorded(a) \/ StreamLeaves(a)
    BY <1>1, <2>2 DEF SelectSession, NotRecorded, StreamLeaves, At, Goto, Bystanding
  <2>3. CASE InsertSession(a)
    BY <1>1, <2>3 DEF InsertSession, At, Answer, Goto, Bystanding
  <2>4. CASE Replay(a) \/ Mismatch(a) \/ CallFails(a) \/ Record(a) \/ RecordFails(a)
    BY <1>1, <2>4 DEF Replay, Mismatch, CallFails, Record, RecordFails, Answer, Goto, Bystanding
  <2>5. CASE StorageFails(a)
    BY <1>1, <2>5 DEF StorageFails, Answer, Goto, Bystanding
  <2> QED BY <1>2, <2>1, <2>2, <2>3, <2>4, <2>5 DEF Step, Handling
<1>3. CASE (\E i \in IdemKeys : RecordExpires(i)) \/ Quiet \/ UNCHANGED vars
  BY <1>3 DEF RecordExpires, Quiet, vars, Bystanding
<1> QED BY <1>2, <1>3 DEF Next

\* What an attempt does to a session.
LEMMA Handles ==
  ASSUME TypeOK, NEW a \in Attempts, Handling(a)
  PROVE  /\ pc' \in [Attempts -> Pcs] /\ \A b \in Attempts \ {a} : pc'[b] = pc[b]
         /\ UNCHANGED <<engine, forgotten, request>>
         /\ Load(a) => pc[a] = "load" /\ pc'[a] = "call"
         /\ (\E u \in UpstreamIds : CallSucceeds(a, u)) => pc[a] = "call" /\ pc'[a] = AfterCall(a)
         /\ CallFailsOver(a) => pc[a] = "call" /\ pc'[a] = "call"
         /\ SaveState(a) => pc[a] = "saving" /\ pc'[a] = AfterSave(a)
         /\ ReadState(a) => pc[a] = "saving" /\ pc'[a] = "writing"
         /\ WriteState(a) => pc[a] = "writing" /\ pc'[a] = AfterSave(a)
<1>. USE DEF stateVars, localVars, historyVars
<1>1. pc \in [Attempts -> Pcs] BY DEF TypeOK, Pcs
<1>. DEFINE Moves(p, q) ==
              /\ pc[a] = p /\ pc'[a] = q /\ pc' \in [Attempts -> Pcs]
              /\ \A b \in Attempts \ {a} : pc'[b] = pc[b]
              /\ UNCHANGED <<engine, forgotten, request>>
<1>2. Load(a) => Moves("load", "call") BY <1>1 DEF Load, At, Goto, Pcs
<1>3. CallFailsOver(a) => Moves("call", "call") BY <1>1 DEF CallFailsOver, At
<1>4. ReadState(a) => Moves("saving", "writing") BY <1>1 DEF ReadState, At, Goto, Pcs
<1>5. ASSUME NEW u \in UpstreamIds, CallSucceeds(a, u) PROVE Moves("call", AfterCall(a))
  BY <1>1, <1>5, Points DEF CallSucceeds, At, Goto, Pcs
<1>6. SaveState(a) => Moves("saving", AfterSave(a)) BY Proceeds DEF SaveState, At
<1>7. WriteState(a) => Moves("writing", AfterSave(a)) BY Proceeds DEF WriteState, At
<1>8. \A p, q : Moves(p, q) =>
        /\ pc[a] = p /\ pc'[a] = q /\ pc' \in [Attempts -> Pcs]
        /\ \A b \in Attempts \ {a} : pc'[b] = pc[b]
        /\ UNCHANGED <<engine, forgotten, request>>
  OBVIOUS
<1> HIDE DEF Moves
<1>9. \E p, q : Moves(p, q) BY <1>2, <1>3, <1>4, <1>5, <1>6, <1>7 DEF Handling
<1>10. /\ pc' \in [Attempts -> Pcs] /\ \A b \in Attempts \ {a} : pc'[b] = pc[b]
       /\ UNCHANGED <<engine, forgotten, request>>
  BY <1>8, <1>9
<1>11. (\E u \in UpstreamIds : CallSucceeds(a, u)) => pc[a] = "call" /\ pc'[a] = AfterCall(a)
  BY <1>5, <1>8
<1> QED BY <1>2, <1>3, <1>4, <1>6, <1>7, <1>8, <1>10, <1>11

\* An attempt that has arrived keeps its session; so does each one that has saved.
LEMMA KeysStay ==
  ASSUME TypeOK, Stages, [Next]_vars
  PROVE  /\ \A b \in Attempts : pc[b] # "idle" =>
              request[b] \in Requests /\ request'[b] = request[b] /\ Key(b)' = Key(b)
         /\ (\A b \in saved : pc[b] \in {"recording", "done"}) =>
              \A k : saved \cap OfKey(k)' = saved \cap OfKey(k)
<1>1. ASSUME NEW b \in Attempts, pc[b] # "idle"
      PROVE  request[b] \in Requests /\ request'[b] = request[b] /\ Key(b)' = Key(b)
  BY <1>1, ContentsStay, ConversationAssumption DEF Stages, Stage
<1>2. ASSUME NEW k, \A b \in saved : pc[b] \in {"recording", "done"}
      PROVE  saved \cap OfKey(k)' = saved \cap OfKey(k)
  <2>1. \A b \in saved : b \in Attempts /\ request'[b] = request[b]
    BY <1>1, <1>2 DEF TypeOK
  <2> QED BY <2>1 DEF OfKey, Key
<1> QED BY <1>1, <1>2

\* An attempt saves once, and only what has been saved is shared.
LEMMA OwnershipStays ==
  ASSUME TypeOK, Stages, Ownership, [Next]_vars
  PROVE  Ownership'
<1>. USE DEF stateVars, localVars, historyVars
<1>1. /\ pc \in [Attempts -> Pcs] /\ ref \in [Attempts -> Attempts] /\ store \in [Keys -> StateType]
      /\ saved \subseteq Attempts
      /\ \A b \in Attempts : pc[b] # "idle" => Key(b)' = Key(b)
  BY KeysStay DEF TypeOK, Pcs
<1>2. CASE Bystanding
  <2>1. \A b \in Attempts : Busy(b)' => Busy(b) /\ pc'[b] = pc[b] /\ Key(b)' = Key(b)
    BY <1>1, <1>2 DEF Bystanding, Busy
  <2>2. /\ UNCHANGED <<engine, store, ref, saved, forgotten, contended>>
        /\ \A a \in saved : pc'[a] \in {"recording", "done"}
        /\ \A a \in Attempts : pc'[a] = "writing" => pc[a] = "writing"
    BY <1>1, <1>2 DEF Bystanding, Ownership
  <2> QED BY <2>1, <2>2 DEF Ownership
<1>3. CASE Restart
  <2>1. /\ UNCHANGED <<engine, ref, saved, contended>>
        /\ \A a \in Attempts : ~Busy(a)' /\ pc'[a] # "writing"
        /\ \A a \in saved : pc'[a] \in {"recording", "done"}
        /\ forgotten' \subseteq saved
    BY <1>1, <1>3 DEF Restart, Busy, Ownership
  <2>2. \A k \in Keys : store'[k] = store[k] \/ store'[k] = NoState
    BY <1>3 DEF Restart
  <2> QED BY <2>1, <2>2, Nothing DEF Ownership
<1>4. ASSUME NEW k \in Keys, SessionExpires(k) PROVE Ownership'
  <2>1. /\ UNCHANGED <<engine, ref, saved, pc, request>>
        /\ contended \subseteq contended'
        /\ forgotten' \subseteq saved
    BY <1>4 DEF SessionExpires, Ownership
  <2>2. \A j \in Keys : store'[j] = store[j] \/ store'[j] = NoState
    BY <1>1, <1>4 DEF SessionExpires
  <2> QED BY <2>1, <2>2, Nothing DEF Ownership, Busy, Key
<1>5. ASSUME NEW a \in Attempts, Handling(a) PROVE Ownership'
  <2>1. /\ \A b \in Attempts \ {a} : pc'[b] = pc[b]
        /\ UNCHANGED <<engine, forgotten, request>> /\ pc[a] \in {"load", "call", "saving", "writing"}
        /\ a \notin saved /\ \A b \in Attempts : Key(b)' = Key(b)
    BY <1>5, Handles DEF Handling, Ownership, Key
  <2>2. CASE Load(a)
    <3>1. /\ UNCHANGED <<store, saved>> /\ pc'[a] = "call" /\ contended \subseteq contended'
          /\ \A b \in Attempts \ {a} : ref'[b] = ref[b]
          /\ ref'[a] = (IF Loaded(a).object = None THEN a ELSE Loaded(a).object)
          /\ (\E b \in Attempts \ {a} : Busy(b) /\ Key(b) = Key(a)) => Key(a) \in contended'
      BY <1>1, <2>2, Handles, <1>5 DEF Load
    <3>2. ref'[a] # a => ref'[a] \in saved /\ engine = "memory"
      BY <3>1, Nothing, <2>2, KeysKnown DEF Loaded, StateOf, Ownership, Keys, Load, At, Stages, Stage, Key
    <3>3. ASSUME NEW b \in Attempts, NEW c \in Attempts, Busy(b)', Busy(c)', Key(b) = Key(c), Key(b) \notin contended'
          PROVE  b = c
      <4>1. b # a => Busy(b) BY <2>1, <3>3 DEF Busy
      <4>2. c # a => Busy(c) BY <2>1, <3>3 DEF Busy
      <4> QED BY <3>1, <3>3, <4>1, <4>2 DEF Ownership
    <3>4. \A b \in Attempts : pc'[b] = "writing" => pc[b] = "writing" BY <2>1, <3>1
    <3>5. \A b \in saved : pc'[b] \in {"recording", "done"} BY <1>1, <2>1 DEF Ownership
    <3>6. \A b \in Attempts : ref'[b] # b => ref'[b] \in saved /\ engine = "memory"
      BY <3>1, <3>2 DEF Ownership
    <3> QED BY <2>1, <3>1, <3>3, <3>4, <3>5, <3>6 DEF Ownership
  <2>3. CASE (\E u \in UpstreamIds : CallSucceeds(a, u)) \/ CallFailsOver(a) \/ ReadState(a)
    <3>1. /\ UNCHANGED <<store, saved, contended>>
          /\ \A b \in Attempts \ {a} : ref'[b] = ref[b]
          /\ ref'[a] \in {a, ref[a]}
      BY <1>1, <2>3 DEF CallSucceeds, CallFailsOver, ReadState
    <3>2. Busy(a) /\ (pc'[a] = "writing" => engine # "memory")
      <4>1. AfterCall(a) # "writing" BY DEF AfterCall, AfterSave
      <4> QED BY <1>5, <2>3, <4>1, Handles DEF Busy, ReadState
    <3>3. \A b \in Attempts : Busy(b)' => Busy(b) BY <2>1, <3>2 DEF Busy
    <3>4. \A b \in Attempts : pc'[b] = "writing" => engine # "memory" BY <2>1, <3>2 DEF Ownership
    <3>5. \A b \in saved : pc'[b] \in {"recording", "done"} BY <1>1, <2>1, <3>1 DEF Ownership
    <3>6. \A b \in Attempts : ref'[b] # b => ref'[b] \in saved /\ engine = "memory"
      BY <3>1 DEF Ownership
    <3> QED BY <2>1, <3>1, <3>3, <3>4, <3>5, <3>6 DEF Ownership
  <2>4. CASE SaveState(a) \/ WriteState(a)
    <3>1. /\ UNCHANGED <<ref, contended>> /\ saved' = saved \cup {a} /\ pc'[a] \in {"recording", "done"}
      BY <1>5, <2>4, Handles, Points DEF SaveState, WriteState
    <3>2. Key(a) \in Keys
      BY <2>4, KeysKnown DEF SaveState, WriteState, At, Stages, Stage, Key
    <3>3. /\ \A k \in Keys \ {Key(a)} : store'[k] = store[k]
          /\ SaveState(a) => engine = "memory" /\ store'[Key(a)].map = EmptyMap
                             /\ store'[Key(a)].object = ref[a]
          /\ WriteState(a) => store'[Key(a)].object = None /\ engine # "memory"
      BY <1>1, <2>4, <3>2 DEF SaveState, SaveToMemory, WriteState, At, Ownership
    <3>4. /\ IsFiniteSet(saved') /\ forgotten' \subseteq saved'
          /\ \A b \in saved' : pc'[b] \in {"recording", "done"}
          /\ \A b \in Attempts : Busy(b)' => Busy(b) /\ b # a
          /\ \A b \in Attempts : pc'[b] = "writing" => engine # "memory"
      BY <1>1, <2>1, <3>1, FS_AddElement DEF Ownership, Busy
    <3>5. \A b \in Attempts : ref'[b] # b => ref'[b] \in saved' /\ engine = "memory"
      BY <3>1 DEF Ownership
    <3>6. ASSUME NEW k \in Keys
          PROVE  /\ store'[k].object # None => store'[k].object \in saved' /\ engine = "memory"
                 /\ engine = "memory" => store'[k].map = EmptyMap
      <4>1. CASE k # Key(a) BY <3>1, <3>3, <4>1 DEF Ownership
      <4>2. CASE k = Key(a)
        <5>1. ref[a] \in saved' BY <3>1 DEF Ownership
        <5> QED BY <2>4, <3>3, <4>2, <5>1
      <4> QED BY <4>1, <4>2
    <3> QED BY <2>1, <3>1, <3>4, <3>5, <3>6 DEF Ownership
  <2> QED BY <1>5, <2>2, <2>3, <2>4 DEF Handling
<1> QED BY <1>2, <1>3, <1>4, <1>5, Bystanders

\* The saved attempts are finitely many, and one more is one more.
LEMMA Counts ==
  ASSUME Ownership, TypeOK, NEW k
  PROVE  /\ Cardinality(Counted(k)) \in Nat /\ Cardinality(Standing(k)) \in Nat
         /\ \A a : a \notin saved =>
              /\ Cardinality(Counted(k) \cup {a}) = Cardinality(Counted(k)) + 1
              /\ Cardinality(Standing(k) \cup {a}) = Cardinality(Standing(k)) + 1
<1>1. IsFiniteSet(Counted(k)) /\ IsFiniteSet(Standing(k))
  <2>1. Counted(k) \subseteq saved /\ Standing(k) \subseteq saved BY DEF Counted, Standing
  <2> QED BY <2>1, FS_Subset DEF Ownership
<1>2. Cardinality(Counted(k)) \in Nat /\ Cardinality(Standing(k)) \in Nat
  BY <1>1, FS_CardinalityType
<1>3. ASSUME NEW a, a \notin saved
      PROVE  /\ Cardinality(Counted(k) \cup {a}) = Cardinality(Counted(k)) + 1
             /\ Cardinality(Standing(k) \cup {a}) = Cardinality(Standing(k)) + 1
  <2>1. a \notin Counted(k) /\ a \notin Standing(k) BY <1>3 DEF Counted, Standing
  <2> QED BY <1>1, <2>1, FS_AddElement
<1> QED BY <1>2, <1>3

\* Where nobody saves and nothing is forgotten, the counts stay.
LEMMA CountsStay ==
  ASSUME TypeOK, Stages, Ownership, [Next]_vars, saved' = saved, NEW k
  PROVE  /\ Counted(k)' = Counted(k)
         /\ (forgotten \cap saved) \cap OfKey(k) = (forgotten' \cap saved) \cap OfKey(k)
              => Standing(k)' = Standing(k)
<1>1. saved \cap OfKey(k)' = saved \cap OfKey(k) BY KeysStay DEF Ownership
<1>2. Counted(k)' = saved \cap OfKey(k)' BY DEF Counted
<1>3. Standing(k)' = (saved \ forgotten') \cap OfKey(k)' BY DEF Standing
<1> QED BY <1>1, <1>2, <1>3 DEF Counted, Standing

\* A save adds one to the tokens and one attempt to those counted; between the
\* read of a writer and its write nobody else adds to a session that is not contended.
LEMMA TalliedStays ==
  ASSUME TypeOK, Stages, Ownership, Tallied, [Next]_vars
  PROVE  Tallied'
<1>. USE DEF stateVars, localVars, historyVars
<1>. SUFFICES ASSUME NEW k \in Keys PROVE Tokens(k)'
  BY DEF Tallied
<1>1. /\ pc \in [Attempts -> Pcs] /\ store \in [Keys -> StateType] /\ seen \in [Attempts -> StateType]
      /\ store[k].tokens \in Nat /\ \A b \in Attempts : seen[b].tokens \in Nat
      /\ saved \subseteq Attempts /\ Tokens(k) /\ k # None
      /\ \A b \in Attempts : pc[b] # "idle" => Key(b)' = Key(b)
      /\ Cardinality(Counted(k)) \in Nat /\ Cardinality(Standing(k)) \in Nat
  BY KeysStay, Counts DEF TypeOK, Pcs, StateType, Tallied, Keys
<1>2. ASSUME UNCHANGED <<engine, saved, seen>>, store'[k] = store[k], contended \subseteq contended',
             Standing(k)' = Standing(k),
             \A b \in Attempts : pc'[b] = "writing" => pc[b] = "writing"
      PROVE  Tokens(k)'
  <2>1. Counted(k)' = Counted(k) BY <1>2, CountsStay
  <2>2. /\ \A b \in Attempts : pc'[b] = "writing" => Key(b)' = Key(b)
    BY <1>1, <1>2
  <2> QED BY <1>1, <1>2, <2>1, <2>2 DEF Tokens
<1>3. CASE Bystanding
  <2>1. UNCHANGED <<engine, saved, seen, contended, forgotten, store>>
    BY <1>3 DEF Bystanding
  <2>2. \A b \in Attempts : pc'[b] = "writing" => pc[b] = "writing"
    BY <1>1, <1>3 DEF Bystanding
  <2> QED BY <1>2, <2>1, <2>2, CountsStay
<1>4. CASE Restart
  <2>1. /\ UNCHANGED <<engine, saved, seen, contended>>
        /\ \A b \in Attempts : pc'[b] # "writing"
    BY <1>1, <1>4 DEF Restart
  <2>2. CASE engine = "memory"
    <3>1. store'[k] = NoState /\ forgotten' = saved BY <1>4, <2>2 DEF Restart
    <3>2. Counted(k)' = Counted(k) BY <2>1, CountsStay
    <3>3. Standing(k)' = {} BY <2>1, <3>1 DEF Standing
    <3>4. Cardinality(Standing(k)') = 0 BY <3>3, FS_EmptySet
    <3> QED BY <1>1, <2>1, <3>1, <3>2, <3>4, Nothing DEF Tokens
  <2>3. CASE engine # "memory"
    <3>1. store' = store /\ forgotten' = forgotten BY <1>4, <2>3 DEF Restart
    <3> QED BY <1>2, <2>1, <3>1, CountsStay
  <2> QED BY <2>2, <2>3
<1>5. ASSUME NEW j \in Keys, SessionExpires(j) PROVE Tokens(k)'
  <2>1. /\ UNCHANGED <<engine, saved, seen, pc, request>> /\ contended \subseteq contended'
        /\ forgotten' = forgotten \cup (saved \cap OfKey(j)) /\ engine = "redis"
        /\ store' = [store EXCEPT ![j] = NoState]
        /\ (\E a \in OfKey(j) : pc[a] = "writing") => j \in contended'
    BY <1>5 DEF SessionExpires
  <2>2. CASE j = k
    <3>1. store'[k] = NoState BY <1>1, <2>1, <2>2
    <3>2. Counted(k)' = Counted(k) BY <2>1, CountsStay
    <3>3. Standing(k)' = {} BY <2>1, <2>2 DEF Standing, OfKey, Key
    <3>4. Cardinality(Standing(k)') = 0 BY <3>3, FS_EmptySet
    <3>5. ASSUME NEW a \in Attempts, pc[a] = "writing", Key(a) = k
          PROVE  k \in contended' /\ seen[a].tokens <= Cardinality(Counted(k))
      <4>1. a \in OfKey(k) BY <3>5, ConversationAssumption DEF OfKey, Stages, Stage
      <4> QED BY <1>1, <2>1, <2>2, <3>5, <4>1 DEF Tokens
    <3>6. \A a \in Attempts : Key(a)' = Key(a) BY <2>1 DEF Key
    <3> QED BY <1>1, <2>1, <3>1, <3>2, <3>4, <3>5, <3>6, Nothing DEF Tokens
  <2>3. CASE j # k
    <3>1. OfKey(j) \cap OfKey(k) = {} BY <2>3 DEF OfKey
    <3>2. Standing(k)' = Standing(k) BY <2>1, <3>1, CountsStay
    <3>3. store'[k] = store[k] BY <2>1, <2>3
    <3> QED BY <1>2, <2>1, <3>2, <3>3
  <2> QED BY <2>2, <2>3
<1>6. ASSUME NEW a \in Attempts, Handling(a) PROVE Tokens(k)'
  <2>1. /\ \A b \in Attempts \ {a} : pc'[b] = pc[b]
        /\ UNCHANGED <<engine, forgotten, request>> /\ pc[a] \in {"load", "call", "saving", "writing"}
        /\ a \notin saved /\ \A b \in Attempts : Key(b)' = Key(b)
    BY <1>6, Handles DEF Handling, Ownership, Key
  <2>2. CASE Load(a) \/ (\E u \in UpstreamIds : CallSucceeds(a, u)) \/ CallFailsOver(a)
    <3>1. UNCHANGED <<saved, seen, store>> /\ contended \subseteq contended'
      BY <2>2 DEF Load, CallSucceeds, CallFailsOver
    <3>2. pc'[a] # "writing"
      <4>1. AfterCall(a) # "writing" BY DEF AfterCall, AfterSave
      <4> QED BY <1>6, <2>2, <4>1, Handles
    <3> QED BY <1>2, <2>1, <3>1, <3>2, CountsStay
  <2>3. CASE ReadState(a)
    <3>1. /\ UNCHANGED <<saved, store, contended>> /\ Key(a) # None
          /\ seen' = [seen EXCEPT ![a] = StateOf(a)]
      BY <2>3 DEF ReadState, At, Stages, Stage
    <3>2. Counted(k)' = Counted(k) /\ Standing(k)' = Standing(k) BY <2>1, <3>1, CountsStay
    <3>3. /\ \A b \in Attempts \ {a} : seen'[b] = seen[b]
          /\ Key(a) = k => seen'[a] = store[k]
      BY <1>1, <3>1 DEF StateOf
    <3> QED BY <1>1, <2>1, <3>1, <3>2, <3>3 DEF Tokens
  <2>4. CASE SaveState(a) \/ WriteState(a)
    <3>1. /\ saved' = saved \cup {a} /\ pc'[a] # "writing" /\ contended' = contended
          /\ \A b \in Attempts \ {a} : seen'[b] = seen[b]
          /\ Busy(a) /\ Key(a) \in Keys /\ request[a] # None /\ a \notin forgotten
      <4>1. pc'[a] # "writing" BY <1>6, <2>4, Handles, Points
      <4>2. Key(a) \in Keys /\ request[a] # None
        BY <2>4, KeysKnown, ConversationAssumption DEF SaveState, WriteState, At, Stages, Stage, Key
      <4> QED BY <1>1, <2>1, <2>4, <4>1, <4>2 DEF SaveState, WriteState, At, Busy, Ownership
    <3>2. CASE Key(a) # k
      <4>1. a \notin OfKey(k) BY <3>2 DEF OfKey
      <4>2. OfKey(k)' = OfKey(k) BY <2>1 DEF OfKey, Key
      <4>3. Counted(k)' = Counted(k) /\ Standing(k)' = Standing(k)
        BY <2>1, <3>1, <4>1, <4>2 DEF Counted, Standing
      <4>4. store'[k] = store[k]
        BY <1>1, <2>4, <3>2 DEF SaveState, SaveToMemory, WriteState
      <4> QED BY <1>1, <2>1, <3>1, <3>2, <4>3, <4>4 DEF Tokens
    <3>3. CASE Key(a) = k
      <4>1. a \in OfKey(k) /\ OfKey(k)' = OfKey(k) BY <2>1, <3>1, <3>3 DEF OfKey, Key
      <4>2. Counted(k)' = Counted(k) \cup {a} /\ Standing(k)' = Standing(k) \cup {a}
        BY <2>1, <3>1, <4>1 DEF Counted, Standing
      <4>3. /\ Cardinality(Counted(k)') = Cardinality(Counted(k)) + 1
            /\ Cardinality(Standing(k)') = Cardinality(Standing(k)) + 1
        BY <2>1, <4>2, Counts
      <4>4. \A b \in Attempts : k \notin contended /\ pc'[b] = "writing" => Key(b) # k
        BY <2>1, <3>1, <3>3 DEF Ownership, Busy
      <4>5. \A b \in Attempts : pc'[b] = "writing" /\ Key(b) = k =>
              seen'[b].tokens <= Cardinality(Counted(k))
        BY <1>1, <2>1, <3>1 DEF Tokens
      <4>6. \/ /\ store'[k].tokens = store[k].tokens + 1 /\ engine = "memory"
            \/ /\ store'[k].tokens = seen[a].tokens + 1 /\ engine # "memory"
               /\ seen[a].tokens <= Cardinality(Counted(k))
               /\ k \notin contended => seen[a].tokens = store[k].tokens
        <5>1. CASE SaveState(a)
          BY <1>1, <3>3, <5>1 DEF SaveState, SaveToMemory
        <5>2. CASE WriteState(a)
          <6>1. pc[a] = "writing" /\ engine # "memory" BY <5>2 DEF WriteState, At, Ownership
          <6>2. store'[k].tokens = seen[a].tokens + 1
            BY <1>1, <3>3, <5>2 DEF WriteState
          <6> QED BY <1>1, <3>3, <6>1, <6>2 DEF Tokens
        <5> QED BY <2>4, <5>1, <5>2
      <4>7. store'[k].tokens <= Cardinality(Counted(k)')
        BY <1>1, <4>3, <4>6 DEF Tokens
      <4>8. engine = "memory" \/ k \notin contended => store'[k].tokens = Cardinality(Standing(k)')
        BY <1>1, <4>3, <4>6 DEF Tokens
      <4>9. \A b \in Attempts : pc'[b] = "writing" /\ Key(b) = k =>
              seen'[b].tokens <= Cardinality(Counted(k)')
        <5>1. ASSUME NEW b \in Attempts, pc'[b] = "writing", Key(b) = k
              PROVE  seen'[b].tokens <= Cardinality(Counted(k)')
          <6>1. b # a /\ seen'[b] = seen[b] BY <3>1, <5>1
          <6>2. seen[b].tokens \in Nat BY <1>1
          <6> QED BY <1>1, <4>3, <4>5, <5>1, <6>1, <6>2
        <5> QED BY <5>1
      <4> QED BY <2>1, <3>1, <4>4, <4>7, <4>8, <4>9 DEF Tokens
    <3> QED BY <3>2, <3>3
  <2> QED BY <1>6, <2>2, <2>3, <2>4 DEF Handling
<1> QED BY <1>3, <1>4, <1>5, <1>6, Bystanders

\* What a saved attempt's object knows is not forgotten: nobody clears it, and an
\* id once in it stays.
LEMMA ObjectsGrow ==
  ASSUME TypeOK, Stages, Ownership, [Next]_vars, NEW c \in saved, NEW u \in UpstreamIds,
         heap[c][u] # None
  PROVE  heap'[c][u] = heap[c][u]
<1>. USE DEF stateVars, localVars, historyVars
<1>1. c \in Attempts /\ pc[c] \in {"recording", "done"} /\ heap \in [Attempts -> MapType]
  BY DEF TypeOK, Ownership
<1>2. CASE Bystanding \/ Restart \/ \E k \in Keys : SessionExpires(k)
  BY <1>2 DEF Bystanding, Restart, SessionExpires
<1>3. ASSUME NEW a \in Attempts, Handling(a) PROVE heap'[c][u] = heap[c][u]
  <2>1. CASE Load(a) \/ CallFailsOver(a)
    <3>1. a # c BY <1>1, <2>1 DEF Load, CallFailsOver, At
    <3> QED BY <1>1, <2>1, <3>1 DEF Load, CallFailsOver
  <2>2. ASSUME NEW v \in UpstreamIds, CallSucceeds(a, v) PROVE heap'[c][u] = heap[c][u]
    <3>1. heap' = [heap EXCEPT ![ref[a]][v] = IdFor(a, v)] BY <2>2 DEF CallSucceeds
    <3>2. CASE ref[a] = c /\ u = v
      BY <1>1, <3>1, <3>2 DEF IdFor, MapType
    <3>3. CASE ref[a] # c \/ u # v
      BY <1>1, <3>1, <3>3 DEF MapType
    <3> QED BY <3>2, <3>3
  <2>3. CASE SaveState(a) \/ ReadState(a) \/ WriteState(a)
    BY <2>3 DEF SaveState, ReadState, WriteState
  <2> QED BY <1>3, <2>1, <2>2, <2>3 DEF Handling
<1> QED BY <1>2, <1>3, Bystanders

\* A load takes the stored map over, calls add to it, and nobody else saves.
LEMMA ExtendingStays ==
  ASSUME TypeOK, Stages, Ownership, Extending, [Next]_vars
  PROVE  Extending'
<1>. USE DEF stateVars, localVars, historyVars
<1>. SUFFICES ASSUME NEW b \in Attempts, Busy(b)', Key(b)' # None, Key(b)' \notin contended',
                     b \notin switched'
              PROVE  /\ engine' = "memory" => store'[Key(b)'].object \in {None, ref'[b]}
                     /\ engine' # "memory" => \A u \in UpstreamIds :
                          store'[Key(b)'].map[u] # None =>
                            heap'[b][u] = store'[Key(b)'].map[u]
  BY DEF Extending
<1>. DEFINE k == Key(b)
<1>1. /\ pc \in [Attempts -> Pcs] /\ store \in [Keys -> StateType] /\ heap \in [Attempts -> MapType]
      /\ ref \in [Attempts -> Attempts] /\ pc'[b] \in {"call", "saving", "writing"}
  BY DEF TypeOK, Pcs, Busy
<1>2. ASSUME pc[b] # "idle" PROVE Key(b)' = k /\ k \in Keys
  BY <1>2, KeysStay, KeysKnown DEF Key
<1>3. ASSUME UNCHANGED <<engine, ref, heap>>, contended \subseteq contended', switched \subseteq switched',
             Busy(b), store'[k] \in {store[k], NoState}
      PROVE  /\ engine' = "memory" => store'[k].object \in {None, ref'[b]}
             /\ engine' # "memory" => \A u \in UpstreamIds :
                  store'[k].map[u] # None => heap'[b][u] = store'[k].map[u]
  <2>1. Key(b)' = k /\ k \in Keys BY <1>2, <1>3 DEF Busy
  <2>2. CASE store'[k] = NoState BY <2>2, Nothing
  <2>3. CASE store'[k] = store[k]
    <3>1. /\ engine = "memory" => store[k].object \in {None, ref[b]}
          /\ engine # "memory" => \A u \in UpstreamIds :
               store[k].map[u] # None => heap[b][u] = store[k].map[u]
      BY <1>3, <2>1 DEF Extending
    <3> QED BY <1>3, <2>3, <3>1
  <2> QED BY <1>3, <2>2, <2>3
<1>4. CASE Bystanding
  <2>1. Busy(b) BY <1>1, <1>4 DEF Bystanding, Busy
  <2>2. UNCHANGED <<engine, ref, heap, contended, switched, store>> BY <1>4 DEF Bystanding
  <2>3. Key(b)' = k BY <1>2, <2>1 DEF Busy
  <2> QED BY <1>3, <2>1, <2>2, <2>3
<1>5. ~Restart
  BY <1>1 DEF Restart
<1>6. ASSUME NEW j \in Keys, SessionExpires(j)
      PROVE  /\ engine' = "memory" => store'[Key(b)'].object \in {None, ref'[b]}
             /\ engine' # "memory" => \A u \in UpstreamIds :
                  store'[Key(b)'].map[u] # None => heap'[b][u] = store'[Key(b)'].map[u]
  <2>1. Busy(b) BY <1>1, <1>6 DEF SessionExpires, Busy
  <2>2. Key(b)' = k /\ k \in Keys BY <1>2, <2>1 DEF Busy
  <2>3. /\ UNCHANGED <<engine, ref, heap, switched>> /\ contended \subseteq contended'
        /\ store'[k] \in {store[k], NoState}
    BY <1>1, <1>6, <2>2 DEF SessionExpires
  <2> QED BY <1>3, <2>1, <2>2, <2>3
<1>7. ASSUME NEW a \in Attempts, Handling(a)
      PROVE  /\ engine' = "memory" => store'[Key(b)'].object \in {None, ref'[b]}
             /\ engine' # "memory" => \A u \in UpstreamIds :
                  store'[Key(b)'].map[u] # None => heap'[b][u] = store'[Key(b)'].map[u]
  <2>1. /\ \A c \in Attempts \ {a} : pc'[c] = pc[c]
        /\ UNCHANGED <<engine, request>> /\ pc[a] \in {"load", "call", "saving", "writing"}
        /\ \A c \in Attempts : Key(c)' = Key(c)
    BY <1>7, Handles DEF Handling, Key
  <2>2. pc[b] # "idle" /\ k \in Keys /\ k # None
    <3>1. pc[b] # "idle" BY <1>1, <2>1
    <3> QED BY <1>2, <2>1, <3>1
  <2>3. CASE Load(a)
    <3>1. /\ UNCHANGED <<store, switched>> /\ contended \subseteq contended'
          /\ \A c \in Attempts \ {a} : ref'[c] = ref[c] /\ heap'[c] = heap[c]
          /\ ref'[a] = (IF Loaded(a).object = None THEN a ELSE Loaded(a).object)
          /\ heap'[a] = Loaded(a).map
      BY <1>1, <2>3 DEF Load
    <3>2. CASE a = b
      <4>1. Loaded(a) = store[k] BY <2>2, <3>2 DEF Loaded, StateOf
      <4> QED BY <2>1, <3>1, <3>2, <4>1
    <3>3. CASE a # b
      <4>1. Busy(b) BY <1>1, <2>1, <3>3 DEF Busy
      <4> QED BY <2>1, <2>2, <3>1, <3>3, <4>1 DEF Extending
    <3> QED BY <3>2, <3>3
  <2>4. ASSUME NEW v \in UpstreamIds, CallSucceeds(a, v)
        PROVE  /\ engine' = "memory" => store'[k].object \in {None, ref'[b]}
               /\ engine' # "memory" => \A u \in UpstreamIds :
                    store'[k].map[u] # None => heap'[b][u] = store'[k].map[u]
    <3>1. /\ UNCHANGED <<store, switched, ref, contended>>
          /\ heap' = [heap EXCEPT ![ref[a]][v] = IdFor(a, v)] /\ pc[a] = "call"
      BY <2>4 DEF CallSucceeds, At
    <3>2. Busy(b) BY <1>1, <2>1, <3>1 DEF Busy
    <3>3. ASSUME NEW u \in UpstreamIds, heap[b][u] # None PROVE heap'[b][u] = heap[b][u]
      <4>1. CASE ref[a] = b /\ u = v
        BY <1>1, <3>1, <3>3, <4>1 DEF IdFor, MapType
      <4>2. CASE ref[a] # b \/ u # v
        BY <1>1, <3>1, <4>2 DEF MapType
      <4> QED BY <4>1, <4>2
    <3>4. /\ engine = "memory" => store[k].object \in {None, ref[b]}
          /\ engine # "memory" => \A u \in UpstreamIds :
               store[k].map[u] # None => heap[b][u] = store[k].map[u]
      BY <2>1, <2>2, <3>1, <3>2 DEF Extending
    <3> QED BY <2>1, <3>1, <3>3, <3>4
  <2>5. CASE CallFailsOver(a)
    <3>1. /\ UNCHANGED <<store, contended>> /\ switched' = switched \cup {a} /\ pc[a] = "call"
          /\ \A c \in Attempts \ {a} : ref'[c] = ref[c] /\ heap'[c] = heap[c]
      BY <1>1, <2>5 DEF CallFailsOver, At
    <3>2. a # b /\ Busy(b) BY <1>1, <2>1, <3>1 DEF Busy
    <3> QED BY <2>1, <2>2, <3>1, <3>2 DEF Extending
  <2>6. CASE ReadState(a)
    <3>1. UNCHANGED <<engine, ref, heap, contended, switched, store>> /\ pc[a] = "saving"
      BY <2>6 DEF ReadState, At
    <3>2. Busy(b) BY <1>1, <2>1, <3>1 DEF Busy
    <3> QED BY <1>3, <2>1, <3>1, <3>2
  <2>7. CASE SaveState(a) \/ WriteState(a)
    <3>1. /\ UNCHANGED <<engine, ref, heap, contended, switched>> /\ pc'[a] \in {"recording", "done"}
          /\ pc[a] \in {"saving", "writing"}
      BY <2>1, <2>7, <1>7, Handles, Points DEF SaveState, WriteState
    <3>2. a # b /\ Busy(a) /\ Busy(b) BY <1>1, <2>1, <3>1 DEF Busy
    <3>3. Key(a) # k BY <2>1, <3>1, <3>2 DEF Ownership
    <3>4. store'[k] = store[k]
      BY <1>1, <2>2, <2>7, <3>3 DEF SaveState, SaveToMemory, WriteState
    <3> QED BY <1>3, <2>1, <3>1, <3>2, <3>4
  <2> QED BY <1>7, <2>1, <2>3, <2>4, <2>5, <2>6, <2>7 DEF Handling
<1> QED BY <1>4, <1>5, <1>6, <1>7, Bystanders

\* A save keeps what the stored map knows.
LEMMA MapGrows ==
  ASSUME TypeOK, Stages, Ownership, Tallied, Extending, [Next]_vars,
         NEW k \in Keys, k \notin contended, switched \cap OfKey(k) = {},
         NEW u \in UpstreamIds, StoredMap(k)[u] # None, ~SessionExpires(k), ~Restart
  PROVE  StoredMap(k)'[u] = StoredMap(k)[u]
<1>. USE DEF stateVars, localVars, historyVars
<1>1. /\ store \in [Keys -> StateType] /\ heap \in [Attempts -> MapType] /\ saved \subseteq Attempts
      /\ ref \in [Attempts -> Attempts] /\ k # None
  BY DEF TypeOK, Keys
<1>2. StoredMap(k)' = IF store'[k].object = None THEN store'[k].map ELSE heap'[store'[k].object]
  BY DEF StoredMap
<1>3. ASSUME store'[k] = store[k] PROVE StoredMap(k)'[u] = StoredMap(k)[u]
  <2>1. CASE store[k].object = None BY <1>2, <1>3, <2>1 DEF StoredMap
  <2>2. CASE store[k].object # None
    <3>1. store[k].object \in saved /\ StoredMap(k) = heap[store[k].object]
      BY <2>2 DEF Ownership, StoredMap
    <3>2. heap'[store[k].object][u] = heap[store[k].object][u] BY <3>1, ObjectsGrow
    <3> QED BY <1>2, <1>3, <2>2, <3>1, <3>2
  <2> QED BY <2>1, <2>2
<1>4. CASE Bystanding
  BY <1>3, <1>4 DEF Bystanding
<1>5. ASSUME NEW j \in Keys, SessionExpires(j) PROVE StoredMap(k)'[u] = StoredMap(k)[u]
  BY <1>1, <1>3, <1>5 DEF SessionExpires
<1>6. ASSUME NEW a \in Attempts, Handling(a) PROVE StoredMap(k)'[u] = StoredMap(k)[u]
  <2>1. CASE Load(a) \/ (\E v \in UpstreamIds : CallSucceeds(a, v)) \/ CallFailsOver(a) \/ ReadState(a)
    BY <1>3, <2>1 DEF Load, CallSucceeds, CallFailsOver, ReadState
  <2>2. CASE (SaveState(a) \/ WriteState(a)) /\ Key(a) # k
    <3>1. store'[k] = store[k]
      BY <1>1, <2>2 DEF SaveState, SaveToMemory, WriteState
    <3> QED BY <1>3, <3>1
  <2>3. CASE (SaveState(a) \/ WriteState(a)) /\ Key(a) = k
    <3>1. pc[a] \in {"saving", "writing"} /\ heap' = heap
      BY <2>3 DEF SaveState, WriteState, At
    <3>2. a \in OfKey(k) /\ Busy(a)
      BY <2>3, <3>1, ConversationAssumption DEF OfKey, Stages, Stage, Busy
    <3>3. /\ engine = "memory" => store[k].object \in {None, ref[a]}
          /\ engine # "memory" => \A v \in UpstreamIds :
               store[k].map[v] # None => heap[a][v] = store[k].map[v]
      BY <1>1, <2>3, <3>2 DEF Extending
    <3>4. CASE SaveState(a)
      <4>1. engine = "memory" /\ store'[k].object = ref[a] /\ ref[a] \in Attempts
        BY <1>1, <2>3, <3>4 DEF SaveState, SaveToMemory
      <4>2. store[k].object # None
        BY <4>1, Nothing DEF Ownership, StoredMap
      <4>3. ref[a] # None BY <4>1, ConversationAssumption
      <4> QED BY <1>2, <3>1, <3>3, <4>1, <4>2, <4>3 DEF StoredMap
    <3>5. CASE WriteState(a)
      <4>1. engine # "memory" /\ ref[a] = a /\ store[k].object = None /\ pc[a] = "writing"
        BY <3>5 DEF WriteState, At, Ownership
      <4>2. store'[k].object = None /\ store'[k].map = Written(a)
        BY <1>1, <2>3, <3>5 DEF WriteState
      <4>3. Written(a) = store[k].map \/ Written(a) = heap[a]
        BY <1>1, <2>3, <4>1 DEF Written, StateOf
      <4> QED BY <1>2, <3>3, <4>1, <4>2, <4>3 DEF StoredMap
    <3> QED BY <2>3, <3>4, <3>5
  <2> QED BY <1>6, <2>1, <2>2, <2>3 DEF Handling
<1> QED BY <1>4, <1>5, <1>6, Bystanders

-----------------------------------------------------------------------------
(***************************************************************************)
(* The theorems.                                                           *)
(***************************************************************************)
LEMMA InvStarts == Init => IInv
<1>. SUFFICES ASSUME Init PROVE IInv
  OBVIOUS
<1>1. TypeOK
  BY ConversationAssumption, Nothing DEF Init, TypeOK
<1>2. Stages /\ Recording /\ Replayed /\ Kept
  BY Nothing, ConversationAssumption DEF Init, Stages, Stage, Recording, Replayed, Kept
<1>4. Sourced
  BY DEF Init, NoResult, Sourced
<1>3. Apart
  BY Nothing DEF Init, Apart
<1> QED BY <1>1, <1>2, <1>3, <1>4 DEF IInv

\* The invariant holds in every state.
LEMMA AlwaysIInv == Spec => []IInv
<1>1. IInv /\ [Next]_vars => IInv'
  BY TypeStays, StagesStay, ApartStays, RecordingStays, ReplayedStays, SourcedStays,
     KeptStays DEF IInv
<1> QED BY <1>1, InvStarts, PTL DEF Spec

\* Every variable of the requests and of the storage keeps to its values.
THEOREM TypeCorrect == Spec => []TypeOK
<1>1. IInv => TypeOK BY DEF IInv
<1> QED BY <1>1, AlwaysIInv, PTL

\* A replayed answer is the upstream's answer to a request of the same
\* idempotency key, body and stream flag (get_idempotency, req_hash).
THEOREM ReplaysAreFaithful == Spec => []ReplayIsFaithful
<1>1. IInv => ReplayIsFaithful BY DEF IInv, Replayed, ReplayIsFaithful
<1> QED BY <1>1, AlwaysIInv, PTL

\* A retry of an answered request is not executed again, while its record is
\* there (save_idempotency before the answer).
THEOREM RetriesReplay == Spec => []RetriesAreReplayed
<1>1. IInv => RetriesAreReplayed
  BY ConversationAssumption DEF IInv, Kept, Stages, Stage, TypeOK, RetriesAreReplayed
<1> QED BY <1>1, AlwaysIInv, PTL

\* What is recorded for replay has been saved in its session
\* (save_session_state before save_idempotency).
THEOREM RecordsAreSaved == Spec => []RecordedIsSaved
<1>1. IInv => RecordedIsSaved BY DEF IInv, Recording, RecordedIsSaved
<1> QED BY <1>1, AlwaysIInv, PTL

\* The tool ids of one session never reach another one through the store, the
\* shared ToolIdMap objects of the memory engine, or an answer of the upstream;
\* they reach another client only by a replay of the same idempotency key and
\* body.
THEOREM SessionsStayApart == Spec => []SessionsIsolated
<1>1. IInv => SessionsIsolated
  <2>1. SUFFICES ASSUME IInv PROVE SessionsIsolated
    OBVIOUS
  <2>2. ASSUME NEW k \in Keys, NEW u \in UpstreamIds, StoredMap(k)[u] # None
        PROVE  StoredMap(k)[u] \in OfKey(k)
    <3>1. CASE store[k].object = None
      BY <2>1, <2>2, <3>1 DEF IInv, Apart, StoredMap
    <3>2. CASE store[k].object # None
      <4>1. store[k].object \in OfKey(k) /\ StoredMap(k) = heap[store[k].object]
        BY <2>1, <3>2 DEF IInv, Apart, StoredMap
      <4>2. Kin(store[k].object, StoredMap(k)[u]) /\ Key(store[k].object) = k /\ k # None
        BY <2>1, <2>2, <4>1 DEF IInv, Apart, OfKey, Keys
      <4> QED BY <4>2 DEF Kin
    <3> QED BY <3>1, <3>2
  <2>3. \A a \in executed : result[a].id # None => MadeUpFor(a, result[a].id)
    BY <2>1 DEF IInv, Apart, Kin, MadeUpFor
  <2>4. ASSUME NEW a \in Attempts, result[a].id # None, a \notin executed
        PROVE  LET b == result[a].of
               IN /\ result[a].kind = "replayed" /\ MadeUpFor(b, result[a].id)
                  /\ \A field \in {"idem", "body"} : request[a][field] = request[b][field]
    <3>1. result[a].kind = "replayed"
      BY <2>1, <2>4 DEF IInv, Sourced
    <3>2. /\ result[a].of \in executed /\ result[result[a].of].id = result[a].id
          /\ \A field \in {"idem", "body"} : request[a][field] = request[result[a].of][field]
      BY <2>1, <3>1 DEF IInv, Replayed
    <3>3. MadeUpFor(result[a].of, result[a].id)
      BY <2>3, <2>4, <3>2
    <3> QED BY <3>1, <3>2, <3>3
  <2> QED BY <2>2, <2>3, <2>4 DEF SessionsIsolated
<1> QED BY <1>1, AlwaysIInv, PTL

\* Ownership of the sessions, the counts of their tokens, and the maps about to be
\* saved, in every state.
LEMMA AlwaysAccounts == Spec => []Accounts
<1>1. Init => Accounts
  <2>1. ASSUME Init PROVE Accounts
    <3>1. Ownership BY <2>1, Nothing, FS_EmptySet DEF Init, Ownership, Busy
    <3>2. Extending BY <2>1 DEF Init, Extending, Busy
    <3>3. ASSUME NEW k \in Keys PROVE Tokens(k)
      <4>1. Counted(k) = {} /\ Standing(k) = {} BY <2>1 DEF Init, Counted, Standing
      <4>2. Cardinality(Counted(k)) = 0 /\ Cardinality(Standing(k)) = 0 BY <4>1, FS_EmptySet
      <4>3. store[k].tokens = 0 /\ \A a \in Attempts : pc[a] = "idle" BY <2>1, Nothing DEF Init
      <4> QED BY <4>2, <4>3 DEF Tokens
    <3> QED BY <3>1, <3>2, <3>3 DEF Accounts, Tallied
  <2> QED BY <2>1
<1>2. IInv /\ Accounts /\ [Next]_vars => Accounts'
  BY OwnershipStays, TalliedStays, ExtendingStays DEF IInv, Accounts
<1> QED BY <1>1, <1>2, AlwaysIInv, PTL DEF Spec

\* The tokens of a session are those of its saved requests: never more, and
\* exactly as many with the memory engine, or where no two attempts overlapped
\* (save_session_state).
THEOREM TokensAlwaysAddUp == Spec => []TokensAddUp
<1>1. Accounts => TokensAddUp
  BY DEF Accounts, Tallied, Tokens, Counted, Standing, TokensAddUp
<1> QED BY <1>1, AlwaysAccounts, PTL

\* An id that a session's stored map knows stays in it, with the same Anthropic
\* id, as long as attempts do not overlap and none went on with a fallback model.
THEOREM MapsOnlyGrow == Spec => MapOnlyGrows
<1>1. IInv /\ Accounts /\ [Next]_vars =>
        [\A k \in Keys : k \notin contended /\ switched \cap OfKey(k) = {} =>
           \/ \A u \in UpstreamIds : StoredMap(k)[u] # None => StoredMap(k)'[u] = StoredMap(k)[u]
           \/ SessionExpires(k) \/ Restart]_vars
  BY MapGrows DEF IInv, Accounts
<1> QED BY <1>1, AlwaysIInv, AlwaysAccounts, PTL DEF MapOnlyGrows, Spec
=============================================================================
