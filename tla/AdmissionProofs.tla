--------------------------- MODULE AdmissionProofs --------------------------
(***************************************************************************)
(* For any number of requests and keys, and any limits:                    *)
(*  - the load shedder counts exactly, and never lets in more than one and *)
(*    a half times max_queue_depth;                                        *)
(*  - no key gets more than its limit through in a window, no request is   *)
(*    refused below the limit, and Retry-After is enough to wait.          *)
(***************************************************************************)
EXTENDS Admission, FiniteSetTheorems, WellFoundedInduction, TLAPS

Waiting == {r \in Requests : pc[r] \in Inside}

\* The requests inside are finitely many.
LEMMA WaitingFinite ==
  ASSUME LoadType
  PROVE  IsFiniteSet(Waiting) /\ Cardinality(Waiting) \in Nat
<1>1. Waiting \subseteq Requests BY DEF Waiting
<1>2. IsFiniteSet(Waiting) BY <1>1, AdmissionAssumption, FS_Subset
<1>. QED BY <1>2, FS_CardinalityType

\* A request that enters the load shedder is one more inside it.
LEMMA Entering ==
  ASSUME LoadType, NEW r \in Requests, NEW to \in Inside, pc[r] \notin Inside,
         pc' = [pc EXCEPT ![r] = to]
  PROVE  Cardinality(Waiting') = Cardinality(Waiting) + 1
<1>1. Waiting' = Waiting \cup {r} BY DEF Waiting, LoadType
<1>2. r \notin Waiting BY DEF Waiting
<1>. QED BY <1>1, <1>2, WaitingFinite, FS_AddElement

\* A request that leaves it is one less.
LEMMA Leaving ==
  ASSUME LoadType, NEW r \in Requests, NEW to, to \notin Inside, pc[r] \in Inside,
         pc' = [pc EXCEPT ![r] = to]
  PROVE  /\ Cardinality(Waiting') = Cardinality(Waiting) - 1
         /\ Cardinality(Waiting) > 0
<1>1. Waiting' = Waiting \ {r} BY DEF Waiting, LoadType
<1>2. r \in Waiting BY DEF Waiting
<1>3. Cardinality(Waiting') = Cardinality(Waiting) - 1
  BY <1>1, <1>2, WaitingFinite, FS_RemoveElement
<1>4. Waiting # {} BY <1>2
<1>. QED BY <1>3, <1>4, WaitingFinite, FS_EmptySet

\* A request that moves on inside, or outside, changes nothing.
LEMMA Moving ==
  ASSUME LoadType, NEW r \in Requests, NEW to, (to \in Inside) = (pc[r] \in Inside),
         pc' = [pc EXCEPT ![r] = to]
  PROVE  Waiting' = Waiting
BY DEF Waiting, LoadType

\* The threshold that a new request is compared with is never above the bound.
LEMMA ThresholdBound ==
  QueueThreshold \in Nat /\ QueueThreshold <= (3 * MaxQueueDepth) \div 2
<1>1. MaxQueueDepth \in Nat BY AdmissionAssumption
<1>2. /\ (3 * MaxQueueDepth) \div 2 \in Nat
      /\ MaxQueueDepth \div 2 \in Nat
      /\ MaxQueueDepth \div 2 <= (3 * MaxQueueDepth) \div 2
      /\ MaxQueueDepth <= (3 * MaxQueueDepth) \div 2
  BY <1>1
<1>3. CASE AverageBelow(FastMs) BY <1>2, <1>3 DEF QueueThreshold
<1>4. CASE ~AverageBelow(FastMs) BY <1>1, <1>2, <1>4 DEF QueueThreshold
<1>. QED BY <1>3, <1>4

\* What the invariant says with the set of the lemmas.
LEMMA Exactly == ActiveIsExact <=> active = IF shedding THEN Cardinality(Waiting) ELSE 0
BY DEF ActiveIsExact, Waiting

\* Before any request, nobody is inside.
LEMMA LoadInit == Init => LoadInvariant
<1>. SUFFICES ASSUME Init PROVE LoadInvariant OBVIOUS
<1>1. LoadType BY DEF Init, LoadType, Inside
<1>2. Waiting = {} BY DEF Init, Waiting, Inside
<1>3. Cardinality(Waiting) = 0 BY <1>2, FS_EmptySet
<1>4. ActiveIsExact BY <1>3, Exactly DEF Init
<1>5. active = 0 BY DEF Init
<1>6. MaxQueueDepth \in Nat BY AdmissionAssumption
<1>7. LoadIsBounded BY <1>5, <1>6 DEF LoadIsBounded
<1>. QED BY <1>1, <1>4, <1>7 DEF LoadInvariant

\* A request leaves the load shedder and gives its place back.
LEMMA LeavingKeeps ==
  ASSUME LoadInvariant, NEW r \in Requests, NEW to \in {"streaming", "done"},
         pc[r] \in Inside, pc' = [pc EXCEPT ![r] = to], Release,
         shedding' = shedding
  PROVE  LoadInvariant'
<1>1. LoadType BY DEF LoadInvariant
<1>2. to \notin Inside BY DEF Inside
<1>3. /\ Cardinality(Waiting') = Cardinality(Waiting) - 1
      /\ Cardinality(Waiting) > 0
  BY <1>1, <1>2, Leaving
<1>4. active = IF shedding THEN Cardinality(Waiting) ELSE 0
  BY Exactly DEF LoadInvariant
<1>5. active' = IF shedding THEN active - 1 ELSE active
  BY <1>1, <1>3, <1>4, WaitingFinite DEF Release, LoadType
<1>6. active' \in Nat /\ active' <= active
  BY <1>1, <1>3, <1>4, <1>5, WaitingFinite DEF LoadType
<1>7. LoadType' BY <1>1, <1>6 DEF LoadType, Inside
<1>8. active' = IF shedding' THEN Cardinality(Waiting') ELSE 0
  BY <1>1, <1>3, <1>4, <1>5, WaitingFinite
<1>9. ActiveIsExact' BY <1>8 DEF ActiveIsExact, Waiting
<1>10. MaxQueueDepth \in Nat BY AdmissionAssumption
<1>11. LoadIsBounded'
  BY <1>1, <1>6, <1>10 DEF LoadIsBounded, LoadInvariant, LoadType
<1>. QED BY <1>7, <1>9, <1>11 DEF LoadInvariant

\* A request moves on without entering or leaving.
LEMMA MovingKeeps ==
  ASSUME LoadInvariant, NEW r \in Requests,
         NEW to \in Inside \cup {"streaming", "done"},
         (to \in Inside) = (pc[r] \in Inside),
         pc' = [pc EXCEPT ![r] = to], active' = active, shedding' = shedding
  PROVE  LoadInvariant'
<1>1. LoadType BY DEF LoadInvariant
<1>2. LoadType' BY <1>1 DEF LoadType
<1>3. Waiting' = Waiting BY <1>1, Moving
<1>4. ActiveIsExact' BY <1>3 DEF LoadInvariant, ActiveIsExact, Waiting
<1>. QED BY <1>2, <1>4 DEF LoadInvariant, LoadIsBounded

\* A request enters only below the threshold.
LEMMA ArrivalKeeps ==
  ASSUME LoadInvariant, NEW r \in Requests, NEW offer, NEW hot \in BOOLEAN,
         Arrive(r, offer, hot)
  PROVE  LoadInvariant'
<1>1. LoadType BY DEF LoadInvariant
<1>2. pc[r] = "new" /\ pc[r] \notin Inside /\ shedding' = shedding
  BY DEF Arrive, Goes, Inside, serverVars
<1>3. CASE shedding /\ ShouldShed(hot)
  <2>1. pc' = [pc EXCEPT ![r] = "done"] /\ active' = active
    BY <1>3 DEF Arrive, Goes
  <2>2. /\ "done" \in Inside \cup {"streaming", "done"}
        /\ ("done" \in Inside) = (pc[r] \in Inside)
    BY <1>2 DEF Inside
  <2>. QED BY <1>2, <2>1, <2>2, MovingKeeps
<1>4. CASE ~(shedding /\ ShouldShed(hot))
  <2>1. /\ pc' = [pc EXCEPT ![r] = "down"]
        /\ active' = IF shedding THEN active + 1 ELSE active
    BY <1>4 DEF Arrive, Goes
  <2>2. "down" \in Inside BY DEF Inside
  <2>3. Cardinality(Waiting') = Cardinality(Waiting) + 1
    BY <1>1, <1>2, <2>1, <2>2, Entering
  <2>4. active = IF shedding THEN Cardinality(Waiting) ELSE 0
    BY Exactly DEF LoadInvariant
  <2>5. active' = IF shedding' THEN Cardinality(Waiting') ELSE 0
    BY <1>2, <2>1, <2>3, <2>4
  <2>6. ActiveIsExact' BY <2>5 DEF ActiveIsExact, Waiting
  <2>7. LoadType' BY <1>1, <1>2, <2>1, <2>2 DEF LoadType
  <2>8. LoadIsBounded'
    <3>1. CASE shedding
      <4>1. ~(active >= QueueThreshold) BY <1>4, <3>1 DEF ShouldShed
      <4>2. MaxQueueDepth \in Nat BY AdmissionAssumption
      <4>. QED BY <1>1, <2>1, <3>1, <4>1, <4>2, ThresholdBound
               DEF LoadIsBounded, LoadType
    <3>2. CASE ~shedding BY <2>1, <3>2 DEF LoadIsBounded, LoadInvariant
    <3>. QED BY <3>1, <3>2
  <2>. QED BY <2>6, <2>7, <2>8 DEF LoadInvariant
<1>. QED BY <1>3, <1>4

\* Every step keeps the invariant: three actions enter or leave, the others move
\* a request on, or none.
LEMMA LoadStep == LoadInvariant /\ [Next]_vars => LoadInvariant'
<1>. SUFFICES ASSUME LoadInvariant, [Next]_vars PROVE LoadInvariant' OBVIOUS
<1>1. ASSUME NEW r \in Requests, RequestStep(r) PROVE LoadInvariant'
  <2>1. CASE \E offer \in Offered, hot \in BOOLEAN : Arrive(r, offer, hot)
    BY <2>1, ArrivalKeeps
  <2>2. CASE \E ms \in ResponseTimes, streams \in BOOLEAN : Respond(r, ms, streams)
    <3>1. PICK ms \in ResponseTimes, streams \in BOOLEAN : Respond(r, ms, streams)
      BY <2>2
    <3>2. PICK to \in {"streaming", "done"} : pc' = [pc EXCEPT ![r] = to]
      BY <3>1 DEF Respond, Goes
    <3>3. pc[r] \in Inside /\ Release /\ shedding' = shedding
      BY <3>1 DEF Respond, Inside, serverVars
    <3>. QED BY <3>2, <3>3, LeavingKeeps
  <2>3. CASE HandlerRaises(r)
    <3>1. /\ pc' = [pc EXCEPT ![r] = "done"]
          /\ pc[r] \in Inside /\ Release /\ shedding' = shedding
      BY <2>3 DEF HandlerRaises, Goes, Inside, serverVars
    <3>. QED BY <3>1, LeavingKeeps
  <2>4. CASE StreamEnds(r)
    <3>1. /\ pc' = [pc EXCEPT ![r] = "done"]
          /\ pc[r] = "streaming" /\ active' = active /\ shedding' = shedding
      BY <2>4 DEF StreamEnds, Goes, loadVars, serverVars
    <3>2. ("done" \in Inside) = (pc[r] \in Inside) BY <3>1 DEF Inside
    <3>. QED BY <3>1, <3>2, MovingKeeps
  <2>5. ASSUME \/ Descend(r) \/ NotLimited(r) \/ SlidingCheck(r) \/ MemoryCheck(r)
               \/ SqliteCheck(r) \/ RedisSend(r) \/ RedisExecutes(r)
               \/ RedisReplies(r) \/ RedisFails(r)
        PROVE  LoadInvariant'
    <3>1. active' = active /\ shedding' = shedding
      BY <2>5 DEF Descend, NotLimited, SlidingCheck, MemoryCheck, SqliteCheck,
         RedisSend, RedisExecutes, RedisReplies, RedisFails, loadVars, serverVars
    <3>2. PICK to \in {"limiter", "storage", "reply", "handling", "refused"} :
            pc' = [pc EXCEPT ![r] = to]
      <4>1. CASE Descend(r) BY <4>1 DEF Descend, Goes
      <4>2. CASE NotLimited(r) BY <4>2 DEF NotLimited, Goes
      <4>3. CASE SlidingCheck(r) BY <4>3 DEF SlidingCheck, Goes
      <4>4. CASE MemoryCheck(r) BY <4>4 DEF MemoryCheck, Goes, AfterVerdict
      <4>5. CASE SqliteCheck(r) BY <4>5 DEF SqliteCheck, Goes, AfterVerdict
      <4>6. CASE RedisSend(r) BY <4>6 DEF RedisSend, Goes
      <4>7. CASE RedisExecutes(r) BY <4>7 DEF RedisExecutes, Goes
      <4>8. CASE RedisReplies(r) BY <4>8 DEF RedisReplies, Goes, AfterVerdict
      <4>9. CASE RedisFails(r) BY <4>9 DEF RedisFails, Goes
      <4>. QED BY <2>5, <4>1, <4>2, <4>3, <4>4, <4>5, <4>6, <4>7, <4>8, <4>9
    <3>3. pc[r] \in {"down", "limiter", "storage", "reply"}
      BY <2>5 DEF Descend, NotLimited, SlidingCheck, MemoryCheck, SqliteCheck,
         RedisSend, RedisExecutes, RedisReplies, RedisFails, Goes
    <3>4. pc[r] \in Inside /\ to \in Inside BY <3>2, <3>3 DEF Inside
    <3>. QED BY <3>1, <3>2, <3>4, MovingKeeps
  <2>. QED BY <1>1, <2>1, <2>2, <2>3, <2>4, <2>5 DEF RequestStep
<1>2. CASE UNCHANGED <<shedding, active, pc>>
  BY <1>2 DEF LoadInvariant, LoadType, ActiveIsExact, LoadIsBounded
<1>3. Tick => UNCHANGED <<shedding, active, pc>>
  BY DEF Tick, serverVars, loadVars
<1>4. Quiet \/ UNCHANGED vars => UNCHANGED <<shedding, active, pc>>
  BY DEF Quiet, vars, serverVars, loadVars
<1>. QED BY <1>1, <1>2, <1>3, <1>4 DEF Next

\* The load shedder's counter is exact, and bounded, in every reachable state.
THEOREM LoadHolds == Spec => []LoadInvariant
BY LoadInit, LoadStep, PTL DEF Spec
-----------------------------------------------------------------------------
(***************************************************************************)
(* Stamps.                                                                 *)
(***************************************************************************)
\* A set of natural numbers that is not empty has a least element.
LEMMA Least ==
  ASSUME NEW T, T \subseteq Nat, T # {}
  PROVE  \E x \in T : \A y \in T : x <= y
<1>. DEFINE R == {p \in Nat \X Nat : p[1] < p[2]}
<1>1. IsWellFoundedOn(R, Nat) BY NatLessThanWellFounded DEF OpToRel
<1>2. \A x, y \in T : ~ (<<y, x>> \in R) => x <= y OBVIOUS
<1>3. \E x \in T : \A y \in T : ~ (<<y, x>> \in R)
  <2>. HIDE DEF R
  <2>. QED BY <1>1, WFMin
<1>. HIDE DEF R
<1>. QED BY <1>2, <1>3

\* The window is a positive number of ticks.
LEMMA SpanPositive == Span \in Nat /\ Span > 0
<1>1. Window \in Nat \ {0} /\ TicksPerSecond \in Nat \ {0}
  BY AdmissionAssumption
<1>. QED BY <1>1 DEF Span

\* What FirstAfter chooses.
IsFirstAfter(stamps, t, i) ==
  /\ i \in 1 .. (Len(stamps) + 1)
  /\ \A j \in 1 .. (i - 1) : stamps[j] <= t
  /\ i <= Len(stamps) => stamps[i] > t

\* There is exactly one first stamp after a time, or place behind the last.
LEMMA FirstAfterIs ==
  ASSUME NEW stamps \in Seq(Nat), NEW t \in Int, NEW i, IsFirstAfter(stamps, t, i)
  PROVE  FirstAfter(stamps, t) = i
<1>1. \A j : IsFirstAfter(stamps, t, j) => j = i
  <2>. SUFFICES ASSUME NEW j, IsFirstAfter(stamps, t, j) PROVE j = i OBVIOUS
  <2>1. Len(stamps) \in Nat /\ i \in Int /\ j \in Int BY DEF IsFirstAfter
  <2>2. ASSUME j < i PROVE FALSE
    <3>1. j \in 1 .. (i - 1) /\ j \in 1 .. Len(stamps)
      BY <2>1, <2>2 DEF IsFirstAfter
    <3>2. stamps[j] <= t /\ stamps[j] > t BY <3>1, <2>1 DEF IsFirstAfter
    <3>3. stamps[j] \in Nat BY <3>1
    <3>. QED BY <3>2, <3>3
  <2>3. ASSUME i < j PROVE FALSE
    <3>1. i \in 1 .. (j - 1) /\ i \in 1 .. Len(stamps)
      BY <2>1, <2>3 DEF IsFirstAfter
    <3>2. stamps[i] <= t /\ stamps[i] > t BY <3>1, <2>1 DEF IsFirstAfter
    <3>3. stamps[i] \in Nat BY <3>1
    <3>. QED BY <3>2, <3>3
  <2>. QED BY <2>1, <2>2, <2>3
<1>. QED BY <1>1 DEF FirstAfter, IsFirstAfter

\* ... and FirstAfter finds it.
LEMMA FirstAfterExists ==
  ASSUME NEW stamps \in Seq(Nat), NEW t \in Int
  PROVE  IsFirstAfter(stamps, t, FirstAfter(stamps, t))
<1>. DEFINE T == {i \in 1 .. (Len(stamps) + 1) : i <= Len(stamps) => stamps[i] > t}
<1>0. Len(stamps) \in Nat OBVIOUS
<1>1. T \subseteq Nat /\ Len(stamps) + 1 \in T BY <1>0
<1>2. PICK i \in T : \A j \in T : i <= j BY <1>1, Least
<1>3. \A j \in 1 .. (i - 1) : stamps[j] <= t
  <2>. SUFFICES ASSUME NEW j \in 1 .. (i - 1) PROVE stamps[j] <= t OBVIOUS
  <2>1. j \in 1 .. Len(stamps) /\ j \in Nat /\ j < i BY <1>0
  <2>2. stamps[j] \in Nat BY <2>1
  <2>3. j \notin T BY <1>2, <2>1, <1>0
  <2>4. ~(stamps[j] > t) BY <2>1, <2>3, <1>0
  <2>. QED BY <2>2, <2>4
<1>4. IsFirstAfter(stamps, t, i) BY <1>3 DEF IsFirstAfter
<1>. QED BY <1>4, FirstAfterIs

\* Stamps of a clock that does not go back.
InOrder(stamps) ==
  /\ \A i \in DOMAIN stamps : stamps[i] <= now
  /\ \A i, j \in DOMAIN stamps : i <= j => stamps[i] <= stamps[j]

\* How many stamps are behind time t.
Newer(stamps, t) == Len(stamps) + 1 - FirstAfter(stamps, t)

\* Cleaning a bucket leaves as many stamps as are in the window, and changes no count
\* of the window.
LEMMA NewerOfFresh ==
  ASSUME NEW stamps \in Seq(Nat), now \in Nat
  PROVE  /\ Fresh(stamps) \in Seq(Nat)
         /\ Len(Fresh(stamps)) = Newer(stamps, now - Span)
         /\ \A t \in Int : t >= now - Span => Newer(Fresh(stamps), t) = Newer(stamps, t)
<1>. DEFINE f == FirstAfter(stamps, now - Span)
            kept == Fresh(stamps)
<1>1. now - Span \in Int /\ Len(stamps) \in Nat BY SpanPositive
<1>2. IsFirstAfter(stamps, now - Span, f) BY <1>1, FirstAfterExists
<1>3. f \in 1 .. (Len(stamps) + 1) BY <1>2 DEF IsFirstAfter
<1>4. kept = SubSeq(stamps, f, Len(stamps)) BY DEF Fresh
<1>. HIDE DEF f, kept
<1>5. /\ kept \in Seq(Nat)
      /\ Len(kept) = Len(stamps) + 1 - f
      /\ \A i \in 1 .. Len(kept) : kept[i] = stamps[i + f - 1]
  BY <1>1, <1>3, <1>4, SMTT(30)
<1>6. ASSUME NEW t \in Int, t >= now - Span PROVE Newer(kept, t) = Newer(stamps, t)
  <2>. DEFINE g == FirstAfter(stamps, t)
  <2>1. IsFirstAfter(stamps, t, g) BY FirstAfterExists
  <2>. HIDE DEF g
  <2>2. g \in 1 .. (Len(stamps) + 1) BY <2>1 DEF IsFirstAfter
  <2>3. g >= f
    <3>. SUFFICES ASSUME g < f PROVE FALSE BY <1>3, <2>2
    <3>1. g \in 1 .. (f - 1) /\ g \in 1 .. Len(stamps) BY <1>1, <1>3, <2>2
    <3>2. stamps[g] <= now - Span BY <3>1, <1>2 DEF IsFirstAfter
    <3>3. stamps[g] > t BY <3>1, <2>1 DEF IsFirstAfter
    <3>4. stamps[g] \in Nat BY <3>1
    <3>. QED BY <3>2, <3>3, <3>4, <1>6, <1>1
  <2>4. g - f + 1 \in 1 .. (Len(kept) + 1) BY <1>1, <1>3, <1>5, <2>2, <2>3
  <2>5. ASSUME NEW j \in 1 .. (g - f) PROVE kept[j] <= t
    <3>1. j \in 1 .. Len(kept) /\ j + f - 1 \in 1 .. (g - 1)
      BY <1>1, <1>3, <1>5, <2>2, <2>3
    <3>. QED BY <3>1, <1>5, <2>1 DEF IsFirstAfter
  <2>6. ASSUME g - f + 1 <= Len(kept) PROVE kept[g - f + 1] > t
    <3>1. g - f + 1 \in 1 .. Len(kept) /\ (g - f + 1) + f - 1 = g /\ g <= Len(stamps)
      BY <1>1, <1>3, <1>5, <2>2, <2>3, <2>6
    <3>2. kept[g - f + 1] = stamps[(g - f + 1) + f - 1] BY <3>1, <1>5
    <3>. QED BY <3>1, <3>2, <2>1 DEF IsFirstAfter
  <2>7. (g - f + 1) - 1 = g - f BY <1>3, <2>2
  <2>8. IsFirstAfter(kept, t, g - f + 1)
    BY <2>4, <2>5, <2>6, <2>7 DEF IsFirstAfter
  <2>9. FirstAfter(kept, t) = g - f + 1 BY <2>8, <1>5, FirstAfterIs
  <2>. QED BY <2>9, <1>1, <1>3, <1>5, <2>2 DEF Newer, g
<1>. QED BY <1>5, <1>6 DEF Newer, kept, f

\* A stamp that is put behind the others counts from its time back.
LEMMA NewerOfAppend ==
  ASSUME NEW stamps \in Seq(Nat), NEW at \in Nat, NEW t \in Int,
         \A i \in DOMAIN stamps : stamps[i] <= at
  PROVE  Newer(Append(stamps, at), t) = IF t < at THEN Newer(stamps, t) + 1 ELSE 0
<1>. DEFINE f == FirstAfter(stamps, t)
            longer == Append(stamps, at)
<1>1. IsFirstAfter(stamps, t, f) BY FirstAfterExists
<1>2. f \in 1 .. (Len(stamps) + 1) BY <1>1 DEF IsFirstAfter
<1>3. /\ longer \in Seq(Nat) /\ Len(stamps) \in Nat /\ Len(longer) = Len(stamps) + 1
      /\ \A i \in 1 .. Len(stamps) : longer[i] = stamps[i]
      /\ longer[Len(stamps) + 1] = at
  OBVIOUS
<1>. HIDE DEF f, longer
<1>4. CASE t < at
  <2>1. ASSUME NEW j \in 1 .. (f - 1) PROVE longer[j] <= t
    <3>1. j \in 1 .. Len(stamps) BY <1>2, <1>3
    <3>. QED BY <3>1, <1>1, <1>3 DEF IsFirstAfter
  <2>2. longer[f] > t
    <3>1. CASE f <= Len(stamps) BY <3>1, <1>1, <1>2, <1>3 DEF IsFirstAfter
    <3>2. CASE f = Len(stamps) + 1 BY <3>2, <1>3, <1>4
    <3>. QED BY <3>1, <3>2, <1>2, <1>3
  <2>3. f \in 1 .. (Len(longer) + 1) BY <1>2, <1>3
  <2>4. FirstAfter(longer, t) = f
    BY <2>1, <2>2, <2>3, <1>3, FirstAfterIs DEF IsFirstAfter
  <2>. QED BY <2>4, <1>2, <1>3, <1>4 DEF Newer, f, longer
<1>5. CASE ~(t < at)
  <2>1. ASSUME NEW j \in 1 .. Len(longer) PROVE longer[j] <= t
    <3>1. CASE j <= Len(stamps)
      <4>1. j \in 1 .. Len(stamps) /\ stamps[j] \in Nat BY <3>1, <1>3
      <4>2. longer[j] = stamps[j] /\ stamps[j] <= at BY <4>1, <1>3
      <4>. QED BY <4>1, <4>2, <1>5
    <3>2. CASE j = Len(stamps) + 1 BY <3>2, <1>3, <1>5
    <3>. QED BY <3>1, <3>2, <1>3
  <2>2. IsFirstAfter(longer, t, Len(longer) + 1)
    BY <2>1, <1>3 DEF IsFirstAfter
  <2>3. FirstAfter(longer, t) = Len(longer) + 1 BY <2>2, <1>3, FirstAfterIs
  <2>. QED BY <2>3, <1>3, <1>5 DEF Newer, longer
<1>. QED BY <1>4, <1>5

-----------------------------------------------------------------------------
(***************************************************************************)
(* Counts: what the limiters keep, against what happened.                  *)
(***************************************************************************)
\* The requests of a key admitted after time t, and those the limiter counts.
Through(k, t) == Admitted(Since(k, t))
Counted(k, t) == IF limiter = "sliding" THEN Through(k, t) ELSE Since(k, t)

\* The types of the limiter's state.
LimiterType ==
  /\ limiter \in {"sliding", "memory", "redis", "sqlite"}
  /\ limit \in Nat
  /\ now \in Nat
  /\ hits \in [Keys -> Seq(Nat)]
  /\ counter \in [Keys -> [value : Nat, expires : Nat]]
  /\ reply \in [Requests -> Nat]
  /\ pc \in [Requests -> Inside \cup {"new", "streaming", "done"}]
  /\ sent \in [Requests -> Offered \cup {None}]
  /\ outcome \in [Requests -> [verdict : {"none", "admitted", "limited", "open"},
                               time : Nat \cup {None}, retry : Nat]]

\* Who has not been decided on yet, and who can be at the storage engine.
Undecideds ==
  \A r \in Requests :
    /\ pc[r] \in {"new", "down", "limiter", "storage"} => outcome[r].time = None
    /\ pc[r] \in {"storage", "reply"} => limiter = "redis" /\ limit > 0
    /\ pc[r] # "new" => sent[r] \in Offered
    /\ outcome[r].time = None => outcome[r].verdict \in {"none", "open"}
    /\ outcome[r].time # None => outcome[r].time <= now /\ sent[r] \in Offered

\* The stamps of every key are in order.
HitsInOrder == \A k \in Keys : InOrder(hits[k])

\* In process, the stamps of a key behind any time of the window are as many as its
\* requests since then: the admitted ones, or (memory) all.
HitsAreExact ==
  limiter \in {"sliding", "memory"} /\ limit > 0 =>
    \A k \in Keys, t \in Int :
      t >= now - Span => Newer(hits[k], t) = Cardinality(Counted(k, t))

\* When the window of a key's counter began.
Begins(k) == counter[k].expires - Span

\* Redis counts whom it decided on since the window of the key began: no more than
\* the limit were admitted in this window, and in the time of its length before it.
ExactCounter(k) ==
  IF counter[k].value = 0 THEN \A t \in Int : Since(k, t) = {}
  ELSE /\ Begins(k) \in 0 .. now
       /\ Since(k, counter[k].expires - 1) = {}
       /\ Cardinality(Since(k, Begins(k) - 1)) = counter[k].value
       /\ Cardinality(Through(k, Begins(k) - 1)) <= limit
       /\ Cardinality(Through(k, Begins(k) - Span) \ Through(k, Begins(k) - 1)) <= limit

CounterIsExact == limiter = "redis" => \A k \in Keys : ExactCounter(k)

\* When a refused client is to be admitted again at the latest.
Due(r) == outcome[r].time + (outcome[r].retry + 1) * TicksPerSecond - 1

\* Of those admitted when a client was refused, fewer than the limit are left in the
\* window when it is due; in the tick of a refusal nobody else is admitted.
RetryIsEnough ==
  limiter = "sliding" =>
    \A r \in Requests :
      outcome[r].verdict = "limited" =>
        /\ Cardinality(Through(sent[r].key, Due(r) - Span)
                         \ Through(sent[r].key, outcome[r].time)) < limit
        /\ outcome[r].time = now =>
             Cardinality(Through(sent[r].key, now - Span)) >= limit

\* The inductive invariant of the limiters.
LimiterInvariant ==
  /\ LimiterType /\ Undecideds /\ HitsInOrder
  /\ HitsAreExact /\ CounterIsExact /\ RetryIsEnough /\ LimitHolds

\* The requests are finitely many, so their sets can be counted.
LEMMA Countable ==
  ASSUME NEW S, NEW T, S \subseteq T, T \subseteq Requests
  PROVE  /\ IsFiniteSet(S) /\ IsFiniteSet(T)
         /\ Cardinality(S) \in Nat /\ Cardinality(T) \in Nat
         /\ Cardinality(S) <= Cardinality(T)
<1>1. IsFiniteSet(T) BY AdmissionAssumption, FS_Subset
<1>. QED BY <1>1, FS_Subset, FS_CardinalityType

\* What is counted are requests.
LEMMA Subsets ==
  ASSUME NEW k, NEW t
  PROVE  Through(k, t) \subseteq Since(k, t) /\ Since(k, t) \subseteq Requests
BY DEF Through, Admitted, Since

\* Later is fewer.
LEMMA Later ==
  ASSUME LimiterType, NEW k, NEW t \in Int, NEW u \in Int, t <= u
  PROVE  Since(k, u) \subseteq Since(k, t) /\ Through(k, u) \subseteq Through(k, t)
<1>1. ASSUME NEW r \in Since(k, u) PROVE r \in Since(k, t)
  <2>1. r \in Requests /\ outcome[r].time \in Nat BY DEF Since, LimiterType
  <2>. QED BY <2>1 DEF Since
<1>. QED BY <1>1 DEF Through, Admitted

\* A decision adds its request to those of its key, from now back.
LEMMA Deciding ==
  ASSUME LimiterType, NEW r \in Requests, NEW v \in {"admitted", "limited"},
         NEW n \in Nat, outcome[r].time = None, sent' = sent, Decided(r, v, n),
         NEW k, NEW t \in Int
  PROVE  /\ r \notin Since(k, t)
         /\ Since(k, t)' = IF sent[r].key = k /\ t < now THEN Since(k, t) \cup {r}
                           ELSE Since(k, t)
         /\ Through(k, t)' = IF v = "admitted" /\ sent[r].key = k /\ t < now
                             THEN Through(k, t) \cup {r} ELSE Through(k, t)
<1>1. now \in Nat /\ None \notin Nat BY AdmissionAssumption DEF LimiterType
<1>2. /\ outcome'[r].time = now /\ outcome'[r].verdict = v
      /\ \A q \in Requests \ {r} : outcome'[q] = outcome[q]
  BY DEF Decided, Outcome, LimiterType
<1>3. r \notin Since(k, t) BY DEF Since
<1>4. \A q \in Requests : q \in Since(k, t)' <=>
        IF q = r THEN sent[r].key = k /\ t < now ELSE q \in Since(k, t)
  BY <1>1, <1>2 DEF Since
<1>5. \A q \in Requests : q \in Through(k, t)' <=>
        IF q = r THEN v = "admitted" /\ q \in Since(k, t)' ELSE q \in Through(k, t)
  BY <1>2, <1>4 DEF Through, Admitted, Since
<1>6. /\ Since(k, t) \subseteq Requests /\ Since(k, t)' \subseteq Requests
      /\ Through(k, t) \subseteq Since(k, t) /\ Through(k, t)' \subseteq Requests
  BY DEF Since, Through, Admitted
<1>7. Since(k, t)' = IF sent[r].key = k /\ t < now THEN Since(k, t) \cup {r} ELSE Since(k, t)
  BY <1>3, <1>4, <1>6
<1>8. Through(k, t)' = IF v = "admitted" /\ sent[r].key = k /\ t < now
                      THEN Through(k, t) \cup {r} ELSE Through(k, t)
  BY <1>3, <1>4, <1>5, <1>6
<1>. QED BY <1>3, <1>7, <1>8

\* ... and so to their number.
LEMMA DecidingCounts ==
  ASSUME LimiterType, NEW r \in Requests, NEW v \in {"admitted", "limited"},
         NEW n \in Nat, outcome[r].time = None, sent' = sent, Decided(r, v, n),
         NEW k, NEW t \in Int
  PROVE  /\ Cardinality(Since(k, t)') = Cardinality(Since(k, t)) +
              (IF sent[r].key = k /\ t < now THEN 1 ELSE 0)
         /\ Cardinality(Through(k, t)') = Cardinality(Through(k, t)) +
              (IF v = "admitted" /\ sent[r].key = k /\ t < now THEN 1 ELSE 0)
<1>1. /\ IsFiniteSet(Since(k, t)) /\ IsFiniteSet(Through(k, t))
      /\ Cardinality(Since(k, t)) \in Nat /\ Cardinality(Through(k, t)) \in Nat
  BY Subsets, Countable
<1>2. r \notin Since(k, t) /\ r \notin Through(k, t) BY Subsets, Deciding
<1>3. /\ Cardinality(Since(k, t) \cup {r}) = Cardinality(Since(k, t)) + 1
      /\ Cardinality(Through(k, t) \cup {r}) = Cardinality(Through(k, t)) + 1
  BY <1>1, <1>2, FS_AddElement
<1>4. Cardinality(Since(k, t)') = Cardinality(Since(k, t)) +
        (IF sent[r].key = k /\ t < now THEN 1 ELSE 0)
  <2>1. CASE sent[r].key = k /\ t < now
    <3>1. Since(k, t)' = Since(k, t) \cup {r} BY <2>1, Deciding
    <3>. QED BY <2>1, <3>1, <1>3
  <2>2. CASE ~(sent[r].key = k /\ t < now)
    <3>1. Since(k, t)' = Since(k, t) BY <2>2, Deciding
    <3>. QED BY <2>2, <3>1, <1>1
  <2>. QED BY <2>1, <2>2
<1>5. Cardinality(Through(k, t)') = Cardinality(Through(k, t)) +
        (IF v = "admitted" /\ sent[r].key = k /\ t < now THEN 1 ELSE 0)
  <2>1. CASE v = "admitted" /\ sent[r].key = k /\ t < now
    <3>1. Through(k, t)' = Through(k, t) \cup {r} BY <2>1, Deciding
    <3>. QED BY <2>1, <3>1, <1>3
  <2>2. CASE ~(v = "admitted" /\ sent[r].key = k /\ t < now)
    <3>1. Through(k, t)' = Through(k, t) BY <2>2, Deciding
    <3>. QED BY <2>2, <3>1, <1>1
  <2>. QED BY <2>1, <2>2
<1>. QED BY <1>4, <1>5

-----------------------------------------------------------------------------
(***************************************************************************)
(* The steps.                                                              *)
(***************************************************************************)
\* Before any request, every count is zero.
LEMMA LimiterInit == Init => LimiterInvariant
<1>. SUFFICES ASSUME Init PROVE LimiterInvariant OBVIOUS
<1>1. LimiterType
  <2>1. limiter \in {"sliding", "memory", "redis", "sqlite"}
    BY DEF Init, Engines, Engine
  <2>. QED BY <2>1, AdmissionAssumption
       DEF Init, LimiterType, Undecided, Outcome, Inside
<1>2. Undecideds BY DEF Init, Undecideds, Undecided, Outcome
<1>3. HitsInOrder BY DEF Init, HitsInOrder, InOrder
<1>4. \A k, t : Since(k, t) = {} /\ Through(k, t) = {}
  BY DEF Init, Since, Through, Admitted, Undecided, Outcome
<1>5. HitsAreExact
  <2>. SUFFICES ASSUME NEW k \in Keys, NEW t \in Int
                PROVE  Newer(hits[k], t) = Cardinality(Counted(k, t))
    BY DEF HitsAreExact
  <2>1. IsFirstAfter(<<>>, t, 1) BY DEF IsFirstAfter
  <2>2. <<>> \in Seq(Nat) OBVIOUS
  <2>3. FirstAfter(<<>>, t) = 1 BY <2>1, <2>2, FirstAfterIs
  <2>4. Newer(hits[k], t) = 0 BY <2>3 DEF Newer, Init
  <2>5. Counted(k, t) = {} BY <1>4 DEF Counted
  <2>. QED BY <2>4, <2>5, FS_EmptySet
<1>6. CounterIsExact BY <1>4 DEF Init, CounterIsExact, ExactCounter
<1>7. RetryIsEnough BY DEF Init, RetryIsEnough, Undecided, Outcome
<1>8. LimitHolds
  <2>1. \A k : Cardinality(Admitted(Recent(k))) = 0
    BY <1>4, FS_EmptySet DEF Recent, Through
  <2>. QED BY <1>1, <2>1 DEF LimitHolds, LimiterType
<1>. QED BY <1>1, <1>2, <1>3, <1>5, <1>6, <1>7, <1>8 DEF LimiterInvariant

\* Dropping the stale prefix is keeping what is not stale, in order.
LEMMA FreshInOrder ==
  ASSUME NEW stamps \in Seq(Nat), now \in Nat, InOrder(stamps)
  PROVE  /\ InOrder(Fresh(stamps))
         /\ \A i \in DOMAIN stamps :
              stamps[i] > now - Span <=> i >= FirstAfter(stamps, now - Span)
         /\ Len(Fresh(stamps)) > 0 =>
              Fresh(stamps)[1] \in Nat /\ Fresh(stamps)[1] > now - Span
<1>. DEFINE f == FirstAfter(stamps, now - Span)
            kept == Fresh(stamps)
<1>1. now - Span \in Int /\ Len(stamps) \in Nat BY SpanPositive
<1>2. IsFirstAfter(stamps, now - Span, f) BY <1>1, FirstAfterExists
<1>3. f \in 1 .. (Len(stamps) + 1) BY <1>2 DEF IsFirstAfter
<1>4. kept = SubSeq(stamps, f, Len(stamps)) BY DEF Fresh
<1>. HIDE DEF f, kept
<1>5. /\ kept \in Seq(Nat)
      /\ Len(kept) = Len(stamps) + 1 - f
      /\ \A i \in 1 .. Len(kept) : kept[i] = stamps[i + f - 1]
  BY <1>1, <1>3, <1>4, SMTT(30)
<1>6. \A i \in 1 .. Len(kept) : i + f - 1 \in 1 .. Len(stamps)
  BY <1>1, <1>3, <1>5
<1>7. InOrder(kept)
  <2>1. ASSUME NEW i \in 1 .. Len(kept) PROVE kept[i] <= now
    <3>1. stamps[i + f - 1] <= now BY <1>6 DEF InOrder
    <3>. QED BY <3>1, <1>5
  <2>2. ASSUME NEW i \in 1 .. Len(kept), NEW j \in 1 .. Len(kept), i <= j
        PROVE  kept[i] <= kept[j]
    <3>1. i + f - 1 <= j + f - 1 BY <2>2, <1>3, <1>5
    <3>2. stamps[i + f - 1] <= stamps[j + f - 1] BY <3>1, <1>6 DEF InOrder
    <3>. QED BY <3>2, <1>5
  <2>. QED BY <2>1, <2>2, <1>5 DEF InOrder
<1>8. ASSUME NEW i \in DOMAIN stamps PROVE stamps[i] > now - Span <=> i >= f
  <2>1. i \in 1 .. Len(stamps) /\ stamps[i] \in Nat OBVIOUS
  <2>2. CASE i < f
    <3>1. i \in 1 .. (f - 1) BY <2>1, <2>2, <1>3
    <3>2. stamps[i] <= now - Span BY <3>1, <1>2 DEF IsFirstAfter
    <3>. QED BY <3>2, <2>1, <2>2, <1>1, <1>3
  <2>3. CASE i >= f
    <3>1. f \in 1 .. Len(stamps) /\ f <= Len(stamps) BY <2>1, <2>3, <1>1, <1>3
    <3>2. stamps[f] > now - Span BY <3>1, <1>2 DEF IsFirstAfter
    <3>3. stamps[f] <= stamps[i] /\ stamps[f] \in Nat BY <3>1, <2>1, <2>3 DEF InOrder
    <3>. QED BY <3>2, <3>3, <2>1, <2>3, <1>1
  <2>. QED BY <2>1, <2>2, <2>3, <1>3
<1>9. ASSUME Len(kept) > 0 PROVE kept[1] \in Nat /\ kept[1] > now - Span
  <2>1. 1 \in 1 .. Len(kept) /\ f <= Len(stamps) /\ 1 + f - 1 = f
    BY <1>1, <1>3, <1>5, <1>9
  <2>2. kept[1] = stamps[f] BY <2>1, <1>5
  <2>. QED BY <2>1, <2>2, <1>2, <1>5 DEF IsFirstAfter
<1>. QED BY <1>7, <1>8, <1>9 DEF f, kept

\* A stamp of now is put behind the others.
LEMMA AppendInOrder ==
  ASSUME NEW stamps \in Seq(Nat), now \in Nat, InOrder(stamps)
  PROVE  Append(stamps, now) \in Seq(Nat) /\ InOrder(Append(stamps, now))
BY DEF InOrder

\* Nothing was decided in the future.
LEMMA Future ==
  ASSUME LimiterType, Undecideds, NEW k, NEW t \in Int, t >= now
  PROVE  Since(k, t) = {} /\ Through(k, t) = {}
<1>1. \A r \in Requests : outcome[r].time # None => outcome[r].time \in Nat
  BY DEF LimiterType
<1>2. Since(k, t) = {} BY <1>1 DEF Since, Undecideds, LimiterType
<1>. QED BY <1>2, Subsets

\* Time alone passes.
LEMMA Ticking ==
  ASSUME LimiterInvariant, Tick
  PROVE  LimiterInvariant'
<1>1. /\ LimiterType /\ Undecideds /\ HitsInOrder
      /\ HitsAreExact /\ CounterIsExact /\ RetryIsEnough /\ LimitHolds
  BY DEF LimiterInvariant
<1>2. /\ now \in Nat /\ now' = now + 1 /\ Span \in Nat
      /\ UNCHANGED <<limiter, limit, hits, counter, reply, outcome, pc, sent>>
  BY <1>1, SpanPositive DEF Tick, serverVars, limiterVars, LimiterType
<1>3. LimiterType' BY <1>1, <1>2 DEF LimiterType
<1>4. Undecideds'
  <2>1. \A r \in Requests : outcome[r].time # None => outcome[r].time \in Nat
    BY <1>1 DEF LimiterType
  <2>. QED BY <1>1, <1>2, <2>1 DEF Undecideds
<1>5. HitsInOrder'
  <2>1. \A k \in Keys : \A i \in DOMAIN hits[k] : hits[k][i] \in Nat
    BY <1>1 DEF LimiterType
  <2>. QED BY <1>1, <1>2, <2>1 DEF HitsInOrder, InOrder
<1>6. \A k, t : /\ Since(k, t)' = Since(k, t) /\ Through(k, t)' = Through(k, t)
               /\ Counted(k, t)' = Counted(k, t)
  BY <1>2 DEF Since, Through, Admitted, Counted
<1>7. HitsAreExact'
  <2>1. \A t \in Int : t >= now' - Span => t >= now - Span BY <1>2
  <2>. QED BY <1>1, <1>2, <1>6, <2>1 DEF HitsAreExact, Newer
<1>8. CounterIsExact'
  <2>1. \A i : i \in 0 .. now => i \in 0 .. now' BY <1>2
  <2>. QED BY <1>1, <1>2, <1>6, <2>1 DEF CounterIsExact, ExactCounter, Begins
<1>9. RetryIsEnough'
  <2>1. ASSUME NEW r \in Requests, outcome[r].verdict = "limited"
        PROVE  outcome[r].time # now'
    <3>1. outcome[r].time # None BY <1>1, <2>1 DEF Undecideds
    <3>2. outcome[r].time \in Nat BY <1>1, <3>1 DEF LimiterType
    <3>3. outcome[r].time <= now BY <1>1, <3>1 DEF Undecideds
    <3>. QED BY <1>2, <3>2, <3>3
  <2>. QED BY <1>1, <1>2, <1>6, <2>1 DEF RetryIsEnough, Due
<1>10. LimitHolds'
  <2>. SUFFICES ASSUME limit > 0, limiter # "sqlite", NEW k \in Keys
                PROVE  Cardinality(Admitted(Recent(k))')
                         <= IF limiter = "redis" THEN 2 * limit ELSE limit
    BY <1>2 DEF LimitHolds
  <2>1. PICK e \in Int : e = now' - Span BY <1>2
  <2>2. Admitted(Recent(k))' = Through(k, e)
    BY <1>2, <2>1 DEF Recent, Through, Since, Admitted
  <2>3. now - Span \in Int /\ now - Span <= e BY <1>2, <2>1
  <2>4. Through(k, e) \subseteq Through(k, now - Span) BY <1>1, <2>3, Later
  <2>5. Through(k, now - Span) \subseteq Requests BY Subsets
  <2>6. Cardinality(Through(k, now - Span))
          <= IF limiter = "redis" THEN 2 * limit ELSE limit
    BY <1>1 DEF LimitHolds, Recent, Through
  <2>7. /\ Cardinality(Through(k, e)) \in Nat
        /\ Cardinality(Through(k, now - Span)) \in Nat
        /\ Cardinality(Through(k, e)) <= Cardinality(Through(k, now - Span))
    BY <2>4, <2>5, Countable
  <2>. QED BY <1>1, <2>2, <2>6, <2>7 DEF LimiterType
<1>. QED BY <1>3, <1>4, <1>5, <1>7, <1>8, <1>9, <1>10 DEF LimiterInvariant

\* A request moves on, or a new one comes, and nothing is decided.
LEMMA Idle ==
  ASSUME LimiterInvariant, LimiterType', Undecideds',
         UNCHANGED <<limiter, limit, now, hits, counter, outcome>>,
         \A r \in Requests : outcome[r].time # None => sent'[r] = sent[r]
  PROVE  LimiterInvariant'
<1>1. /\ LimiterType /\ Undecideds /\ HitsInOrder
      /\ HitsAreExact /\ CounterIsExact /\ RetryIsEnough /\ LimitHolds
  BY DEF LimiterInvariant
<1>2. \A k, t : /\ Since(k, t)' = Since(k, t) /\ Through(k, t)' = Through(k, t)
               /\ Counted(k, t)' = Counted(k, t)
  BY ZenonT(40) DEF Since, Through, Admitted, Counted
<1>3. HitsInOrder' BY <1>1 DEF HitsInOrder, InOrder
<1>4. HitsAreExact' BY <1>1, <1>2 DEF HitsAreExact, Newer
<1>5. CounterIsExact' BY <1>1, <1>2 DEF CounterIsExact, ExactCounter, Begins
<1>6. RetryIsEnough'
  <2>1. \A r \in Requests : outcome[r].verdict = "limited" => sent'[r] = sent[r]
    BY <1>1 DEF Undecideds
  <2>. QED BY <1>1, <1>2, <2>1 DEF RetryIsEnough, Due
<1>7. LimitHolds'
  <2>1. \A k : Admitted(Recent(k))' = Admitted(Recent(k))
    BY <1>2 DEF Recent, Through
  <2>. QED BY <1>1, <2>1 DEF LimitHolds
<1>. QED BY <1>3, <1>4, <1>5, <1>6, <1>7 DEF LimiterInvariant

\* What a decision leaves of the invariant, whoever takes it.
LEMMA Decides ==
  ASSUME LimiterType, Undecideds, NEW r \in Requests, NEW v \in {"admitted", "limited"},
         NEW n \in Nat, outcome[r].time = None, sent[r] \in Offered, sent' = sent,
         Decided(r, v, n), NEW to \in Inside \ {"down", "limiter", "storage"},
         to = "reply" => limiter = "redis" /\ limit > 0,
         pc' = [pc EXCEPT ![r] = to], UNCHANGED <<limiter, limit, now>>
  PROVE  /\ Undecideds'
         /\ outcome' \in [Requests -> [verdict : {"none", "admitted", "limited", "open"},
                                      time : Nat \cup {None}, retry : Nat]]
         /\ pc' \in [Requests -> Inside \cup {"new", "streaming", "done"}]
<1>1. now \in Nat /\ None \notin Nat BY AdmissionAssumption DEF LimiterType
<1>2. outcome' = [outcome EXCEPT ![r] = [verdict |-> v, time |-> now, retry |-> n]]
  BY DEF Decided, Outcome
<1>3. /\ outcome' \in [Requests -> [verdict : {"none", "admitted", "limited", "open"},
                                   time : Nat \cup {None}, retry : Nat]]
      /\ pc' \in [Requests -> Inside \cup {"new", "streaming", "done"}]
  BY <1>1, <1>2 DEF LimiterType
<1>4. /\ outcome'[r] = [verdict |-> v, time |-> now, retry |-> n] /\ pc'[r] = to
      /\ \A q \in Requests \ {r} : outcome'[q] = outcome[q] /\ pc'[q] = pc[q]
  BY <1>2 DEF LimiterType
<1>5. \A q \in Requests : q # r => /\ outcome'[q] = outcome[q] /\ pc'[q] = pc[q]
  BY <1>4
<1>6. to \notin {"new", "down", "limiter", "storage"} BY DEF Inside
<1>7. ASSUME NEW q \in Requests
      PROVE  /\ pc'[q] \in {"new", "down", "limiter", "storage"} => outcome'[q].time = None
             /\ pc'[q] \in {"storage", "reply"} => limiter' = "redis" /\ limit' > 0
             /\ pc'[q] # "new" => sent'[q] \in Offered
             /\ outcome'[q].time = None => outcome'[q].verdict \in {"none", "open"}
             /\ outcome'[q].time # None => outcome'[q].time <= now' /\ sent'[q] \in Offered
  <2>1. CASE q = r BY <2>1, <1>1, <1>4, <1>6
  <2>2. CASE q # r BY <2>2, <1>5 DEF Undecideds
  <2>. QED BY <2>1, <2>2
<1>8. Undecideds' BY <1>7 DEF Undecideds
<1>. QED BY <1>3, <1>8

\* The hits of a key, when its bucket has been cleaned and this request is counted
\* in it or not, are again exact.
LEMMA HitsStayExact ==
  ASSUME LimiterType, Undecideds, HitsInOrder, HitsAreExact,
         limiter \in {"sliding", "memory"}, limit > 0,
         NEW r \in Requests, NEW v \in {"admitted", "limited"}, NEW n \in Nat,
         outcome[r].time = None, sent' = sent, Decided(r, v, n),
         NEW key \in Keys, sent[r].key = key, NEW bucket \in Seq(Nat),
         UNCHANGED <<limiter, limit, now>>,
         hits' = [hits EXCEPT ![key] = bucket],
         \A t \in Int : t >= now - Span =>
           Newer(bucket, t) = Newer(hits[key], t) +
             (IF (limiter = "memory" \/ v = "admitted") /\ t < now THEN 1 ELSE 0)
  PROVE  HitsAreExact'
<1>1. ASSUME NEW k \in Keys, NEW t \in Int, t >= now - Span
      PROVE  Newer(hits'[k], t) = Cardinality(Counted(k, t)')
  <2>1. Newer(hits[k], t) = Cardinality(Counted(k, t)) BY <1>1 DEF HitsAreExact
  <2>2. /\ Cardinality(Since(k, t)) \in Nat /\ Cardinality(Through(k, t)) \in Nat
    BY Subsets, Countable
  <2>3. Cardinality(Counted(k, t)') = Cardinality(Counted(k, t)) +
          (IF (limiter = "memory" \/ v = "admitted") /\ key = k /\ t < now THEN 1 ELSE 0)
    <3>1. CASE limiter = "sliding"
      <4>1. Counted(k, t) = Through(k, t) /\ Counted(k, t)' = Through(k, t)'
        BY <3>1 DEF Counted
      <4>. QED BY <3>1, <4>1, DecidingCounts
    <3>2. CASE limiter = "memory"
      <4>1. Counted(k, t) = Since(k, t) /\ Counted(k, t)' = Since(k, t)'
        BY <3>2 DEF Counted
      <4>. QED BY <3>2, <4>1, DecidingCounts
    <3>. QED BY <3>1, <3>2
  <2>4. CASE k = key
    <3>1. hits'[k] = bucket BY <2>4 DEF LimiterType
    <3>. QED BY <1>1, <2>1, <2>3, <2>4, <3>1
  <2>5. CASE k # key
    <3>1. hits'[k] = hits[k] BY <2>5 DEF LimiterType
    <3>2. Cardinality(Counted(k, t)) \in Nat BY <2>2 DEF Counted
    <3>. QED BY <2>1, <2>3, <2>5, <3>1, <3>2
  <2>. QED BY <2>4, <2>5
<1>. QED BY <1>1 DEF HitsAreExact, Newer

\* No more are admitted than before, but for a key that had not used up its limit.
LEMMA LimitStaysHeld ==
  ASSUME LimiterType, LimitHolds, limiter \in {"sliding", "memory"}, limit > 0,
         NEW r \in Requests, NEW v \in {"admitted", "limited"}, NEW n \in Nat,
         outcome[r].time = None, sent' = sent, Decided(r, v, n),
         UNCHANGED <<limiter, limit, now>>,
         v = "admitted" => Cardinality(Through(sent[r].key, now - Span)) < limit
  PROVE  LimitHolds'
<1>1. now - Span \in Int /\ now - Span < now /\ limit \in Nat
  BY SpanPositive DEF LimiterType
<1>2. ASSUME NEW k \in Keys PROVE Cardinality(Admitted(Recent(k))') <= limit
  <2>1. PICK e \in Int : e = now - Span BY <1>1
  <2>2. Admitted(Recent(k))' = Through(k, e)'
    BY <2>1 DEF Recent, Through, Since, Admitted
  <2>3. Cardinality(Through(k, e)') = Cardinality(Through(k, e)) +
          (IF v = "admitted" /\ sent[r].key = k /\ e < now THEN 1 ELSE 0)
    BY DecidingCounts
  <2>4. Cardinality(Through(k, e)) <= limit
    BY <2>1 DEF LimitHolds, Recent, Through
  <2>5. Cardinality(Through(k, e)) \in Nat BY Subsets, Countable
  <2>. QED BY <1>1, <2>1, <2>2, <2>3, <2>4, <2>5
<1>. QED BY <1>2 DEF LimitHolds

\* InMemoryStorageEngine.increment_rate_limit keeps the invariant.
LEMMA MemoryKeeps ==
  ASSUME LimiterInvariant, NEW r \in Requests, MemoryCheck(r)
  PROVE  LimiterInvariant'
<1>1. /\ LimiterType /\ Undecideds /\ HitsInOrder
      /\ HitsAreExact /\ CounterIsExact /\ RetryIsEnough /\ LimitHolds
  BY DEF LimiterInvariant
<1>. DEFINE key == sent[r].key
            longer == Append(hits[key], now)
            stamps == Fresh(longer)
            v == Verdict(Len(stamps))
<1>2. /\ limiter = "memory" /\ limit > 0 /\ pc[r] = "limiter"
      /\ pc' = [pc EXCEPT ![r] = AfterVerdict(Len(stamps))]
      /\ hits' = [hits EXCEPT ![key] = stamps]
      /\ Decided(r, v, 0)
      /\ UNCHANGED <<limiter, limit, now, counter, reply, sent>>
  BY DEF MemoryCheck, Goes, serverVars
<1>3. outcome[r].time = None /\ sent[r] \in Offered /\ key \in Keys
  BY <1>1, <1>2, AdmissionAssumption DEF Undecideds, RequestType
<1>4. /\ hits[key] \in Seq(Nat) /\ now \in Nat /\ InOrder(hits[key])
      /\ now - Span \in Int /\ now - Span < now
  BY <1>1, <1>3, SpanPositive DEF LimiterType, HitsInOrder
<1>5. longer \in Seq(Nat) /\ InOrder(longer) BY <1>4, AppendInOrder
<1>6. /\ stamps \in Seq(Nat) /\ InOrder(stamps)
      /\ Len(stamps) = Newer(longer, now - Span)
      /\ \A t \in Int : t >= now - Span => Newer(stamps, t) = Newer(longer, t)
  BY <1>4, <1>5, NewerOfFresh, FreshInOrder
<1>7. \A t \in Int : Newer(longer, t) = IF t < now THEN Newer(hits[key], t) + 1 ELSE 0
  BY <1>4, NewerOfAppend DEF InOrder
<1>8. \A t \in Int : t >= now => Newer(hits[key], t) = 0
  <2>. SUFFICES ASSUME NEW t \in Int, t >= now PROVE Newer(hits[key], t) = 0 OBVIOUS
  <2>1. t >= now - Span BY <1>4
  <2>2. Newer(hits[key], t) = Cardinality(Counted(key, t))
    BY <1>1, <1>2, <1>3, <2>1 DEF HitsAreExact
  <2>3. Counted(key, t) = {} BY <1>1, Future DEF Counted
  <2>. QED BY <2>2, <2>3, FS_EmptySet
<1>9. Newer(hits[key], now - Span) = Cardinality(Since(key, now - Span))
  <2>1. now - Span >= now - Span BY <1>4
  <2>2. Newer(hits[key], now - Span) = Cardinality(Counted(key, now - Span))
    BY <1>1, <1>2, <1>3, <1>4, <2>1 DEF HitsAreExact
  <2>3. Counted(key, now - Span) = Since(key, now - Span) BY <1>2 DEF Counted
  <2>. QED BY <2>2, <2>3
<1>10. Len(stamps) = Cardinality(Since(key, now - Span)) + 1
  BY <1>4, <1>6, <1>7, <1>9
<1>11. v \in {"admitted", "limited"} /\ (v = "admitted" <=> Len(stamps) <= limit)
  BY <1>1, <1>6 DEF Verdict, LimiterType
<1>12. AfterVerdict(Len(stamps)) \in {"refused", "handling"} BY DEF AfterVerdict
<1>. HIDE DEF stamps, v, key, longer
<1>13. AfterVerdict(Len(stamps)) \in Inside \ {"down", "limiter", "storage"}
       /\ AfterVerdict(Len(stamps)) # "reply"
  BY <1>12 DEF Inside
<1>14. Undecideds' /\ LimiterType'
  <2>1. /\ Undecideds'
        /\ outcome' \in [Requests -> [verdict : {"none", "admitted", "limited", "open"},
                                     time : Nat \cup {None}, retry : Nat]]
        /\ pc' \in [Requests -> Inside \cup {"new", "streaming", "done"}]
    BY <1>1, <1>2, <1>3, <1>11, <1>13, Decides
  <2>2. hits' \in [Keys -> Seq(Nat)] BY <1>1, <1>2, <1>6 DEF LimiterType
  <2>. QED BY <1>1, <1>2, <2>1, <2>2 DEF LimiterType
<1>15. HitsInOrder'
  <2>1. \A k \in Keys : hits'[k] = IF k = key THEN stamps ELSE hits[k]
    BY <1>1, <1>2 DEF LimiterType
  <2>. QED BY <1>1, <1>2, <1>6, <2>1 DEF HitsInOrder, InOrder
<1>16. HitsAreExact'
  <2>1. \A t \in Int : t >= now - Span =>
          Newer(stamps, t) = Newer(hits[key], t) + (IF t < now THEN 1 ELSE 0)
    BY <1>4, <1>6, <1>7, <1>8
  <2>2. \A t \in Int : t >= now - Span =>
          Newer(stamps, t) = Newer(hits[key], t) +
            (IF (limiter = "memory" \/ v = "admitted") /\ t < now THEN 1 ELSE 0)
    BY <1>2, <2>1
  <2>3. sent[r].key = key BY DEF key
  <2>4. 0 \in Nat OBVIOUS
  <2>. QED BY <1>1, <1>2, <1>3, <1>6, <1>11, <2>2, <2>3, <2>4, HitsStayExact
<1>17. CounterIsExact' /\ RetryIsEnough' BY <1>2 DEF CounterIsExact, RetryIsEnough
<1>18. LimitHolds'
  <2>1. v = "admitted" => Cardinality(Through(key, now - Span)) < limit
    <3>1. /\ Cardinality(Through(key, now - Span)) <= Cardinality(Since(key, now - Span))
          /\ Cardinality(Since(key, now - Span)) \in Nat
          /\ Cardinality(Through(key, now - Span)) \in Nat
      BY Subsets, Countable
    <3>. QED BY <1>1, <1>10, <1>11, <3>1 DEF LimiterType
  <2>2. sent[r].key = key BY DEF key
  <2>3. 0 \in Nat OBVIOUS
  <2>. QED BY <1>1, <1>2, <1>3, <1>11, <2>1, <2>2, <2>3, LimitStaysHeld
<1>. QED BY <1>14, <1>15, <1>16, <1>17, <1>18 DEF LimiterInvariant

\* Retry-After and one second less a tick cover what is left of the window.
LEMMA RetryCovers ==
  ASSUME NEW left \in Int,
         NEW n, n = IF left \div TicksPerSecond > 1 THEN left \div TicksPerSecond ELSE 1
  PROVE  n \in Nat /\ (n + 1) * TicksPerSecond - 1 >= left
<1>. DEFINE q == left \div TicksPerSecond
<1>1. TicksPerSecond \in Nat /\ TicksPerSecond > 0 BY AdmissionAssumption
<1>2. q \in Int /\ left < (q + 1) * TicksPerSecond BY <1>1
<1>. HIDE DEF q
<1>3. n \in Nat /\ n >= q BY <1>2 DEF q
<1>4. (n + 1) * TicksPerSecond >= (q + 1) * TicksPerSecond
  <2>1. n + 1 = (q + 1) + (n - q) /\ n - q \in Nat BY <1>2, <1>3
  <2>2. (n + 1) * TicksPerSecond = (q + 1) * TicksPerSecond + (n - q) * TicksPerSecond
    BY <1>1, <1>2, <2>1
  <2>3. (n - q) * TicksPerSecond \in Nat BY <1>1, <2>1
  <2>. QED BY <1>1, <1>2, <2>2, <2>3
<1>5. (n + 1) * TicksPerSecond \in Int /\ (q + 1) * TicksPerSecond \in Int
  BY <1>1, <1>2, <1>3
<1>. QED BY <1>2, <1>3, <1>4, <1>5

\* The oldest request of a full bucket is out of the window by the time a refused
\* client is due.
LEMMA DueCovers ==
  ASSUME LimiterType, NEW r \in Requests, NEW bucket, bucket[1] \in Nat,
         bucket[1] > now - Span, outcome'[r] = Outcome("limited", now, RetryAfter(bucket))
  PROVE  Due(r)' - Span \in Int /\ Due(r)' - Span >= bucket[1]
<1>1. now \in Nat /\ Span \in Nat /\ TicksPerSecond \in Nat
  BY SpanPositive, AdmissionAssumption DEF LimiterType
<1>. DEFINE left == Span - (now - bucket[1])
            n == RetryAfter(bucket)
<1>2. left \in Int /\ left \div TicksPerSecond \in Int
  <2>1. left \in Int BY <1>1
  <2>2. TicksPerSecond > 0 BY AdmissionAssumption
  <2>. QED BY <1>1, <2>1, <2>2
<1>3. n = IF left \div TicksPerSecond > 1 THEN left \div TicksPerSecond ELSE 1
  BY DEF RetryAfter
<1>4. n \in Nat /\ (n + 1) * TicksPerSecond - 1 >= left BY <1>2, <1>3, RetryCovers
<1>5. Due(r)' = now + (n + 1) * TicksPerSecond - 1 BY DEF Due, Outcome
<1>. HIDE DEF n
<1>6. (n + 1) * TicksPerSecond \in Int BY <1>1, <1>4
<1>. QED BY <1>1, <1>4, <1>5, <1>6

\* Behind the first entry of a bucket there is at least one less than in it.
LEMMA NewerThanFirst ==
  ASSUME NEW bucket \in Seq(Nat), Len(bucket) > 0
  PROVE  Newer(bucket, bucket[1]) < Len(bucket)
<1>. DEFINE f == FirstAfter(bucket, bucket[1])
<1>1. bucket[1] \in Int /\ Len(bucket) \in Nat OBVIOUS
<1>2. IsFirstAfter(bucket, bucket[1], f) BY <1>1, FirstAfterExists
<1>. HIDE DEF f
<1>3. f # 1 BY <1>1, <1>2 DEF IsFirstAfter
<1>. QED BY <1>1, <1>2, <1>3 DEF IsFirstAfter, Newer, f

\* Who was refused stays covered: admissions come later, or not at all.
LEMMA RetryStaysEnough ==
  ASSUME LimiterType, Undecideds, RetryIsEnough, limiter = "sliding",
         NEW r \in Requests, NEW v \in {"admitted", "limited"}, NEW n \in Nat,
         outcome[r].time = None, sent' = sent, Decided(r, v, n),
         UNCHANGED <<limiter, limit, now>>,
         v = "admitted" => Cardinality(Through(sent[r].key, now - Span)) < limit,
         v = "limited" =>
           /\ Cardinality(Through(sent[r].key, now - Span)) >= limit
           /\ Due(r)' - Span \in Int
           /\ Cardinality(Through(sent[r].key, Due(r)' - Span)) < limit
  PROVE  RetryIsEnough'
<1>1. now \in Nat /\ now - Span \in Int /\ limit \in Nat
  BY SpanPositive DEF LimiterType
<1>2. /\ outcome'[r].time = now /\ outcome'[r].verdict = v
      /\ \A q \in Requests : q # r => outcome'[q] = outcome[q]
  BY DEF Decided, Outcome, LimiterType
<1>3. \A q \in Requests : q # r => Due(q)' = Due(q) BY <1>2 DEF Due
<1>4. ASSUME NEW q \in Requests, outcome'[q].verdict = "limited"
      PROVE  /\ Cardinality((Through(sent[q].key, Due(q) - Span)
                               \ Through(sent[q].key, outcome[q].time))') < limit
             /\ outcome'[q].time = now =>
                  Cardinality((Through(sent[q].key, now - Span))') >= limit
  <2>. DEFINE k == sent[q].key
  <2>1. PICK e : e = now - Span /\ e \in Int BY <1>1
  <2>2. (Through(k, now - Span))' = Through(k, e)'
    BY <2>1 DEF Through, Since, Admitted
  <2>3. CASE q = r
    <3>1. v = "limited" BY <1>2, <1>4, <2>3
    <3>2. PICK d : d = Due(r)' - Span /\ d \in Int BY <3>1
    <3>3. (Through(k, Due(q) - Span) \ Through(k, outcome[q].time))' \subseteq Through(k, d)'
      BY <2>3, <3>2 DEF Through, Since, Admitted
    <3>4. Through(k, d)' = Through(k, d) BY <3>1, <3>2, Deciding
    <3>5. Cardinality(Through(k, d)) < limit BY <3>1, <3>2, <2>3
    <3>6. Through(k, e)' = Through(k, e) BY <2>1, <3>1, Deciding
    <3>7. Cardinality(Through(k, e)) >= limit BY <2>1, <2>3, <3>1
    <3>8. /\ Cardinality((Through(k, Due(q) - Span) \ Through(k, outcome[q].time))') \in Nat
          /\ Cardinality(Through(k, d)) \in Nat
          /\ Cardinality((Through(k, Due(q) - Span) \ Through(k, outcome[q].time))')
               <= Cardinality(Through(k, d))
      BY <3>3, <3>4, Subsets, Countable
    <3>. QED BY <1>1, <2>2, <3>5, <3>6, <3>7, <3>8
  <2>4. CASE q # r
    <3>1. outcome[q].verdict = "limited" /\ outcome'[q] = outcome[q] BY <1>2, <1>4, <2>4
    <3>2. PICK t \in Nat : t = outcome[q].time /\ t <= now
      BY <3>1 DEF Undecideds, LimiterType
    <3>3. PICK d \in Int : d = Due(q) - Span /\ Due(q)' = Due(q)
      <4>1. TicksPerSecond \in Nat /\ Span \in Nat BY AdmissionAssumption, SpanPositive
      <4>2. outcome[q].retry \in Nat BY DEF LimiterType
      <4>3. (outcome[q].retry + 1) * TicksPerSecond \in Int BY <4>1, <4>2
      <4>. QED BY <1>3, <2>4, <3>2, <4>1, <4>3 DEF Due
    <3>4. /\ Cardinality(Through(k, d) \ Through(k, t)) < limit
          /\ t = now => Cardinality(Through(k, e)) >= limit
      BY <2>1, <3>1, <3>2, <3>3 DEF RetryIsEnough
    <3>5. (Through(k, Due(q) - Span) \ Through(k, outcome[q].time))'
            = Through(k, d)' \ Through(k, t)'
      BY <3>1, <3>2, <3>3 DEF Through, Since, Admitted
    <3>6. t = now => ~(v = "admitted" /\ sent[r].key = k)
      <4>1. Cardinality(Through(k, e)) \in Nat BY Subsets, Countable
      <4>2. sent[r].key = k => Through(sent[r].key, now - Span) = Through(k, e) BY <2>1
      <4>. QED BY <1>1, <3>4, <4>1, <4>2
    <3>7. Through(k, d)' \ Through(k, t)' = Through(k, d) \ Through(k, t)
      <4>1. CASE v = "admitted" /\ sent[r].key = k
        <5>1. t < now BY <1>1, <3>2, <3>6, <4>1
        <5>2. Through(k, t)' = Through(k, t) \cup {r} BY <4>1, <5>1, Deciding
        <5>3. r \notin Through(k, d) BY Deciding, Subsets
        <5>4. Through(k, d)' \in {Through(k, d), Through(k, d) \cup {r}} BY Deciding
        <5>. QED BY <5>2, <5>3, <5>4
      <4>2. CASE ~(v = "admitted" /\ sent[r].key = k)
        <5>1. Through(k, d)' = Through(k, d) BY <4>2, Deciding
        <5>2. Through(k, t)' = Through(k, t) BY <4>2, Deciding
        <5>. QED BY <5>1, <5>2
      <4>. QED BY <4>1, <4>2
    <3>8. outcome'[q].time = now => Through(k, e)' = Through(k, e)
      <4>. SUFFICES ASSUME outcome'[q].time = now PROVE Through(k, e)' = Through(k, e)
        OBVIOUS
      <4>1. ~(v = "admitted" /\ sent[r].key = k) BY <3>1, <3>2, <3>6
      <4>. QED BY <2>1, <4>1, Deciding
    <3>. QED BY <2>2, <3>1, <3>2, <3>4, <3>5, <3>7, <3>8
  <2>. QED BY <2>3, <2>4
<1>. QED BY <1>4 DEF RetryIsEnough

\* RateLimiterMiddleware.dispatch keeps the invariant.
LEMMA SlidingKeeps ==
  ASSUME LimiterInvariant, NEW r \in Requests, SlidingCheck(r)
  PROVE  LimiterInvariant'
<1>1. /\ LimiterType /\ Undecideds /\ HitsInOrder
      /\ HitsAreExact /\ CounterIsExact /\ RetryIsEnough /\ LimitHolds
  BY DEF LimiterInvariant
<1>. DEFINE key == sent[r].key
            bucket == Fresh(hits[key])
<1>2. /\ limiter = "sliding" /\ limit > 0 /\ pc[r] = "limiter"
      /\ UNCHANGED <<limiter, limit, now, counter, reply, sent>>
  BY DEF SlidingCheck, serverVars
<1>3. outcome[r].time = None /\ sent[r] \in Offered /\ key \in Keys
  BY <1>1, <1>2, AdmissionAssumption DEF Undecideds, RequestType
<1>4. /\ hits[key] \in Seq(Nat) /\ now \in Nat /\ InOrder(hits[key])
      /\ now - Span \in Int /\ now - Span < now /\ limit \in Nat
  BY <1>1, <1>3, SpanPositive DEF LimiterType, HitsInOrder
<1>5. /\ bucket \in Seq(Nat) /\ InOrder(bucket) /\ Len(bucket) \in Nat
      /\ Len(bucket) = Newer(hits[key], now - Span)
      /\ Len(bucket) > 0 => bucket[1] \in Nat /\ bucket[1] > now - Span
      /\ \A t \in Int : t >= now - Span => Newer(bucket, t) = Newer(hits[key], t)
  BY <1>4, NewerOfFresh, FreshInOrder
<1>6. \A t \in Int : t >= now - Span =>
         Newer(hits[key], t) = Cardinality(Through(key, t))
  BY <1>1, <1>2, <1>3 DEF HitsAreExact, Counted
<1>7. Len(bucket) = Cardinality(Through(key, now - Span)) BY <1>4, <1>5, <1>6
<1>8. \A t \in Int : t >= now => Newer(hits[key], t) = 0
  <2>. SUFFICES ASSUME NEW t \in Int, t >= now PROVE Newer(hits[key], t) = 0 OBVIOUS
  <2>1. t >= now - Span BY <1>4
  <2>2. Through(key, t) = {} BY <1>1, Future
  <2>. QED BY <1>6, <2>1, <2>2, FS_EmptySet
<1>9. /\ "refused" \in Inside \ {"down", "limiter", "storage"}
      /\ "handling" \in Inside \ {"down", "limiter", "storage"}
  BY DEF Inside
<1>10. sent[r].key = key BY DEF key
<1>. HIDE DEF key, bucket
<1>11. CASE Len(bucket) >= limit
  <2>1. /\ pc' = [pc EXCEPT ![r] = "refused"]
        /\ hits' = [hits EXCEPT ![key] = bucket]
        /\ Decided(r, "limited", RetryAfter(bucket))
    BY <1>4, <1>5, <1>11 DEF SlidingCheck, Goes, key, bucket
  <2>2. Len(bucket) > 0 BY <1>2, <1>4, <1>5, <1>11
  <2>3. RetryAfter(bucket) \in Nat
    <3>1. Span - (now - bucket[1]) \in Int BY <1>4, <1>5, <2>2, SpanPositive
    <3>. QED BY <3>1, RetryCovers DEF RetryAfter
  <2>4. /\ Undecideds'
        /\ outcome' \in [Requests -> [verdict : {"none", "admitted", "limited", "open"},
                                     time : Nat \cup {None}, retry : Nat]]
        /\ pc' \in [Requests -> Inside \cup {"new", "streaming", "done"}]
    BY <1>1, <1>2, <1>3, <1>9, <2>1, <2>3, Decides
  <2>5. hits' \in [Keys -> Seq(Nat)] BY <1>1, <1>5, <2>1 DEF LimiterType
  <2>6. LimiterType' BY <1>1, <1>2, <2>4, <2>5 DEF LimiterType
  <2>7. HitsInOrder'
    <3>1. \A k \in Keys : hits'[k] = IF k = key THEN bucket ELSE hits[k]
      BY <1>1, <2>1 DEF LimiterType
    <3>. QED BY <1>1, <1>2, <1>5, <3>1 DEF HitsInOrder, InOrder
  <2>8. HitsAreExact'
    <3>1. \A t \in Int : t >= now - Span =>
            Newer(bucket, t) = Newer(hits[key], t) +
              (IF (limiter = "memory" \/ "limited" = "admitted") /\ t < now THEN 1 ELSE 0)
      <4>. SUFFICES ASSUME NEW t \in Int, t >= now - Span
                    PROVE  Newer(bucket, t) = Newer(hits[key], t) + 0
        BY <1>2
      <4>1. Cardinality(Through(key, t)) \in Nat BY Subsets, Countable
      <4>. QED BY <1>5, <1>6, <4>1
    <3>. QED BY <1>1, <1>2, <1>3, <1>5, <1>10, <2>1, <2>3, <3>1, HitsStayExact
  <2>9. LimitHolds'
    BY <1>1, <1>2, <1>3, <2>1, <2>3, LimitStaysHeld
  <2>10. RetryIsEnough'
    <3>1. outcome'[r] = Outcome("limited", now, RetryAfter(bucket))
      BY <1>1, <2>1 DEF Decided, LimiterType
    <3>2. Due(r)' - Span \in Int /\ Due(r)' - Span >= bucket[1]
      BY <1>1, <1>5, <2>2, <3>1, DueCovers
    <3>3. PICK d \in Int : d = Due(r)' - Span BY <3>2
    <3>4. Through(key, d) \subseteq Through(key, bucket[1])
      <4>1. bucket[1] \in Int /\ bucket[1] <= d BY <1>5, <2>2, <3>2, <3>3
      <4>. QED BY <1>1, <4>1, Later
    <3>5. Cardinality(Through(key, bucket[1])) < Len(bucket)
      <4>1. bucket[1] \in Int /\ bucket[1] >= now - Span BY <1>4, <1>5, <2>2
      <4>2. Newer(bucket, bucket[1]) = Cardinality(Through(key, bucket[1]))
        BY <1>5, <1>6, <4>1
      <4>. QED BY <1>5, <2>2, <4>2, NewerThanFirst
    <3>6. Len(bucket) <= limit
      BY <1>1, <1>2, <1>3, <1>7 DEF LimitHolds, Recent, Through
    <3>7. Cardinality(Through(key, d)) < limit
      <4>1. /\ {Cardinality(Through(key, d)), Cardinality(Through(key, bucket[1]))} \subseteq Nat
            /\ Cardinality(Through(key, d)) <= Cardinality(Through(key, bucket[1]))
        BY <3>4, Subsets, Countable
      <4>. QED BY <1>4, <1>5, <3>5, <3>6, <4>1
    <3>8. /\ Cardinality(Through(sent[r].key, now - Span)) >= limit
          /\ Cardinality(Through(sent[r].key, Due(r)' - Span)) < limit
      BY <1>7, <1>10, <1>11, <3>3, <3>7
    <3>. QED BY <1>1, <1>2, <1>3, <2>1, <2>3, <3>2, <3>8, RetryStaysEnough
  <2>11. CounterIsExact' BY <1>2 DEF CounterIsExact
  <2>. QED BY <2>4, <2>6, <2>7, <2>8, <2>9, <2>10, <2>11 DEF LimiterInvariant
<1>12. CASE Len(bucket) < limit
  <2>1. /\ pc' = [pc EXCEPT ![r] = "handling"]
        /\ hits' = [hits EXCEPT ![key] = Append(bucket, now)]
        /\ Decided(r, "admitted", 0)
    <3>1. ~(Len(bucket) >= limit) BY <1>4, <1>5, <1>12
    <3>. QED BY <3>1 DEF SlidingCheck, Goes, key, bucket
  <2>2. 0 \in Nat OBVIOUS
  <2>3. Append(bucket, now) \in Seq(Nat) /\ InOrder(Append(bucket, now))
    BY <1>4, <1>5, AppendInOrder
  <2>4. /\ Undecideds'
        /\ outcome' \in [Requests -> [verdict : {"none", "admitted", "limited", "open"},
                                     time : Nat \cup {None}, retry : Nat]]
        /\ pc' \in [Requests -> Inside \cup {"new", "streaming", "done"}]
    BY <1>1, <1>2, <1>3, <1>9, <2>1, <2>2, Decides
  <2>5. hits' \in [Keys -> Seq(Nat)] BY <1>1, <2>1, <2>3 DEF LimiterType
  <2>6. LimiterType' BY <1>1, <1>2, <2>4, <2>5 DEF LimiterType
  <2>7. HitsInOrder'
    <3>1. \A k \in Keys : hits'[k] = IF k = key THEN Append(bucket, now) ELSE hits[k]
      BY <1>1, <2>1 DEF LimiterType
    <3>. QED BY <1>1, <1>2, <2>3, <3>1 DEF HitsInOrder, InOrder
  <2>8. HitsAreExact'
    <3>1. \A t \in Int : t >= now - Span =>
            Newer(Append(bucket, now), t) = Newer(hits[key], t) +
              (IF (limiter = "memory" \/ "admitted" = "admitted") /\ t < now THEN 1 ELSE 0)
      <4>. SUFFICES ASSUME NEW t \in Int, t >= now - Span
                    PROVE  Newer(Append(bucket, now), t)
                             = Newer(hits[key], t) + (IF t < now THEN 1 ELSE 0)
        OBVIOUS
      <4>1. Newer(Append(bucket, now), t) = IF t < now THEN Newer(bucket, t) + 1 ELSE 0
        BY <1>4, <1>5, NewerOfAppend DEF InOrder
      <4>. QED BY <1>4, <1>5, <1>8, <4>1
    <3>. QED BY <1>1, <1>2, <1>3, <1>10, <2>1, <2>2, <2>3, <3>1, HitsStayExact
  <2>9. Cardinality(Through(sent[r].key, now - Span)) < limit BY <1>7, <1>10, <1>12
  <2>10. LimitHolds' BY <1>1, <1>2, <1>3, <2>1, <2>2, <2>9, LimitStaysHeld
  <2>11. RetryIsEnough' BY <1>1, <1>2, <1>3, <2>1, <2>2, <2>9, RetryStaysEnough
  <2>12. CounterIsExact' BY <1>2 DEF CounterIsExact
  <2>. QED BY <2>4, <2>6, <2>7, <2>8, <2>10, <2>11, <2>12 DEF LimiterInvariant
<1>. QED BY <1>4, <1>5, <1>11, <1>12

\* SQLite decides without counting, and refuses nobody.
LEMMA SqliteKeeps ==
  ASSUME LimiterInvariant, NEW r \in Requests, SqliteCheck(r)
  PROVE  LimiterInvariant'
<1>1. /\ LimiterType /\ Undecideds /\ HitsInOrder
      /\ HitsAreExact /\ CounterIsExact /\ RetryIsEnough /\ LimitHolds
  BY DEF LimiterInvariant
<1>2. /\ limiter = "sqlite" /\ limit > 0 /\ pc[r] = "limiter"
      /\ pc' = [pc EXCEPT ![r] = AfterVerdict(1)]
      /\ Decided(r, Verdict(1), 0)
      /\ UNCHANGED <<limiter, limit, now, hits, counter, reply, sent>>
  BY DEF SqliteCheck, Goes, serverVars
<1>3. outcome[r].time = None /\ sent[r] \in Offered
  BY <1>1, <1>2 DEF Undecideds
<1>4. /\ AfterVerdict(1) \in Inside \ {"down", "limiter", "storage"}
      /\ AfterVerdict(1) # "reply"
      /\ Verdict(1) \in {"admitted", "limited"} /\ 0 \in Nat
  BY DEF AfterVerdict, Verdict, Inside
<1>5. /\ Undecideds'
      /\ outcome' \in [Requests -> [verdict : {"none", "admitted", "limited", "open"},
                                   time : Nat \cup {None}, retry : Nat]]
      /\ pc' \in [Requests -> Inside \cup {"new", "streaming", "done"}]
  BY <1>1, <1>2, <1>3, <1>4, Decides
<1>6. LimiterType' BY <1>1, <1>2, <1>5 DEF LimiterType
<1>7. HitsInOrder' BY <1>1, <1>2 DEF HitsInOrder, InOrder
<1>8. HitsAreExact' /\ CounterIsExact' /\ RetryIsEnough' /\ LimitHolds'
  BY <1>2 DEF HitsAreExact, CounterIsExact, RetryIsEnough, LimitHolds
<1>. QED BY <1>5, <1>6, <1>7, <1>8 DEF LimiterInvariant

\* A storage error lets a request through that nobody counts as admitted.
LEMMA FailureKeeps ==
  ASSUME LimiterInvariant, NEW r \in Requests, RedisFails(r)
  PROVE  LimiterInvariant'
<1>1. /\ LimiterType /\ Undecideds /\ HitsInOrder
      /\ HitsAreExact /\ CounterIsExact /\ RetryIsEnough /\ LimitHolds
  BY DEF LimiterInvariant
<1>2. /\ pc[r] \in {"storage", "reply"} /\ pc' = [pc EXCEPT ![r] = "handling"]
      /\ outcome' = [outcome EXCEPT ![r].verdict = "open"]
      /\ UNCHANGED <<limiter, limit, now, hits, counter, reply, sent>>
  BY DEF RedisFails, Goes, serverVars
<1>3. limiter = "redis" /\ limit > 0 BY <1>1, <1>2 DEF Undecideds
<1>4. LimiterType'
  <2>1. pc' \in [Requests -> Inside \cup {"new", "streaming", "done"}]
    BY <1>1, <1>2 DEF LimiterType, Inside
  <2>2. outcome' \in [Requests -> [verdict : {"none", "admitted", "limited", "open"},
                                 time : Nat \cup {None}, retry : Nat]]
    BY <1>1, <1>2 DEF LimiterType
  <2>. QED BY <1>1, <1>2, <2>1, <2>2 DEF LimiterType
<1>5. \A q \in Requests :
        /\ outcome'[q].time = outcome[q].time
        /\ outcome'[q].verdict = IF q = r THEN "open" ELSE outcome[q].verdict
        /\ pc'[q] = IF q = r THEN "handling" ELSE pc[q]
  BY <1>1, <1>2 DEF LimiterType
<1>6. Undecideds'
  <2>1. pc[r] # "new" BY <1>2
  <2>. QED BY <1>1, <1>2, <1>5, <2>1 DEF Undecideds
<1>7. \A k, t : /\ Since(k, t)' = Since(k, t)
               /\ Through(k, t)' = Through(k, t) \ {r}
  <2>1. \A k, t : Since(k, t)' = Since(k, t) BY <1>2, <1>5 DEF Since
  <2>2. \A k, t : \A q \in Requests :
          q \in Through(k, t)' <=> q \in Through(k, t) /\ q # r
    BY <1>5, <2>1 DEF Through, Admitted
  <2>3. \A k, t : Through(k, t) \subseteq Requests /\ Through(k, t)' \subseteq Requests
    BY DEF Through, Admitted, Since
  <2>. QED BY <2>1, <2>2, <2>3
<1>8. HitsInOrder' BY <1>1, <1>2 DEF HitsInOrder, InOrder
<1>9. HitsAreExact' /\ RetryIsEnough' BY <1>2, <1>3 DEF HitsAreExact, RetryIsEnough
<1>10. CounterIsExact'
  <2>. SUFFICES ASSUME NEW k \in Keys, counter[k].value # 0
                PROVE  /\ Cardinality(Through(k, Begins(k) - 1)') <= limit
                       /\ Cardinality((Through(k, Begins(k) - Span)
                                        \ Through(k, Begins(k) - 1))') <= limit
    BY <1>1, <1>2, <1>3, <1>7 DEF CounterIsExact, ExactCounter, Begins
  <2>. DEFINE A == Through(k, Begins(k) - 1)
              B == Through(k, Begins(k) - Span) \ Through(k, Begins(k) - 1)
  <2>1. PICK b, c : b = Begins(k) - 1 /\ c = Begins(k) - Span OBVIOUS
  <2>2. Through(k, Begins(k) - 1)' = Through(k, b)'
        /\ Through(k, Begins(k) - Span)' = Through(k, c)'
    BY <1>2, <2>1 DEF Through, Since, Admitted, Begins
  <2>3. A' \subseteq A /\ B' \subseteq B BY <1>7, <2>1, <2>2
  <2>4. A \subseteq Requests /\ B \subseteq Requests BY Subsets
  <2>5. Cardinality(A) <= limit /\ Cardinality(B) <= limit /\ limit \in Nat
    BY <1>1, <1>3 DEF CounterIsExact, ExactCounter, LimiterType
  <2>6. /\ Cardinality(A') <= Cardinality(A) /\ Cardinality(B') <= Cardinality(B)
        /\ {Cardinality(A'), Cardinality(A), Cardinality(B'), Cardinality(B)} \subseteq Nat
    BY <2>3, <2>4, Countable
  <2>. QED BY <2>5, <2>6
<1>11. LimitHolds'
  <2>. SUFFICES ASSUME NEW k \in Keys
                PROVE  Cardinality(Admitted(Recent(k))') <= 2 * limit
    BY <1>2, <1>3 DEF LimitHolds
  <2>1. PICK e : e = now - Span OBVIOUS
  <2>2. Admitted(Recent(k)) = Through(k, e) /\ Admitted(Recent(k))' = Through(k, e)'
    BY <1>2, <2>1 DEF Recent, Through, Since, Admitted
  <2>3. Admitted(Recent(k))' \subseteq Admitted(Recent(k)) BY <1>7, <2>2
  <2>4. Admitted(Recent(k)) \subseteq Requests BY DEF Recent, Admitted, Since
  <2>5. Cardinality(Admitted(Recent(k))) <= 2 * limit /\ limit \in Nat
    BY <1>1, <1>3 DEF LimitHolds, LimiterType
  <2>6. /\ Cardinality(Admitted(Recent(k))') <= Cardinality(Admitted(Recent(k)))
        /\ Cardinality(Admitted(Recent(k))) \in Nat
        /\ Cardinality(Admitted(Recent(k))') \in Nat
    BY <2>3, <2>4, Countable
  <2>. QED BY <2>5, <2>6
<1>. QED BY <1>4, <1>6, <1>8, <1>9, <1>10, <1>11 DEF LimiterInvariant

\* Two windows of Redis cover the last 60 seconds.
LEMMA RedisLimit == LimiterType /\ CounterIsExact /\ limiter = "redis" => LimitHolds
<1>. SUFFICES ASSUME LimiterType, CounterIsExact, limiter = "redis", NEW k \in Keys
              PROVE  Cardinality(Through(k, now - Span)) <= 2 * limit
  BY DEF LimitHolds, Recent, Through
<1>1. limit \in Nat /\ now \in Nat /\ Span \in Nat BY SpanPositive DEF LimiterType
<1>2. CASE counter[k].value = 0
  <2>1. now - Span \in Int BY <1>1
  <2>2. Through(k, now - Span) = {} BY <1>2, <2>1, Subsets DEF CounterIsExact, ExactCounter
  <2>. QED BY <1>1, <2>2, FS_EmptySet
<1>3. CASE counter[k].value # 0
  <2>. DEFINE A == Through(k, Begins(k) - 1)
              B == Through(k, Begins(k) - Span) \ Through(k, Begins(k) - 1)
  <2>1. /\ Begins(k) \in 0 .. now
        /\ Cardinality(A) <= limit /\ Cardinality(B) <= limit
    BY <1>3 DEF CounterIsExact, ExactCounter
  <2>2. Begins(k) - Span \in Int /\ now - Span \in Int /\ Begins(k) - Span <= now - Span
    BY <1>1, <2>1
  <2>3. Through(k, now - Span) \subseteq A \cup B BY <2>2, Later
  <2>4. A \subseteq Requests /\ B \subseteq Requests BY Subsets
  <2>5. /\ IsFiniteSet(A) /\ IsFiniteSet(B) /\ IsFiniteSet(A \cap B)
        /\ {Cardinality(A), Cardinality(B), Cardinality(A \cap B)} \subseteq Nat
    BY <2>4, Countable
  <2>. HIDE DEF A, B
  <2>6. Cardinality(A \cup B) = Cardinality(A) + Cardinality(B) - Cardinality(A \cap B)
    BY <2>5, FS_Union
  <2>7. A \cup B \subseteq Requests BY <2>4
  <2>8. /\ Cardinality(Through(k, now - Span)) <= Cardinality(A \cup B)
        /\ Cardinality(Through(k, now - Span)) \in Nat
    BY <2>3, <2>7, Countable
  <2>. QED BY <1>1, <2>1, <2>5, <2>6, <2>8
<1>. QED BY <1>2, <1>3

\* INCR and EXPIRE NX keep the counter of a key exact.
LEMMA RedisCounts ==
  ASSUME LimiterType, Undecideds, CounterIsExact, limiter = "redis", limit > 0,
         NEW r \in Requests, NEW v \in {"admitted", "limited"}, NEW n \in Nat,
         outcome[r].time = None, sent' = sent, Decided(r, v, n),
         NEW key \in Keys, sent[r].key = key, UNCHANGED <<limiter, limit, now>>,
         counter' = [counter EXCEPT ![key] = Incremented(counter[key])],
         v = Verdict(Incremented(counter[key]).value)
  PROVE  /\ CounterIsExact'
         /\ counter' \in [Keys -> [value : Nat, expires : Nat]]
         /\ v = "limited" => Cardinality(Since(key, now - Span)) >= limit
<1>. DEFINE c == counter[key]
            w == Begins(key)
<1>1. /\ limit \in Nat /\ now \in Nat /\ Span \in Nat /\ Span > 0
      /\ c \in [value : Nat, expires : Nat]
  BY SpanPositive DEF LimiterType
<1>2. Incremented(c) \in [value : Nat, expires : Nat] BY <1>1 DEF Incremented
<1>3. counter' \in [Keys -> [value : Nat, expires : Nat]]
  BY <1>2 DEF LimiterType
<1>4. \A k \in Keys : counter'[k] = IF k = key THEN Incremented(c) ELSE counter[k]
  BY DEF LimiterType
<1>5. \A k \in Keys : Begins(k) \in Int /\ Begins(k)' = counter'[k].expires - Span
  BY <1>1 DEF Begins, LimiterType
<1>6. ASSUME NEW k \in Keys, k # key PROVE ExactCounter(k)'
  <2>1. counter'[k] = counter[k] BY <1>4, <1>6
  <2>2. \A t \in Int : Since(k, t)' = Since(k, t) /\ Through(k, t)' = Through(k, t)
    BY <1>6, Deciding
  <2>3. PICK b \in Int, e \in Int, d \in Int :
          b = Begins(k) - 1 /\ e = counter[k].expires - 1 /\ d = Begins(k) - Span
    <3>1. Begins(k) - 1 \in Int /\ Begins(k) - Span \in Int BY <1>1, <1>5
    <3>2. counter[k].expires \in Nat BY DEF LimiterType
    <3>3. counter[k].expires - 1 \in Int BY <3>2
    <3>. QED BY <3>1, <3>3
  <2>4. Begins(k)' = Begins(k) BY <2>1 DEF Begins
  <2>5. /\ Since(k, counter[k].expires - 1)' = Since(k, e)'
        /\ Since(k, Begins(k) - 1)' = Since(k, b)'
        /\ Through(k, Begins(k) - 1)' = Through(k, b)'
        /\ Through(k, Begins(k) - Span)' = Through(k, d)'
    BY <2>1, <2>3, <2>4 DEF Since, Through, Admitted
  <2>6. ExactCounter(k) BY DEF CounterIsExact
  <2>7. CASE counter[k].value = 0
    BY <2>1, <2>2, <2>6, <2>7 DEF ExactCounter
  <2>8. CASE counter[k].value # 0
    BY <2>1, <2>2, <2>3, <2>4, <2>5, <2>6, <2>8 DEF ExactCounter
  <2>. QED BY <2>7, <2>8
<1>7. CASE c.value > 0 /\ now < c.expires
  <2>1. Incremented(c) = [value |-> c.value + 1, expires |-> c.expires]
    BY <1>1, <1>7 DEF Incremented
  <2>2. counter'[key] = [value |-> c.value + 1, expires |-> c.expires] BY <1>4, <2>1
  <2>3. /\ w \in 0 .. now /\ Since(key, c.expires - 1) = {}
        /\ Cardinality(Since(key, w - 1)) = c.value
        /\ Cardinality(Through(key, w - 1)) <= limit
        /\ Cardinality(Through(key, w - Span) \ Through(key, w - 1)) <= limit
    <3>1. ExactCounter(key) /\ counter[key].value # 0 BY <1>1, <1>7 DEF CounterIsExact
    <3>. QED BY <3>1 DEF ExactCounter
  <2>4. PICK b \in Int, e \in Int, d \in Int :
          b = w - 1 /\ e = c.expires - 1 /\ d = w - Span
    BY <1>1, <1>5
  <2>5. /\ Since(key, counter[key].expires - 1)' = Since(key, e)'
        /\ Since(key, Begins(key) - 1)' = Since(key, b)'
        /\ Through(key, Begins(key) - 1)' = Through(key, b)'
        /\ Through(key, Begins(key) - Span)' = Through(key, d)'
        /\ Begins(key)' = w
    BY <2>2, <2>4 DEF Since, Through, Admitted, Begins
  <2>6. b < now /\ d < now /\ ~(e < now) BY <1>1, <1>7, <2>3, <2>4
  <2>7. Since(key, e)' = {} BY <2>3, <2>4, <2>6, Deciding
  <2>8. Cardinality(Since(key, b)') = c.value + 1 BY <2>3, <2>4, <2>6, DecidingCounts
  <2>9. Cardinality(Through(key, b)') <= limit
    <3>1. CASE v = "admitted"
      <4>1. c.value + 1 <= limit BY <1>1, <2>1, <3>1 DEF Verdict
      <4>2. Through(key, b)' \subseteq Since(key, b)' /\ Since(key, b)' \subseteq Requests
        BY DEF Through, Admitted, Since
      <4>3. /\ Cardinality(Through(key, b)') <= Cardinality(Since(key, b)')
            /\ Cardinality(Through(key, b)') \in Nat
        BY <4>2, Countable
      <4>. QED BY <1>1, <2>8, <4>1, <4>3
    <3>2. CASE v # "admitted"
      <4>1. Through(key, b)' = Through(key, b) BY <3>2, Deciding
      <4>. QED BY <2>3, <2>4, <4>1
    <3>. QED BY <3>1, <3>2
  <2>10. Cardinality((Through(key, d) \ Through(key, b))') <= limit
    <3>1. r \notin Through(key, d) /\ r \notin Through(key, b) BY Deciding, Subsets
    <3>2. \/ /\ Through(key, d)' = Through(key, d) \cup {r}
             /\ Through(key, b)' = Through(key, b) \cup {r}
          \/ Through(key, d)' = Through(key, d) /\ Through(key, b)' = Through(key, b)
      BY <2>6, Deciding
    <3>3. (Through(key, d) \ Through(key, b))' = Through(key, d) \ Through(key, b)
      BY <3>1, <3>2
    <3>. QED BY <2>3, <2>4, <3>3
  <2>11. CounterIsExact'
    <3>1. counter'[key].value = c.value + 1 /\ counter'[key].value # 0
          /\ counter'[key].expires = c.expires
      BY <1>1, <2>2
    <3>2. ExactCounter(key)'
      BY <2>3, <2>5, <2>7, <2>8, <2>9, <2>10, <3>1 DEF ExactCounter
    <3>. QED BY <1>6, <3>2 DEF CounterIsExact
  <2>12. v = "limited" => Cardinality(Since(key, now - Span)) >= limit
    <3>. SUFFICES ASSUME v = "limited"
                  PROVE  Cardinality(Since(key, now - Span)) >= limit
      OBVIOUS
    <3>1. c.value >= limit BY <1>1, <2>1 DEF Verdict
    <3>2. now - Span \in Int /\ now - Span <= b BY <1>1, <1>7, <2>4 DEF Begins
    <3>3. Since(key, b) \subseteq Since(key, now - Span) BY <3>2, Later
    <3>4. /\ Cardinality(Since(key, b)) <= Cardinality(Since(key, now - Span))
          /\ Cardinality(Since(key, now - Span)) \in Nat
      BY <3>3, Subsets, Countable
    <3>. QED BY <1>1, <2>3, <2>4, <3>1, <3>4
  <2>. QED BY <1>3, <2>11, <2>12
<1>8. CASE ~(c.value > 0 /\ now < c.expires)
  <2>1. Incremented(c) = [value |-> 1, expires |-> now + Span] BY <1>8 DEF Incremented
  <2>2. counter'[key] = [value |-> 1, expires |-> now + Span] BY <1>4, <2>1
  <2>3. v = "admitted" BY <1>1, <2>1 DEF Verdict
  <2>4. PICK b \in Int, e \in Int, d \in Int :
          b = now - 1 /\ e = now + Span - 1 /\ d = now - Span
    BY <1>1
  <2>5. Begins(key)' = now BY <1>1, <2>2 DEF Begins
  <2>6. /\ Since(key, counter[key].expires - 1)' = Since(key, e)'
        /\ Since(key, Begins(key) - 1)' = Since(key, b)'
        /\ Through(key, Begins(key) - 1)' = Through(key, b)'
        /\ Through(key, Begins(key) - Span)' = Through(key, d)'
    <3>1. /\ counter'[key].expires - 1 = e /\ Begins(key)' - 1 = b
          /\ Begins(key)' - Span = d
      BY <1>1, <2>2, <2>4, <2>5
    <3>. QED BY <3>1 DEF Since, Through, Admitted
  <2>7. b < now /\ d < now /\ ~(e < now) /\ e >= now BY <1>1, <2>4
  <2>8. Since(key, e)' = {}
    <3>1. Since(key, e)' = Since(key, e) BY <2>7, Deciding
    <3>. QED BY <2>7, <3>1, Future
  <2>9. Since(key, b) = {} /\ Cardinality(Through(key, d)) <= limit
    <3>1. CASE c.value = 0
      <4>1. Since(key, b) = {} /\ Since(key, d) = {}
        BY <3>1 DEF CounterIsExact, ExactCounter
      <4>2. Through(key, d) = {} BY <4>1, Subsets
      <4>. QED BY <1>1, <4>1, <4>2, FS_EmptySet
    <3>2. CASE c.value # 0
      <4>1. now >= c.expires BY <1>1, <1>8, <3>2
      <4>2. /\ Since(key, c.expires - 1) = {}
            /\ Cardinality(Through(key, w - 1)) <= limit
        BY <3>2 DEF CounterIsExact, ExactCounter
      <4>3. c.expires - 1 \in Int /\ c.expires - 1 <= b BY <1>1, <2>4, <4>1
      <4>4. w - 1 \in Int /\ w - 1 <= d BY <1>1, <2>4, <4>1 DEF Begins
      <4>5. Since(key, b) \subseteq {} BY <4>2, <4>3, Later
      <4>6. Through(key, d) \subseteq Through(key, w - 1) BY <4>4, Later
      <4>7. /\ Cardinality(Through(key, d)) <= Cardinality(Through(key, w - 1))
            /\ Cardinality(Through(key, d)) \in Nat
            /\ Cardinality(Through(key, w - 1)) \in Nat
        BY <4>6, Subsets, Countable
      <4>. QED BY <1>1, <4>2, <4>5, <4>7
    <3>. QED BY <3>1, <3>2
  <2>10. Since(key, b)' = {r} /\ Through(key, b)' = {r}
    <3>1. Through(key, b) = {} BY <2>9, Subsets
    <3>2. Since(key, b)' = Since(key, b) \cup {r} BY <2>7, Deciding
    <3>3. Through(key, b)' = Through(key, b) \cup {r} BY <2>3, <2>7, Deciding
    <3>. QED BY <2>9, <3>1, <3>2, <3>3
  <2>11. Cardinality({r}) = 1 BY FS_Singleton
  <2>12. Cardinality((Through(key, d) \ Through(key, b))') <= limit
    <3>1. Through(key, d)' = Through(key, d) \cup {r} BY <2>3, <2>7, Deciding
    <3>2. r \notin Through(key, d) BY Deciding, Subsets
    <3>3. (Through(key, d) \ Through(key, b))' = Through(key, d) BY <2>10, <3>1, <3>2
    <3>. QED BY <2>9, <3>3
  <2>13. CounterIsExact'
    <3>1. counter'[key].value = 1 BY <2>2
    <3>2. Begins(key)' \in 0 .. now' BY <1>1, <2>5
    <3>3. Cardinality(Through(key, Begins(key) - 1)') <= limit'
      BY <1>1, <2>6, <2>10, <2>11
    <3>4. Cardinality((Through(key, Begins(key) - Span)
                        \ Through(key, Begins(key) - 1))') <= limit'
      BY <2>6, <2>12
    <3>5. Cardinality(Since(key, Begins(key) - 1)') = counter'[key].value
      BY <2>6, <2>10, <2>11, <3>1
    <3>6. ExactCounter(key)'
      BY <2>6, <2>8, <3>1, <3>2, <3>3, <3>4, <3>5 DEF ExactCounter
    <3>. QED BY <1>6, <3>6 DEF CounterIsExact
  <2>. QED BY <1>3, <2>3, <2>13
<1>. QED BY <1>7, <1>8

\* The transaction on the Redis server keeps the invariant.
LEMMA RedisKeeps ==
  ASSUME LimiterInvariant, NEW r \in Requests, RedisExecutes(r)
  PROVE  LimiterInvariant'
<1>1. /\ LimiterType /\ Undecideds /\ HitsInOrder
      /\ HitsAreExact /\ CounterIsExact /\ RetryIsEnough /\ LimitHolds
  BY DEF LimiterInvariant
<1>. DEFINE key == sent[r].key
            c == Incremented(counter[key])
<1>2. /\ pc[r] = "storage" /\ pc' = [pc EXCEPT ![r] = "reply"]
      /\ counter' = [counter EXCEPT ![key] = c]
      /\ reply' = [reply EXCEPT ![r] = c.value]
      /\ Decided(r, Verdict(reply'[r]), 0)
      /\ UNCHANGED <<limiter, limit, now, hits, sent>>
  BY DEF RedisExecutes, Goes, serverVars
<1>3. /\ outcome[r].time = None /\ sent[r] \in Offered /\ key \in Keys
      /\ limiter = "redis" /\ limit > 0
  BY <1>1, <1>2, AdmissionAssumption DEF Undecideds, RequestType
<1>4. reply'[r] = c.value BY <1>1, <1>2 DEF LimiterType
<1>5. c.value \in Nat
  <2>1. counter[key] \in [value : Nat, expires : Nat] BY <1>1, <1>3 DEF LimiterType
  <2>. QED BY <2>1 DEF Incremented
<1>6. reply' \in [Requests -> Nat] BY <1>1, <1>2, <1>5 DEF LimiterType
<1>7. /\ Verdict(c.value) \in {"admitted", "limited"} /\ 0 \in Nat
      /\ "reply" \in Inside \ {"down", "limiter", "storage"}
  BY DEF Verdict, Inside
<1>8. sent[r].key = key BY DEF key
<1>9. PICK v \in {"admitted", "limited"} : v = Verdict(c.value) BY <1>7
<1>10. Decided(r, v, 0) BY <1>2, <1>4, <1>9
<1>11. /\ Undecideds'
       /\ outcome' \in [Requests -> [verdict : {"none", "admitted", "limited", "open"},
                                    time : Nat \cup {None}, retry : Nat]]
       /\ pc' \in [Requests -> Inside \cup {"new", "streaming", "done"}]
  BY <1>1, <1>2, <1>3, <1>7, <1>10, Decides
<1>12. CounterIsExact' /\ counter' \in [Keys -> [value : Nat, expires : Nat]]
  <2>. HIDE DEF key
  <2>. QED BY <1>1, <1>2, <1>3, <1>7, <1>8, <1>9, <1>10, RedisCounts
<1>13. LimiterType' BY <1>1, <1>2, <1>6, <1>11, <1>12 DEF LimiterType
<1>14. HitsInOrder' BY <1>1, <1>2 DEF HitsInOrder, InOrder
<1>15. HitsAreExact' /\ RetryIsEnough' BY <1>2, <1>3 DEF HitsAreExact, RetryIsEnough
<1>16. (LimiterType /\ CounterIsExact /\ limiter = "redis" => LimitHolds)'
  BY RedisLimit, PTL
<1>17. LimitHolds' BY <1>2, <1>3, <1>12, <1>13, <1>16
<1>. QED BY <1>11, <1>12, <1>13, <1>14, <1>15, <1>17 DEF LimiterInvariant

\* Every step keeps the limiter's invariant.
LEMMA LimiterStep == LimiterInvariant /\ [Next]_vars => LimiterInvariant'
<1>. SUFFICES ASSUME LimiterInvariant, [Next]_vars PROVE LimiterInvariant' OBVIOUS
<1>1. LimiterType /\ Undecideds BY DEF LimiterInvariant
<1>3. ASSUME NEW r \in Requests, NEW offer \in Offered, NEW hot \in BOOLEAN,
             Arrive(r, offer, hot)
      PROVE  LimiterInvariant'
  <2>1. /\ sent' = [sent EXCEPT ![r] = offer] /\ pc[r] = "new"
        /\ UNCHANGED <<limiter, limit, now, hits, counter, reply, outcome>>
    BY <1>3 DEF Arrive, Goes, serverVars, limiterVars
  <2>2. PICK to \in {"done", "down"} : pc' = [pc EXCEPT ![r] = to]
    BY <1>3 DEF Arrive, Goes
  <2>3. outcome[r].time = None BY <1>1, <2>1 DEF Undecideds
  <2>4. LimiterType' BY <1>1, <2>1, <2>2 DEF LimiterType, Inside
  <2>5. \A q \in Requests : sent'[q] = IF q = r THEN offer ELSE sent[q]
    BY <1>1, <2>1 DEF LimiterType
  <2>6. \A q \in Requests : pc'[q] = IF q = r THEN to ELSE pc[q]
    BY <1>1, <2>2 DEF LimiterType
  <2>7. Undecideds' BY <1>1, <2>1, <2>2, <2>3, <2>5, <2>6 DEF Undecideds
  <2>8. \A q \in Requests : outcome[q].time # None => sent'[q] = sent[q]
    BY <2>3, <2>5
  <2>. QED BY <2>1, <2>4, <2>7, <2>8, Idle
<1>4. ASSUME NEW r \in Requests,
             NEW to \in Inside \cup {"streaming", "done"},
             pc[r] # "new", pc' = [pc EXCEPT ![r] = to],
             to \in {"down", "limiter", "storage"} => pc[r] \in {"down", "limiter"},
             to \in {"storage", "reply"} => limiter = "redis" /\ limit > 0,
             UNCHANGED <<limiter, limit, now, hits, counter, reply, outcome, sent>>
      PROVE  LimiterInvariant'
  <2>1. LimiterType' BY <1>1, <1>4 DEF LimiterType
  <2>2. \A q \in Requests : pc'[q] = IF q = r THEN to ELSE pc[q]
    BY <1>1, <1>4 DEF LimiterType
  <2>3. to # "new" BY DEF Inside
  <2>4. Undecideds' BY <1>1, <1>4, <2>2, <2>3 DEF Undecideds
  <2>. QED BY <1>4, <2>1, <2>4, Idle
<1>5. ASSUME NEW r \in Requests, RequestStep(r) PROVE LimiterInvariant'
  <2>1. CASE \E offer \in Offered, hot \in BOOLEAN : Arrive(r, offer, hot)
    BY <1>3, <2>1
  <2>2. CASE Descend(r)
    <3>1. PICK to \in {"limiter", "refused"} : pc' = [pc EXCEPT ![r] = to]
      BY <2>2 DEF Descend, Goes
    <3>2. /\ pc[r] = "down" /\ to \in Inside
          /\ UNCHANGED <<limiter, limit, now, hits, counter, reply, outcome, sent>>
      BY <2>2 DEF Descend, Goes, serverVars, limiterVars, Inside
    <3>. QED BY <1>4, <3>1, <3>2
  <2>3. CASE NotLimited(r)
    <3>1. /\ pc[r] = "limiter" /\ pc' = [pc EXCEPT ![r] = "handling"]
          /\ UNCHANGED <<limiter, limit, now, hits, counter, reply, outcome, sent>>
      BY <2>3 DEF NotLimited, Goes, serverVars, limiterVars
    <3>2. "handling" \in Inside BY DEF Inside
    <3>. QED BY <1>4, <3>1, <3>2
  <2>4. CASE SlidingCheck(r) BY <2>4, SlidingKeeps
  <2>5. CASE MemoryCheck(r) BY <2>5, MemoryKeeps
  <2>6. CASE SqliteCheck(r) BY <2>6, SqliteKeeps
  <2>7. CASE RedisSend(r)
    <3>1. /\ pc[r] = "limiter" /\ pc' = [pc EXCEPT ![r] = "storage"]
          /\ limiter = "redis" /\ limit > 0
          /\ UNCHANGED <<limiter, limit, now, hits, counter, reply, outcome, sent>>
      BY <2>7 DEF RedisSend, Goes, serverVars, limiterVars
    <3>2. "storage" \in Inside BY DEF Inside
    <3>. QED BY <1>4, <3>1, <3>2
  <2>8. CASE RedisExecutes(r) BY <2>8, RedisKeeps
  <2>9. CASE RedisReplies(r)
    <3>1. /\ pc[r] = "reply" /\ pc' = [pc EXCEPT ![r] = AfterVerdict(reply[r])]
          /\ UNCHANGED <<limiter, limit, now, hits, counter, reply, outcome, sent>>
      BY <2>9 DEF RedisReplies, Goes, serverVars, limiterVars
    <3>2. PICK to \in {"refused", "handling"} : to = AfterVerdict(reply[r])
      BY DEF AfterVerdict
    <3>3. to \in Inside BY DEF Inside
    <3>. QED BY <1>4, <3>1, <3>2, <3>3
  <2>10. CASE RedisFails(r) BY <2>10, FailureKeeps
  <2>11. CASE \/ \E ms \in ResponseTimes, streams \in BOOLEAN : Respond(r, ms, streams)
              \/ HandlerRaises(r) \/ StreamEnds(r)
    <3>1. /\ pc[r] \in {"handling", "refused", "streaming"}
          /\ UNCHANGED <<limiter, limit, now, hits, counter, reply, outcome, sent>>
      BY <2>11 DEF Respond, HandlerRaises, StreamEnds, Goes, serverVars, limiterVars
    <3>2. PICK to \in {"streaming", "done"} : pc' = [pc EXCEPT ![r] = to]
      BY <2>11 DEF Respond, HandlerRaises, StreamEnds, Goes
    <3>. QED BY <1>4, <3>1, <3>2
  <2>. QED BY <1>5, <2>1, <2>2, <2>3, <2>4, <2>5, <2>6, <2>7, <2>8, <2>9, <2>10, <2>11
       DEF RequestStep
<1>6. CASE Tick BY <1>6, Ticking
<1>7. CASE Quiet \/ UNCHANGED vars
  <2>1. UNCHANGED <<limiter, limit, now, hits, counter, reply, outcome, pc, sent>>
    BY <1>7 DEF Quiet, vars, serverVars, limiterVars
  <2>2. LimiterType' BY <1>1, <2>1 DEF LimiterType
  <2>3. Undecideds' BY <1>1, <2>1 DEF Undecideds
  <2>. QED BY <2>1, <2>2, <2>3, Idle
<1>. QED BY <1>5, <1>6, <1>7 DEF Next

\* The limiter's counts are exact in every reachable state.
THEOREM LimiterHolds == Spec => []LimiterInvariant
BY LimiterInit, LimiterStep, PTL DEF Spec

\* No key gets more than its limit through in a window (twice the limit, on Redis).
THEOREM LimitAlwaysHolds == Spec => []LimitHolds
<1>1. LimiterInvariant => LimitHolds BY DEF LimiterInvariant
<1>. QED BY <1>1, LimiterHolds, PTL

\* The only steps that refuse are the checks of the limiters that count.
LEMMA WhoRefuses ==
  ASSUME LimiterInvariant, [Next]_vars, NEW r \in Requests,
         outcome[r].time = None, outcome'[r].verdict = "limited"
  PROVE  /\ SlidingCheck(r) \/ MemoryCheck(r) \/ RedisExecutes(r)
         /\ limit > 0 /\ sent[r].key \in Keys
<1>1. LimiterType /\ Undecideds BY DEF LimiterInvariant
<1>2. outcome[r].verdict # "limited" BY <1>1 DEF Undecideds
<1>3. outcome'[r] # outcome[r] BY <1>2
<1>4. PICK q \in Requests :
        SlidingCheck(q) \/ MemoryCheck(q) \/ SqliteCheck(q)
          \/ RedisExecutes(q) \/ RedisFails(q)
  BY <1>3 DEF Next, Tick, Quiet, vars, RequestStep, Arrive, Descend, NotLimited, RedisSend,
     RedisReplies, Respond, HandlerRaises, StreamEnds, limiterVars
<1>5. q = r
  <2>1. \A v, n : Decided(q, v, n) => (q # r => outcome'[r] = outcome[r])
    BY <1>1 DEF Decided, LimiterType
  <2>2. RedisFails(q) => (q # r => outcome'[r] = outcome[r])
    BY <1>1 DEF RedisFails, LimiterType
  <2>. QED BY <1>3, <1>4, <2>1, <2>2
       DEF SlidingCheck, MemoryCheck, SqliteCheck, RedisExecutes
<1>6. ~RedisFails(r) BY <1>1 DEF RedisFails, LimiterType
<1>7. ~SqliteCheck(r)
  <2>. SUFFICES ASSUME SqliteCheck(r) PROVE FALSE OBVIOUS
  <2>1. limit > 0 /\ limit \in Nat /\ Decided(r, Verdict(1), 0)
    BY <1>1 DEF SqliteCheck, LimiterType
  <2>2. Verdict(1) = "admitted" BY <2>1 DEF Verdict
  <2>. QED BY <1>1, <2>1, <2>2 DEF Decided, Outcome, LimiterType
<1>8. limit > 0 /\ sent[r] \in Offered
  BY <1>1, <1>4, <1>5, <1>6, <1>7
     DEF SlidingCheck, MemoryCheck, RedisExecutes, Goes, Undecideds
<1>9. sent[r].key \in Keys BY <1>8, AdmissionAssumption DEF RequestType
<1>. QED BY <1>4, <1>5, <1>6, <1>7, <1>8, <1>9

\* What the sliding limiter and the memory engine compare with the limit.
LEMMA WhatIsCompared ==
  ASSUME LimiterInvariant, limit > 0, NEW key \in Keys
  PROVE  /\ limiter = "sliding" =>
              Len(Fresh(hits[key])) = Cardinality(Through(key, now - Span))
         /\ limiter = "memory" =>
              Len(Fresh(Append(hits[key], now))) = Cardinality(Since(key, now - Span)) + 1
<1>1. LimiterType /\ HitsInOrder /\ HitsAreExact BY DEF LimiterInvariant
<1>2. /\ hits[key] \in Seq(Nat) /\ now \in Nat /\ InOrder(hits[key])
      /\ now - Span \in Int /\ now - Span < now /\ now - Span >= now - Span
  BY <1>1, SpanPositive DEF LimiterType, HitsInOrder
<1>3. Len(Fresh(hits[key])) = Newer(hits[key], now - Span) BY <1>2, NewerOfFresh
<1>4. limiter \in {"sliding", "memory"} =>
        Newer(hits[key], now - Span) = Cardinality(Counted(key, now - Span))
  BY <1>1, <1>2 DEF HitsAreExact
<1>5. Append(hits[key], now) \in Seq(Nat) BY <1>2
<1>6. Len(Fresh(Append(hits[key], now))) = Newer(Append(hits[key], now), now - Span)
  BY <1>2, <1>5, NewerOfFresh
<1>7. Newer(Append(hits[key], now), now - Span) = Newer(hits[key], now - Span) + 1
  BY <1>2, NewerOfAppend DEF InOrder
<1>. QED BY <1>3, <1>4, <1>6, <1>7 DEF Counted

\* A refusal is deserved, at the step that makes it.
LEMMA RefusalStep ==
  ASSUME LimiterInvariant, [Next]_vars, NEW r \in Requests,
         outcome[r].time = None, outcome'[r].verdict = "limited"
  PROVE  Cardinality(IF limiter = "sliding" THEN Admitted(Recent(sent[r].key))
                     ELSE Recent(sent[r].key)) >= limit
<1>. DEFINE key == sent[r].key
<1>1. /\ LimiterType /\ Undecideds /\ CounterIsExact BY DEF LimiterInvariant
<1>2. /\ SlidingCheck(r) \/ MemoryCheck(r) \/ RedisExecutes(r)
      /\ limit > 0 /\ key \in Keys
  BY WhoRefuses
<1>3. CASE SlidingCheck(r)
  <2>1. Len(Fresh(hits[key])) >= limit
    BY <1>1, <1>3 DEF SlidingCheck, Decided, Outcome, LimiterType
  <2>2. limiter = "sliding" BY <1>3 DEF SlidingCheck
  <2>. QED BY <1>2, <2>1, <2>2, WhatIsCompared DEF Through, Recent
<1>4. CASE MemoryCheck(r)
  <2>1. limiter = "memory" BY <1>4 DEF MemoryCheck
  <2>2. outcome'[r].verdict = Verdict(Len(Fresh(Append(hits[key], now))))
    BY <1>1, <1>4 DEF MemoryCheck, Decided, Outcome, LimiterType
  <2>3. Len(Fresh(Append(hits[key], now))) = Cardinality(Since(key, now - Span)) + 1
    BY <1>2, <2>1, WhatIsCompared
  <2>4. Cardinality(Since(key, now - Span)) \in Nat BY Subsets, Countable
  <2>5. Cardinality(Since(key, now - Span)) + 1 > limit BY <2>2, <2>3 DEF Verdict
  <2>6. Cardinality(Since(key, now - Span)) >= limit BY <1>1, <2>4, <2>5 DEF LimiterType
  <2>. QED BY <2>1, <2>6 DEF Recent
<1>5. CASE RedisExecutes(r)
  <2>1. /\ pc[r] = "storage" /\ counter' = [counter EXCEPT ![key] = Incremented(counter[key])]
        /\ reply' = [reply EXCEPT ![r] = Incremented(counter[key]).value]
        /\ Decided(r, Verdict(reply'[r]), 0)
        /\ UNCHANGED <<limiter, limit, now, sent>>
    BY <1>5 DEF RedisExecutes, Goes, serverVars
  <2>2. limiter = "redis" BY <1>1, <2>1 DEF Undecideds
  <2>3. PICK v : v = Verdict(Incremented(counter[key]).value) OBVIOUS
  <2>4. Decided(r, v, 0) BY <1>1, <2>1, <2>3 DEF LimiterType
  <2>5. v = "limited" BY <1>1, <2>4 DEF Decided, Outcome, LimiterType
  <2>6. v \in {"admitted", "limited"} /\ 0 \in Nat /\ sent[r].key = key BY <2>5
  <2>. HIDE DEF key
  <2>7. Cardinality(Since(key, now - Span)) >= limit
    BY <1>1, <1>2, <2>1, <2>2, <2>3, <2>4, <2>5, <2>6, RedisCounts
  <2>. QED BY <2>2, <2>7 DEF Recent, key
<1>. QED BY <1>2, <1>3, <1>4, <1>5

\* No request is refused below the limit of its key.
THEOREM RefusalsAlwaysDeserved == Spec => RefusalsAreDeserved
<1>1. LimiterInvariant /\ [Next]_vars =>
        [\A r \in Requests :
           outcome[r].time = None /\ outcome'[r].verdict = "limited" =>
             LET others == Recent(sent[r].key)
             IN  Cardinality(IF limiter = "sliding" THEN Admitted(others) ELSE others)
                   >= limit]_vars
  BY RefusalStep
<1>. QED BY <1>1, LimiterHolds, PTL DEF Spec, RefusalsAreDeserved

\* A client that comes back late enough is refused only for later admissions.
LEMMA RetryStep ==
  ASSUME LimiterInvariant, [Next]_vars, NEW r \in Requests, NEW s \in Requests,
         limiter = "sliding", outcome[r].verdict = "limited",
         outcome[s].time = None, outcome'[s].verdict = "limited",
         sent[r].key = sent[s].key,
         now >= outcome[r].time + (outcome[r].retry + 1) * TicksPerSecond - 1
  PROVE  \E q \in Admitted(Recent(sent[r].key)) : outcome[q].time > outcome[r].time
<1>1. LimiterType /\ Undecideds /\ RetryIsEnough BY DEF LimiterInvariant
<1>. SUFFICES ASSUME \A q \in Admitted(Recent(sent[r].key)) :
                       ~(outcome[q].time > outcome[r].time)
              PROVE  FALSE
  OBVIOUS
<1>. DEFINE S == Through(sent[r].key, now - Span)
            T == Through(sent[r].key, Due(r) - Span)
                   \ Through(sent[r].key, outcome[r].time)
<1>2. Cardinality(S) >= limit BY RefusalStep DEF Through, Recent
<1>3. Cardinality(T) < limit BY <1>1 DEF RetryIsEnough
<1>4. /\ Due(r) - Span \in Int /\ now - Span \in Int /\ Due(r) - Span <= now - Span
  <2>1. outcome[r].time # None BY <1>1 DEF Undecideds
  <2>2. /\ outcome[r].time \in Nat /\ outcome[r].retry \in Nat /\ now \in Nat
        /\ Span \in Nat /\ TicksPerSecond \in Nat
    BY <1>1, <2>1, SpanPositive, AdmissionAssumption DEF LimiterType
  <2>3. (outcome[r].retry + 1) * TicksPerSecond \in Int BY <2>2
  <2>4. now >= Due(r) /\ Due(r) \in Int BY <2>2, <2>3 DEF Due
  <2>. QED BY <2>2, <2>4
<1>5. S \subseteq Through(sent[r].key, Due(r) - Span) BY <1>1, <1>4, Later
<1>6. S \subseteq T BY <1>5 DEF Through, Recent, Admitted, Since
<1>7. T \subseteq Requests BY Subsets
<1>8. /\ Cardinality(S) \in Nat /\ Cardinality(T) \in Nat
      /\ Cardinality(S) <= Cardinality(T)
  BY <1>6, <1>7, Countable
<1>9. limit \in Nat BY <1>1 DEF LimiterType
<1>. QED BY <1>2, <1>3, <1>8, <1>9

\* Retry-After, plus less than a second, is enough.
THEOREM RetryAfterAlwaysSuffices == Spec => RetryAfterSuffices
<1>1. LimiterInvariant /\ [Next]_vars =>
        [\A r, s \in Requests :
           /\ limiter = "sliding"
           /\ outcome[r].verdict = "limited"
           /\ outcome[s].time = None /\ outcome'[s].verdict = "limited"
           /\ sent[r].key = sent[s].key
           /\ now >= outcome[r].time + (outcome[r].retry + 1) * TicksPerSecond - 1
           => \E q \in Admitted(Recent(sent[r].key)) :
                outcome[q].time > outcome[r].time]_vars
  BY RetryStep
<1>. QED BY <1>1, LimiterHolds, PTL DEF Spec, RetryAfterSuffices
=============================================================================
