---------------------------- MODULE RoutingProofs ---------------------------
(***************************************************************************)
(* For any models.yaml, any requests and sessions and any number of        *)
(* reloads: ExitTool stays inside, and a request walks its failover chain. *)
(*                                                                         *)
(* A session's settings may name ExitTool only because a request of that   *)
(* session was routed to a model that has it: that is the invariant        *)
(* (Sourced), and it needs to know where each request is (Stages).         *)
(*                                                                         *)
(* The walk needs that a name is always resolved to a model of the         *)
(* registry (ResolveType), and that a chain is made of models of the       *)
(* registry, no two with one alias (ChainType): by least counterexample,   *)
(* for resolve_chain builds it one failover alias at a time.               *)
(***************************************************************************)
EXTENDS Routing, NaturalsInduction, WellFoundedInduction, TLAPS

PCs == {"new", "loading", "calling", "saving", "done"}
Kinds == {"CharFixer", "WebSearch", "JSONRepair", "ExitTool"}

RoutingType ==
  /\ pc \in [Requests -> PCs]
  /\ sent \in [Requests -> Offered \cup {None}]
  /\ transformers \in [Requests -> SUBSET Kinds]
  /\ settings \in [Sessions -> SUBSET Kinds]
  /\ chain = [r \in Requests |-> chain[r]]
  /\ attempts = [r \in Requests |-> attempts[r]]
  /\ given = [r \in Requests |-> given[r]]
  /\ delivered = [r \in Requests |-> delivered[r]]

Stages ==
  \A r \in Requests :
    /\ (pc[r] = "new") = (sent[r] = None)
    /\ pc[r] \in {"new", "loading"} => attempts[r] = <<>>
    /\ pc[r] \in {"new", "loading", "calling"} => given[r] = <<>> /\ delivered[r] = {}
    /\ pc[r] = "saving" => given[r] # <<>> /\ sent[r].session \in Sessions

\* A request of session s that was answered by a model with ExitTool.
Source(q, s) ==
  /\ sent[q] # None
  /\ sent[q].session = s
  /\ given[q] # <<>>
  /\ chain[q][1].exit

Sourced ==
  /\ \A s \in Sessions : "ExitTool" \in settings[s] => \E q \in Requests : Source(q, s)
  /\ \A r \in Requests :
       /\ pc[r] \in {"calling", "saving"} \/ attempts[r] # <<>>
       /\ "ExitTool" \in transformers[r]
       => \/ chain[r][1].exit
          \/ /\ sent[r].session # None
             /\ \E q \in Requests \ {r} : Source(q, sent[r].session)

DeliveredInside(r) ==
  /\ "exit" \in delivered[r] => Head(given[r]) = "call" /\ ~sent[r].stream
  /\ given[r] # <<>> /\ Head(given[r]) = "exit" /\ ~sent[r].stream
       => delivered[r] = {"exit answer"}

IInv ==
  /\ RoutingType
  /\ Stages
  /\ Sourced
  /\ \A r \in Requests : DeliveredInside(r)

\* A chain of transformers is one of four kinds, with ExitTool only if enabled.
LEMMA BuildChainType ==
  ASSUME NEW spec
  PROVE  /\ BuildChain(spec) \in SUBSET Kinds
         /\ "ExitTool" \in BuildChain(spec) => spec.exit
<1>1. BuildChain(spec) \subseteq Kinds
  BY DEF BuildChain, Kinds
<1>2. "ExitTool" \in BuildChain(spec) => spec.exit
  BY DEF BuildChain
<1> QED BY <1>1, <1>2

\* What a request is when it is not None.
LEMMA OfferedType ==
  ASSUME NEW body \in Offered
  PROVE  /\ body # None
         /\ body.session \in Sessions \cup {None}
         /\ None \notin Sessions
<1>1. body \in RequestType /\ body # None /\ None \notin Sessions
  BY RoutingAssumption
<1> QED BY <1>1 DEF RequestType

\* A model says something; it calls ExitTool only if that was offered.
LEMMA AnswerShape ==
  ASSUME NEW r, NEW answer \in Answers(r)
  PROVE  /\ answer # <<>>
         /\ Head(answer) = "exit" => "ExitTool" \in transformers[r]
         /\ "exit" \in ToSet(answer) =>
              "ExitTool" \in transformers[r] /\ Head(answer) \in {"exit", "call"}
<1>1. CASE answer \in {<<"text">>, <<"call">>, <<"call", "call">>}
  <2>1. answer # <<>> /\ Head(answer) # "exit"
    BY <1>1
  <2>2. "exit" \notin ToSet(answer)
    BY <1>1 DEF ToSet
  <2> QED BY <2>1, <2>2
<1>2. CASE ExitOffered(r) /\ answer \in {<<"exit">>, <<"exit", "call">>, <<"call", "exit">>}
  <2>1. answer # <<>> /\ Head(answer) \in {"exit", "call"}
    BY <1>2
  <2>2. "ExitTool" \in transformers[r]
    BY <1>2 DEF ExitOffered
  <2> QED BY <2>1, <2>2
<1> QED BY <1>1, <1>2 DEF Answers

-----------------------------------------------------------------------------
\* Initially no session has settings and no request was sent.
LEMMA InitInv == Init => IInv
<1> SUFFICES ASSUME Init PROVE IInv
  OBVIOUS
<1> USE DEF Init, NotSaved
<1>1. RoutingType
  BY DEF RoutingType, PCs
<1>2. Stages
  BY DEF Stages
<1>3. Sourced
  BY DEF Sourced
<1>4. \A r \in Requests : DeliveredInside(r)
  BY DEF DeliveredInside
<1> QED BY <1>1, <1>2, <1>3, <1>4 DEF IInv

\* A request that arrives was not sent before, so it is nobody's source.
LEMMA ArriveInv ==
  ASSUME IInv, NEW r \in Requests, NEW body \in Offered, Arrive(r, body)
  PROVE  IInv'
<1>1. /\ pc[r] = "new" /\ sent' = [sent EXCEPT ![r] = body]
      /\ UNCHANGED <<settings, transformers, attempts, given, delivered>>
      /\ \E to \in {"loading", "done"} : pc' = [pc EXCEPT ![r] = to]
      /\ \A q \in Requests \ {r} : chain'[q] = chain[q]
  BY DEF Arrive, Goes, sessionVars, resultVars, IInv, RoutingType
<1>2. PICK to \in {"loading", "done"} : pc' = [pc EXCEPT ![r] = to]
  BY <1>1
<1>3. sent[r] = None /\ given[r] = <<>> /\ delivered[r] = {} /\ attempts[r] = <<>>
  BY <1>1 DEF IInv, Stages
<1>4. chain' = [q \in Requests |-> chain'[q]]
  BY DEF Arrive, IInv, RoutingType
<1>5. RoutingType'
  BY <1>1, <1>2, <1>4 DEF IInv, RoutingType, PCs
<1>6. Stages'
  BY <1>1, <1>2, <1>3, OfferedType DEF IInv, Stages, RoutingType
<1>7. \A q \in Requests : \A s : Source(q, s) => q # r /\ Source(q, s)'
  BY <1>1, <1>3 DEF Source, IInv, RoutingType
<1>8. Sourced'
  BY <1>1, <1>2, <1>3, <1>7 DEF IInv, Sourced, RoutingType
<1>9. \A q \in Requests : DeliveredInside(q)'
  BY <1>1, <1>3 DEF IInv, DeliveredInside, RoutingType
<1> QED BY <1>5, <1>6, <1>8, <1>9 DEF IInv

\* The transformers are those of the model, or the session's, which have a source;
\* that is another request, this one being unanswered.
LEMMA LoadSessionInv ==
  ASSUME IInv, NEW r \in Requests, pc[r] = "loading", LoadSession(r)
  PROVE  IInv'
<1>1. /\ UNCHANGED <<settings, sent, chain, given, delivered>>
      /\ attempts[r] = <<>> /\ given[r] = <<>> /\ delivered[r] = {}
      /\ \E to \in {"calling", "done"} :
           pc' = [pc EXCEPT ![r] = to] /\ (to = "done" => UNCHANGED attempts)
      /\ \A q \in Requests \ {r} : attempts'[q] = attempts[q]
      /\ attempts' = [q \in Requests |-> attempts'[q]]
  BY DEF LoadSession, Goes, resultVars, IInv, RoutingType, Stages
<1>2. PICK to \in {"calling", "done"} :
         pc' = [pc EXCEPT ![r] = to] /\ (to = "done" => UNCHANGED attempts)
  BY <1>1
<1>3. sent[r] \in Offered /\ sent[r].session \in Sessions \cup {None} /\ None \notin Sessions
  <2>1. sent[r] \in Offered
    BY DEF IInv, Stages, RoutingType
  <2> QED BY <2>1, OfferedType
<1>4. \E c \in SUBSET Kinds :
        /\ transformers' = [transformers EXCEPT ![r] = c]
        /\ \/ c = BuildChain(Head(chain[r]))
           \/ sent[r].session \in Sessions /\ c = settings[sent[r].session]
  <2>1. CASE Saved(r) = NotSaved
    BY <2>1, BuildChainType DEF LoadSession
  <2>2. CASE Saved(r) # NotSaved
    <3>1. sent[r].session \in Sessions /\ Saved(r) = settings[sent[r].session]
      BY <2>2, <1>3 DEF Saved
    <3>2. Saved(r) \in SUBSET Kinds
      BY <3>1 DEF IInv, RoutingType
    <3> QED BY <2>2, <3>1, <3>2 DEF LoadSession
  <2> QED BY <2>1, <2>2
<1>5. PICK c \in SUBSET Kinds :
        /\ transformers' = [transformers EXCEPT ![r] = c]
        /\ \/ c = BuildChain(Head(chain[r]))
           \/ sent[r].session \in Sessions /\ c = settings[sent[r].session]
  BY <1>4
<1>6. "ExitTool" \in c =>
        \/ Head(chain[r]).exit
        \/ sent[r].session # None /\ \E q \in Requests \ {r} : Source(q, sent[r].session)
  <2>1. CASE c = BuildChain(Head(chain[r]))
    BY <2>1, BuildChainType
  <2>2. CASE sent[r].session \in Sessions /\ c = settings[sent[r].session]
    BY <2>2, <1>1, <1>3 DEF IInv, Sourced, Source
  <2> QED BY <1>5, <2>1, <2>2
<1>7. Head(chain[r]) = chain[r][1]
  OBVIOUS
<1>8. RoutingType'
  BY <1>1, <1>2, <1>5 DEF IInv, RoutingType, PCs
<1>9. Stages'
  BY <1>1, <1>2 DEF IInv, Stages, RoutingType
<1>10. \A q \in Requests : \A s : Source(q, s) = Source(q, s)'
  BY <1>1 DEF Source
<1>11. Sourced'
  BY <1>1, <1>2, <1>5, <1>6, <1>7, <1>10 DEF IInv, Sourced, RoutingType
<1>12. \A q \in Requests : DeliveredInside(q)'
  BY <1>1 DEF IInv, DeliveredInside
<1> QED BY <1>8, <1>9, <1>11, <1>12 DEF IInv

\* The walk goes on with the transformers it has.
LEMMA AttemptFailsInv ==
  ASSUME IInv, NEW r \in Requests, NEW end \in Ends, pc[r] = "calling", AttemptFails(r, end)
  PROVE  IInv'
<1>1. /\ UNCHANGED <<settings, transformers, sent, chain, given, delivered>>
      /\ \E to \in {"calling", "done"} : pc' = [pc EXCEPT ![r] = to]
      /\ \A q \in Requests \ {r} : attempts'[q] = attempts[q]
      /\ attempts' = [q \in Requests |-> attempts'[q]]
  BY DEF AttemptFails, Goes, sessionVars, resultVars, IInv, RoutingType
<1>2. PICK to \in {"calling", "done"} : pc' = [pc EXCEPT ![r] = to]
  BY <1>1
<1>3. RoutingType'
  BY <1>1, <1>2 DEF IInv, RoutingType, PCs
<1>4. Stages'
  BY <1>1, <1>2 DEF IInv, Stages, RoutingType
<1>5. \A q \in Requests : \A s : Source(q, s) = Source(q, s)'
  BY <1>1 DEF Source
<1>6. Sourced'
  BY <1>1, <1>2, <1>5 DEF IInv, Sourced, RoutingType
<1>7. \A q \in Requests : DeliveredInside(q)'
  BY <1>1 DEF IInv, DeliveredInside
<1> QED BY <1>3, <1>4, <1>6, <1>7 DEF IInv

\* What is delivered was given by a model that was offered ExitTool or not; an
\* answered request may have become a source, and no other ceases to be one.
LEMMA AttemptAnswersInv ==
  ASSUME IInv, NEW r \in Requests, pc[r] = "calling",
         NEW answer \in Answers(r), AttemptAnswers(r, answer)
  PROVE  IInv'
<1>1. /\ UNCHANGED <<settings, transformers, sent, chain>>
      /\ given' = [given EXCEPT ![r] = answer]
      /\ delivered' = [delivered EXCEPT ![r] = Delivered(r, answer)]
      /\ pc' = [pc EXCEPT ![r] = IF sent[r].session = None THEN "done" ELSE "saving"]
      /\ \A q \in Requests \ {r} : attempts'[q] = attempts[q]
      /\ attempts' = [q \in Requests |-> attempts'[q]]
  BY DEF AttemptAnswers, Goes, sessionVars, IInv, RoutingType
<1>2. sent[r].session \in Sessions \cup {None} /\ sent[r] # None /\ None \notin Sessions
  <2>1. sent[r] \in Offered
    BY DEF IInv, Stages, RoutingType
  <2> QED BY <2>1, OfferedType
<1>3. given[r] = <<>> /\ answer # <<>>
  BY AnswerShape DEF IInv, Stages
<1>4. RoutingType'
  BY <1>1 DEF IInv, RoutingType, PCs
<1>5. Stages'
  BY <1>1, <1>2, <1>3 DEF IInv, Stages, RoutingType
<1>6. \A q \in Requests : \A s : Source(q, s) => Source(q, s)'
  BY <1>1, <1>3 DEF Source, IInv, RoutingType
<1>7. Sourced'
  BY <1>1, <1>6 DEF IInv, Sourced, RoutingType
<1>8. DeliveredInside(r)'
  <2>1. given'[r] = answer /\ delivered'[r] = Delivered(r, answer) /\ sent' = sent
    BY <1>1 DEF IInv, RoutingType
  <2>2. CASE sent[r].stream
    <3>1. "exit" \notin Delivered(r, answer)
      BY <2>2 DEF Delivered
    <3> QED BY <2>1, <2>2, <3>1 DEF DeliveredInside
  <2>3. CASE ~sent[r].stream /\ "ExitTool" \in transformers[r] /\ Head(answer) = "exit"
    <3>1. Delivered(r, answer) = {"exit answer"}
      BY <2>3 DEF Delivered
    <3> QED BY <2>1, <3>1 DEF DeliveredInside
  <2>4. CASE ~sent[r].stream /\ ~("ExitTool" \in transformers[r] /\ Head(answer) = "exit")
    <3>1. Delivered(r, answer) = ToSet(answer)
      BY <2>4 DEF Delivered
    <3>2. Head(answer) # "exit" /\ ("exit" \in ToSet(answer) => Head(answer) = "call")
      BY <2>4, AnswerShape
    <3> QED BY <2>1, <2>4, <3>1, <3>2 DEF DeliveredInside
  <2> QED BY <2>2, <2>3, <2>4
<1>9. \A q \in Requests \ {r} : DeliveredInside(q)'
  BY <1>1 DEF IInv, DeliveredInside, RoutingType
<1> QED BY <1>4, <1>5, <1>7, <1>8, <1>9 DEF IInv

\* The settings that are saved have a source: the one the request relied on, or
\* the request itself.
LEMMA SaveInv ==
  ASSUME IInv, NEW r \in Requests, pc[r] = "saving", Save(r)
  PROVE  IInv'
<1>1. /\ UNCHANGED <<sent, chain, transformers, attempts, given, delivered>>
      /\ pc' = [pc EXCEPT ![r] = "done"]
      /\ settings' = [settings EXCEPT ![sent[r].session] = transformers[r]]
  BY DEF Save, Goes, resultVars
<1>2. given[r] # <<>> /\ sent[r] # None /\ sent[r].session \in Sessions
  BY DEF IInv, Stages
<1>3. RoutingType'
  BY <1>1, <1>2 DEF IInv, RoutingType, PCs
<1>4. Stages'
  BY <1>1 DEF IInv, Stages, RoutingType
<1>5. \A q \in Requests : \A s : Source(q, s) = Source(q, s)'
  BY <1>1 DEF Source
<1>6. "ExitTool" \in transformers[r] => \E q \in Requests : Source(q, sent[r].session)
  <2>1. CASE chain[r][1].exit
    BY <2>1, <1>2 DEF Source
  <2> QED BY <2>1 DEF IInv, Sourced
<1>7. Sourced'
  BY <1>1, <1>2, <1>5, <1>6 DEF IInv, Sourced, RoutingType
<1>8. \A q \in Requests : DeliveredInside(q)'
  BY <1>1 DEF IInv, DeliveredInside
<1> QED BY <1>3, <1>4, <1>7, <1>8 DEF IInv

\* Every step preserves the invariant; a reload changes nothing it speaks of.
LEMMA StepInv == IInv /\ [Next]_vars => IInv'
<1> SUFFICES ASSUME IInv, [Next]_vars PROVE IInv'
  OBVIOUS
<1>1. CASE Reload \/ UNCHANGED vars
  <2>1. UNCHANGED <<pc, sent, transformers, settings, chain, attempts, given, delivered>>
    BY <1>1 DEF Reload, vars, sessionVars, resultVars
  <2>2. RoutingType' /\ Stages'
    BY <2>1 DEF IInv, RoutingType, Stages
  <2>3. \A q \in Requests : \A t : Source(q, t) = Source(q, t)'
    BY <2>1 DEF Source
  <2>4. Sourced'
    BY <2>1, <2>3 DEF IInv, Sourced
  <2>5. \A r \in Requests : DeliveredInside(r)'
    BY <2>1 DEF IInv, DeliveredInside
  <2> QED BY <2>2, <2>4, <2>5 DEF IInv
<1>2. ASSUME NEW r \in Requests, RequestStep(r) PROVE IInv'
  BY <1>2, ArriveInv, LoadSessionInv, AttemptFailsInv, AttemptAnswersInv, SaveInv
  DEF RequestStep
<1> QED BY <1>1, <1>2 DEF Next, Quiet

\* The invariant is strong enough: a request whose transformers have ExitTool has
\* a model with it, or shares its session with an answered request that has.
LEMMA InvInside == IInv => ExitToolStaysInside
<1> SUFFICES ASSUME IInv, NEW r \in Requests
             PROVE  OfferedInSession(r) /\ DeliveredInside(r)
  BY DEF ExitToolStaysInside, DeliveredInside
<1>1. OfferedInSession(r)
  BY DEF OfferedInSession, IInv, Sourced, Source
<1>2. DeliveredInside(r)
  BY DEF IInv
<1> QED BY <1>1, <1>2

\* ExitTool is offered only where it is enabled, or was for an earlier request of
\* the session, and the client sees no call of it that the transformer could take
\* out: routes/messages.py with services/session_service.py and transformers.py.
THEOREM ExitToolInside == Spec => []ExitToolStaysInside
<1>1. Spec => []IInv
  BY InitInv, StepInv, PTL DEF Spec
<1> QED BY <1>1, InvInside, PTL
-----------------------------------------------------------------------------
(***************************************************************************)
(* The chain.  Whatever models.yaml says, resolve finds a model and        *)
(* resolve_chain lists known models, each once.                            *)
(***************************************************************************)
Registries == {Loaded(file) : file \in Files \cup {Bundled}}
Models(reg) == {reg.specs[a] : a \in DOMAIN reg.specs}

\* A set of natural numbers that is not empty has a least element.
LEMMA Least ==
  ASSUME NEW T, T \subseteq Nat, T # {}
  PROVE  \E x \in T : \A y \in T : x <= y
<1>. DEFINE R == {p \in Nat \X Nat : p[1] < p[2]}
<1>1. IsWellFoundedOn(R, Nat) BY NatLessThanWellFounded DEF OpToRel
<1>2. \A x, y \in T : ~ (<<y, x>> \in R) => x <= y OBVIOUS
<1>3. \E x \in T : \A y \in T : ~ (<<y, x>> \in R)
  <2>. HIDE DEF R
  <2>. QED BY <1>1, WFMin
<1>. HIDE DEF R
<1>. QED BY <1>2, <1>3

\* FirstOf finds a name where there is one.
LEMMA FirstIs ==
  ASSUME NEW S, NEW names \in Seq(S), NEW set, \E i \in DOMAIN names : names[i] \in set
  PROVE  FirstOf(names, set) \in set /\ FirstOf(names, set) \in S
<1>. DEFINE T == {i \in DOMAIN names : names[i] \in set}
<1>1. DOMAIN names = 1..Len(names) /\ Len(names) \in Nat OBVIOUS
<1>2. T \subseteq Nat /\ T # {} BY <1>1
<1>3. PICK i \in T : \A j \in T : i <= j BY <1>2, Least
<1>4. \A j \in 1..(i - 1) : names[j] \notin set
  <2>. SUFFICES ASSUME NEW j \in 1..(i - 1), names[j] \in set PROVE FALSE OBVIOUS
  <2>1. i \in 1..Len(names) BY <1>1, <1>3
  <2>2. j \in DOMAIN names /\ j < i BY <1>1, <2>1
  <2>. QED BY <1>1, <1>3, <2>1, <2>2
<1>. DEFINE P(k) == names[k] \in set /\ \A j \in 1..(k - 1) : names[j] \notin set
<1>5. i \in DOMAIN names /\ P(i) BY <1>3, <1>4
<1>6. FirstOf(names, set) = names[CHOOSE k \in DOMAIN names : P(k)] BY DEF FirstOf
<1>7. (CHOOSE k \in DOMAIN names : P(k)) \in DOMAIN names /\ P(CHOOSE k \in DOMAIN names : P(k))
  <2>. HIDE DEF P
  <2>. QED BY <1>5
<1>. QED BY <1>1, <1>6, <1>7

\* What a registry holds: entries of models.yaml, under their own names.
LEMMA RegistryType ==
  ASSUME NEW reg \in Registries
  PROVE  /\ \A a \in DOMAIN reg.specs :
              reg.specs[a].alias = a /\ a \in Names /\ reg.specs[a].failover \in Seq(Aliases)
         /\ reg.big \in Names /\ reg.router \in [ToSet(Scenarios) -> Names \cup {None}]
         /\ \A p \in DOMAIN reg.prefixes : reg.prefixes[p] \in Names
         /\ DOMAIN reg.specs # {} => reg.first \in DOMAIN reg.specs
<1>1. PICK file \in Files \cup {Bundled} : reg = Loaded(file) BY DEF Registries
<1>2. IsFile(file) /\ Aliases \subseteq Names BY RoutingAssumption
<1>3. /\ reg.specs = [a \in DOMAIN file.entries |-> SpecOf(a, file.entries[a])]
      /\ reg.first = file.first /\ reg.big = file.big /\ reg.prefixes = file.prefixes
      /\ reg.router = file.router
  BY <1>1 DEF Loaded
<1>4. ASSUME NEW a \in DOMAIN reg.specs
      PROVE  reg.specs[a].alias = a /\ a \in Names /\ reg.specs[a].failover \in Seq(Aliases)
  <2>1. a \in DOMAIN file.entries /\ file.entries[a] \in EntryType BY <1>2, <1>3, <1>4 DEF IsFile
  <2>2. file.entries[a].failover \in Seq(Aliases) BY <2>1 DEF EntryType
  <2>. QED BY <1>2, <1>3, <2>1, <2>2 DEF SpecOf, IsFile
<1>. QED BY <1>2, <1>3, <1>4 DEF IsFile

\* A name that a client may ask for is routed to one.
LEMMA UseModelType ==
  ASSUME NEW body \in Offered, NEW reg \in Registries
  PROVE  UseModel(body, reg) \in Names
<1>1. /\ body.name \in Names /\ body.traits \subseteq ToSet(Scenarios)
  BY RoutingAssumption DEF RequestType
<1>2. reg.router \in [ToSet(Scenarios) -> Names \cup {None}] BY RegistryType
<1>. DEFINE fitting == {s \in body.traits : reg.router[s] # None}
<1>3. CASE fitting = {} BY <1>1, <1>3 DEF UseModel
<1>4. CASE fitting # {}
  <2>1. PICK s \in ToSet(Scenarios) : s \in fitting BY <1>1, <1>4
  <2>2. Scenarios \in Seq({"long_context", "vision", "web_search", "think", "background"})
    BY DEF Scenarios
  <2>3. \E i \in DOMAIN Scenarios : Scenarios[i] \in fitting BY <2>1 DEF ToSet
  <2>4. FirstOf(Scenarios, fitting) \in fitting BY <2>2, <2>3, FirstIs
  <2>5. UseModel(body, reg) = reg.router[FirstOf(Scenarios, fitting)] BY <1>4 DEF UseModel
  <2>. QED BY <1>1, <1>2, <2>4, <2>5
<1>. QED BY <1>3, <1>4

\* In a registry with models every name is resolved to one of them.
LEMMA ResolveType ==
  ASSUME NEW reg \in Registries, DOMAIN reg.specs # {}, NEW name \in Names
  PROVE  Resolve(reg, name) \in Models(reg)
<1>1. /\ reg.first \in DOMAIN reg.specs /\ reg.first \in Names /\ reg.big \in Names
      /\ Stripped[name] \in Names /\ PrefixesOf[name] \in Seq(Names)
  BY RegistryType, RoutingAssumption
<1>. DEFINE prefixes == DOMAIN reg.prefixes
            byPrefix == IF ToSet(PrefixesOf[name]) \cap prefixes = {} THEN <<>>
                        ELSE <<reg.prefixes[FirstOf(PrefixesOf[name], prefixes)]>>
            names == <<name, Stripped[name]>> \o byPrefix \o <<reg.big, reg.first>>
<1>2. byPrefix \in Seq(Names)
  <2>1. CASE ToSet(PrefixesOf[name]) \cap prefixes = {} BY <2>1
  <2>2. CASE ToSet(PrefixesOf[name]) \cap prefixes # {}
    <3>1. \E i \in DOMAIN PrefixesOf[name] : PrefixesOf[name][i] \in prefixes BY <2>2 DEF ToSet
    <3>2. FirstOf(PrefixesOf[name], prefixes) \in prefixes BY <1>1, <3>1, FirstIs
    <3>. QED BY <2>2, <3>2, RegistryType
  <2>. QED BY <2>1, <2>2
<1>3. names \in Seq(Names) /\ Len(names) = Len(byPrefix) + 4 /\ names[Len(byPrefix) + 4] = reg.first
  <2>. HIDE DEF byPrefix
  <2>. QED BY <1>1, <1>2
<1>4. \E i \in DOMAIN names : names[i] \in DOMAIN reg.specs
  <2>. HIDE DEF names
  <2>1. Len(byPrefix) \in Nat BY <1>2
  <2>2. Len(byPrefix) + 4 \in DOMAIN names BY <1>3, <2>1
  <2>. QED BY <1>1, <1>3, <2>2
<1>5. FirstOf(names, DOMAIN reg.specs) \in DOMAIN reg.specs
  <2>. HIDE DEF names
  <2>. QED BY <1>3, <1>4, FirstIs
<1>6. Resolve(reg, name) = reg.specs[FirstOf(names, DOMAIN reg.specs)] BY DEF Resolve
<1>. QED BY <1>5, <1>6 DEF Models

\* The chain while resolve_chain runs down the first n names of failover_to.
IsFirsts(g, n, reg, spec, failover) ==
  g = [m \in 0..n |->
         IF m = 0 THEN <<spec>> ELSE Extended(reg, g[m - 1], failover[m])]

\* There is one, however long failover_to is.
LEMMA FirstsExist ==
  ASSUME NEW reg, NEW spec, NEW failover, NEW n \in Nat
  PROVE  \E g : IsFirsts(g, n, reg, spec, failover)
<1>. DEFINE Q(m) == \E g : IsFirsts(g, m, reg, spec, failover)
            T == {m \in Nat : ~Q(m)}
<1>1. Q(0)
  <2>. DEFINE g == [m \in 0..0 |-> <<spec>>]
  <2>1. g = [m \in 0..0 |-> IF m = 0 THEN <<spec>> ELSE Extended(reg, g[m - 1], failover[m])]
    OBVIOUS
  <2>. QED BY <2>1 DEF IsFirsts
<1>2. ASSUME NEW k \in Nat, Q(k) PROVE Q(k + 1)
  <2>1. PICK g : IsFirsts(g, k, reg, spec, failover) BY <1>2
  <2>. DEFINE h == [m \in 0..(k + 1) |-> IF m = k + 1 THEN Extended(reg, g[k], failover[m]) ELSE g[m]]
  <2>2. \A m \in 0..k : g[m] = IF m = 0 THEN <<spec>> ELSE Extended(reg, g[m - 1], failover[m])
    BY <2>1 DEF IsFirsts
  <2>3. /\ \A m \in 0..k : h[m] = g[m]
        /\ h[k + 1] = Extended(reg, g[k], failover[k + 1])
        /\ h = [m \in 0..(k + 1) |-> h[m]]
    OBVIOUS
  <2>. HIDE DEF h
  <2>4. ASSUME NEW m \in 0..(k + 1)
        PROVE  h[m] = IF m = 0 THEN <<spec>> ELSE Extended(reg, h[m - 1], failover[m])
    <3>1. CASE m = k + 1
      <4>1. m # 0 /\ m - 1 = k /\ k \in 0..k BY <3>1
      <4>. QED BY <2>3, <3>1, <4>1
    <3>2. CASE m \in 0..k
      <4>1. m # 0 => m - 1 \in 0..k BY <3>2
      <4>. QED BY <2>2, <2>3, <3>2, <4>1
    <3>. QED BY <3>1, <3>2
  <2>5. IsFirsts(h, k + 1, reg, spec, failover) BY <2>3, <2>4 DEF IsFirsts
  <2>. QED BY <2>5
<1>3. T = {}
  <2>. SUFFICES ASSUME T # {} PROVE FALSE OBVIOUS
  <2>. HIDE DEF Q
  <2>1. PICK m \in T : \A j \in T : m <= j BY Least
  <2>2. m # 0 BY <1>1, <2>1
  <2>3. m - 1 \in Nat /\ (m - 1) + 1 = m /\ ~(m <= m - 1) BY <2>1, <2>2
  <2>4. Q(m - 1) BY <2>1, <2>3
  <2>. QED BY <1>2, <2>1, <2>3, <2>4
<1>. QED BY <1>3

\* A chain of known models, none of them twice, from spec on.
IsChain(c, reg, spec) ==
  /\ c \in Seq(Models(reg)) /\ Len(c) >= 1 /\ c[1] = spec
  /\ \A i, j \in DOMAIN c : i # j => c[i].alias # c[j].alias

\* Extending a chain leaves it one.
LEMMA ExtendedIsChain ==
  ASSUME NEW reg \in Registries, NEW spec, NEW c, IsChain(c, reg, spec), NEW a
  PROVE  IsChain(Extended(reg, c, a), reg, spec)
<1>. DEFINE d == Append(c, reg.specs[a])
<1>1. c \in Seq(Models(reg)) /\ Len(c) \in Nat /\ Len(c) >= 1 /\ c[1] = spec
      /\ DOMAIN c = 1..Len(c)
  BY DEF IsChain
<1>2. CASE a \in DOMAIN reg.specs /\ \A i \in DOMAIN c : c[i].alias # a
  <2>1. reg.specs[a] \in Models(reg) /\ reg.specs[a].alias = a BY <1>2, RegistryType DEF Models
  <2>2. /\ d \in Seq(Models(reg)) /\ Len(d) = Len(c) + 1 /\ DOMAIN d = 1..(Len(c) + 1)
        /\ d[Len(c) + 1] = reg.specs[a] /\ \A i \in 1..Len(c) : d[i] = c[i]
    BY <1>1, <2>1
  <2>. HIDE DEF d
  <2>3. ASSUME NEW i \in DOMAIN d, NEW j \in DOMAIN d, i # j PROVE d[i].alias # d[j].alias
    <3>1. CASE i = Len(c) + 1
      <4>1. j \in 1..Len(c) BY <1>1, <2>2, <2>3, <3>1
      <4>. QED BY <1>1, <1>2, <2>1, <2>2, <3>1, <4>1
    <3>2. CASE j = Len(c) + 1
      <4>1. i \in 1..Len(c) BY <1>1, <2>2, <2>3, <3>2
      <4>. QED BY <1>1, <1>2, <2>1, <2>2, <3>2, <4>1
    <3>3. CASE i \in 1..Len(c) /\ j \in 1..Len(c)
      BY <1>1, <2>2, <2>3, <3>3 DEF IsChain
    <3>4. i \in 1..(Len(c) + 1) /\ j \in 1..(Len(c) + 1) BY <2>2, <2>3
    <3>. QED BY <1>1, <3>1, <3>2, <3>3, <3>4
  <2>4. Len(d) >= 1 /\ d[1] = spec
    <3>1. 1 \in 1..Len(c) BY <1>1
    <3>. QED BY <1>1, <2>2, <3>1
  <2>5. IsChain(d, reg, spec) BY <2>2, <2>3, <2>4 DEF IsChain
  <2>6. Extended(reg, c, a) = d BY <1>2 DEF Extended, d
  <2>. QED BY <2>5, <2>6
<1>3. CASE ~(a \in DOMAIN reg.specs /\ \A i \in DOMAIN c : c[i].alias # a)
  <2>1. Extended(reg, c, a) = c BY <1>3 DEF Extended
  <2>. QED BY <2>1
<1>. QED BY <1>2, <1>3

\* resolve_chain lists known models, each once, the model itself first.
LEMMA ChainType ==
  ASSUME NEW reg \in Registries, DOMAIN reg.specs # {}, NEW name \in Names
  PROVE  IsChain(ResolveChain(reg, name), reg, Resolve(reg, name))
<1>. DEFINE spec == Resolve(reg, name)
            failover == spec.failover
            n == Len(failover)
<1>1. spec \in Models(reg) BY ResolveType
<1>2. failover \in Seq(Aliases) /\ n \in Nat
  <2>1. failover \in Seq(Aliases) BY <1>1, RegistryType DEF Models
  <2>. QED BY <2>1
<1>3. ResolveChain(reg, name) =
        (CHOOSE g : g = [m \in 0..n |->
                           IF m = 0 THEN <<spec>> ELSE Extended(reg, g[m - 1], failover[m])])[n]
  BY DEF ResolveChain
<1>. HIDE DEF spec, failover, n
<1>4. PICK f : IsFirsts(f, n, reg, spec, failover) BY <1>2, FirstsExist
<1>. DEFINE g == CHOOSE g : IsFirsts(g, n, reg, spec, failover)
<1>5. IsFirsts(g, n, reg, spec, failover) BY <1>4
<1>6. ResolveChain(reg, name) = g[n] BY <1>3 DEF IsFirsts
<1>. HIDE DEF g
<1>7. \A m \in 0..n : g[m] = IF m = 0 THEN <<spec>> ELSE Extended(reg, g[m - 1], failover[m])
  BY <1>5 DEF IsFirsts
<1>8. IsChain(<<spec>>, reg, spec)
  BY <1>1 DEF IsChain, spec
<1>. DEFINE T == {m \in Nat : m <= n /\ ~IsChain(g[m], reg, spec)}
<1>9. T = {}
  <2>. SUFFICES ASSUME T # {} PROVE FALSE OBVIOUS
  <2>1. PICK m \in T : \A j \in T : m <= j BY Least
  <2>2. m \in Nat /\ m <= n /\ ~IsChain(g[m], reg, spec) BY <2>1
  <2>3. m # 0 BY <1>2, <1>7, <1>8, <2>2
  <2>4. m - 1 \in Nat /\ m - 1 <= n /\ ~(m <= m - 1) /\ m \in 0..n BY <1>2, <2>2, <2>3
  <2>5. IsChain(g[m - 1], reg, spec) BY <2>1, <2>4
  <2>6. g[m] = Extended(reg, g[m - 1], failover[m]) BY <1>7, <2>3, <2>4
  <2>. QED BY <2>2, <2>5, <2>6, ExtendedIsChain
<1>10. IsChain(g[n], reg, spec) BY <1>2, <1>9
<1>. QED BY <1>6, <1>10 DEF spec

-----------------------------------------------------------------------------
(***************************************************************************)
(* The walk.  A request keeps the chain it found in the registry of its    *)
(* arrival, and its attempts go down it.                                   *)
(***************************************************************************)
Outcomes == {"none", "answered"} \cup Ends
Tries(r) == [spec : Models(routedBy[r]), end : Outcomes]

\* A request that was routed has the chain of its model.
Routed(r) ==
  /\ sent[r] \in Offered
  /\ routedBy[r] \in Registries /\ DOMAIN routedBy[r].specs # {}
  /\ chain[r] = Walk(r)

\* Its attempts so far, and that it did not give up early.
Walking(r) ==
  /\ pc[r] \in {"loading", "calling", "saving"} \/ attempts[r] # <<>> => Routed(r)
  /\ attempts[r] # <<>> => attempts[r] \in Seq(Tries(r)) /\ Len(attempts[r]) <= Len(chain[r])
  /\ \A i \in DOMAIN attempts[r] :
       /\ attempts[r][i].spec = chain[r][i]
       /\ i < Len(attempts[r]) => attempts[r][i].end = "transient"
  /\ pc[r] \in {"calling", "saving"} => attempts[r] # <<>>
  /\ pc[r] = "saving" => Last(attempts[r]).end = "answered"
  /\ GivenUpLate(r)

WalkInv ==
  /\ registry \in Registries
  /\ routedBy = [r \in Requests |-> routedBy[r]]
  /\ \A r \in Requests : Walking(r)

\* The walk of a request that was routed.
LEMMA WalkIs ==
  ASSUME NEW r \in Requests, Routed(r)
  PROVE  /\ IsChain(chain[r], routedBy[r], chain[r][1]) /\ Len(chain[r]) \in Nat
         /\ \A i \in 1..Len(chain[r]) : chain[r][i] \in Models(routedBy[r])
<1>. DEFINE name == UseModel(sent[r], routedBy[r])
<1>1. name \in Names BY UseModelType DEF Routed
<1>2. IsChain(chain[r], routedBy[r], Resolve(routedBy[r], name))
  BY <1>1, ChainType DEF Routed, Walk
<1>. QED BY <1>2 DEF IsChain

\* What the invariant says of a walk is what the property does.
LEMMA WalkingFollows ==
  ASSUME NEW r \in Requests, Walking(r)
  PROVE  DownTheChain(r) /\ GivenUpLate(r)
<1>1. GivenUpLate(r) BY DEF Walking
<1>2. CASE attempts[r] = <<>>
  <2>1. DOMAIN attempts[r] = {} /\ 1..(Len(attempts[r]) - 1) = {} BY <1>2
  <2>. QED BY <1>1, <1>2, <2>1 DEF DownTheChain
<1>3. CASE attempts[r] # <<>>
  <2>. DEFINE tried == attempts[r]
              specs == [i \in DOMAIN tried |-> tried[i].spec]
  <2>1. /\ Routed(r) /\ tried \in Seq(Tries(r)) /\ Len(tried) <= Len(chain[r])
        /\ \A i \in DOMAIN tried : tried[i].spec = chain[r][i]
        /\ \A i \in DOMAIN tried : i < Len(tried) => tried[i].end = "transient"
    BY <1>3 DEF Walking
  <2>2. /\ Len(tried) \in Nat /\ DOMAIN tried = 1..Len(tried) /\ Len(chain[r]) \in Nat
        /\ chain[r] \in Seq(Models(routedBy[r])) /\ chain[r] = Walk(r)
        /\ \A i, j \in 1..Len(chain[r]) : i # j => chain[r][i].alias # chain[r][j].alias
    BY <2>1, WalkIs DEF IsChain, Routed
  <2>. HIDE DEF tried
  <2>3. specs \in Seq(Models(routedBy[r])) /\ Len(specs) = Len(tried)
        /\ \A i \in 1..Len(tried) : specs[i] = chain[r][i]
    BY <2>1, <2>2
  <2>. HIDE DEF specs
  <2>4. SubSeq(specs, 1, Len(specs)) = SubSeq(chain[r], 1, Len(specs))
    <3>1. /\ SubSeq(specs, 1, Len(tried)) = [i \in 1..Len(tried) |-> specs[i]]
          /\ SubSeq(chain[r], 1, Len(tried)) = [i \in 1..Len(tried) |-> chain[r][i]]
      BY <2>1, <2>2, <2>3
    <3>. QED BY <2>3, <3>1
  <2>5. IsPrefix(specs, Walk(r)) BY <2>1, <2>2, <2>3, <2>4 DEF IsPrefix
  <2>6. \A i, j \in DOMAIN tried : i # j => tried[i].spec.alias # tried[j].spec.alias
    BY <2>1, <2>2
  <2>7. \A i \in 1..(Len(tried) - 1) : tried[i].end = "transient" BY <2>1, <2>2
  <2>. QED BY <1>1, <2>5, <2>6, <2>7 DEF DownTheChain, tried, specs
<1>. QED BY <1>1, <1>2, <1>3

\* A request walks on as it did while nothing of its own changes.
LEMMA WalkingStays ==
  ASSUME NEW r \in Requests, Walking(r),
         UNCHANGED <<pc[r], sent[r], chain[r], routedBy[r], attempts[r]>>
  PROVE  Walking(r)'
BY DEF Walking, Routed, Walk, Tries, GivenUpLate, Overflows

\* The attempts s with the last one ended by e.
EndedBy(s, e) == [s EXCEPT ![Len(s)].end = e]

\* The attempts t are the attempts s, whose models are in S, with the last one ended by e.
EndsAs(S, s, t, e) ==
  /\ t \in Seq([spec : S, end : Outcomes]) /\ t # <<>>
  /\ Len(t) = Len(s) /\ DOMAIN t = 1..Len(s) /\ Len(s) \in Nat /\ Len(s) >= 1
  /\ \A i \in 1..Len(s) : t[i].spec = s[i].spec /\ (i # Len(s) => t[i].end = s[i].end)
  /\ t[Len(s)].end = e

\* The last attempt ends, and it alone.
LEMMA Ended ==
  ASSUME NEW S, NEW s \in Seq([spec : S, end : Outcomes]), s # <<>>, NEW e \in Outcomes
  PROVE  EndsAs(S, s, EndedBy(s, e), e)
<1>. DEFINE n == Len(s)
            t == [s EXCEPT ![n].end = e]
            last == [s[n] EXCEPT !.end = e]
            Try == [spec : S, end : Outcomes]
<1>0. s \in Seq(Try) OBVIOUS
<1>1. n \in Nat /\ n >= 1 /\ DOMAIN s = 1..n /\ n \in 1..n
  <2>. HIDE DEF Try, last, t
  <2> QED BY <1>0
<1>2. \A i \in 1..n : s[i] \in Try
  <2>. HIDE DEF Try
  <2> QED BY <1>0
<1>3. last \in Try /\ last.spec = s[n].spec /\ last.end = e
  <2>1. s[n] \in Try BY <1>1, <1>2
  <2> QED BY <2>1
<1>4. t = [s EXCEPT ![n] = last]
  OBVIOUS
<1>. HIDE DEF last, Try
<1>5. /\ DOMAIN t = 1..n /\ t[n] = last
      /\ \A i \in 1..n : i # n => t[i] = s[i]
      /\ t = [i \in 1..n |-> t[i]]
  BY <1>1, <1>4
<1>. HIDE DEF t, n
<1>6. \A i \in 1..n : t[i] \in Try BY <1>1, <1>2, <1>3, <1>5
<1>7. t \in Seq(Try) /\ Len(t) = n BY <1>1, <1>5, <1>6
<1>8. t # <<>> BY <1>1, <1>7
<1>9. \A i \in 1..n : t[i].spec = s[i].spec /\ (i # n => t[i].end = s[i].end)
  BY <1>3, <1>5
<1>10. t[n].end = e BY <1>3, <1>5
<1>. QED BY <1>1, <1>5, <1>7, <1>8, <1>9, <1>10 DEF EndedBy, EndsAs, t, n, Try

\* Another attempt is made.
LEMMA Followed ==
  ASSUME NEW T, NEW s \in Seq(T), NEW x \in T
  PROVE  /\ Append(s, x) \in Seq(T) /\ Append(s, x) # <<>> /\ Len(s) \in Nat
         /\ Len(Append(s, x)) = Len(s) + 1 /\ DOMAIN Append(s, x) = 1..(Len(s) + 1)
         /\ \A i \in 1..Len(s) : Append(s, x)[i] = s[i]
         /\ Append(s, x)[Len(s) + 1] = x
OBVIOUS

\* Initially there is a registry and no request.
LEMMA WalkStarts == Init => WalkInv
<1>. SUFFICES ASSUME Init PROVE WalkInv OBVIOUS
<1>1. registry \in Registries BY DEF Init, Registries
<1>2. \A r \in Requests : Walking(r) BY DEF Init, Walking, GivenUpLate
<1>. QED BY <1>1, <1>2 DEF WalkInv, Init

\* A request that arrives is routed by the registry of the moment.
LEMMA ArriveWalks ==
  ASSUME RoutingType, Stages, WalkInv, NEW r \in Requests, NEW body \in Offered, Arrive(r, body)
  PROVE  WalkInv'
<1>1. /\ pc[r] = "new" /\ attempts[r] = <<>> /\ UNCHANGED <<registry, attempts>>
      /\ sent' = [sent EXCEPT ![r] = body]
  BY DEF Arrive, Goes, Stages
<1>2. CASE Refused(body) /\ Goes(r, "new", "done") /\ UNCHANGED <<chain, routedBy>>
  <2>1. \A q \in Requests \ {r} : UNCHANGED <<pc[q], sent[q], chain[q], routedBy[q], attempts[q]>>
    BY <1>1, <1>2 DEF Goes, RoutingType
  <2>2. pc'[r] = "done" BY <1>2 DEF Goes, RoutingType
  <2>3. Walking(r)' BY <1>1, <2>2 DEF Walking, GivenUpLate
  <2>. QED BY <1>1, <1>2, <2>1, <2>3, WalkingStays DEF WalkInv
<1>3. CASE /\ ~Refused(body) /\ Goes(r, "new", "loading")
           /\ chain' = [chain EXCEPT ![r] = ResolveChain(registry, UseModel(body, registry))]
           /\ routedBy' = [routedBy EXCEPT ![r] = registry]
  <2>1. \A q \in Requests \ {r} : UNCHANGED <<pc[q], sent[q], chain[q], routedBy[q], attempts[q]>>
    BY <1>1, <1>3 DEF Goes, RoutingType, WalkInv
  <2>2. /\ pc'[r] = "loading" /\ sent'[r] = body /\ routedBy'[r] = registry
        /\ chain'[r] = ResolveChain(registry, UseModel(body, registry))
    BY <1>1, <1>3 DEF Goes, RoutingType, WalkInv
  <2>3. Routed(r)' BY <1>3, <2>2 DEF Routed, Walk, Refused, WalkInv
  <2>4. Walking(r)' BY <1>1, <2>2, <2>3 DEF Walking, GivenUpLate
  <2>5. routedBy' = [q \in Requests |-> routedBy'[q]] BY <1>3 DEF WalkInv
  <2>. QED BY <1>1, <2>1, <2>4, <2>5, WalkingStays DEF WalkInv
<1>. QED BY <1>2, <1>3 DEF Arrive

\* The first attempt goes to the first model.
LEMMA LoadSessionWalks ==
  ASSUME RoutingType, Stages, WalkInv, NEW r \in Requests, pc[r] = "loading", LoadSession(r)
  PROVE  WalkInv'
<1>1. /\ attempts[r] = <<>> /\ UNCHANGED <<registry, routedBy, sent, chain>>
      /\ Routed(r) /\ Routed(r)'
  BY DEF LoadSession, Stages, WalkInv, Walking, Routed, Walk
<1>2. CASE Goes(r, "loading", "done") /\ UNCHANGED attempts
  <2>1. \A q \in Requests \ {r} : UNCHANGED <<pc[q], sent[q], chain[q], routedBy[q], attempts[q]>>
    BY <1>1, <1>2 DEF Goes, RoutingType
  <2>2. pc'[r] = "done" BY <1>2 DEF Goes, RoutingType
  <2>3. Walking(r)' BY <1>1, <1>2, <2>2 DEF Walking, GivenUpLate
  <2>. QED BY <1>1, <2>1, <2>3, WalkingStays DEF WalkInv
<1>3. CASE /\ Goes(r, "loading", "calling")
           /\ attempts' = [attempts EXCEPT ![r] = <<Attempt(Head(chain[r]))>>]
  <2>1. \A q \in Requests \ {r} : UNCHANGED <<pc[q], sent[q], chain[q], routedBy[q], attempts[q]>>
    BY <1>1, <1>3 DEF Goes, RoutingType
  <2>2. /\ pc'[r] = "calling" /\ attempts'[r] = <<Attempt(Head(chain[r]))>>
    BY <1>3 DEF Goes, RoutingType
  <2>3. Len(chain[r]) >= 1 /\ Len(chain[r]) \in Nat /\ Head(chain[r]) = chain[r][1]
        /\ chain[r][1] \in Models(routedBy[r])
    BY <1>1, WalkIs DEF IsChain
  <2>4. Attempt(chain[r][1]) \in Tries(r)
    BY <2>3 DEF Attempt, Tries, Outcomes
  <2>5. /\ attempts'[r] \in Seq(Tries(r)) /\ Len(attempts'[r]) = 1
        /\ DOMAIN attempts'[r] = 1..1 /\ attempts'[r][1].spec = chain[r][1]
    BY <2>2, <2>3, <2>4 DEF Attempt
  <2>6. Tries(r)' = Tries(r) BY <1>1 DEF Tries
  <2>7. Walking(r)' BY <1>1, <2>2, <2>3, <2>5, <2>6 DEF Walking, GivenUpLate
  <2>. QED BY <1>1, <2>1, <2>7, WalkingStays DEF WalkInv
<1>. QED BY <1>2, <1>3 DEF LoadSession

\* A request that is calling has made an attempt, and ends it.
LEMMA CallEnds ==
  ASSUME WalkInv, NEW r \in Requests, pc[r] = "calling", NEW e \in Ends \cup {"answered"}
  PROVE  LET n == Len(attempts[r])
             t == EndedBy(attempts[r], e)
         IN  /\ Routed(r) /\ n \in Nat /\ n >= 1 /\ Len(chain[r]) \in Nat /\ n <= Len(chain[r])
             /\ t \in Seq(Tries(r)) /\ t # <<>> /\ Len(t) = n /\ DOMAIN t = 1..n
             /\ \A i \in 1..n : t[i].spec = chain[r][i] /\ (i < n => t[i].end = "transient")
             /\ Last(t).end = e
<1>. DEFINE n == Len(attempts[r])
            t == EndedBy(attempts[r], e)
<1>1. /\ Routed(r) /\ attempts[r] \in Seq(Tries(r)) /\ attempts[r] # <<>> /\ n <= Len(chain[r])
      /\ \A i \in DOMAIN attempts[r] :
           attempts[r][i].spec = chain[r][i] /\ (i < n => attempts[r][i].end = "transient")
  BY DEF WalkInv, Walking
<1>2. Len(chain[r]) \in Nat BY <1>1, WalkIs
<1>3. DOMAIN attempts[r] = 1..n BY <1>1
<1>4. e \in Outcomes BY DEF Outcomes
<1>5. /\ t \in Seq(Tries(r)) /\ t # <<>> /\ Len(t) = n /\ DOMAIN t = 1..n
      /\ n \in Nat /\ n >= 1
      /\ \A i \in 1..n : t[i].spec = attempts[r][i].spec /\ (i # n => t[i].end = attempts[r][i].end)
      /\ t[n].end = e
  <2>1. attempts[r] \in Seq([spec : Models(routedBy[r]), end : Outcomes]) BY <1>1 DEF Tries
  <2>2. /\ t \in Seq([spec : Models(routedBy[r]), end : Outcomes]) /\ t # <<>>
        /\ Len(t) = n /\ DOMAIN t = 1..n
        /\ n \in Nat /\ n >= 1
        /\ \A i \in 1..n : t[i].spec = attempts[r][i].spec /\ (i # n => t[i].end = attempts[r][i].end)
        /\ t[n].end = e
    <3>1. EndsAs(Models(routedBy[r]), attempts[r], t, e)
      <4>. HIDE DEF n
      <4>1. attempts[r] # <<>> BY <1>1
      <4>. QED BY <2>1, <4>1, <1>4, Ended
    <3>. QED BY <3>1 DEF EndsAs
  <2>. QED BY <2>2 DEF Tries
<1>. HIDE DEF t, n
<1>6. \A i \in 1..n : i < n => i # n BY <1>5
<1>7. \A i \in 1..n : t[i].spec = chain[r][i] /\ (i < n => t[i].end = "transient")
  BY <1>1, <1>3, <1>5, <1>6
<1>8. Last(t).end = e BY <1>5 DEF Last
<1>. QED BY <1>1, <1>2, <1>5, <1>7, <1>8 DEF t, n

\* What a failed attempt leaves.
LEMMA AttemptFailsWalks ==
  ASSUME RoutingType, Stages, WalkInv, NEW r \in Requests, NEW end \in Ends, pc[r] = "calling",
         AttemptFails(r, end)
  PROVE  WalkInv'
<1>. DEFINE n == Len(attempts[r])
            t == EndedBy(attempts[r], end)
<1>1. /\ Routed(r) /\ n \in Nat /\ n >= 1 /\ Len(chain[r]) \in Nat /\ n <= Len(chain[r])
      /\ t \in Seq(Tries(r)) /\ t # <<>> /\ Len(t) = n /\ DOMAIN t = 1..n
      /\ \A i \in 1..n : t[i].spec = chain[r][i] /\ (i < n => t[i].end = "transient")
      /\ Last(t).end = end
  BY CallEnds
<1>2. UNCHANGED <<registry, routedBy, sent, chain>> BY DEF AttemptFails
<1>3. Routed(r)' /\ Walk(r)' = chain[r] /\ Tries(r)' = Tries(r)
  BY <1>1, <1>2 DEF Routed, Walk, Tries
<1>4. NextSpec(r) = chain[r][n + 1] BY DEF NextSpec
<1>5. FailsOver(r, end) = (end = "transient" /\ n < Len(chain[r]) /\ ~sent[r].stream)
  BY DEF FailsOver
<1>6. /\ \/ /\ FailsOver(r, end) /\ Goes(r, "calling", "calling")
            /\ attempts' = [attempts EXCEPT ![r] = Append(t, Attempt(NextSpec(r)))]
         \/ /\ FailsOver(r, end) => Overflows(r, NextSpec(r))
            /\ Goes(r, "calling", "done")
            /\ attempts' = [attempts EXCEPT ![r] = t]
  BY DEF AttemptFails, EndedBy
<1>. HIDE DEF n, t
<1>7. \A q \in Requests \ {r} : UNCHANGED <<pc[q], sent[q], chain[q], routedBy[q], attempts[q]>>
  BY <1>2, <1>6 DEF Goes, RoutingType
<1>8. CASE /\ FailsOver(r, end) /\ Goes(r, "calling", "calling")
           /\ attempts' = [attempts EXCEPT ![r] = Append(t, Attempt(NextSpec(r)))]
  <2>. DEFINE u == Append(t, Attempt(NextSpec(r)))
  <2>1. pc'[r] = "calling" /\ attempts'[r] = u
    BY <1>8 DEF Goes, RoutingType
  <2>2. end = "transient" /\ n < Len(chain[r]) BY <1>5, <1>8
  <2>3. n + 1 \in 1..Len(chain[r])
    <3>1. n \in Nat /\ Len(chain[r]) \in Nat BY <1>1
    <3>. QED BY <2>2, <3>1
  <2>4. NextSpec(r) \in Models(routedBy[r]) BY <1>1, <1>4, <2>3, WalkIs
  <2>5. Attempt(NextSpec(r)) \in Tries(r) /\ Attempt(NextSpec(r)).spec = NextSpec(r)
    BY <2>4 DEF Attempt, Tries, Outcomes
  <2>6. t \in Seq(Tries(r)) /\ Len(t) = n BY <1>1
  <2>7. /\ u \in Seq(Tries(r)) /\ u # <<>> /\ Len(u) = n + 1 /\ DOMAIN u = 1..(n + 1)
        /\ \A i \in 1..n : u[i] = t[i]
        /\ u[n + 1] = Attempt(NextSpec(r))
    BY <2>5, <2>6, Followed
  <2>. HIDE DEF u
  <2>8. ASSUME NEW i \in 1..(n + 1)
        PROVE  u[i].spec = chain[r][i] /\ (i < n + 1 => u[i].end = "transient")
    <3>1. n \in Nat /\ n >= 1 BY <1>1
    <3>2. CASE i = n + 1
      <4>1. ~(i < n + 1) BY <3>1, <3>2
      <4>. QED BY <1>4, <2>5, <2>7, <3>2, <4>1
    <3>3. CASE i \in 1..n
      <4>1. u[i] = t[i] /\ t[i].spec = chain[r][i] /\ (i < n => t[i].end = "transient")
        BY <1>1, <2>7, <3>3
      <4>2. i = n => t[i].end = "transient" BY <1>1, <2>2 DEF Last
      <4>3. i < n \/ i = n BY <3>1, <3>3
      <4>. QED BY <4>1, <4>2, <4>3
    <3>. QED BY <3>1, <3>2, <3>3
  <2>9. n + 1 <= Len(chain[r]) BY <2>3
  <2>10. Walking(r)' BY <1>2, <1>3, <2>1, <2>7, <2>8, <2>9 DEF Walking, GivenUpLate
  <2>. QED BY <1>2, <1>7, <2>10, WalkingStays DEF WalkInv
<1>9. CASE /\ FailsOver(r, end) => Overflows(r, NextSpec(r))
           /\ Goes(r, "calling", "done")
           /\ attempts' = [attempts EXCEPT ![r] = t]
  <2>1. pc'[r] = "done" /\ attempts'[r] = t BY <1>9 DEF Goes, RoutingType
  <2>2. \/ end # "transient" \/ n = Len(chain[r]) \/ sent[r].stream
        \/ Overflows(r, chain[r][n + 1])
    <3>1. n = Len(chain[r]) \/ n < Len(chain[r]) BY <1>1
    <3>. QED BY <1>4, <1>5, <1>9, <3>1
  <2>3. GivenUpLate(r)'
    <3>1. \/ Last(t).end # "transient" \/ Len(t) = Len(chain[r]) \/ sent'[r].stream
          \/ sent'[r].size >= chain[r][Len(t) + 1].window
      BY <1>1, <1>2, <2>2 DEF Overflows
    <3>. QED BY <1>3, <2>1, <3>1 DEF GivenUpLate, Overflows
  <2>4. Walking(r)' BY <1>1, <1>2, <1>3, <2>1, <2>3 DEF Walking
  <2>. QED BY <1>2, <1>7, <2>4, WalkingStays DEF WalkInv
<1>. QED BY <1>6, <1>8, <1>9

\* An answer ends the walk.
LEMMA AttemptAnswersWalks ==
  ASSUME RoutingType, Stages, WalkInv, NEW r \in Requests, NEW answer, pc[r] = "calling",
         AttemptAnswers(r, answer)
  PROVE  WalkInv'
<1>. DEFINE n == Len(attempts[r])
            t == EndedBy(attempts[r], "answered")
<1>1. /\ Routed(r) /\ n \in Nat /\ n >= 1 /\ Len(chain[r]) \in Nat /\ n <= Len(chain[r])
      /\ t \in Seq(Tries(r)) /\ t # <<>> /\ Len(t) = n /\ DOMAIN t = 1..n
      /\ \A i \in 1..n : t[i].spec = chain[r][i] /\ (i < n => t[i].end = "transient")
      /\ Last(t).end = "answered"
  BY CallEnds
<1>2. UNCHANGED <<registry, routedBy, sent, chain>> BY DEF AttemptAnswers
<1>3. Routed(r)' /\ Walk(r)' = chain[r] /\ Tries(r)' = Tries(r)
  BY <1>1, <1>2 DEF Routed, Walk, Tries
<1>4. attempts'[r] = t /\ \A q \in Requests \ {r} : attempts'[q] = attempts[q]
  BY DEF AttemptAnswers, RoutingType, EndedBy
<1>5. pc'[r] \in {"saving", "done"} /\ \A q \in Requests \ {r} : pc'[q] = pc[q]
  BY DEF AttemptAnswers, Goes, RoutingType
<1>. HIDE DEF n, t
<1>6. Walking(r)' BY <1>1, <1>2, <1>3, <1>4, <1>5 DEF Walking, GivenUpLate
<1>7. \A q \in Requests \ {r} : UNCHANGED <<pc[q], sent[q], chain[q], routedBy[q], attempts[q]>>
  BY <1>2, <1>4, <1>5
<1>. QED BY <1>2, <1>6, <1>7, WalkingStays DEF WalkInv

\* Every step keeps the walks.
LEMMA WalkStays == RoutingType /\ Stages /\ WalkInv /\ [Next]_vars => WalkInv'
<1>. SUFFICES ASSUME RoutingType, Stages, WalkInv, [Next]_vars PROVE WalkInv' OBVIOUS
<1>1. CASE Reload
  <2>1. registry' \in Registries BY <1>1 DEF Reload, NoFile, Registries, WalkInv
  <2>2. UNCHANGED <<pc, sent, chain, routedBy, attempts>> BY <1>1 DEF Reload
  <2>. QED BY <2>1, <2>2, WalkingStays DEF WalkInv
<1>2. CASE UNCHANGED vars
  BY <1>2, WalkingStays DEF WalkInv, vars
<1>3. ASSUME NEW r \in Requests, pc[r] = "saving", Save(r) PROVE WalkInv'
  <2>1. /\ UNCHANGED <<registry, routedBy, sent, chain, attempts>> /\ pc'[r] = "done"
        /\ \A q \in Requests \ {r} : pc'[q] = pc[q]
    BY <1>3 DEF Save, Goes, RoutingType
  <2>2. Walking(r)'
    BY <1>3, <2>1 DEF WalkInv, Walking, Routed, Walk, Tries, GivenUpLate
  <2>. QED BY <2>1, <2>2, WalkingStays DEF WalkInv
<1>4. ASSUME NEW r \in Requests, RequestStep(r) PROVE WalkInv'
  BY <1>3, <1>4, ArriveWalks, LoadSessionWalks, AttemptFailsWalks, AttemptAnswersWalks
  DEF RequestStep
<1>. QED BY <1>1, <1>2, <1>4 DEF Next, Quiet

\* Whatever is reloaded meanwhile, the attempts of a request go down the chain of
\* the registry it was routed by, past models that failed in a way that allows it,
\* to its end (resolve_chain, and the loop over spec_chain in routes/messages.py).
THEOREM WalksFollowChain == Spec => []WalkFollowsChain
<1>1. Spec => []IInv
  BY InitInv, StepInv, PTL DEF Spec
<1>2. Spec => []WalkInv
  <2>1. IInv /\ WalkInv /\ [Next]_vars => WalkInv' BY WalkStays DEF IInv
  <2>. QED BY <1>1, <2>1, WalkStarts, PTL DEF Spec
<1>3. WalkInv => WalkFollowsChain BY WalkingFollows DEF WalkInv, WalkFollowsChain
<1>. QED BY <1>2, <1>3, PTL
=============================================================================
