------------------------------- MODULE Routing ------------------------------
(***************************************************************************)
(* Which model answers a request: the registry that models.yaml describes  *)
(* and SIGHUP reloads (config/models.py, app.py), the scenario router      *)
(* (util/router.py), the checks and the failover walk of                   *)
(* routes/messages.py, and the transformer chain that is built for a model *)
(* but kept for a session (services/session_service.py).                   *)
(*                                                                         *)
(* The signal handler runs between any two steps of a request; a request   *)
(* reads the registry once, and keeps the specs it found there.  It is     *)
(* suspended where it loads its session, calls the upstream and saves its  *)
(* session.  Of the transformers only ExitTool matters here: it adds a     *)
(* tool the client does not know, through which a model may give its       *)
(* final answer, and takes that call out of a response again.              *)
(***************************************************************************)
EXTENDS Integers, Sequences, FiniteSets, SequencesExt

CONSTANTS
  Requests,   \* the requests, each sent once
  Sessions,   \* sessions a request may belong to
  Aliases,    \* names a model may have in models.yaml
  Names,      \* names a client may ask for
  Stripped,   \* the name without its date or version, for each name
  PrefixesOf, \* what a name starts with, the longest first
  Files,      \* contents of models.yaml
  Bundled,    \* the models.yaml of the package
  Offered,    \* what a request may be
  MaxReloads, \* bound: SIGHUPs
  None

Scenarios == <<"long_context", "vision", "web_search", "think", "background">>

\* An entry of models.yaml; window is max_context.
EntryType ==
  [tools : BOOLEAN, vision : BOOLEAN, exit : BOOLEAN, window : Nat,
   failover : Seq(Aliases)]

\* first is the entry written first, big the default; router has the model of
\* each scenario.
IsFile(f) ==
  /\ DOMAIN f.entries \subseteq Aliases
  /\ \A a \in DOMAIN f.entries : f.entries[a] \in EntryType
  /\ f.first \in DOMAIN f.entries \/ (f.first = None /\ DOMAIN f.entries = {})
  /\ f.big \in Aliases
  /\ f.prefixes \in [DOMAIN f.prefixes -> Aliases]
  /\ f.router \in [ToSet(Scenarios) -> Names \cup {None}]

\* The scenarios a request fits, whether it has tools, its size in tokens.
RequestType ==
  [name : Names, traits : SUBSET ToSet(Scenarios), tools : BOOLEAN, size : Nat,
   stream : BOOLEAN, session : Sessions \cup {None}, accepted : BOOLEAN]

ASSUME RoutingAssumption ==
  /\ Aliases \subseteq Names
  /\ Stripped \in [Names -> Names]
  /\ PrefixesOf \in [Names -> Seq(Names)]
  /\ \A f \in Files \cup {Bundled} : IsFile(f)
  /\ Bundled.first # None
  /\ \A body \in Offered : body \in RequestType
  /\ MaxReloads \in Nat
  /\ None \notin Names /\ None \notin Sessions /\ None \notin Offered

VARIABLES
  registry,     \* app.state.model_registry
  reloads,
  settings,     \* the transformers saved for each session
  pc,           \* where each request is
  sent,         \* what each request is
  chain,        \* spec_chain
  transformers, \* transformer_chain
  \* history: the registry a request was routed by, the spec and the end of each
  \* attempt, what the upstream answered and what the client got
  routedBy, attempts, given, delivered

sessionVars == <<settings, transformers>>
resultVars == <<given, delivered>>
vars == <<registry, reloads, settings, pc, sent, chain, transformers, routedBy,
          attempts, given, delivered>>
-----------------------------------------------------------------------------
(***************************************************************************)
(* load_model_registry: supports_tools goes to spec.tools.supports, and    *)
(* spec.supports_tools keeps its default.                                  *)
(***************************************************************************)
SpecOf(alias, entry) ==
  [alias |-> alias, supportsTools |-> TRUE, tools |-> entry.tools,
   vision |-> entry.vision, exit |-> entry.exit, window |-> entry.window,
   failover |-> entry.failover]

Loaded(file) ==
  [specs |-> [a \in DOMAIN file.entries |-> SpecOf(a, file.entries[a])],
   first |-> file.first, big |-> file.big, prefixes |-> file.prefixes,
   router |-> file.router]

NoFile == Loaded(Bundled)

\* The first of the names that is one of a set.
FirstOf(names, set) ==
  names[CHOOSE i \in DOMAIN names : names[i] \in set /\ \A j \in 1..(i - 1) : names[j] \notin set]

(***************************************************************************)
(* resolve: the name itself, the name without its version, the longest     *)
(* prefix, the default, and any model at all.                              *)
(***************************************************************************)
Resolve(reg, name) ==
  LET prefixes == DOMAIN reg.prefixes
      byPrefix == IF ToSet(PrefixesOf[name]) \cap prefixes = {} THEN <<>>
                  ELSE <<reg.prefixes[FirstOf(PrefixesOf[name], prefixes)]>>
  IN  reg.specs[FirstOf(<<name, Stripped[name]>> \o byPrefix \o <<reg.big, reg.first>>,
                        DOMAIN reg.specs)]

\* A known model that the chain does not have yet joins it.
Extended(reg, c, a) ==
  IF a \in DOMAIN reg.specs /\ \A i \in DOMAIN c : c[i].alias # a
  THEN Append(c, reg.specs[a]) ELSE c

\* The model, and the ones to fail over to: known, and none of them twice.
ResolveChain(reg, name) ==
  LET primary == Resolve(reg, name)
      first[n \in 0..Len(primary.failover)] ==
        IF n = 0 THEN <<primary>> ELSE Extended(reg, first[n - 1], primary.failover[n])
  IN  first[Len(primary.failover)]

\* get_use_model: the first scenario that fits and has a model.
UseModel(body, reg) ==
  LET fitting == {s \in body.traits : reg.router[s] # None}
  IN  IF fitting = {} THEN body.name ELSE reg.router[FirstOf(Scenarios, fitting)]

\* _build_transformer_chain
BuildChain(spec) ==
  {"CharFixer", "WebSearch"}
    \cup (IF spec.supportsTools THEN {"JSONRepair"} ELSE {})
    \cup (IF spec.supportsTools /\ spec.exit THEN {"ExitTool"} ELSE {})

NotSaved == {}

Init ==
  /\ \E file \in Files \cup {Bundled} : registry = Loaded(file)
  /\ reloads = 0
  /\ settings = [s \in Sessions |-> NotSaved]
  /\ pc = [r \in Requests |-> "new"]
  /\ sent = [r \in Requests |-> None]
  /\ chain = [r \in Requests |-> <<>>]
  /\ transformers = [r \in Requests |-> NotSaved]
  /\ routedBy = [r \in Requests |-> None]
  /\ attempts = [r \in Requests |-> <<>>]
  /\ given = [r \in Requests |-> <<>>]
  /\ delivered = [r \in Requests |-> {}]

\* SIGHUP: the file can be read, there is none, or it is not well formed.
Reload ==
  /\ reloads < MaxReloads
  /\ reloads' = reloads + 1
  /\ \/ \E file \in Files : registry' = Loaded(file)
     \/ registry' = NoFile
     \/ UNCHANGED registry
  /\ UNCHANGED <<sessionVars, pc, sent, chain, routedBy, attempts, resultVars>>
-----------------------------------------------------------------------------
Goes(r, from, to) == pc[r] = from /\ pc' = [pc EXCEPT ![r] = to]

\* The routed model lacks what the request needs.
Lacks(body) ==
  LET spec == Resolve(registry, UseModel(body, registry))
  IN  \/ body.tools /\ ~spec.supportsTools
      \/ "vision" \in body.traits /\ ~spec.vision

\* The version, the betas or the schema are refused; in an empty registry nothing
\* can be resolved.
Refused(body) ==
  ~body.accepted \/ DOMAIN registry.specs = {} \/ (DOMAIN registry.specs # {} /\ Lacks(body))

Arrive(r, body) ==
  /\ sent' = [sent EXCEPT ![r] = body]
  /\ \/ /\ Refused(body)
        /\ Goes(r, "new", "done")
        /\ UNCHANGED <<chain, routedBy>>
     \/ /\ ~Refused(body)
        /\ Goes(r, "new", "loading")
        /\ chain' = [chain EXCEPT ![r] = ResolveChain(registry, UseModel(body, registry))]
        /\ routedBy' = [routedBy EXCEPT ![r] = registry]
  /\ UNCHANGED <<registry, reloads, sessionVars, attempts, resultVars>>

Saved(r) == IF sent[r].session = None THEN NotSaved ELSE settings[sent[r].session]

\* translate_request raises ContextOverflowError.
Overflows(r, spec) == sent[r].size >= spec.window

Attempt(spec) == [spec |-> spec, end |-> "none"]

\* get_isolated_transformer_chain, and the payload of the first attempt.
LoadSession(r) ==
  LET spec == Head(chain[r]) IN
  /\ transformers' = [transformers EXCEPT ![r] =
                        IF Saved(r) = NotSaved THEN BuildChain(spec) ELSE Saved(r)]
  /\ \/ /\ Overflows(r, spec)
        /\ Goes(r, "loading", "done")
        /\ UNCHANGED attempts
     \/ /\ ~Overflows(r, spec)
        /\ Goes(r, "loading", "calling")
        /\ attempts' = [attempts EXCEPT ![r] = <<Attempt(spec)>>]
  /\ UNCHANGED <<registry, reloads, settings, sent, chain, routedBy, resultVars>>

\* Only the first payload goes through the transformers; ExitTool joins tools.
ExitOffered(r) ==
  Len(attempts[r]) = 1 /\ sent[r].tools /\ "ExitTool" \in transformers[r]

\* Mutant: another attempt looks its model up in the registry of the moment.
NextSpecOfNow(r) ==
  LET spec == chain[r][Len(attempts[r]) + 1]
  IN  IF spec.alias \in DOMAIN registry.specs THEN registry.specs[spec.alias] ELSE spec

NextSpec(r) == chain[r][Len(attempts[r]) + 1]

\* A 5xx, a 429 or an exception; another 4xx; the circuit breaker is open.
Ends == {"transient", "refused", "open"}

\* What makes the walk go on, where there is somewhere to go; a stream ends with
\* its first failed attempt (MessageStream has the reasons).
FailsOver(r, end) ==
  /\ end = "transient"
  /\ Len(attempts[r]) < Len(chain[r])
  /\ ~sent[r].stream

\* The answer of translate_request to another model is not guarded: when the
\* request is too large for it the walk is over.
AttemptFails(r, end) ==
  LET ended == [attempts[r] EXCEPT ![Len(attempts[r])].end = end] IN
  /\ \/ /\ FailsOver(r, end) /\ ~Overflows(r, NextSpec(r))
        /\ Goes(r, "calling", "calling")
        /\ attempts' = [attempts EXCEPT ![r] = Append(ended, Attempt(NextSpec(r)))]
     \/ /\ FailsOver(r, end) => Overflows(r, NextSpec(r))
        /\ Goes(r, "calling", "done")
        /\ attempts' = [attempts EXCEPT ![r] = ended]
  /\ UNCHANGED <<registry, reloads, sessionVars, sent, chain, routedBy, resultVars>>

\* A model calls the tools it was offered, or just talks.
Answers(r) ==
  {<<"text">>}
    \cup (IF sent[r].tools THEN {<<"call">>, <<"call", "call">>} ELSE {})
    \cup (IF ExitOffered(r) THEN {<<"exit">>, <<"exit", "call">>, <<"call", "exit">>} ELSE {})

\* Mutant: the response goes through the transformers of the model.
DeliveredByModel(r, answer) ==
  IF "ExitTool" \in BuildChain(Head(chain[r])) /\ Head(answer) = "exit"
  THEN {"exit answer"} ELSE ToSet(answer)

\* The kinds of content the client gets: ExitTool.transform_response takes a call
\* that comes first; the pipeline of a stream has no transformers, and leaves out
\* calls of tools the client did not declare.
Delivered(r, answer) ==
  IF sent[r].stream THEN ToSet(answer) \ {"exit"}
  ELSE IF "ExitTool" \in transformers[r] /\ Head(answer) = "exit" THEN {"exit answer"}
  ELSE ToSet(answer)

AttemptAnswers(r, answer) ==
  /\ Goes(r, "calling", IF sent[r].session = None THEN "done" ELSE "saving")
  /\ attempts' = [attempts EXCEPT ![r][Len(attempts[r])].end = "answered"]
  /\ given' = [given EXCEPT ![r] = answer]
  /\ delivered' = [delivered EXCEPT ![r] = Delivered(r, answer)]
  /\ UNCHANGED <<registry, reloads, sessionVars, sent, chain, routedBy>>

\* save_session_state
Save(r) ==
  /\ Goes(r, "saving", "done")
  /\ settings' = [settings EXCEPT ![sent[r].session] = transformers[r]]
  /\ UNCHANGED <<registry, reloads, sent, chain, transformers, routedBy, attempts, resultVars>>

Quiet == (\A r \in Requests : pc[r] = "done") /\ UNCHANGED vars

RequestStep(r) ==
  \/ \E body \in Offered : Arrive(r, body)
  \/ pc[r] = "loading" /\ LoadSession(r)
  \/ pc[r] = "calling" /\ \E end \in Ends : AttemptFails(r, end)
  \/ pc[r] = "calling" /\ \E answer \in Answers(r) : AttemptAnswers(r, answer)
  \/ pc[r] = "saving" /\ Save(r)

Next == Reload \/ Quiet \/ \E r \in Requests : RequestStep(r)

Spec == Init /\ [][Next]_vars
-----------------------------------------------------------------------------
(***************************************************************************)
(* Properties                                                              *)
(***************************************************************************)
Walk(r) == ResolveChain(routedBy[r], UseModel(sent[r], routedBy[r]))

\* Whatever is reloaded while a request waits, its attempts go down the chain of
\* the one registry it was routed by, from the first model on, no model twice,
\* and only past models that failed in a way that allows another attempt.
DownTheChain(r) ==
  LET tried == attempts[r] IN
  /\ tried # <<>> => IsPrefix([i \in DOMAIN tried |-> tried[i].spec], Walk(r))
  /\ \A i, j \in DOMAIN tried : i # j => tried[i].spec.alias # tried[j].spec.alias
  /\ \A i \in 1..(Len(tried) - 1) : tried[i].end = "transient"

\* A request that was not streamed is given up only by the upstream's answer, by
\* an error that no other model would mend, at the end of its chain, or before a
\* model that is too small for it.
GivenUpLate(r) ==
  pc[r] = "done" /\ attempts[r] # <<>> /\ ~sent[r].stream =>
    \/ Last(attempts[r]).end # "transient"
    \/ Len(attempts[r]) = Len(Walk(r))
    \/ Overflows(r, Walk(r)[Len(attempts[r]) + 1])

\* The two together: the failover walk.
WalkFollowsChain == \A r \in Requests : DownTheChain(r) /\ GivenUpLate(r)

\* A model is offered ExitTool only if it is enabled for it, or was for a model
\* that answered an earlier request of the same session.
OfferedInSession(r) ==
  attempts[r] # <<>> /\ "ExitTool" \in transformers[r] =>
    \/ chain[r][1].exit
    \/ \E q \in Requests \ {r} :
         /\ sent[q] # None /\ sent[r].session # None
         /\ sent[q].session = sent[r].session
         /\ given[q] # <<>> /\ chain[q][1].exit

\* ExitTool stays between proxy and model, although a session keeps transformers
\* that were built for another model or another registry: the client is shown a
\* call of it only behind another call, and an answer given through it first is
\* delivered as text unless it was streamed.
ExitToolStaysInside ==
  \A r \in Requests :
    /\ OfferedInSession(r)
    /\ "exit" \in delivered[r] => Head(given[r]) = "call" /\ ~sent[r].stream
    /\ given[r] # <<>> /\ Head(given[r]) = "exit" /\ ~sent[r].stream
         => delivered[r] = {"exit answer"}

\* models.yaml says of a model that it cannot call tools, and the error message
\* that the proxy would refuse such a request.
ToolsNeedSupport ==
  \A r \in Requests :
    attempts[r] # <<>> /\ sent[r].tools => Head(attempts[r]).spec.tools
=============================================================================
