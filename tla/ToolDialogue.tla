----------------------------- MODULE ToolDialogue -----------------------------
(***************************************************************************)
(* A conversation with tools, request after request: translate_request     *)
(* turns the client's history into the messages of the upstream,           *)
(* translate_response (or the pipeline, when streaming) gives the tool     *)
(* calls of the answer ids and names of the client's side, the client      *)
(* answers them, and the ToolIdMap is kept in the session if there is one. *)
(*                                                                         *)
(*   client -> messages -> tools -> fitting -> upstream -> response        *)
(*      ^                                                     |            *)
(*      +---------------------- reading <---------------------+            *)
(*                                                                         *)
(* The loops of the code are steps here, one per iteration, in its order;  *)
(* cursor is the loop variable.  Every message costs MessageTokens and     *)
(* every tool schema ToolTokens in the estimate.                           *)
(***************************************************************************)
EXTENDS Naturals, Sequences, FiniteSets

CONSTANTS
  Names,          \* names of tools
  Sanitized,      \* sanitize_tool_name, as a function
  Internal,       \* names is_declared() lets pass whatever was declared
  Declarations,   \* what the client may declare: sequences of names
  AnthropicIds,   \* toolu_... ids
  UpstreamIds,    \* tool_calls[].id of the upstream
  Asked,          \* max_tokens of the client (validation fills in an absent one)
  MaxContext, MaxOutput,       \* of the model
  MinOutput, Headroom,         \* _MIN_OUTPUT, _CONTEXT_HEADROOM
  KeptTools,                   \* the 5 of _truncate_messages_to_fit
  MessageTokens, ToolTokens,   \* estimates
  ExitToolTokens, \* what the transformers of the model add to a request with tools
  MaxSystem,      \* bound: system messages (prompt and reasoning toggle)
  MaxCalls,       \* bound: tool calls of one answer
  MaxTurns,       \* bound: answers of the upstream
  None

ASSUME DialogueAssumption ==
  /\ Sanitized \in [Names -> Names] /\ Internal \subseteq Names
  /\ Declarations \subseteq Seq(Names)
  /\ AnthropicIds \cap UpstreamIds = {} /\ None \notin AnthropicIds \cup UpstreamIds
  /\ Asked \subseteq Nat /\ {MaxContext, MaxOutput, MinOutput, Headroom} \subseteq Nat
  /\ {KeptTools, MessageTokens, ToolTokens, ExitToolTokens, MaxSystem, MaxCalls, MaxTurns} \subseteq Nat

Ids == AnthropicIds \cup UpstreamIds

VARIABLES
  session, systems,   \* of the conversation: has it a session; leading system messages
  history,    \* the client's messages
  store,      \* the ToolIdMap in the session
  phase, cursor,
  declared, asked, stream,   \* tools, max_tokens and stream of the request
  map,        \* the ToolIdMap of this request
  callOrder,  \* its _call_order
  messages, tools, simplified,       \* the payload
  maxTokens,
  calls,      \* tool_calls of the upstream
  reply       \* the tool_use blocks made of them

VARIABLES \* history: read by properties only
  full,       \* messages before they were made to fit
  made,       \* Anthropic ids made up so far
  seen,       \* upstream ids that the map has met
  reused,     \* has one of them come back?
  names       \* names declared while the map lived

conversation == <<session, systems>>
request == <<declared, asked, stream>>
work == <<request, callOrder, messages, tools, simplified, maxTokens, calls, reply, full>>
ghosts == <<made, seen, reused, names>>
vars == <<conversation, history, store, phase, cursor, map, work, ghosts>>

Elements(s) == {s[i] : i \in DOMAIN s}

Reorderings(s) ==
  {[i \in DOMAIN s |-> s[p[i]]] :
     p \in {q \in [DOMAIN s -> DOMAIN s] : \A i, j \in DOMAIN s : q[i] = q[j] => i = j}}

EmptyToolIdMap ==
  [aToO |-> [a \in AnthropicIds |-> None],
   oToA |-> [o \in Ids |-> None],
   originals |-> [n \in Names |-> n]]

UserMessage(results, text) == [role |-> "user", calls |-> <<>>, results |-> results, text |-> text]
AssistantMessage(uses) == [role |-> "assistant", calls |-> uses, results |-> <<>>, text |-> TRUE]

\* Messages of the upstream's side.
Plain(role) == [role |-> role, calls |-> <<>>, id |-> None]
Assistant(uses) == [role |-> "assistant", calls |-> uses, id |-> None]
Tool(id) == [role |-> "tool", calls |-> <<>>, id |-> id]

Idle ==
  /\ declared' = <<>> /\ asked' = 0 /\ stream' = FALSE /\ callOrder' = <<>>
  /\ messages' = <<>> /\ tools' = <<>> /\ simplified' = FALSE /\ maxTokens' = 0
  /\ calls' = <<>> /\ reply' = <<>> /\ full' = <<>>
  /\ map' = EmptyToolIdMap /\ cursor' = 1

Init ==
  /\ session \in BOOLEAN /\ systems \in 0..MaxSystem
  /\ history = <<UserMessage(<<>>, TRUE)>>
  /\ store = EmptyToolIdMap
  /\ phase = "client" /\ cursor = 1
  /\ declared = <<>> /\ asked = 0 /\ stream = FALSE /\ map = EmptyToolIdMap /\ callOrder = <<>>
  /\ messages = <<>> /\ tools = <<>> /\ simplified = FALSE /\ maxTokens = 0
  /\ calls = <<>> /\ reply = <<>> /\ full = <<>>
  /\ made = {} /\ seen = {} /\ reused = FALSE /\ names = {}

-----------------------------------------------------------------------------
(***************************************************************************)
(* translate_request: the messages.                                        *)
(***************************************************************************)
Ask(declaration, max, streaming) ==
  /\ phase = "client"
  /\ phase' = "messages" /\ cursor' = 1
  /\ declared' = declaration /\ asked' = max /\ stream' = streaming
  /\ map' = IF session THEN store ELSE EmptyToolIdMap
  /\ messages' = [i \in 1..systems |-> Plain("system")]
  /\ callOrder' = <<>>
  /\ seen' = IF session THEN seen ELSE {}
  /\ names' = Elements(declaration) \cup (IF session THEN names ELSE {})
  /\ UNCHANGED <<conversation, history, store, tools, simplified, maxTokens, calls, reply, full,
                 made, reused>>

\* Mutant: an id the map knows already keeps its entry.
RegisterNew(m, ids) ==
  [m EXCEPT !.aToO = [a \in AnthropicIds |-> IF a \in ids /\ @[a] = None THEN a ELSE @[a]],
            !.oToA = [o \in Ids |-> IF o \in ids THEN o ELSE @[o]]]

Registered(m, ids) ==
  [m EXCEPT !.aToO = [a \in AnthropicIds |-> IF a \in ids THEN a ELSE @[a]],
            !.oToA = [o \in Ids |-> IF o \in ids THEN o ELSE @[o]]]

\* _call_order holds an id once; only the first place of an id counts anyway.
IsBefore(a, b) ==
  \E i \in DOMAIN callOrder : callOrder[i] = a /\ \A j \in 1..i : callOrder[j] # b

AnthropicToOpenai(a) == IF map.aToO[a] = None THEN a ELSE map.aToO[a]

\* The results of a message, sorted by the order of their calls.
Sorted(results) ==
  {s \in Reorderings(results) :
     \A i, j \in DOMAIN s : i < j =>
       ~IsBefore(map.oToA[AnthropicToOpenai(s[j])], map.oToA[AnthropicToOpenai(s[i])])}

TranslateAssistant ==
  LET uses == history[cursor].calls
      ids == [i \in DOMAIN uses |-> uses[i].id]
  IN /\ history[cursor].role = "assistant"
     /\ map' = Registered(map, Elements(ids))
     /\ callOrder' = callOrder \o ids
     /\ messages' = Append(messages, Assistant(uses))

TranslateUser ==
  /\ history[cursor].role = "user"
  /\ \E s \in Sorted(history[cursor].results) :
       messages' = messages \o [i \in DOMAIN s |-> Tool(AnthropicToOpenai(s[i]))]
                            \o (IF history[cursor].text THEN <<Plain("user")>> ELSE <<>>)
  /\ UNCHANGED <<map, callOrder>>

TranslateMessage ==
  /\ phase = "messages"
  /\ cursor \in DOMAIN history
  /\ TranslateAssistant \/ TranslateUser
  /\ cursor' = cursor + 1
  /\ UNCHANGED <<conversation, history, store, phase, request, tools, simplified, maxTokens, calls,
                 reply, full, ghosts>>

-----------------------------------------------------------------------------
(***************************************************************************)
(* translate_request: the tools.                                           *)
(***************************************************************************)
MessagesDone ==
  /\ phase = "messages"
  /\ cursor \notin DOMAIN history
  /\ phase' = "tools" /\ cursor' = 1
  /\ UNCHANGED <<conversation, history, store, map, work, ghosts>>

\* seen_sanitized: an earlier declaration has taken the name.
Collides(i) ==
  \E j \in 1..(i - 1) : /\ Sanitized[declared[j]] = Sanitized[declared[i]]
                        /\ declared[j] # declared[i]
                        /\ \A k \in 1..(j - 1) : Sanitized[declared[k]] # Sanitized[declared[j]]

\* Mutant: renames are not remembered.
RenameForgotten(m, name) == m

\* register_tool_rename, before the collision is looked for.
Renamed(m, name) ==
  IF Sanitized[name] = name THEN m ELSE [m EXCEPT !.originals[Sanitized[name]] = name]

MapTool ==
  /\ phase = "tools"
  /\ cursor \in DOMAIN declared
  /\ map' = Renamed(map, declared[cursor])
  /\ tools' = IF Collides(cursor) THEN tools ELSE Append(tools, Sanitized[declared[cursor]])
  /\ cursor' = cursor + 1
  /\ UNCHANGED <<conversation, history, store, phase, request, callOrder, messages, simplified,
                 maxTokens, calls, reply, full, ghosts>>

ToolsDone ==
  /\ phase = "tools"
  /\ cursor \notin DOMAIN declared
  /\ phase' = "fitting"
  /\ full' = messages
  /\ UNCHANGED <<conversation, history, store, cursor, map, request, callOrder, messages, tools,
                 simplified, maxTokens, calls, reply, ghosts>>

-----------------------------------------------------------------------------
(***************************************************************************)
(* translate_request: the estimate, _truncate_messages_to_fit, the clamp.  *)
(***************************************************************************)
Smaller(a, b) == IF a < b THEN a ELSE b
Larger(a, b) == IF a < b THEN b ELSE a

\* Simplifying adds a short description beside the one it means to shorten:
\* the schema's own is inside "function".
TokensPerTool == IF simplified THEN ToolTokens + 1 ELSE ToolTokens

Estimate == MessageTokens * Len(messages) + TokensPerTool * Len(tools)

\* est_input < max_context - _MIN_OUTPUT
Fits == Estimate + MinOutput < MaxContext

LastMessage == Len(messages) <= systems + 1

\* Mutant: the newest message goes first.
DropNewest == SubSeq(messages, 1, Len(messages) - 1)

WithoutOldest == SubSeq(messages, 1, systems) \o SubSeq(messages, systems + 2, Len(messages))

DropMessage ==
  /\ phase = "fitting" /\ ~Fits /\ ~LastMessage
  /\ messages' = WithoutOldest
  /\ UNCHANGED <<conversation, history, store, phase, cursor, map, request, callOrder, tools,
                 simplified, maxTokens, calls, reply, full, ghosts>>

SimplifyTools ==
  /\ phase = "fitting" /\ ~Fits /\ LastMessage /\ ~simplified
  /\ simplified' = TRUE
  /\ UNCHANGED <<conversation, history, store, phase, cursor, map, request, callOrder, messages, tools,
                 maxTokens, calls, reply, full, ghosts>>

DropTool ==
  /\ phase = "fitting" /\ ~Fits /\ LastMessage /\ simplified
  /\ Len(tools) > KeptTools
  /\ tools' = SubSeq(tools, 1, Len(tools) - 1)
  /\ UNCHANGED <<conversation, history, store, phase, cursor, map, request, callOrder, messages,
                 simplified, maxTokens, calls, reply, full, ghosts>>

\* ContextOverflowError: the client is answered 400.
Overflow ==
  /\ phase = "fitting" /\ ~Fits /\ LastMessage /\ simplified
  /\ Len(tools) <= KeptTools
  /\ phase' = "overflow"
  /\ UNCHANGED <<conversation, history, store, cursor, map, work, ghosts>>

\* max_context - est_input - _CONTEXT_HEADROOM, or _MIN_OUTPUT if that is more
ContextBudget ==
  IF Estimate + Headroom + MinOutput <= MaxContext
    THEN MaxContext - (Estimate + Headroom) ELSE MinOutput

\* Mutant: no budget.
ClampToModel == Larger(MinOutput, Smaller(asked, MaxOutput))

EffectiveMax == Larger(MinOutput, Smaller(Smaller(asked, MaxOutput), ContextBudget))

\* The transformers run after the clamp: ExitTool, where its model has it, adds
\* its schema and a reminder that neither the estimate nor the clamp has seen.
Added == IF tools = <<>> THEN 0 ELSE ExitToolTokens

Send ==
  /\ phase = "fitting" /\ Fits
  /\ maxTokens' = EffectiveMax
  /\ phase' = "upstream"
  /\ UNCHANGED <<conversation, history, store, cursor, map, request, callOrder, messages, tools,
                 simplified, calls, reply, full, ghosts>>

-----------------------------------------------------------------------------
(***************************************************************************)
(* The answer.                                                             *)
(***************************************************************************)
\* The upstream may call what it was not offered; arguments of a stream are not
\* validated.
Respond(n) ==
  /\ phase = "upstream"
  /\ calls' \in [1..n -> [id : UpstreamIds, name : Names, valid : IF stream THEN {TRUE} ELSE BOOLEAN]]
  /\ phase' = "response" /\ cursor' = 1
  /\ UNCHANGED <<conversation, history, store, map, request, callOrder, messages, tools, simplified,
                 maxTokens, reply, full, ghosts>>

\* An error of the upstream: nothing is saved, and the client may try again.
UpstreamFails ==
  /\ phase = "upstream"
  /\ phase' = "client"
  /\ Idle
  /\ UNCHANGED <<conversation, history, store, ghosts>>

\* is_declared looks in the client's own names.
IsDeclared(name) == name \in Internal \/ declared = <<>> \/ name \in Elements(declared)

\* A stream leaves out undeclared tools, a JSON answer those with bad arguments.
Emitted(c) == IF stream THEN IsDeclared(c.name) ELSE c.valid
Translated(c) == stream => IsDeclared(c.name)

\* Mutant: ids too short to be new.
IdsGuessed(o) == IF map.oToA[o] # None THEN {map.oToA[o]} ELSE AnthropicIds

\* openai_to_anthropic
IdsFor(o) == IF map.oToA[o] # None THEN {map.oToA[o]} ELSE AnthropicIds \ made

TranslateCall ==
  LET c == calls[cursor]
  IN /\ Translated(c)
     /\ \E a \in IdsFor(c.id) :
          /\ map' = IF map.oToA[c.id] # None THEN map
                    ELSE [map EXCEPT !.aToO[a] = c.id, !.oToA[c.id] = a]
          /\ reply' = IF Emitted(c) THEN Append(reply, [id |-> a, name |-> map.originals[c.name]])
                                    ELSE reply
          /\ made' = made \cup {a}
     /\ reused' = (reused \/ c.id \in seen)
     /\ seen' = seen \cup {c.id}

SkipCall ==
  /\ ~Translated(calls[cursor])
  /\ UNCHANGED <<map, reply, made, reused, seen>>

NextCall ==
  /\ phase = "response"
  /\ cursor \in DOMAIN calls
  /\ TranslateCall \/ SkipCall
  /\ cursor' = cursor + 1
  /\ UNCHANGED <<conversation, history, store, phase, request, callOrder, messages, tools, simplified,
                 maxTokens, calls, full, names>>

\* The map is saved without its call order, and the client has its answer.
Finish ==
  /\ phase = "response"
  /\ cursor \notin DOMAIN calls
  /\ history' = Append(history, AssistantMessage(reply))
  /\ store' = IF session THEN map ELSE store
  /\ phase' = "reading"
  /\ Idle
  /\ UNCHANGED <<conversation, ghosts>>

\* The client runs the tools and answers them in any order, perhaps with text.
Continue(text) ==
  LET uses == history[Len(history)].calls
      ids == [i \in DOMAIN uses |-> uses[i].id]
  IN /\ phase = "reading"
     /\ Len(history) < 2 * MaxTurns
     /\ uses = <<>> => text
     /\ \E s \in Reorderings(ids) : history' = Append(history, UserMessage(s, text))
     /\ phase' = "client"
     /\ UNCHANGED <<conversation, store, cursor, map, work, ghosts>>

Quiet ==
  /\ phase = "overflow" \/ (phase = "reading" /\ Len(history) >= 2 * MaxTurns)
  /\ UNCHANGED vars

Next ==
  \/ \E d \in Declarations, m \in Asked, s \in BOOLEAN : Ask(d, m, s)
  \/ TranslateMessage \/ MessagesDone
  \/ MapTool \/ ToolsDone
  \/ DropMessage \/ SimplifyTools \/ DropTool \/ Overflow \/ Send
  \/ \E n \in 0..MaxCalls : Respond(n)
  \/ UpstreamFails
  \/ NextCall \/ Finish
  \/ \E text \in BOOLEAN : Continue(text)
  \/ Quiet

Spec == Init /\ [][Next]_vars

-----------------------------------------------------------------------------
(***************************************************************************)
(* Properties                                                              *)
(***************************************************************************)
Use == [id : AnthropicIds, name : Names]
ClientMessage == [role : {"user", "assistant"}, calls : Seq(Use), results : Seq(AnthropicIds), text : BOOLEAN]
UpstreamMessage == [role : {"system", "user", "assistant", "tool"}, calls : Seq(Use), id : Ids \cup {None}]
ToolIdMap == [aToO : [AnthropicIds -> Ids \cup {None}],
              oToA : [Ids -> AnthropicIds \cup {None}],
              originals : [Names -> Names]]

ConversationType ==
  /\ session \in BOOLEAN /\ systems \in 0..MaxSystem
  /\ history \in Seq(ClientMessage) /\ history # <<>> /\ store \in ToolIdMap
RequestType ==
  /\ phase \in {"client", "messages", "tools", "fitting", "overflow", "upstream", "response", "reading"}
  /\ cursor \in Nat \ {0} /\ map \in ToolIdMap /\ callOrder \in Seq(AnthropicIds)
  /\ declared \in Seq(Names) /\ asked \in Nat /\ stream \in BOOLEAN
PayloadType ==
  /\ messages \in Seq(UpstreamMessage) /\ full \in Seq(UpstreamMessage)
  /\ tools \in Seq(Names) /\ simplified \in BOOLEAN /\ maxTokens \in Nat
AnswerType ==
  /\ calls \in Seq([id : UpstreamIds, name : Names, valid : BOOLEAN])
  /\ reply \in Seq(Use)
GhostType ==
  made \subseteq AnthropicIds /\ seen \subseteq UpstreamIds /\ reused \in BOOLEAN /\ names \subseteq Names

\* Every variable has its type; calls and results are those of the two sides.
TypeOK == ConversationType /\ RequestType /\ PayloadType /\ AnswerType /\ GhostType

\* Message i follows, through tool messages only, the assistant message that
\* called its tool, at the place of its call; of its calls in some order if the
\* upstream has used an id twice.
Follows(sent, i) ==
  \E j \in 1..(i - 1) :
    /\ sent[j].role = "assistant"
    /\ \A k \in (j + 1)..i : sent[k].role = "tool"
    /\ \E u \in DOMAIN sent[j].calls : sent[j].calls[u].id = sent[i].id /\ (~reused => u = i - j)

\* The assistant message of message i went with the oldest messages, and
\* nothing but other results is left before it.
Orphaned(i) == Len(messages) < Len(full) /\ \A k \in (systems + 1)..i : messages[k].role = "tool"

\* Every tool message follows the assistant message that called its tool when
\* the history is translated (_anthropic_message_to_openai), and still does
\* when it is sent, but for the orphans at the cut that
\* _truncate_messages_to_fit makes message by message.
ResultsFollowCalls ==
  /\ \A i \in DOMAIN full : full[i].role = "tool" => Follows(full, i)
  /\ phase = "upstream" =>
       \A i \in DOMAIN messages : messages[i].role = "tool" => Follows(messages, i) \/ Orphaned(i)

\* Fitting a request keeps the system messages and the newest others, as many
\* as fit; touches the tools only when one message is left; and fails only
\* when that one and the kept tools do not fit (_truncate_messages_to_fit).
FittingIsMinimal ==
  phase \in {"fitting", "upstream", "overflow"} =>
    LET dropped == Len(full) - Len(messages)
        offered == Cardinality({i \in DOMAIN declared : ~Collides(i)})
    IN /\ messages = SubSeq(full, 1, systems) \o SubSeq(full, systems + dropped + 1, Len(full))
       /\ dropped > 0 =>
            /\ Len(messages) > systems
            /\ MessageTokens * (Len(messages) + 1) + ToolTokens * offered + MinOutput >= MaxContext
       /\ simplified \/ Len(tools) < offered => LastMessage
       /\ Len(tools) < offered =>
            Estimate + (ToolTokens + 1) + MinOutput >= MaxContext /\ Len(tools) >= KeptTools
       /\ phase = "overflow" => Estimate + MinOutput >= MaxContext /\ Len(tools) <= KeptTools

\* What is sent leaves room for the answer it asks for, with what is added
\* after the clamp too if that is within the headroom and the headroom was not
\* given up for _MIN_OUTPUT; and it asks for no more than the client did, or
\* _MIN_OUTPUT (translate_request, the clamp).
AnswerFits ==
  phase \in {"upstream", "response"} =>
    /\ Estimate + maxTokens <= MaxContext
    /\ Added <= Headroom /\ Estimate + Headroom + MinOutput <= MaxContext =>
         Estimate + Added + maxTokens <= MaxContext
    /\ MinOutput <= maxTokens
    /\ maxTokens <= Larger(MinOutput, Smaller(asked, MaxOutput))

\* The tool_use ids a client sees in a conversation are distinct, unless the
\* upstream used an id twice while one ToolIdMap lived (openai_to_anthropic).
Uses == {p \in (DOMAIN history) \X (1..MaxCalls) : p[2] \in DOMAIN history[p[1]].calls}
IdsDistinct ==
  ~reused =>
    /\ \A p, q \in Uses : history[p[1]].calls[p[2]].id = history[q[1]].calls[q[2]].id => p = q
    /\ \A u, v \in DOMAIN reply : reply[u].id = reply[v].id => u = v
    /\ \A p \in Uses : \A u \in DOMAIN reply : history[p[1]].calls[p[2]].id # reply[u].id

\* What the client calls a tool that the upstream saw under its sanitised name.
Meant(name) ==
  IF \E t \in Elements(declared) : Sanitized[t] = name
    THEN CHOOSE t \in Elements(declared) : Sanitized[t] = name ELSE name

Unambiguous == \A s, t \in names : Sanitized[s] = Sanitized[t] => s = t

\* A call of a declared tool with good arguments reaches the client, in its
\* place and under the name the client gave the tool; in a stream, if no name
\* was changed (translate_response, ToolIdMap.original_tool_name).
CallsArrive ==
  phase = "response" /\ Unambiguous
  /\ (\A k \in DOMAIN calls : calls[k].valid /\ \E t \in Elements(declared) : Sanitized[t] = calls[k].name)
  /\ (stream => \A t \in Elements(declared) : Sanitized[t] = t)
  => [k \in DOMAIN reply |-> reply[k].name] = [k \in 1..(cursor - 1) |-> Meant(calls[k].name)]

\* The same of streams, whatever the names: "so tool_use blocks can emit the
\* name Claude Code originally sent" (ToolIdMap.__init__).
StreamedCallsArrive ==
  phase = "response" /\ Unambiguous /\ stream
  /\ (\A k \in DOMAIN calls : \E t \in Elements(declared) : Sanitized[t] = calls[k].name)
  => [k \in DOMAIN reply |-> reply[k].name] = [k \in 1..(cursor - 1) |-> Meant(calls[k].name)]

=============================================================================
