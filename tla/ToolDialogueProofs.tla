-------------------------- MODULE ToolDialogueProofs --------------------------
(***************************************************************************)
(* Proofs about ToolDialogue, for every set of names, every limit and      *)
(* every length of conversation: the type invariant, and then, each from   *)
(* an invariant of its own, that what is sent upstream leaves room for the *)
(* answer, that ids stay distinct, that fitting is minimal, that the calls *)
(* of declared tools arrive, and that results follow their calls.          *)
(***************************************************************************)
EXTENDS ToolDialogue, TLAPS, SequenceTheorems, FiniteSetTheorems, NaturalsInduction,
        WellFoundedInduction

-----------------------------------------------------------------------------
\* A function on 1..n is a sequence.
LEMMA FunctionIsSeq ==
  ASSUME NEW S, NEW n \in Nat, NEW f \in [1..n -> S]
  PROVE  f \in Seq(S) /\ Len(f) = n
  OBVIOUS

\* A sequence of one element.
LEMMA SingletonSeq ==
  ASSUME NEW S, NEW e \in S
  PROVE  <<e>> \in Seq(S) /\ <<e>> # <<>>
  OBVIOUS

\* The elements of a sequence are members of its base set.
LEMMA ElementsType ==
  ASSUME NEW S, NEW s \in Seq(S)
  PROVE  Elements(s) \subseteq S
  BY DEF Elements

\* A reordering of a sequence is a sequence of the same members.
LEMMA ReorderingsType ==
  ASSUME NEW S, NEW s \in Seq(S), NEW r \in Reorderings(s)
  PROVE  r \in Seq(S)
  <1>1. PICK p \in [DOMAIN s -> DOMAIN s] : r = [i \in DOMAIN s |-> s[p[i]]]
    BY DEF Reorderings
  <1>2. DOMAIN s = 1..Len(s) /\ Len(s) \in Nat
    BY LenProperties
  <1>3. r \in [1..Len(s) -> S]
    BY <1>1, <1>2, ElementOfSeq
  <1> QED
    BY <1>2, <1>3, FunctionIsSeq

\* The ids of the calls of a message.
LEMMA CallIdsType ==
  ASSUME NEW uses \in Seq(Use)
  PROVE  [i \in DOMAIN uses |-> uses[i].id] \in Seq(AnthropicIds)
  <1>1. DOMAIN uses = 1..Len(uses) /\ Len(uses) \in Nat
    BY LenProperties
  <1>2. \A i \in 1..Len(uses) : uses[i] \in Use
    BY ElementOfSeq
  <1>3. \A i \in 1..Len(uses) : uses[i].id \in AnthropicIds
    BY <1>2 DEF Use
  <1>4. [i \in 1..Len(uses) |-> uses[i].id] \in [1..Len(uses) -> AnthropicIds]
    BY <1>3
  <1> QED
    BY <1>1, <1>4, FunctionIsSeq

\* A ToolIdMap stays one when ids are registered.
LEMMA RegisteredType ==
  ASSUME NEW m \in ToolIdMap, NEW ids \in SUBSET AnthropicIds
  PROVE  Registered(m, ids) \in ToolIdMap
  BY DEF Registered, ToolIdMap, Ids

\* The empty ToolIdMap is one.
LEMMA EmptyMapType == EmptyToolIdMap \in ToolIdMap
  BY DEF EmptyToolIdMap, ToolIdMap, Ids

\* What the map makes of an id.
LEMMA AnthropicToOpenaiType ==
  ASSUME map \in ToolIdMap, NEW a \in AnthropicIds
  PROVE  AnthropicToOpenai(a) \in Ids
  BY DEF AnthropicToOpenai, ToolIdMap, Ids

-----------------------------------------------------------------------------
\* The initial states are well typed.
LEMMA InitType ==
  ASSUME DialogueAssumption, Init
  PROVE  TypeOK
  <1>1. ConversationType
    <2>1. UserMessage(<<>>, TRUE) \in ClientMessage
      BY DEF UserMessage, ClientMessage
    <2> QED
      BY <2>1, SingletonSeq, EmptyMapType DEF Init, ConversationType
  <1>2. RequestType
    <2>1. callOrder \in Seq(AnthropicIds) /\ declared \in Seq(Names)
      BY EmptySeq DEF Init
    <2>2. map \in ToolIdMap /\ asked \in Nat /\ stream \in BOOLEAN
      BY EmptyMapType DEF Init
    <2> QED
      BY <2>1, <2>2 DEF Init, RequestType
  <1>3. PayloadType /\ AnswerType
    BY EmptySeq DEF Init, PayloadType, AnswerType
  <1>4. GhostType
    BY DEF Init, GhostType
  <1> QED
    BY <1>1, <1>2, <1>3, <1>4 DEF TypeOK

\* So is the state between two requests.
LEMMA IdleType ==
  ASSUME Idle, phase' \in {"client", "reading"}
  PROVE  RequestType' /\ PayloadType' /\ AnswerType'
  <1>1. RequestType'
    <2>1. callOrder' \in Seq(AnthropicIds) /\ declared' \in Seq(Names)
      BY EmptySeq DEF Idle
    <2>2. map' \in ToolIdMap /\ asked' \in Nat /\ stream' \in BOOLEAN
      BY EmptyMapType DEF Idle
    <2> QED
      BY <2>1, <2>2 DEF Idle, RequestType
  <1>2. PayloadType' /\ AnswerType'
    BY EmptySeq DEF Idle, PayloadType, AnswerType
  <1> QED
    BY <1>1, <1>2

-----------------------------------------------------------------------------
\* What a message of the client holds, and what a message of the upstream is.
LEMMA MessageTypes ==
  /\ \A m \in ClientMessage : m.calls \in Seq(Use) /\ m.results \in Seq(AnthropicIds)
  /\ Plain("system") \in UpstreamMessage /\ Plain("user") \in UpstreamMessage
  /\ \A uses \in Seq(Use) : Assistant(uses) \in UpstreamMessage
  /\ \A id \in Ids : Tool(id) \in UpstreamMessage
  /\ \A uses \in Seq(Use) : AssistantMessage(uses) \in ClientMessage
  /\ \A s \in Seq(AnthropicIds), text \in BOOLEAN : UserMessage(s, text) \in ClientMessage
  <1>1. /\ Plain("system") \in UpstreamMessage /\ Plain("user") \in UpstreamMessage
        /\ \A id \in Ids : Tool(id) \in UpstreamMessage
    BY EmptySeq DEF Plain, Tool, UpstreamMessage
  <1>2. \A uses \in Seq(Use) : Assistant(uses) \in UpstreamMessage
    BY DEF Assistant, UpstreamMessage
  <1>3. \A uses \in Seq(Use) : AssistantMessage(uses) \in ClientMessage
    BY EmptySeq DEF AssistantMessage, ClientMessage
  <1>4. \A s \in Seq(AnthropicIds), text \in BOOLEAN : UserMessage(s, text) \in ClientMessage
    BY EmptySeq DEF UserMessage, ClientMessage
  <1>5. \A m \in ClientMessage : m.calls \in Seq(Use) /\ m.results \in Seq(AnthropicIds)
    BY DEF ClientMessage
  <1> QED
    BY <1>1, <1>2, <1>3, <1>4, <1>5

\* A request comes in.
LEMMA AskType ==
  ASSUME DialogueAssumption, TypeOK, NEW d \in Declarations, NEW m \in Asked, NEW s \in BOOLEAN,
         Ask(d, m, s)
  PROVE  TypeOK'
  <1>1. d \in Seq(Names) /\ m \in Nat
    BY DEF DialogueAssumption
  <1>2. ConversationType' /\ AnswerType'
    BY DEF Ask, TypeOK, ConversationType, AnswerType, conversation
  <1>3. RequestType'
    BY <1>1, EmptyMapType, EmptySeq DEF Ask, TypeOK, RequestType, ConversationType
  <1>4. PayloadType'
    <2>1. systems \in Nat
      BY DEF TypeOK, ConversationType, DialogueAssumption
    <2>2. [i \in 1..systems |-> Plain("system")] \in [1..systems -> UpstreamMessage]
      BY MessageTypes
    <2>3. [i \in 1..systems |-> Plain("system")] \in Seq(UpstreamMessage)
      BY <2>1, <2>2, FunctionIsSeq
    <2> QED
      BY <2>3 DEF Ask, TypeOK, PayloadType
  <1>5. GhostType'
    BY <1>1, ElementsType DEF Ask, TypeOK, GhostType
  <1> QED
    BY <1>2, <1>3, <1>4, <1>5 DEF TypeOK

\* A message of the history is translated.
LEMMA TranslateMessageType ==
  ASSUME DialogueAssumption, TypeOK, TranslateMessage
  PROVE  TypeOK'
  <1>1. history[cursor] \in ClientMessage
    <2>1. history \in Seq(ClientMessage) /\ cursor \in DOMAIN history
      BY DEF TranslateMessage, TypeOK, ConversationType
    <2> QED
      BY <2>1, LenProperties, ElementOfSeq
  <1>2. /\ map' \in ToolIdMap /\ callOrder' \in Seq(AnthropicIds)
        /\ messages' \in Seq(UpstreamMessage)
    <2>1. CASE TranslateAssistant
      <3> DEFINE uses == history[cursor].calls
                 ids == [i \in DOMAIN uses |-> uses[i].id]
      <3>1. uses \in Seq(Use)
        BY <1>1, MessageTypes
      <3>2. ids \in Seq(AnthropicIds) /\ Elements(ids) \subseteq AnthropicIds
        BY <3>1, CallIdsType, ElementsType
      <3>3. map' \in ToolIdMap
        BY <2>1, <3>2, RegisteredType DEF TranslateAssistant, TypeOK, RequestType, PayloadType
      <3>4. callOrder' \in Seq(AnthropicIds)
        BY <2>1, <3>2, ConcatProperties DEF TranslateAssistant, TypeOK, RequestType, PayloadType
      <3>5. messages' \in Seq(UpstreamMessage)
        <4>1. messages' = Append(messages, Assistant(uses)) /\ messages \in Seq(UpstreamMessage)
          BY <2>1 DEF TranslateAssistant, TypeOK, RequestType, PayloadType
        <4>2. Assistant(uses) \in UpstreamMessage
          BY <3>1, MessageTypes
        <4> QED
          BY <4>1, <4>2, AppendProperties
      <3> QED
        BY <3>3, <3>4, <3>5
    <2>2. CASE TranslateUser
      <3> DEFINE Results(s) == [i \in DOMAIN s |-> Tool(AnthropicToOpenai(s[i]))]
                 Text == IF history[cursor].text THEN <<Plain("user")>> ELSE <<>>
      <3>1. PICK s \in Sorted(history[cursor].results) : messages' = messages \o Results(s) \o Text
        BY <2>2 DEF TranslateUser
      <3>2. s \in Seq(AnthropicIds)
        BY <1>1, MessageTypes, ReorderingsType DEF Sorted
      <3>3. Results(s) \in Seq(UpstreamMessage)
        <4>1. DOMAIN s = 1..Len(s) /\ Len(s) \in Nat
          BY <3>2, LenProperties
        <4>2. \A i \in 1..Len(s) : Tool(AnthropicToOpenai(s[i])) \in UpstreamMessage
          BY <3>2, ElementOfSeq, AnthropicToOpenaiType, MessageTypes DEF TypeOK, RequestType
        <4> QED
          BY <4>1, <4>2, FunctionIsSeq
      <3>4. Text \in Seq(UpstreamMessage)
        BY MessageTypes, SingletonSeq, EmptySeq
      <3>5. messages' \in Seq(UpstreamMessage)
        <4> HIDE DEF Results, Text
        <4>1. messages \in Seq(UpstreamMessage)
          BY DEF TypeOK, PayloadType
        <4>2. messages \o Results(s) \in Seq(UpstreamMessage)
          BY <4>1, <3>3, ConcatProperties
        <4> QED
          BY <3>1, <3>4, <4>2, ConcatProperties
      <3> QED
        BY <2>2, <3>5 DEF TranslateUser, TypeOK, RequestType
    <2> QED
      BY <2>1, <2>2 DEF TranslateMessage
  <1>3. ConversationType' /\ AnswerType' /\ GhostType'
    BY DEF TranslateMessage, TypeOK, ConversationType, AnswerType, GhostType, conversation, ghosts
  <1>4. RequestType'
    BY <1>2 DEF TranslateMessage, TypeOK, RequestType, request
  <1>5. PayloadType'
    BY <1>2 DEF TranslateMessage, TypeOK, PayloadType
  <1> QED
    BY <1>3, <1>4, <1>5 DEF TypeOK

\* The loops over messages and tools end.
LEMMA LoopsEndType ==
  ASSUME TypeOK, MessagesDone \/ ToolsDone
  PROVE  TypeOK'
  <1>1. ConversationType' /\ AnswerType' /\ GhostType'
    BY DEF MessagesDone, ToolsDone, TypeOK, ConversationType, AnswerType, GhostType,
           conversation, work, ghosts
  <1>2. RequestType'
    BY DEF MessagesDone, ToolsDone, TypeOK, RequestType, work, request
  <1>3. PayloadType'
    BY DEF MessagesDone, ToolsDone, TypeOK, PayloadType, work
  <1> QED
    BY <1>1, <1>2, <1>3 DEF TypeOK

\* A ToolIdMap stays one when a tool is renamed.
LEMMA RenamedType ==
  ASSUME DialogueAssumption, NEW m \in ToolIdMap, NEW name \in Names
  PROVE  Renamed(m, name) \in ToolIdMap /\ Sanitized[name] \in Names
  BY DEF Renamed, ToolIdMap, DialogueAssumption

\* A tool is mapped.
LEMMA MapToolType ==
  ASSUME DialogueAssumption, TypeOK, MapTool
  PROVE  TypeOK'
  <1>1. declared[cursor] \in Names
    BY LenProperties, ElementOfSeq DEF MapTool, TypeOK, RequestType
  <1>2. ConversationType' /\ AnswerType' /\ GhostType'
    BY DEF MapTool, TypeOK, ConversationType, AnswerType, GhostType, conversation, ghosts
  <1>3. RequestType'
    BY <1>1, RenamedType, SMTT(30) DEF MapTool, TypeOK, RequestType, request
  <1>4. PayloadType'
    BY <1>1, RenamedType, AppendProperties DEF MapTool, TypeOK, PayloadType
  <1> QED
    BY <1>2, <1>3, <1>4 DEF TypeOK

\* A shortened sequence is still a sequence.
LEMMA ShortenedType ==
  ASSUME NEW S, NEW s \in Seq(S), NEW n \in Nat, NEW k \in Nat, n < Len(s)
  PROVE  /\ SubSeq(s, 1, n) \in Seq(S) /\ Len(SubSeq(s, 1, n)) = n
         /\ SubSeq(s, n + 1 + k, Len(s)) \in Seq(S)
  <1>1. Len(s) \in Nat
    BY LenProperties
  <1>2. \A i \in 1..n : s[i] \in S
    BY <1>1, ElementOfSeq
  <1>3. \A i \in (n + 1 + k)..Len(s) : s[i] \in S
    BY <1>1, ElementOfSeq
  <1> QED
    BY <1>1, <1>2, <1>3, SubSeqProperties

\* The request is made to fit.
LEMMA FittingType ==
  ASSUME DialogueAssumption, TypeOK, DropMessage \/ SimplifyTools \/ DropTool
  PROVE  TypeOK'
  <1>1. ConversationType' /\ AnswerType' /\ GhostType'
    BY DEF DropMessage, SimplifyTools, DropTool, TypeOK, ConversationType, AnswerType, GhostType,
           conversation, ghosts
  <1>2. RequestType'
    BY DEF DropMessage, SimplifyTools, DropTool, TypeOK, RequestType, request
  <1>3. messages' \in Seq(UpstreamMessage)
    <2>1. CASE DropMessage
      <3>1. messages \in Seq(UpstreamMessage) /\ systems \in Nat /\ systems < Len(messages)
        BY <2>1, LenProperties
        DEF DropMessage, LastMessage, TypeOK, PayloadType, ConversationType, DialogueAssumption
      <3>2. /\ SubSeq(messages, 1, systems) \in Seq(UpstreamMessage)
            /\ SubSeq(messages, systems + 1 + 1, Len(messages)) \in Seq(UpstreamMessage)
        BY <3>1, ShortenedType
      <3>3. systems + 1 + 1 = systems + 2
        BY <3>1
      <3>4. WithoutOldest \in Seq(UpstreamMessage)
        BY <3>2, <3>3, ConcatProperties DEF WithoutOldest
      <3> QED
        BY <2>1, <3>4 DEF DropMessage
    <2> QED
      BY <2>1 DEF SimplifyTools, DropTool, TypeOK, PayloadType
  <1>4. tools' \in Seq(Names)
    <2>1. CASE DropTool
      <3>1. tools \in Seq(Names) /\ Len(tools) - 1 \in Nat /\ Len(tools) - 1 < Len(tools)
        BY <2>1, LenProperties DEF DropTool, TypeOK, PayloadType, DialogueAssumption
      <3> QED
        BY <2>1, <3>1, ShortenedType DEF DropTool
    <2> QED
      BY <2>1 DEF DropMessage, SimplifyTools, TypeOK, PayloadType
  <1>5. full' \in Seq(UpstreamMessage) /\ simplified' \in BOOLEAN /\ maxTokens' \in Nat
    BY DEF DropMessage, SimplifyTools, DropTool, TypeOK, PayloadType
  <1> QED
    BY <1>1, <1>2, <1>3, <1>4, <1>5 DEF TypeOK, PayloadType

\* The estimate is a number.
LEMMA EstimateType ==
  ASSUME DialogueAssumption, PayloadType
  PROVE  Estimate \in Nat
  <1>1. \A a, b \in Nat : a * b \in Nat
    OBVIOUS
  <1>2. MessageTokens \in Nat /\ ToolTokens \in Nat /\ ToolTokens + 1 \in Nat
    BY DEF DialogueAssumption
  <1>3. Len(messages) \in Nat /\ Len(tools) \in Nat
    BY LenProperties DEF PayloadType
  <1>4. TokensPerTool \in Nat
    BY <1>2 DEF TokensPerTool
  <1>5. MessageTokens * Len(messages) \in Nat /\ TokensPerTool * Len(tools) \in Nat
    BY <1>1, <1>2, <1>3, <1>4
  <1> QED
    BY <1>5, SMTT(60) DEF Estimate

\* What the clamp gives: between _MIN_OUTPUT and what was asked for, and
\* within the window if the input leaves it more than _MIN_OUTPUT, less the
\* headroom if it leaves that too.
LEMMA ClampFits ==
  ASSUME DialogueAssumption, PayloadType, asked \in Nat, Fits
  PROVE  /\ EffectiveMax \in Nat
         /\ Estimate + EffectiveMax <= MaxContext
         /\ Estimate + Headroom + MinOutput <= MaxContext =>
              Estimate + Headroom + EffectiveMax <= MaxContext
         /\ MinOutput <= EffectiveMax
         /\ EffectiveMax <= Larger(MinOutput, Smaller(asked, MaxOutput))
  <1> DEFINE e == Estimate
             budget == ContextBudget
  <1>1. e \in Nat
    BY EstimateType
  <1>2. MaxContext \in Nat /\ MaxOutput \in Nat /\ MinOutput \in Nat /\ Headroom \in Nat
    BY DEF DialogueAssumption
  <1>3. e + MinOutput < MaxContext
    BY DEF Fits
  <1>4. /\ budget \in Nat /\ e + budget <= MaxContext /\ MinOutput <= budget
        /\ e + Headroom + MinOutput <= MaxContext => e + Headroom + budget <= MaxContext
    BY <1>1, <1>2, <1>3 DEF ContextBudget
  <1> HIDE DEF e, budget
  <1>5. EffectiveMax = Larger(MinOutput, Smaller(Smaller(asked, MaxOutput), budget))
    BY DEF EffectiveMax, budget
  <1>6. /\ EffectiveMax \in Nat /\ e + EffectiveMax <= MaxContext
        /\ e + Headroom + MinOutput <= MaxContext => e + Headroom + EffectiveMax <= MaxContext
        /\ MinOutput <= EffectiveMax
        /\ EffectiveMax <= Larger(MinOutput, Smaller(asked, MaxOutput))
    BY <1>1, <1>2, <1>4, <1>5 DEF Larger, Smaller
  <1> QED
    BY <1>6 DEF e

\* The request is sent, or refused.
LEMMA SendType ==
  ASSUME DialogueAssumption, TypeOK, Send \/ Overflow
  PROVE  TypeOK'
  <1>1. ConversationType' /\ AnswerType' /\ GhostType'
    BY DEF Send, Overflow, TypeOK, ConversationType, AnswerType, GhostType, conversation, work, ghosts
  <1>2. RequestType'
    BY DEF Send, Overflow, TypeOK, RequestType, work, request
  <1>3. PayloadType'
    BY ClampFits DEF Send, Overflow, TypeOK, RequestType, PayloadType, work
  <1> QED
    BY <1>1, <1>2, <1>3 DEF TypeOK

\* The upstream answers.
LEMMA RespondType ==
  ASSUME TypeOK, NEW n \in Nat, Respond(n)
  PROVE  TypeOK'
  <1>1. ConversationType' /\ PayloadType' /\ GhostType'
    BY DEF Respond, TypeOK, ConversationType, PayloadType, GhostType, conversation, ghosts
  <1>2. RequestType'
    BY DEF Respond, TypeOK, RequestType, request
  <1>3. AnswerType'
    <2> DEFINE Call == [id : UpstreamIds, name : Names, valid : BOOLEAN]
               Sent == [id : UpstreamIds, name : Names, valid : IF stream THEN {TRUE} ELSE BOOLEAN]
    <2>1. \A c \in Sent : c \in Call
      OBVIOUS
    <2>2. calls' \in [1..n -> Sent]
      BY DEF Respond
    <2>3. calls' \in Seq(Call)
      <3> HIDE DEF Call, Sent
      <3>1. calls' \in [1..n -> Call]
        BY <2>1, <2>2
      <3> QED
        BY <3>1, FunctionIsSeq
    <2> QED
      BY <2>3 DEF Respond, TypeOK, AnswerType
  <1> QED
    BY <1>1, <1>2, <1>3 DEF TypeOK

\* The upstream fails, or its answer is complete: nothing is left of the request.
LEMMA RequestEndsType ==
  ASSUME TypeOK, UpstreamFails \/ Finish
  PROVE  TypeOK'
  <1>1. RequestType' /\ PayloadType' /\ AnswerType'
    BY IdleType DEF UpstreamFails, Finish
  <1>2. GhostType'
    BY DEF UpstreamFails, Finish, TypeOK, GhostType, ghosts
  <1>3. ConversationType'
    <2>1. CASE UpstreamFails
      BY <2>1 DEF UpstreamFails, TypeOK, ConversationType, conversation
    <2>2. CASE Finish
      <3>1. history \in Seq(ClientMessage) /\ AssistantMessage(reply) \in ClientMessage
        BY MessageTypes DEF TypeOK, ConversationType, AnswerType
      <3>2. history' \in Seq(ClientMessage) /\ history' # <<>>
        BY <2>2, <3>1, AppendProperties DEF Finish
      <3>3. store' \in ToolIdMap
        BY <2>2 DEF Finish, TypeOK, ConversationType, RequestType
      <3> QED
        BY <2>2, <3>2, <3>3 DEF Finish, TypeOK, ConversationType, conversation
    <2> QED
      BY <2>1, <2>2
  <1> QED
    BY <1>1, <1>2, <1>3 DEF TypeOK

\* A call of the answer is translated, or left out.
LEMMA NextCallType ==
  ASSUME TypeOK, NextCall
  PROVE  TypeOK'
  <1> DEFINE c == calls[cursor]
  <1>1. c.id \in UpstreamIds /\ c.name \in Names
    <2>1. calls \in Seq([id : UpstreamIds, name : Names, valid : BOOLEAN]) /\ cursor \in DOMAIN calls
      BY DEF NextCall, TypeOK, AnswerType
    <2>2. c \in [id : UpstreamIds, name : Names, valid : BOOLEAN]
      BY <2>1, LenProperties, ElementOfSeq
    <2> QED
      BY <2>2
  <1>2. ConversationType' /\ PayloadType'
    BY DEF NextCall, TypeOK, ConversationType, PayloadType, conversation
  <1>3. map' \in ToolIdMap /\ AnswerType' /\ GhostType'
    <2>1. CASE TranslateCall
      <3>1. PICK a \in IdsFor(c.id) :
              /\ map' = IF map.oToA[c.id] # None THEN map
                        ELSE [map EXCEPT !.aToO[a] = c.id, !.oToA[c.id] = a]
              /\ reply' = IF Emitted(c) THEN Append(reply, [id |-> a, name |-> map.originals[c.name]])
                                        ELSE reply
              /\ made' = made \cup {a}
        BY <2>1 DEF TranslateCall
      <3>2. a \in AnthropicIds
        BY <1>1 DEF IdsFor, TypeOK, RequestType, ToolIdMap, Ids
      <3>3. map' \in ToolIdMap
        BY <1>1, <3>1, <3>2 DEF TypeOK, RequestType, ToolIdMap, Ids
      <3>4. [id |-> a, name |-> map.originals[c.name]] \in Use
        BY <1>1, <3>2 DEF TypeOK, RequestType, ToolIdMap, Use
      <3>5. reply' \in Seq(Use)
        BY <3>1, <3>4, AppendProperties DEF TypeOK, AnswerType
      <3>6. GhostType'
        BY <1>1, <2>1, <3>1, <3>2 DEF NextCall, TranslateCall, TypeOK, GhostType
      <3> QED
        BY <3>3, <3>5, <3>6 DEF NextCall, TypeOK, AnswerType
    <2>2. CASE SkipCall
      BY <2>2 DEF NextCall, SkipCall, TypeOK, RequestType, AnswerType, GhostType
    <2> QED
      BY <2>1, <2>2 DEF NextCall
  <1>4. RequestType'
    BY <1>3 DEF NextCall, TypeOK, RequestType, request
  <1> QED
    BY <1>2, <1>3, <1>4 DEF TypeOK

\* The client goes on.
LEMMA ContinueType ==
  ASSUME TypeOK, NEW text \in BOOLEAN, Continue(text)
  PROVE  TypeOK'
  <1> DEFINE uses == history[Len(history)].calls
             ids == [i \in DOMAIN uses |-> uses[i].id]
  <1>1. history[Len(history)] \in ClientMessage
    <2>1. history \in Seq(ClientMessage) /\ history # <<>>
      BY DEF TypeOK, ConversationType
    <2>2. Len(history) \in 1..Len(history)
      BY <2>1, EmptySeq
    <2> QED
      BY <2>1, <2>2, ElementOfSeq
  <1>2. ids \in Seq(AnthropicIds)
    BY <1>1, MessageTypes, CallIdsType
  <1>3. PICK s \in Reorderings(ids) : history' = Append(history, UserMessage(s, text))
    BY DEF Continue
  <1>4. UserMessage(s, text) \in ClientMessage
    BY <1>2, ReorderingsType, MessageTypes
  <1>5. history' \in Seq(ClientMessage) /\ history' # <<>>
    BY <1>3, <1>4, AppendProperties DEF TypeOK, ConversationType
  <1>6. ConversationType'
    BY <1>5 DEF Continue, TypeOK, ConversationType, conversation
  <1>7. RequestType'
    BY DEF Continue, TypeOK, RequestType, work, request
  <1>8. PayloadType' /\ AnswerType' /\ GhostType'
    BY DEF Continue, TypeOK, PayloadType, AnswerType, GhostType, work, ghosts
  <1> QED
    BY <1>6, <1>7, <1>8 DEF TypeOK

\* Nothing changes.
LEMMA StutterType ==
  ASSUME TypeOK, UNCHANGED vars
  PROVE  TypeOK'
  BY DEF vars, conversation, request, work, ghosts, TypeOK, ConversationType, RequestType, PayloadType,
         AnswerType, GhostType

\* Every step keeps the types.
LEMMA TypeStep ==
  ASSUME DialogueAssumption, TypeOK, [Next]_vars
  PROVE  TypeOK'
  <1>1. ASSUME NEW d \in Declarations, NEW m \in Asked, NEW s \in BOOLEAN, Ask(d, m, s)
        PROVE  TypeOK'
    BY <1>1, AskType
  <1>2. CASE TranslateMessage
    BY <1>2, TranslateMessageType
  <1>3. CASE MessagesDone \/ ToolsDone
    BY <1>3, LoopsEndType
  <1>4. CASE MapTool
    BY <1>4, MapToolType
  <1>5. CASE DropMessage \/ SimplifyTools \/ DropTool
    BY <1>5, FittingType
  <1>6. CASE Send \/ Overflow
    BY <1>6, SendType
  <1>7. ASSUME NEW n \in 0..MaxCalls, Respond(n)
        PROVE  TypeOK'
    BY <1>7, RespondType
  <1>8. CASE UpstreamFails \/ Finish
    BY <1>8, RequestEndsType
  <1>9. CASE NextCall
    BY <1>9, NextCallType
  <1>10. ASSUME NEW text \in BOOLEAN, Continue(text)
         PROVE  TypeOK'
    BY <1>10, ContinueType
  <1>11. CASE Quiet \/ UNCHANGED vars
    BY <1>11, StutterType DEF Quiet
  <1> QED
    BY <1>1, <1>2, <1>3, <1>4, <1>5, <1>6, <1>7, <1>8, <1>9, <1>10, <1>11 DEF Next

\* Every reachable state is well typed: ToolIdMap holds Anthropic ids on one
\* side and either kind on the other, the upstream gets messages of the four
\* roles, the client tool_use blocks with ids of its own kind.
THEOREM TypeCorrect == Spec => []TypeOK
  <1>1. Init => TypeOK
    BY DialogueAssumption, InitType
  <1>2. TypeOK /\ [Next]_vars => TypeOK'
    BY DialogueAssumption, TypeStep
  <1> QED
    BY <1>1, <1>2, PTL DEF Spec

-----------------------------------------------------------------------------
\* A step to a request that is sent is Send, or leaves what was sent alone.
LEMMA AnswerFitsStep ==
  ASSUME DialogueAssumption, TypeOK, AnswerFits, [Next]_vars
  PROVE  AnswerFits'
  <1> SUFFICES ASSUME phase' \in {"upstream", "response"}
               PROVE  /\ Estimate' + maxTokens' <= MaxContext
                      /\ Added' <= Headroom /\ Estimate' + Headroom + MinOutput <= MaxContext =>
                           Estimate' + Added' + maxTokens' <= MaxContext
                      /\ MinOutput <= maxTokens'
                      /\ maxTokens' <= Larger(MinOutput, Smaller(asked', MaxOutput))
    BY DEF AnswerFits
  <1>1. CASE Send
    <2>1. maxTokens' = EffectiveMax /\ asked' = asked /\ Estimate' = Estimate /\ Added' = Added /\ Fits
      BY <1>1 DEF Send, request, Estimate, TokensPerTool, Added
    <2>2. /\ EffectiveMax \in Nat
          /\ Estimate + EffectiveMax <= MaxContext
          /\ Estimate + Headroom + MinOutput <= MaxContext =>
               Estimate + Headroom + EffectiveMax <= MaxContext
          /\ MinOutput <= EffectiveMax
          /\ EffectiveMax <= Larger(MinOutput, Smaller(asked, MaxOutput))
      BY <2>1, ClampFits DEF TypeOK, RequestType
    <2>3. Estimate \in Nat /\ Added \in Nat /\ Headroom \in Nat /\ MaxContext \in Nat
      BY EstimateType DEF TypeOK, Added, DialogueAssumption
    <2>4. Added <= Headroom /\ Estimate + Headroom + MinOutput <= MaxContext =>
            Estimate + Added + EffectiveMax <= MaxContext
      BY <2>2, <2>3
    <2> QED
      BY <2>1, <2>2, <2>4
  <1>2. CASE /\ phase \in {"upstream", "response"}
             /\ UNCHANGED <<asked, messages, tools, simplified, maxTokens>>
    <2>1. maxTokens' = maxTokens /\ asked' = asked /\ Estimate' = Estimate /\ Added' = Added
      BY <1>2 DEF Estimate, TokensPerTool, Added
    <2> QED
      BY <1>2, <2>1 DEF AnswerFits
  <1>3. ASSUME NEW n \in 0..MaxCalls, Respond(n)
        PROVE  phase \in {"upstream", "response"} /\ UNCHANGED <<asked, messages, tools, simplified, maxTokens>>
    BY <1>3 DEF Respond, request
  <1>4. NextCall => phase \in {"upstream", "response"} /\ UNCHANGED <<asked, messages, tools, simplified, maxTokens>>
    BY DEF NextCall, request
  <1>5. UNCHANGED vars => phase \in {"upstream", "response"} /\ UNCHANGED <<asked, messages, tools, simplified, maxTokens>>
    BY DEF vars, work, request
  <1>6. ASSUME NEW d \in Declarations, NEW m \in Asked, NEW s \in BOOLEAN, Ask(d, m, s)
        PROVE  FALSE
    BY <1>6 DEF Ask
  <1>7. ~(\/ TranslateMessage \/ MessagesDone \/ MapTool \/ ToolsDone \/ DropMessage
          \/ SimplifyTools \/ DropTool \/ Overflow \/ UpstreamFails \/ Finish)
    BY DEF TranslateMessage, MessagesDone, MapTool, ToolsDone, DropMessage, SimplifyTools, DropTool,
           Overflow, UpstreamFails, Finish
  <1>8. ASSUME NEW text \in BOOLEAN, Continue(text)
        PROVE  FALSE
    BY <1>8 DEF Continue
  <1> QED
    BY <1>1, <1>2, <1>3, <1>4, <1>5, <1>6, <1>7, <1>8 DEF Next, Quiet

\* Whatever the history, the tools and the limits, what is sent upstream and
\* the answer it asks for fit the window of the model (translate_request).
THEOREM AnswerAlwaysFits == Spec => []AnswerFits
  <1>1. Init => AnswerFits
    BY DEF Init, AnswerFits
  <1>2. TypeOK /\ AnswerFits /\ [Next]_vars => AnswerFits'
    BY DialogueAssumption, AnswerFitsStep
  <1> QED
    BY <1>1, <1>2, TypeCorrect, PTL DEF Spec
-----------------------------------------------------------------------------
(***************************************************************************)
(* IdsDistinct needs two facts more: the ids a client sees were made up    *)
(* here, and an upstream id the map knows has been seen.                   *)
(***************************************************************************)
IdsMade ==
  /\ \A i \in DOMAIN history : \A u \in DOMAIN history[i].calls : history[i].calls[u].id \in made
  /\ \A u \in DOMAIN reply : reply[u].id \in made

MapIsSeen ==
  \A o \in UpstreamIds :
    /\ map.oToA[o] # None => o \in seen
    /\ session /\ store.oToA[o] # None => o \in seen

IdsInv == IdsMade /\ MapIsSeen /\ IdsDistinct

\* Most actions leave the ids alone.
LEMMA IdsUntouched ==
  ASSUME IdsInv, UNCHANGED <<session, history, store, reply, made, seen, reused>>,
         \A o \in UpstreamIds : map'.oToA[o] = map.oToA[o]
  PROVE  IdsInv'
  <1>1. IdsMade'
    BY DEF IdsInv, IdsMade
  <1>2. MapIsSeen'
    BY DEF IdsInv, MapIsSeen
  <1>3. IdsDistinct'
    BY DEF IdsInv, IdsDistinct, Uses
  <1> QED
    BY <1>1, <1>2, <1>3 DEF IdsInv

\* Ids registered from the history are the client's own.
LEMMA IdsTranslateMessage ==
  ASSUME DialogueAssumption, TypeOK, IdsInv, TranslateMessage
  PROVE  IdsInv'
  <1>1. \A o \in UpstreamIds : map'.oToA[o] = map.oToA[o]
    <2>1. CASE TranslateAssistant
      <3> DEFINE uses == history[cursor].calls
                 ids == [i \in DOMAIN uses |-> uses[i].id]
      <3>1. history[cursor] \in ClientMessage
        <4>1. history \in Seq(ClientMessage) /\ cursor \in DOMAIN history
          BY DEF TranslateMessage, TypeOK, ConversationType
        <4> QED
          BY <4>1, LenProperties, ElementOfSeq
      <3>2. Elements(ids) \subseteq AnthropicIds
        BY <3>1, MessageTypes, CallIdsType, ElementsType
      <3>3. map' = Registered(map, Elements(ids))
        BY <2>1 DEF TranslateAssistant
      <3> HIDE DEF ids
      <3> QED
        BY <3>2, <3>3 DEF Registered, TypeOK, RequestType, ToolIdMap, Ids, DialogueAssumption
    <2>2. CASE TranslateUser
      BY <2>2 DEF TranslateUser
    <2> QED
      BY <2>1, <2>2 DEF TranslateMessage
  <1> QED
    BY <1>1, IdsUntouched DEF TranslateMessage, conversation, ghosts

\* A rename does not touch ids.
LEMMA IdsMapTool ==
  ASSUME TypeOK, IdsInv, MapTool
  PROVE  IdsInv'
  <1>1. map'.oToA = map.oToA
    BY DEF MapTool, Renamed, TypeOK, RequestType, ToolIdMap
  <1> QED
    BY <1>1, IdsUntouched DEF MapTool, conversation, ghosts

\* What the empty map knows.
LEMMA EmptyMapKnowsNone ==
  \A o \in Ids : EmptyToolIdMap.oToA[o] = None
  BY DEF EmptyToolIdMap

\* A request starts from what the session has seen, or from nothing.
LEMMA IdsAsk ==
  ASSUME IdsInv, NEW d \in Declarations, NEW m \in Asked, NEW s \in BOOLEAN, Ask(d, m, s)
  PROVE  IdsInv'
  <1>1. IdsMade'
    BY DEF IdsInv, IdsMade, Ask
  <1>2. MapIsSeen'
    BY EmptyMapKnowsNone DEF IdsInv, MapIsSeen, Ask, conversation, Ids
  <1>3. IdsDistinct'
    BY DEF IdsInv, IdsDistinct, Uses, Ask
  <1> QED
    BY <1>1, <1>2, <1>3 DEF IdsInv

\* A failed request leaves nothing behind.
LEMMA IdsUpstreamFails ==
  ASSUME IdsInv, UpstreamFails
  PROVE  IdsInv'
  <1>1. reply' = <<>> /\ map' = EmptyToolIdMap
    BY DEF UpstreamFails, Idle
  <1>2. UNCHANGED <<session, history, store, made, seen, reused>>
    BY DEF UpstreamFails, conversation, ghosts
  <1>3. IdsMade'
    BY <1>1, <1>2 DEF IdsInv, IdsMade
  <1>4. MapIsSeen'
    BY <1>1, <1>2, EmptyMapKnowsNone DEF IdsInv, MapIsSeen, Ids
  <1>5. IdsDistinct'
    BY <1>1, <1>2 DEF IdsInv, IdsDistinct, Uses
  <1> QED
    BY <1>3, <1>4, <1>5 DEF IdsInv

\* A call gets an id that no message has, unless its own id came back.
LEMMA IdsNextCall ==
  ASSUME TypeOK, IdsInv, NextCall
  PROVE  IdsInv'
  <1>1. UNCHANGED <<session, history, store>>
    BY DEF NextCall, conversation
  <1>2. CASE SkipCall
    BY <1>1, <1>2, IdsUntouched DEF SkipCall
  <1>3. CASE TranslateCall
    <2> DEFINE c == calls[cursor]
    <2>1. c.id \in UpstreamIds
      <3>1. calls \in Seq([id : UpstreamIds, name : Names, valid : BOOLEAN]) /\ cursor \in DOMAIN calls
        BY DEF NextCall, TypeOK, AnswerType
      <3>2. c \in [id : UpstreamIds, name : Names, valid : BOOLEAN]
        BY <3>1, LenProperties, ElementOfSeq
      <3> QED
        BY <3>2
    <2>2. PICK a \in IdsFor(c.id) :
            /\ map' = IF map.oToA[c.id] # None THEN map
                      ELSE [map EXCEPT !.aToO[a] = c.id, !.oToA[c.id] = a]
            /\ reply' = IF Emitted(c) THEN Append(reply, [id |-> a, name |-> map.originals[c.name]])
                                      ELSE reply
            /\ made' = made \cup {a}
      BY <1>3 DEF TranslateCall
    <2>3. reused' = (reused \/ c.id \in seen) /\ seen' = seen \cup {c.id}
      BY <1>3 DEF TranslateCall
    <2>4. \A u \in DOMAIN reply' :
            \/ u \in DOMAIN reply /\ reply'[u] = reply[u]
            \/ u = Len(reply) + 1 /\ u \notin DOMAIN reply /\ reply'[u].id = a
      <3>1. reply \in Seq(Use)
        BY DEF TypeOK, AnswerType
      <3>2. CASE reply' = reply
        BY <3>2
      <3>3. CASE reply' = Append(reply, [id |-> a, name |-> map.originals[c.name]])
        BY <3>1, <3>3, LenProperties, AppendProperties
      <3> QED
        BY <2>2, <3>2, <3>3
    <2>5. IdsMade'
      BY <1>1, <2>2, <2>4 DEF IdsInv, IdsMade
    <2>6. MapIsSeen'
      BY <1>1, <2>1, <2>2, <2>3 DEF IdsInv, MapIsSeen, TypeOK, RequestType, ToolIdMap, Ids
    <2>7. IdsDistinct'
      <3> SUFFICES ASSUME ~reused'
                   PROVE  /\ \A p, q \in Uses' : history'[p[1]].calls[p[2]].id = history'[q[1]].calls[q[2]].id => p = q
                          /\ \A u, v \in DOMAIN reply' : reply'[u].id = reply'[v].id => u = v
                          /\ \A p \in Uses' : \A u \in DOMAIN reply' : history'[p[1]].calls[p[2]].id # reply'[u].id
        BY DEF IdsDistinct
      <3>1. ~reused /\ c.id \notin seen
        BY <2>3
      <3>2. a \notin made
        BY <2>1, <2>2, <3>1 DEF IdsFor, IdsInv, MapIsSeen
      <3>3. Uses' = Uses /\ history' = history
        BY <1>1 DEF Uses
      <3>4. \A p \in Uses : history[p[1]].calls[p[2]].id \in made
        BY DEF Uses, IdsInv, IdsMade
      <3>5. \A u \in DOMAIN reply : reply[u].id \in made
        BY DEF IdsInv, IdsMade
      <3> QED
        BY <2>4, <3>1, <3>2, <3>3, <3>4, <3>5 DEF IdsInv, IdsDistinct
    <2> QED
      BY <2>5, <2>6, <2>7 DEF IdsInv
  <1> QED
    BY <1>2, <1>3 DEF NextCall

\* The history grows by one message that holds the calls of the reply.
LEMMA IdsFinish ==
  ASSUME TypeOK, IdsInv, Finish
  PROVE  IdsInv'
  <1>1. /\ history' = Append(history, AssistantMessage(reply))
        /\ reply' = <<>> /\ map' = EmptyToolIdMap
        /\ store' = (IF session THEN map ELSE store)
        /\ UNCHANGED <<session, made, seen, reused>>
    BY DEF Finish, Idle, conversation, ghosts
  <1>2. /\ DOMAIN history = 1..Len(history) /\ Len(history) \in Nat
        /\ DOMAIN history' = 1..(Len(history) + 1)
        /\ \A i \in DOMAIN history : history'[i] = history[i]
        /\ history'[Len(history) + 1] = AssistantMessage(reply)
    <2>1. history \in Seq(ClientMessage) /\ AssistantMessage(reply) \in ClientMessage
      BY MessageTypes DEF TypeOK, ConversationType, AnswerType
    <2> QED
      BY <1>1, <2>1, LenProperties, AppendProperties
  <1>3. AssistantMessage(reply).calls = reply
    BY DEF AssistantMessage
  <1>4. \A i \in DOMAIN history' : \A u \in DOMAIN history'[i].calls :
          \/ i \in DOMAIN history /\ u \in DOMAIN history[i].calls /\ history'[i].calls[u] = history[i].calls[u]
          \/ i = Len(history) + 1 /\ u \in DOMAIN reply /\ history'[i].calls[u] = reply[u]
    BY <1>2, <1>3
  <1>5. IdsMade'
    BY <1>1, <1>4 DEF IdsInv, IdsMade
  <1>6. MapIsSeen'
    BY <1>1, EmptyMapKnowsNone DEF IdsInv, MapIsSeen, Ids
  <1>7. IdsDistinct'
    <2> SUFFICES ASSUME ~reused,
                        NEW p \in Uses', NEW q \in Uses',
                        history'[p[1]].calls[p[2]].id = history'[q[1]].calls[q[2]].id
                 PROVE  p = q
      <3>1. DOMAIN reply' = {} /\ reused' = reused
        BY <1>1
      <3> QED
        BY <3>1, Zenon DEF IdsDistinct
    <2>1. /\ p = <<p[1], p[2]>> /\ q = <<q[1], q[2]>>
          /\ p[1] \in DOMAIN history' /\ p[2] \in DOMAIN history'[p[1]].calls /\ p[2] \in 1..MaxCalls
          /\ q[1] \in DOMAIN history' /\ q[2] \in DOMAIN history'[q[1]].calls /\ q[2] \in 1..MaxCalls
      BY DEF Uses
    <2>2. \A r \in {p, q} :
            \/ r \in Uses /\ history'[r[1]].calls[r[2]] = history[r[1]].calls[r[2]]
            \/ r[1] = Len(history) + 1 /\ r[2] \in DOMAIN reply /\ history'[r[1]].calls[r[2]] = reply[r[2]]
      BY <1>4, <2>1 DEF Uses
    <2> QED
      BY <2>1, <2>2 DEF IdsInv, IdsDistinct
  <1> QED
    BY <1>5, <1>6, <1>7 DEF IdsInv

\* A message of the user has no calls.
LEMMA IdsContinue ==
  ASSUME TypeOK, IdsInv, NEW text \in BOOLEAN, Continue(text)
  PROVE  IdsInv'
  <1>1. PICK s : history' = Append(history, UserMessage(s, text))
    BY DEF Continue
  <1>2. UNCHANGED <<session, store, map, reply, made, seen, reused>>
    BY DEF Continue, conversation, work, ghosts
  <1>3. /\ DOMAIN history' = 1..(Len(history) + 1) /\ DOMAIN history = 1..Len(history)
        /\ \A i \in DOMAIN history : history'[i] = history[i]
        /\ history'[Len(history) + 1] = UserMessage(s, text)
        /\ Len(history) \in Nat
    <2>1. history \in Seq(ClientMessage)
      BY DEF TypeOK, ConversationType
    <2> QED
      BY <1>1, <2>1, LenProperties
  <1>4. UserMessage(s, text).calls = <<>>
    BY DEF UserMessage
  <1>5. \A i \in DOMAIN history' : \A u \in DOMAIN history'[i].calls :
          i \in DOMAIN history /\ history'[i] = history[i]
    BY <1>3, <1>4
  <1>6. Uses' = Uses /\ \A p \in Uses : history'[p[1]] = history[p[1]]
    BY <1>3, <1>5 DEF Uses
  <1>7. IdsMade'
    BY <1>2, <1>5 DEF IdsInv, IdsMade
  <1>8. MapIsSeen'
    BY <1>2 DEF IdsInv, MapIsSeen
  <1>9. IdsDistinct'
    <2> SUFFICES ASSUME ~reused
                 PROVE  /\ \A p, q \in Uses' : history'[p[1]].calls[p[2]].id = history'[q[1]].calls[q[2]].id => p = q
                        /\ \A u, v \in DOMAIN reply' : reply'[u].id = reply'[v].id => u = v
                        /\ \A p \in Uses' : \A u \in DOMAIN reply' : history'[p[1]].calls[p[2]].id # reply'[u].id
      BY <1>2, Zenon DEF IdsDistinct
    <2>1. /\ \A p, q \in Uses : history[p[1]].calls[p[2]].id = history[q[1]].calls[q[2]].id => p = q
          /\ \A u, v \in DOMAIN reply : reply[u].id = reply[v].id => u = v
          /\ \A p \in Uses : \A u \in DOMAIN reply : history[p[1]].calls[p[2]].id # reply[u].id
      BY Zenon DEF IdsInv, IdsDistinct
    <2>2. Uses' = Uses /\ reply' = reply /\ \A p \in Uses : history'[p[1]].calls[p[2]].id = history[p[1]].calls[p[2]].id
      BY <1>2, <1>6, Zenon
    <2> QED
      BY <2>1, <2>2
  <1> QED
    BY <1>7, <1>8, <1>9 DEF IdsInv

\* Every step keeps the invariant.
LEMMA IdsStep ==
  ASSUME DialogueAssumption, TypeOK, IdsInv, [Next]_vars
  PROVE  IdsInv'
  <1>1. ASSUME NEW d \in Declarations, NEW m \in Asked, NEW s \in BOOLEAN, Ask(d, m, s)
        PROVE  IdsInv'
    BY <1>1, IdsAsk
  <1>2. CASE TranslateMessage
    BY <1>2, IdsTranslateMessage
  <1>3. CASE MapTool
    BY <1>3, IdsMapTool
  <1>4. CASE MessagesDone \/ ToolsDone \/ DropMessage \/ SimplifyTools \/ DropTool \/ Overflow \/ Send
             \/ UNCHANGED vars
    <2>1. UNCHANGED <<session, history, store, reply, made, seen, reused, map>>
      BY <1>4 DEF MessagesDone, ToolsDone, DropMessage, SimplifyTools, DropTool, Overflow, Send,
                  vars, conversation, work, ghosts
    <2> QED
      BY <2>1, IdsUntouched
  <1>5. ASSUME NEW n \in 0..MaxCalls, Respond(n)
        PROVE  IdsInv'
    <2>1. UNCHANGED <<session, history, store, reply, made, seen, reused, map>>
      BY <1>5 DEF Respond, conversation, ghosts
    <2> QED
      BY <2>1, IdsUntouched
  <1>6. CASE UpstreamFails
    BY <1>6, IdsUpstreamFails
  <1>7. CASE NextCall
    BY <1>7, IdsNextCall
  <1>8. CASE Finish
    BY <1>8, IdsFinish
  <1>9. ASSUME NEW text \in BOOLEAN, Continue(text)
        PROVE  IdsInv'
    BY <1>9, IdsContinue
  <1> QED
    BY <1>1, <1>2, <1>3, <1>4, <1>5, <1>6, <1>7, <1>8, <1>9 DEF Next, Quiet

\* However long the conversation, and whatever the upstream calls, the
\* tool_use ids the client sees are distinct as long as the upstream's ids are
\* while one ToolIdMap lives (openai_to_anthropic).
THEOREM IdsStayDistinct == Spec => []IdsDistinct
  <1>1. Init => IdsInv
    <2> SUFFICES ASSUME Init
                 PROVE  IdsInv
      OBVIOUS
    <2>1. /\ reply = <<>> /\ map = EmptyToolIdMap /\ store = EmptyToolIdMap
          /\ history = <<UserMessage(<<>>, TRUE)>>
      BY DEF Init
    <2>2. \A i \in DOMAIN history : DOMAIN history[i].calls = {}
      BY <2>1 DEF UserMessage
    <2>3. Uses = {}
      BY <2>2 DEF Uses
    <2>4. DOMAIN reply = {}
      BY <2>1
    <2>5. IdsMade /\ IdsDistinct
      BY <2>2, <2>3, <2>4, Zenon DEF IdsMade, IdsDistinct
    <2>6. MapIsSeen
      BY <2>1, EmptyMapKnowsNone DEF MapIsSeen, Ids
    <2> QED
      BY <2>4, <2>5, <2>6 DEF IdsInv
  <1>2. TypeOK /\ IdsInv /\ [Next]_vars => IdsInv'
    BY DialogueAssumption, IdsStep
  <1>3. IdsInv => IdsDistinct
    BY DEF IdsInv
  <1> QED
    BY <1>1, <1>2, <1>3, TypeCorrect, PTL DEF Spec
-----------------------------------------------------------------------------
(***************************************************************************)
(* Fitting.  The loop starts from the messages and tools the two earlier   *)
(* loops made: at least the system messages, and the declarations that do  *)
(* not collide with an earlier one.  From then on what FittingIsMinimal    *)
(* says of the end holds of every turn of the loop.                        *)
(***************************************************************************)
Kept(n) == {i \in 1..n : ~Collides(i)}

Offered == Cardinality(Kept(Len(declared)))

Dropped == Len(full) - Len(messages)

\* The sequence s without the d elements that follow its first n.
Without(s, n, d) == SubSeq(s, 1, n) \o SubSeq(s, n + d + 1, Len(s))

NoPayload == tools = <<>> /\ ~simplified

ToolsSoFar ==
  /\ cursor <= Len(declared) + 1
  /\ Len(tools) = Cardinality(Kept(cursor - 1)) /\ ~simplified

KeptMessages ==
  /\ systems <= Len(messages) /\ Len(messages) <= Len(full)
  /\ messages = Without(full, systems, Dropped)
  /\ Dropped > 0 =>
       /\ Len(messages) > systems
       /\ MessageTokens * (Len(messages) + 1) + ToolTokens * Offered + MinOutput >= MaxContext

KeptDeclarations ==
  /\ Len(tools) <= Offered
  /\ simplified \/ Len(tools) < Offered => LastMessage
  /\ Len(tools) < Offered =>
       Estimate + (ToolTokens + 1) + MinOutput >= MaxContext /\ Len(tools) >= KeptTools

NoRoom == Estimate + MinOutput >= MaxContext /\ Len(tools) <= KeptTools

Fitting ==
  /\ phase \in {"client", "messages", "reading"} => NoPayload
  /\ phase \in {"messages", "tools"} => Len(messages) >= systems
  /\ phase = "tools" => ToolsSoFar
  /\ phase \in {"fitting", "upstream", "overflow"} => KeptMessages /\ KeptDeclarations
  /\ phase = "overflow" => NoRoom

\* One more declaration is kept, or not.
LEMMA KeptGrows ==
  ASSUME NEW n \in Nat
  PROVE  /\ IsFiniteSet(Kept(n)) /\ Cardinality(Kept(n)) \in Nat
         /\ Cardinality(Kept(0)) = 0
         /\ Collides(n + 1) => Kept(n + 1) = Kept(n)
         /\ ~Collides(n + 1) => Cardinality(Kept(n + 1)) = Cardinality(Kept(n)) + 1
  <1>1. IsFiniteSet(Kept(n)) /\ Cardinality(Kept(n)) \in Nat
    <2>1. IsFiniteSet(1..n)
      BY FS_Interval
    <2>2. Kept(n) \subseteq 1..n
      BY DEF Kept
    <2> QED
      BY <2>1, <2>2, FS_Subset, FS_CardinalityType
  <1>2. Kept(0) = {}
    BY DEF Kept
  <1>3. Collides(n + 1) => Kept(n + 1) = Kept(n)
    BY DEF Kept
  <1>4. ~Collides(n + 1) => Kept(n + 1) = Kept(n) \cup {n + 1} /\ n + 1 \notin Kept(n)
    BY DEF Kept
  <1>5. Cardinality(Kept(0)) = 0
    BY <1>2, FS_EmptySet
  <1>6. ~Collides(n + 1) => Cardinality(Kept(n + 1)) = Cardinality(Kept(n)) + 1
    BY <1>1, <1>4, FS_AddElement
  <1> QED
    BY <1>1, <1>3, <1>5, <1>6

\* What was said of every turn of the loop says it of the end.
LEMMA FittingIsEnough ==
  ASSUME TypeOK, Fitting
  PROVE  FittingIsMinimal
  <1>1. DOMAIN declared = 1..Len(declared)
    BY LenProperties DEF TypeOK, RequestType
  <1>2. Offered = Cardinality({i \in DOMAIN declared : ~Collides(i)})
    BY <1>1 DEF Offered, Kept
  <1> QED
    BY <1>2 DEF Fitting, FittingIsMinimal, KeptMessages, KeptDeclarations, NoRoom, Dropped, Without

\* The numbers of the payload.
LEMMA PayloadNumbers ==
  ASSUME TypeOK
  PROVE  /\ systems \in Nat /\ Len(messages) \in Nat /\ Len(full) \in Nat /\ Len(tools) \in Nat
         /\ Len(declared) \in Nat /\ Offered \in Nat /\ cursor \in Nat /\ cursor >= 1
         /\ MessageTokens \in Nat /\ ToolTokens \in Nat /\ MinOutput \in Nat /\ MaxContext \in Nat
         /\ KeptTools \in Nat /\ Estimate \in Nat
  <1>1. Len(declared) \in Nat
    BY LenProperties DEF TypeOK, RequestType
  <1>2. Offered \in Nat
    BY <1>1, KeptGrows DEF Offered
  <1>3. Estimate \in Nat
    BY EstimateType, DialogueAssumption DEF TypeOK
  <1>4. Len(messages) \in Nat /\ Len(full) \in Nat /\ Len(tools) \in Nat
    BY LenProperties DEF TypeOK, PayloadType
  <1>5. systems \in Nat /\ cursor \in Nat /\ cursor >= 1
    BY DialogueAssumption DEF TypeOK, RequestType, ConversationType
  <1> QED
    BY <1>1, <1>2, <1>3, <1>4, <1>5, DialogueAssumption

\* A request begins with the messages of the system and no tools.
LEMMA FitAsk ==
  ASSUME TypeOK, Fitting,
         NEW d \in Declarations, NEW m \in Asked, NEW s \in BOOLEAN, Ask(d, m, s)
  PROVE  Fitting'
  <1>1. NoPayload' /\ phase' = "messages"
    BY DEF Ask, Fitting, NoPayload
  <1>2. messages' = [i \in 1..systems |-> Plain("system")] /\ systems' = systems
    BY DEF Ask, conversation
  <1>3. Len(messages') = systems
    <2>1. systems \in Nat
      BY PayloadNumbers
    <2> QED
      BY <1>2, <2>1
  <1> QED
    BY <1>1, <1>2, <1>3, PayloadNumbers DEF Fitting

\* Messages are added to those of the system.
LEMMA FitTranslateMessage ==
  ASSUME TypeOK, TypeOK', Fitting, TranslateMessage
  PROVE  Fitting'
  <1>1. /\ phase = "messages" /\ phase' = "messages"
        /\ UNCHANGED <<systems, tools, simplified>>
    BY DEF TranslateMessage, conversation
  <1>2. Len(messages') >= Len(messages)
    <2>1. CASE TranslateAssistant
      BY <2>1 DEF TranslateAssistant, TypeOK, PayloadType
    <2>2. CASE TranslateUser
      <3>1. PICK s \in Sorted(history[cursor].results) :
              messages' = messages \o [i \in DOMAIN s |-> Tool(AnthropicToOpenai(s[i]))]
                            \o (IF history[cursor].text THEN <<Plain("user")>> ELSE <<>>)
        BY <2>2 DEF TranslateUser
      <3> QED
        BY <3>1 DEF TypeOK, PayloadType
    <2> QED
      BY <2>1, <2>2 DEF TranslateMessage
  <1> QED
    BY <1>1, <1>2, PayloadNumbers DEF Fitting, NoPayload

\* The loop over the messages ends.
LEMMA FitMessagesDone ==
  ASSUME TypeOK, Fitting, MessagesDone
  PROVE  Fitting'
  <1>1. /\ phase = "messages" /\ phase' = "tools" /\ cursor' = 1
        /\ UNCHANGED <<systems, tools, simplified, messages, declared>>
    BY DEF MessagesDone, conversation, work, request
  <1>2. Len(tools) = 0 /\ ~simplified /\ Len(messages) >= systems
    BY <1>1 DEF Fitting, NoPayload
  <1>3. Kept(0)' = Kept(0)
    BY <1>1 DEF Kept, Collides
  <1>4. Cardinality(Kept(0)') = 0
    BY <1>3, KeptGrows
  <1>5. ToolsSoFar'
    BY <1>1, <1>2, <1>4, PayloadNumbers DEF ToolsSoFar, Kept, Collides
  <1> QED
    BY <1>1, <1>2, <1>5 DEF Fitting

\* A declaration is kept, or collides.
LEMMA FitMapTool ==
  ASSUME TypeOK, Fitting, MapTool
  PROVE  Fitting'
  <1>1. /\ phase = "tools" /\ phase' = "tools" /\ cursor' = cursor + 1 /\ cursor \in DOMAIN declared
        /\ tools' = (IF Collides(cursor) THEN tools ELSE Append(tools, Sanitized[declared[cursor]]))
        /\ UNCHANGED <<systems, simplified, messages, declared>>
    BY DEF MapTool, conversation, request
  <1>2. ToolsSoFar /\ Len(messages) >= systems
    BY <1>1 DEF Fitting
  <1>3. cursor <= Len(declared) /\ cursor - 1 \in Nat /\ (cursor - 1) + 1 = cursor
    BY <1>1, PayloadNumbers, LenProperties DEF TypeOK, RequestType
  <1>5. Len(tools') = Cardinality(Kept(cursor))
    <2>1. CASE Collides(cursor)
      BY <2>1, <1>1, <1>2, <1>3, KeptGrows DEF ToolsSoFar
    <2>2. CASE ~Collides(cursor)
      <3>1. Cardinality(Kept(cursor)) = Cardinality(Kept(cursor - 1)) + 1
        BY <2>2, <1>3, KeptGrows
      <3>2. Len(tools') = Len(tools) + 1
        BY <2>2, <1>1 DEF TypeOK, PayloadType
      <3> QED
        BY <3>1, <3>2, <1>2 DEF ToolsSoFar
    <2> QED
      BY <2>1, <2>2
  <1>6. ToolsSoFar'
    <2>1. Kept(cursor - 1)' = Kept(cursor)
      <3>1. cursor' - 1 = cursor
        BY <1>1, PayloadNumbers
      <3> QED
        BY <3>1, <1>1 DEF Kept, Collides
    <2>2. cursor' = cursor + 1 /\ declared' = declared /\ simplified' = simplified
      BY <1>1
    <2>3. cursor' <= Len(declared') + 1
      <3>1. cursor \in Nat /\ Len(declared) \in Nat
        BY PayloadNumbers
      <3> QED
        BY <1>3, <2>2, <3>1
    <2>4. ~simplified'
      BY <1>2, <2>2 DEF ToolsSoFar
    <2> QED
      BY <1>5, <2>1, <2>3, <2>4 DEF ToolsSoFar
  <1> QED
    BY <1>1, <1>2, <1>6 DEF Fitting

\* What is left of a sequence.
LEMMA WithoutIs ==
  ASSUME NEW S, NEW s \in Seq(S), NEW n \in Nat, NEW d \in Nat, n + d <= Len(s)
  PROVE  /\ Without(s, n, d) \in Seq(S)
         /\ Len(Without(s, n, d)) = Len(s) - d
         /\ \A i \in 1..(Len(s) - d) : Without(s, n, d)[i] = IF i <= n THEN s[i] ELSE s[i + d]
  <1> DEFINE a == SubSeq(s, 1, n)
             b == SubSeq(s, n + d + 1, Len(s))
  <1>1. Len(s) \in Nat /\ n <= Len(s)
    BY LenProperties
  <1>2. a \in Seq(S) /\ Len(a) = n /\ \A i \in 1..n : a[i] = s[i]
    BY <1>1
  <1>3. b \in Seq(S) /\ Len(b) = Len(s) - (n + d) /\ \A i \in 1..Len(b) : b[i] = s[n + d + i]
    BY <1>1
  <1>4. Without(s, n, d) = a \o b
    BY DEF Without
  <1> HIDE DEF a, b
  <1>5. /\ a \o b \in Seq(S) /\ Len(a \o b) = Len(s) - d
        /\ \A i \in 1..n : (a \o b)[i] = a[i]
        /\ \A i \in (n + 1)..(Len(s) - d) : (a \o b)[i] = b[i - n]
    <2>1. /\ a \o b \in Seq(S) /\ Len(a \o b) = Len(a) + Len(b)
          /\ \A i \in 1..Len(a) + Len(b) :
               (a \o b)[i] = IF i <= Len(a) THEN a[i] ELSE b[i - Len(a)]
      <3>1. a \in Seq(S) /\ b \in Seq(S)
        BY <1>2, <1>3
      <3> QED
        BY <3>1, ConcatProperties
    <2>2. Len(a) + Len(b) = Len(s) - d
      BY <1>1, <1>2, <1>3
    <2> QED
      BY <1>1, <1>2, <2>1, <2>2
  <1>6. \A i \in (n + 1)..(Len(s) - d) : (a \o b)[i] = s[i + d]
    <2> SUFFICES ASSUME NEW i \in (n + 1)..(Len(s) - d)
                 PROVE  (a \o b)[i] = s[i + d]
      OBVIOUS
    <2>1. i - n \in 1..Len(b) /\ n + d + (i - n) = i + d
      BY <1>1, <1>3
    <2> QED
      BY <2>1, <1>3, <1>5
  <1>7. \A i \in 1..(Len(s) - d) : (a \o b)[i] = IF i <= n THEN s[i] ELSE s[i + d]
    BY <1>1, <1>2, <1>5, <1>6
  <1> QED
    BY <1>4, <1>5, <1>7

\* Nothing is left out of it, or one element more.
LEMMA WithoutMore ==
  ASSUME NEW S, NEW s \in Seq(S), NEW n \in Nat, NEW d \in Nat
  PROVE  /\ n <= Len(s) => Without(s, n, 0) = s
         /\ n + d + 1 <= Len(s) => Without(Without(s, n, d), n, 1) = Without(s, n, d + 1)
  <1>0. Len(s) \in Nat
    BY LenProperties
  <1>1. ASSUME n <= Len(s)
        PROVE  Without(s, n, 0) = s
    <2>1. /\ Without(s, n, 0) \in Seq(S) /\ Len(Without(s, n, 0)) = Len(s)
          /\ \A i \in 1..Len(s) : Without(s, n, 0)[i] = s[i]
      BY <1>0, <1>1, WithoutIs
    <2> QED
      BY <2>1, SeqEqual
  <1>2. ASSUME n + d + 1 <= Len(s)
        PROVE  Without(Without(s, n, d), n, 1) = Without(s, n, d + 1)
    <2> DEFINE m == Without(s, n, d)
               k == Len(s) - (d + 1)
    <2>1. /\ m \in Seq(S) /\ Len(m) = Len(s) - d
          /\ \A i \in 1..(Len(s) - d) : m[i] = IF i <= n THEN s[i] ELSE s[i + d]
      <3>1. n + d <= Len(s)
        BY <1>0, <1>2
      <3> QED
        BY <3>1, WithoutIs
    <2>2. /\ Without(s, n, d + 1) \in Seq(S) /\ Len(Without(s, n, d + 1)) = k
          /\ \A i \in 1..k : Without(s, n, d + 1)[i] = IF i <= n THEN s[i] ELSE s[i + (d + 1)]
      <3>1. n + (d + 1) <= Len(s) /\ d + 1 \in Nat
        BY <1>0, <1>2
      <3> QED
        BY <3>1, WithoutIs
    <2> HIDE DEF m
    <2>3. /\ Without(m, n, 1) \in Seq(S) /\ Len(Without(m, n, 1)) = k
          /\ \A i \in 1..k : Without(m, n, 1)[i] = IF i <= n THEN m[i] ELSE m[i + 1]
      <3>1. n + 1 <= Len(m) /\ Len(m) - 1 = k /\ 1 \in Nat
        BY <1>0, <1>2, <2>1
      <3> HIDE DEF k
      <3>2. /\ Without(m, n, 1) \in Seq(S) /\ Len(Without(m, n, 1)) = Len(m) - 1
            /\ \A i \in 1..(Len(m) - 1) : Without(m, n, 1)[i] = IF i <= n THEN m[i] ELSE m[i + 1]
        <4>1. m \in Seq(S) /\ 1 \in Nat /\ n + 1 <= Len(m)
          BY <2>1, <3>1
        <4> QED
          BY ONLY <4>1, n \in Nat, WithoutIs
      <3> QED
        BY <3>1, <3>2
    <2>4. \A i \in 1..k : Without(m, n, 1)[i] = Without(s, n, d + 1)[i]
      <3> SUFFICES ASSUME NEW i \in 1..k
                   PROVE  Without(m, n, 1)[i] = Without(s, n, d + 1)[i]
        OBVIOUS
      <3>1. i \in 1..(Len(s) - d) /\ i + 1 \in 1..(Len(s) - d) /\ (i + 1) + d = i + (d + 1)
        BY <1>0
      <3>2. i > n => m[i + 1] = s[i + (d + 1)]
        BY <2>1, <3>1
      <3>3. i <= n => m[i] = s[i]
        BY <2>1, <3>1
      <3> QED
        BY <2>2, <2>3, <3>2, <3>3
    <2>5. Without(m, n, 1) = Without(s, n, d + 1)
      BY <2>2, <2>3, <2>4, SeqEqual
    <2> QED
      BY <2>5 DEF m
  <1> QED
    BY <1>1, <1>2

\* The loop over the tools ends, and the fitting begins with everything.
LEMMA FitToolsDone ==
  ASSUME TypeOK, Fitting, ToolsDone
  PROVE  Fitting'
  <1>1. /\ phase = "tools" /\ phase' = "fitting" /\ cursor \notin DOMAIN declared
        /\ full' = messages
        /\ UNCHANGED <<systems, tools, simplified, messages, declared>>
    BY DEF ToolsDone, conversation, request
  <1>2. ToolsSoFar /\ systems <= Len(messages)
    BY <1>1, PayloadNumbers DEF Fitting
  <1>3. cursor - 1 = Len(declared)
    <2>1. DOMAIN declared = 1..Len(declared)
      BY LenProperties DEF TypeOK, RequestType
    <2>2. Len(declared) \in Nat /\ cursor \in Nat /\ cursor >= 1
      BY PayloadNumbers
    <2>3. cursor <= Len(declared) + 1
      BY <1>2 DEF ToolsSoFar
    <2> QED
      BY <1>1, <2>1, <2>2, <2>3
  <1>4. Offered' = Offered /\ Len(tools) = Offered
    <2>1. Offered' = Offered
      BY <1>1 DEF Offered, Kept, Collides
    <2> QED
      BY <1>2, <1>3, <2>1 DEF Offered, ToolsSoFar
  <1>5. Dropped' = 0
    BY <1>1, PayloadNumbers DEF Dropped
  <1>6. KeptMessages'
    <2>1. messages = Without(messages, systems, 0)
      BY <1>2, WithoutMore, PayloadNumbers DEF TypeOK, PayloadType
    <2>2. messages' = Without(full', systems', Dropped')
      BY <1>1, <1>5, <2>1
    <2>3. systems' <= Len(messages') /\ Len(messages') <= Len(full')
      BY <1>1, <1>2, PayloadNumbers
    <2> QED
      BY <1>5, <2>2, <2>3 DEF KeptMessages
  <1>7. KeptDeclarations'
    <2>1. ~simplified' /\ Len(tools') = Offered' /\ Offered' \in Nat
      BY <1>1, <1>2, <1>4, PayloadNumbers DEF ToolsSoFar
    <2> QED
      BY <2>1 DEF KeptDeclarations
  <1> QED
    BY <1>1, <1>6, <1>7 DEF Fitting

\* Each turn of the loop drops the oldest message that is not of the system.
LEMMA FitDropMessage ==
  ASSUME TypeOK, Fitting, DropMessage
  PROVE  Fitting'
  <1>1. /\ phase = "fitting" /\ phase' = "fitting" /\ ~Fits /\ ~LastMessage
        /\ messages' = WithoutOldest
        /\ UNCHANGED <<systems, tools, simplified, full, declared>>
    BY DEF DropMessage, conversation, request
  <1>2. KeptMessages /\ KeptDeclarations
    BY <1>1 DEF Fitting
  <1>3. /\ systems + Dropped + 1 <= Len(full) /\ Dropped \in Nat
        /\ systems + 1 < Len(messages) /\ Len(full) - Dropped = Len(messages)
    <2>1. systems + 1 < Len(messages)
      BY <1>1, PayloadNumbers DEF LastMessage
    <2>2. systems <= Len(messages) /\ Len(messages) <= Len(full)
      BY <1>2 DEF KeptMessages
    <2>3. systems \in Nat /\ Len(messages) \in Nat /\ Len(full) \in Nat
      BY PayloadNumbers
    <2> QED
      BY <2>1, <2>2, <2>3 DEF Dropped
  <1>4. messages' = Without(messages, systems, 1)
    <2>1. systems + 2 = systems + 1 + 1
      BY PayloadNumbers
    <2> QED
      BY <1>1, <2>1 DEF WithoutOldest, Without
  <1>5. messages' = Without(full, systems, Dropped + 1)
    BY <1>2, <1>3, <1>4, WithoutMore, PayloadNumbers, SMTT(30) DEF KeptMessages, TypeOK, PayloadType
  <1>6. Len(messages') = Len(messages) - 1
    <2>1. systems + 1 <= Len(messages) /\ messages \in Seq(UpstreamMessage) /\ 1 \in Nat /\ systems \in Nat
      BY <1>3, PayloadNumbers, SMTT(30) DEF TypeOK, PayloadType
    <2> QED
      BY <1>4, <2>1, WithoutIs
  <1>7. Dropped' = Dropped + 1
    BY <1>1, <1>6, PayloadNumbers DEF Dropped
  <1>8. Offered' = Offered
    BY <1>1 DEF Offered, Kept, Collides
  <1>9. ~simplified /\ Len(tools) = Offered
    BY <1>1, <1>2, PayloadNumbers DEF KeptDeclarations
  <1>10. MessageTokens * Len(messages) + ToolTokens * Offered + MinOutput >= MaxContext
    <2>1. Estimate = MessageTokens * Len(messages) + ToolTokens * Offered
      BY <1>9 DEF Estimate, TokensPerTool
    <2>2. Estimate + MinOutput >= MaxContext
      BY <1>1, PayloadNumbers DEF Fits
    <2> QED
      BY <2>1, <2>2
  <1>11. Len(messages') + 1 = Len(messages)
    BY <1>6, PayloadNumbers
  <1>12. systems' <= Len(messages') /\ Len(messages') <= Len(full') /\ Len(messages') > systems'
    <2>1. systems' = systems /\ full' = full
      BY <1>1
    <2>2. systems \in Nat /\ Len(messages) \in Nat /\ Len(full) \in Nat
      BY PayloadNumbers
    <2> QED
      BY <1>3, <1>6, <2>1, <2>2
  <1>13. KeptMessages'
    BY <1>1, <1>5, <1>7, <1>8, <1>10, <1>11, <1>12 DEF KeptMessages
  <1>14. KeptDeclarations'
    <2>1. ~simplified' /\ Len(tools') = Offered' /\ Offered' \in Nat
      BY <1>1, <1>8, <1>9, PayloadNumbers
    <2> QED
      BY <2>1 DEF KeptDeclarations
  <1> QED
    BY <1>1, <1>13, <1>14 DEF Fitting

\* Tools are touched when one message is left, and the last one goes only
\* when all do not fit.
LEMMA FitTools ==
  ASSUME TypeOK, Fitting, SimplifyTools \/ DropTool
  PROVE  Fitting'
  <1>1. /\ phase = "fitting" /\ phase' = "fitting" /\ ~Fits /\ LastMessage
        /\ UNCHANGED <<systems, messages, full, declared>>
    BY DEF SimplifyTools, DropTool, conversation, request
  <1>2. KeptMessages /\ KeptDeclarations
    BY <1>1 DEF Fitting
  <1>3. Offered' = Offered /\ Dropped' = Dropped /\ LastMessage'
    BY <1>1 DEF Offered, Kept, Collides, Dropped, LastMessage
  <1>4. KeptMessages'
    BY <1>1, <1>2, <1>3 DEF KeptMessages
  <1>5. KeptDeclarations'
    <2>1. CASE SimplifyTools
      <3>1. tools' = tools
        BY <2>1 DEF SimplifyTools
      <3>2. /\ Len(tools) <= Offered
            /\ Len(tools) < Offered =>
                 Estimate + (ToolTokens + 1) + MinOutput >= MaxContext /\ Len(tools) >= KeptTools
        BY <1>2 DEF KeptDeclarations
      <3>3. Estimate' >= Estimate /\ Estimate' \in Nat
        <4>1. /\ simplified' = TRUE /\ ~simplified
          BY <2>1 DEF SimplifyTools
        <4>2. Estimate = MessageTokens * Len(messages) + ToolTokens * Len(tools)
          BY <4>1 DEF Estimate, TokensPerTool
        <4>3. Estimate' = MessageTokens * Len(messages) + (ToolTokens + 1) * Len(tools)
          BY <1>1, <3>1, <4>1 DEF Estimate, TokensPerTool
        <4>4. \A a, b, n \in Nat : (a + 1) * n = a * n + n /\ a * n \in Nat
          OBVIOUS
        <4>5. /\ (ToolTokens + 1) * Len(tools) = ToolTokens * Len(tools) + Len(tools)
              /\ ToolTokens * Len(tools) \in Nat /\ MessageTokens * Len(messages) \in Nat
          BY <4>4, PayloadNumbers
        <4> DEFINE p == MessageTokens * Len(messages)
                   q == ToolTokens * Len(tools)
        <4>6. Estimate = p + q /\ Estimate' = p + (q + Len(tools)) /\ p \in Nat /\ q \in Nat
          BY <4>2, <4>3, <4>5
        <4> HIDE DEF p, q
        <4> QED
          BY <4>6, PayloadNumbers
      <3>4. Len(tools) < Offered => Estimate' + (ToolTokens + 1) + MinOutput >= MaxContext
        BY <3>2, <3>3, PayloadNumbers, SMTT(30)
      <3> QED
        BY <1>3, <3>1, <3>2, <3>4 DEF KeptDeclarations
    <2>2. CASE DropTool
      <3>1. simplified /\ simplified' /\ Len(tools) > KeptTools
            /\ tools' = SubSeq(tools, 1, Len(tools) - 1)
        BY <2>2 DEF DropTool
      <3>2. Len(tools') = Len(tools) - 1
        <4>1. tools \in Seq(Names) /\ Len(tools) - 1 \in Nat /\ Len(tools) - 1 < Len(tools)
          BY <3>1, PayloadNumbers DEF TypeOK, PayloadType
        <4> QED
          BY <3>1, <4>1, ShortenedType
      <3>3. Estimate' + (ToolTokens + 1) = Estimate
        <4>1. Estimate = MessageTokens * Len(messages) + (ToolTokens + 1) * Len(tools)
          BY <3>1 DEF Estimate, TokensPerTool
        <4>2. Estimate' = MessageTokens * Len(messages) + (ToolTokens + 1) * (Len(tools) - 1)
          BY <1>1, <3>1, <3>2 DEF Estimate, TokensPerTool
        <4>3. \A a, n \in Nat : (a + 1) * n = (a + 1) * (n - 1) + (a + 1) /\ a * n \in Nat /\ (a + 1) * n \in Nat
          OBVIOUS
        <4>4. /\ (ToolTokens + 1) * Len(tools) = (ToolTokens + 1) * (Len(tools) - 1) + (ToolTokens + 1)
              /\ MessageTokens * Len(messages) \in Nat /\ (ToolTokens + 1) * Len(tools) \in Nat
          BY <4>3, PayloadNumbers
        <4> DEFINE p == MessageTokens * Len(messages)
                   q == (ToolTokens + 1) * (Len(tools) - 1)
        <4>5. /\ Estimate = p + (q + (ToolTokens + 1)) /\ Estimate' = p + q
              /\ p \in Nat /\ q + (ToolTokens + 1) \in Nat
          BY <4>1, <4>2, <4>4
        <4>6. p \in Int /\ q \in Int
          <5>1. \A a, b \in Int : a * b \in Int
            OBVIOUS
          <5>2. /\ MessageTokens \in Int /\ Len(messages) \in Int
                /\ ToolTokens + 1 \in Int /\ Len(tools) - 1 \in Int
            BY PayloadNumbers
          <5> QED
            BY <5>1, <5>2
        <4>7. ToolTokens + 1 \in Int
          BY PayloadNumbers
        <4>8. \A x, y, n \in Int : x + (y + n) = (x + y) + n
          OBVIOUS
        <4> HIDE DEF p, q
        <4>9. p + (q + (ToolTokens + 1)) = (p + q) + (ToolTokens + 1)
          BY <4>6, <4>7, <4>8
        <4> QED
          BY <4>5, <4>9
      <3>4. Estimate' + (ToolTokens + 1) + MinOutput >= MaxContext
        BY <1>1, <3>3, PayloadNumbers DEF Fits
      <3>5. Len(tools') <= Offered /\ Len(tools') >= KeptTools
        <4>1. Len(tools) \in Nat /\ Offered \in Nat /\ KeptTools \in Nat
          BY PayloadNumbers
        <4>2. Len(tools) <= Offered
          BY <1>2 DEF KeptDeclarations
        <4> QED
          BY <3>1, <3>2, <4>1, <4>2
      <3> QED
        BY <1>3, <3>4, <3>5 DEF KeptDeclarations
    <2> QED
      BY <2>1, <2>2
  <1> QED
    BY <1>1, <1>4, <1>5 DEF Fitting

\* The request is sent, or refused because nothing else can go.
LEMMA FitEnds ==
  ASSUME TypeOK, Fitting, Send \/ Overflow
  PROVE  Fitting'
  <1>1. /\ phase = "fitting" /\ phase' \in {"upstream", "overflow"}
        /\ UNCHANGED <<systems, messages, full, declared, tools, simplified>>
    BY DEF Send, Overflow, conversation, work, request
  <1>2. KeptMessages /\ KeptDeclarations
    BY <1>1 DEF Fitting
  <1>3. Offered' = Offered /\ Dropped' = Dropped /\ LastMessage' = LastMessage /\ Estimate' = Estimate
    BY <1>1 DEF Offered, Kept, Collides, Dropped, LastMessage, Estimate, TokensPerTool
  <1>4. KeptMessages' /\ KeptDeclarations'
    BY <1>1, <1>2, <1>3 DEF KeptMessages, KeptDeclarations
  <1>5. phase' = "overflow" => NoRoom'
    <2>1. CASE Overflow
      <3>1. ~Fits /\ Len(tools) <= KeptTools
        BY <2>1 DEF Overflow
      <3> QED
        BY <1>1, <1>3, <3>1, PayloadNumbers DEF NoRoom, Fits
    <2>2. CASE Send
      BY <2>2 DEF Send
    <2> QED
      BY <2>1, <2>2
  <1> QED
    BY <1>1, <1>4, <1>5 DEF Fitting

\* The rest of the dialogue has no payload to fit, or leaves it alone.
LEMMA FitElsewhere ==
  ASSUME Fitting,
         \/ \E n \in 0..MaxCalls : Respond(n)
         \/ UpstreamFails \/ NextCall \/ Finish
         \/ \E text \in BOOLEAN : Continue(text)
         \/ UNCHANGED vars
  PROVE  Fitting'
  <1>1. CASE (\E n \in 0..MaxCalls : Respond(n)) \/ NextCall
    BY <1>1 DEF Respond, NextCall, Fitting
  <1>2. CASE UpstreamFails \/ Finish
    <2>1. phase' \in {"client", "reading"} /\ NoPayload'
      BY <1>2 DEF UpstreamFails, Finish, Idle, NoPayload
    <2> QED
      BY <2>1 DEF Fitting
  <1>3. CASE \E text \in BOOLEAN : Continue(text)
    <2>1. phase = "reading" /\ phase' = "client" /\ UNCHANGED <<tools, simplified>>
      BY <1>3 DEF Continue, work
    <2> QED
      BY <2>1 DEF Fitting, NoPayload
  <1>4. CASE UNCHANGED vars
    BY <1>4 DEF vars, work, request, conversation, Fitting, NoPayload, ToolsSoFar, KeptMessages,
                KeptDeclarations, NoRoom, Offered, Kept, Collides, Dropped, LastMessage, Estimate,
                TokensPerTool
  <1> QED
    BY <1>1, <1>2, <1>3, <1>4

\* What is said of the loop holds of every turn of it.
LEMMA AlwaysFitting == Spec => []Fitting
  <1>1. Init => Fitting
    BY DEF Init, Fitting, NoPayload
  <1>2. TypeOK /\ TypeOK' /\ Fitting /\ [Next]_vars => Fitting'
    <2> SUFFICES ASSUME TypeOK, TypeOK', Fitting, [Next]_vars
                 PROVE  Fitting'
      OBVIOUS
    <2>1. CASE \E d \in Declarations, m \in Asked, s \in BOOLEAN : Ask(d, m, s)
      BY <2>1, FitAsk
    <2>2. CASE TranslateMessage \/ MessagesDone \/ MapTool \/ ToolsDone
      BY <2>2, FitTranslateMessage, FitMessagesDone, FitMapTool, FitToolsDone
    <2>3. CASE DropMessage \/ SimplifyTools \/ DropTool \/ Overflow \/ Send
      BY <2>3, FitDropMessage, FitTools, FitEnds
    <2>4. CASE \/ \E n \in 0..MaxCalls : Respond(n)
               \/ UpstreamFails \/ NextCall \/ Finish
               \/ \E text \in BOOLEAN : Continue(text)
               \/ UNCHANGED vars
      BY <2>4, FitElsewhere
    <2> QED
      BY <2>1, <2>2, <2>3, <2>4 DEF Next, Quiet
  <1> QED
    BY <1>1, <1>2, TypeCorrect, PTL DEF Spec

\* Whatever the history, the tools and the limits, fitting a request drops the
\* oldest messages only, and no more of them than it must; touches the tools
\* only when one message is left; and fails only when that message and the
\* tools always kept do not fit (_truncate_messages_to_fit).
THEOREM FittingIsAlwaysMinimal == Spec => []FittingIsMinimal
  <1>1. TypeOK /\ Fitting => FittingIsMinimal
    BY FittingIsEnough
  <1> QED
    BY <1>1, AlwaysFitting, TypeCorrect, PTL
-----------------------------------------------------------------------------
(***************************************************************************)
(* Names.  What a map calls a tool is its own name or one declared while   *)
(* the map lived that is sanitised to it, so where two declared names are  *)
(* never sanitised to one it is the name the client meant; and a renamed   *)
(* tool of the request is in the map once its declaration was mapped.      *)
(***************************************************************************)
NamesOf(m) ==
  \A n \in Names : \/ m.originals[n] = n
                   \/ m.originals[n] \in names /\ Sanitized[m.originals[n]] = n

\* The renames of the first n declarations are remembered.
Remembered(n) ==
  \A i \in 1..n : Sanitized[declared[i]] # declared[i] =>
                    map.originals[Sanitized[declared[i]]] # Sanitized[declared[i]]

Callable ==
  /\ Unambiguous
  /\ \A k \in DOMAIN calls : calls[k].valid /\ \E t \in Elements(declared) : Sanitized[t] = calls[k].name
  /\ stream => \A t \in Elements(declared) : Sanitized[t] = t

Arrived == [k \in DOMAIN reply |-> reply[k].name] = [k \in 1..(cursor - 1) |-> Meant(calls[k].name)]

Naming ==
  /\ NamesOf(map) /\ (session => NamesOf(store))
  /\ Elements(declared) \subseteq names
  /\ phase = "tools" => cursor <= Len(declared) + 1 /\ Remembered(cursor - 1)
  /\ phase \in {"fitting", "upstream", "response"} => Remembered(Len(declared))
  /\ phase # "response" => reply = <<>>
  /\ phase = "response" /\ Callable => Arrived

\* The map gives a declared tool back its name, where names are unambiguous.
LEMMA NameComesBack ==
  ASSUME TypeOK, Naming, Remembered(Len(declared)), Unambiguous, NEW t \in Elements(declared)
  PROVE  map.originals[Sanitized[t]] = t /\ Meant(Sanitized[t]) = t
  <1>1. /\ Elements(declared) \subseteq Names /\ DOMAIN declared = 1..Len(declared)
        /\ Elements(declared) \subseteq names /\ NamesOf(map)
    BY ElementsType, LenProperties DEF TypeOK, RequestType, Naming
  <1>2. Sanitized[t] \in Names /\ t \in names
    BY <1>1, DialogueAssumption
  <1>3. \A s \in names : Sanitized[s] = Sanitized[t] => s = t
    BY <1>2 DEF Unambiguous
  <1>4. map.originals[Sanitized[t]] = t
    <2>1. \/ map.originals[Sanitized[t]] = Sanitized[t]
          \/ /\ map.originals[Sanitized[t]] \in names
             /\ Sanitized[map.originals[Sanitized[t]]] = Sanitized[t]
      BY <1>1, <1>2 DEF NamesOf
    <2>2. PICK i \in DOMAIN declared : declared[i] = t
      BY DEF Elements
    <2>3. Sanitized[t] # t => map.originals[Sanitized[t]] # Sanitized[t]
      BY <1>1, <2>2 DEF Remembered
    <2> QED
      BY <1>3, <2>1, <2>3
  <1>5. Meant(Sanitized[t]) = t
    <2>1. \A s \in Elements(declared) : Sanitized[s] = Sanitized[t] => s = t
      BY <1>1, <1>3
    <2> QED
      BY <2>1 DEF Meant
  <1> QED
    BY <1>4, <1>5

\* Most of the time no name changes and no answer is translated.
LEMMA NamesUntouched ==
  ASSUME Naming, UNCHANGED <<session, store, declared, names, reply>>,
         map'.originals = map.originals, phase # "response", phase' # "response",
         phase' = "tools" => cursor' = 1,
         phase' \in {"fitting", "upstream"} => phase \in {"fitting", "upstream"},
         Len(declared) \in Nat
  PROVE  Naming'
  <1>1. NamesOf(map)' /\ (session => NamesOf(store))' /\ (Elements(declared) \subseteq names)'
    BY DEF Naming, NamesOf, Elements
  <1>2. phase' = "tools" => cursor' <= Len(declared') + 1 /\ Remembered(cursor - 1)'
    BY DEF Remembered
  <1>3. phase' \in {"fitting", "upstream", "response"} => Remembered(Len(declared))'
    BY DEF Naming, Remembered
  <1> QED
    BY <1>1, <1>2, <1>3 DEF Naming

\* The map of a request calls a name what the session's does, or itself.
LEMMA NamesAsk ==
  ASSUME TypeOK, Naming, NEW d \in Declarations, NEW m \in Asked, NEW s \in BOOLEAN, Ask(d, m, s)
  PROVE  Naming'
  <1>1. /\ phase = "client" /\ phase' = "messages" /\ UNCHANGED <<session, store, reply>>
        /\ declared' = d /\ map' = (IF session THEN store ELSE EmptyToolIdMap)
        /\ names' = Elements(d) \cup (IF session THEN names ELSE {})
    BY DEF Ask, conversation
  <1>2. \A n \in Names : EmptyToolIdMap.originals[n] = n
    BY DEF EmptyToolIdMap
  <1>3. session => NamesOf(store)'
    BY <1>1 DEF Naming, NamesOf
  <1>4. NamesOf(map)'
    BY <1>1, <1>2, <1>3 DEF NamesOf
  <1>5. (Elements(declared) \subseteq names)'
    BY <1>1 DEF Elements
  <1> QED
    BY <1>1, <1>3, <1>4, <1>5 DEF Naming

\* Registering ids and translating calls leave the names alone.
LEMMA OriginalsStay ==
  /\ \A ids : Registered(map, ids).originals = map.originals
  /\ \A a, o : [map EXCEPT !.aToO[a] = o, !.oToA[o] = a].originals = map.originals
  BY DEF Registered

\* The rename of a declaration is remembered.
LEMMA NamesMapTool ==
  ASSUME TypeOK, Naming, MapTool
  PROVE  Naming'
  <1> DEFINE name == declared[cursor]
  <1>1. /\ phase = "tools" /\ phase' = "tools" /\ cursor' = cursor + 1 /\ cursor \in DOMAIN declared
        /\ map' = Renamed(map, name)
        /\ UNCHANGED <<session, store, declared, names, reply>>
    BY DEF MapTool, conversation, request, ghosts
  <1>2. /\ DOMAIN declared = 1..Len(declared) /\ Len(declared) \in Nat /\ name \in Names /\ name \in names
        /\ \A i \in DOMAIN declared : declared[i] \in Names
        /\ cursor \in Nat
    BY <1>1, LenProperties, ElementOfSeq DEF TypeOK, RequestType, Naming, Elements
  <1>3. map.originals \in [Names -> Names]
    BY DEF TypeOK, RequestType, ToolIdMap
  <1>4. /\ Sanitized[name] \in Names
        /\ \A n \in Names : map'.originals[n] =
             IF n = Sanitized[name] /\ Sanitized[name] # name THEN name ELSE map.originals[n]
    <2>1. Sanitized[name] \in Names
      BY <1>2, DialogueAssumption
    <2>2. CASE Sanitized[name] = name
      BY <1>1, <2>1, <2>2 DEF Renamed
    <2>3. CASE Sanitized[name] # name
      <3>1. map' = [map EXCEPT !.originals[Sanitized[name]] = name]
        BY <1>1, <2>3 DEF Renamed
      <3> QED
        BY <1>3, <2>1, <2>3, <3>1 DEF TypeOK, RequestType, ToolIdMap
    <2> QED
      BY <2>1, <2>2, <2>3
  <1>5. NamesOf(map)' /\ (session => NamesOf(store))' /\ (Elements(declared) \subseteq names)'
    <2>1. NamesOf(map)'
      BY <1>1, <1>2, <1>4 DEF Naming, NamesOf
    <2> QED
      BY <1>1, <2>1 DEF Naming, NamesOf, Elements
  <1>6. Remembered(cursor - 1)'
    <2>1. Remembered(cursor - 1)
      BY <1>1 DEF Naming
    <2> SUFFICES ASSUME NEW i \in 1..cursor, Sanitized[declared[i]] # declared[i]
                 PROVE  map'.originals[Sanitized[declared[i]]] # Sanitized[declared[i]]
      BY <1>1, <1>2 DEF Remembered
    <2>2. declared[i] \in Names /\ Sanitized[declared[i]] \in Names
      BY <1>1, <1>2, DialogueAssumption, SMTT(30)
    <2>3. CASE i = cursor
      BY <1>4, <2>2, <2>3
    <2>4. CASE i # cursor
      <3>1. i \in 1..(cursor - 1)
        BY <1>2, <2>4
      <3>2. map.originals[Sanitized[declared[i]]] # Sanitized[declared[i]]
        BY <2>1, <3>1 DEF Remembered
      <3> QED
        BY <1>4, <2>2, <3>2
    <2> QED
      BY <2>3, <2>4
  <1>7. cursor' <= Len(declared') + 1
    BY <1>1, <1>2
  <1> QED
    BY <1>1, <1>5, <1>6, <1>7 DEF Naming

\* A call of a declared tool with good arguments is translated.
LEMMA NamesNextCall ==
  ASSUME TypeOK, TypeOK', Naming, NextCall
  PROVE  Naming'
  <1>1. /\ phase = "response" /\ phase' = "response" /\ cursor' = cursor + 1 /\ cursor \in DOMAIN calls
        /\ UNCHANGED <<session, store, declared, names, calls, stream>>
    BY DEF NextCall, conversation, request
  <1>2. map'.originals = map.originals
    BY OriginalsStay DEF NextCall, TranslateCall, SkipCall
  <1>3. NamesOf(map)' /\ (session => NamesOf(store))' /\ (Elements(declared) \subseteq names)'
    BY <1>1, <1>2 DEF Naming, NamesOf, Elements
  <1>4. Remembered(Len(declared)) /\ Remembered(Len(declared))'
    BY <1>1, <1>2 DEF Naming, Remembered
  <1>5. ASSUME Callable'
        PROVE  Arrived'
    <2> DEFINE c == calls[cursor]
    <2>1. Callable /\ Arrived
      BY <1>1, <1>5 DEF Callable, Unambiguous, Elements, Naming
    <2>2. PICK t \in Elements(declared) : Sanitized[t] = c.name
      BY <1>1, <2>1 DEF Callable
    <2>3. map.originals[c.name] = Meant(c.name)
      BY <1>4, <2>1, <2>2, NameComesBack DEF Callable
    <2>4. Translated(c) /\ Emitted(c)
      BY <1>1, <2>1, <2>2 DEF Translated, Emitted, IsDeclared, Callable
    <2>5. \E a : reply' = Append(reply, [id |-> a, name |-> map.originals[c.name]])
      BY <2>4 DEF NextCall, TranslateCall, SkipCall
    <2>6. /\ cursor \in Nat /\ cursor >= 1 /\ DOMAIN reply = 1..Len(reply) /\ Len(reply) \in Nat
          /\ reply \in Seq(Use)
      BY LenProperties DEF TypeOK, RequestType, AnswerType
    <2>7. /\ DOMAIN reply = 1..(cursor - 1)
          /\ \A k \in 1..(cursor - 1) : reply[k].name = Meant(calls[k].name)
      BY <2>1, <2>6 DEF Arrived
    <2>8. Len(reply) = cursor - 1
      BY <2>6, <2>7
    <2>9. /\ DOMAIN reply' = 1..cursor
          /\ \A k \in 1..(cursor - 1) : reply'[k] = reply[k]
          /\ reply'[cursor].name = Meant(c.name)
      BY <2>3, <2>5, <2>6, <2>8
    <2>10. \A k \in 1..cursor : reply'[k].name = Meant(calls[k].name)
      BY <2>6, <2>7, <2>9
    <2>11. \A k : Meant(calls[k].name)' = Meant(calls[k].name)
      BY <1>1 DEF Meant, Elements
    <2>12. cursor' - 1 = cursor
      BY <1>1, <2>6
    <2> QED
      BY <2>9, <2>10, <2>11, <2>12 DEF Arrived
  <1> QED
    BY <1>1, <1>3, <1>4, <1>5 DEF Naming

\* A message is translated, and no name is touched.
LEMMA NamesTranslateMessage ==
  ASSUME TypeOK, Naming, TranslateMessage
  PROVE  Naming'
  <1>1. /\ phase = "messages" /\ phase' = "messages"
        /\ UNCHANGED <<session, store, declared, names, reply>>
    BY DEF TranslateMessage, conversation, request, ghosts
  <1>2. map'.originals = map.originals
    BY OriginalsStay DEF TranslateMessage, TranslateAssistant, TranslateUser
  <1>3. Len(declared) \in Nat
    BY LenProperties DEF TypeOK, RequestType
  <1> QED
    BY <1>1, <1>2, <1>3, NamesUntouched

\* All the renames are known where the loop over the tools ends.
LEMMA NamesToolsDone ==
  ASSUME TypeOK, Naming, ToolsDone
  PROVE  Naming'
  <1>1. /\ phase = "tools" /\ phase' = "fitting" /\ cursor \notin DOMAIN declared
        /\ UNCHANGED <<session, store, declared, names, reply, map>>
    BY DEF ToolsDone, conversation, request, ghosts
  <1>2. cursor - 1 = Len(declared)
    <2>1. DOMAIN declared = 1..Len(declared) /\ Len(declared) \in Nat /\ cursor \in Nat /\ cursor >= 1
      BY LenProperties DEF TypeOK, RequestType
    <2> QED
      BY <1>1, <2>1 DEF Naming
  <1>3. Remembered(Len(declared))'
    BY <1>1, <1>2 DEF Naming, Remembered
  <1> QED
    BY <1>1, <1>3 DEF Naming, NamesOf, Elements

\* The upstream answers, and no call is translated yet.
LEMMA NamesRespond ==
  ASSUME TypeOK, Naming, NEW n \in 0..MaxCalls, Respond(n)
  PROVE  Naming'
  <1>1. /\ phase = "upstream" /\ phase' = "response" /\ cursor' = 1
        /\ UNCHANGED <<session, store, declared, names, reply, map>>
    BY DEF Respond, conversation, request, ghosts
  <1>2. reply' = <<>>
    BY <1>1 DEF Naming
  <1>3. Arrived'
    <2>1. DOMAIN reply' = {} /\ 1..(cursor' - 1) = {}
      BY <1>1, <1>2
    <2> QED
      BY <2>1 DEF Arrived
  <1> QED
    BY <1>1, <1>3 DEF Naming, NamesOf, Elements, Remembered

\* What a request learned of names stays in the session, or is forgotten.
LEMMA NamesEnd ==
  ASSUME TypeOK, Naming, UpstreamFails \/ Finish
  PROVE  Naming'
  <1>1. /\ phase' \in {"client", "reading"} /\ declared' = <<>> /\ reply' = <<>>
        /\ map' = EmptyToolIdMap /\ store' \in {store, map} /\ (~session => store' = store)
        /\ UNCHANGED <<session, names>>
    BY DEF UpstreamFails, Finish, Idle, conversation, ghosts
  <1>2. NamesOf(map)'
    BY <1>1 DEF NamesOf, EmptyToolIdMap
  <1>3. (session => NamesOf(store))'
    BY <1>1 DEF Naming, NamesOf
  <1>4. (Elements(declared) \subseteq names)'
    BY <1>1 DEF Elements
  <1> QED
    BY <1>1, <1>2, <1>3, <1>4 DEF Naming

\* The rest of the dialogue touches no name.
LEMMA NamesElsewhere ==
  ASSUME TypeOK, Naming,
         \/ MessagesDone \/ DropMessage \/ SimplifyTools \/ DropTool \/ Overflow \/ Send
         \/ \E text \in BOOLEAN : Continue(text)
  PROVE  Naming'
  <1>1. /\ phase # "response" /\ phase' # "response"
        /\ phase' = "tools" => cursor' = 1
        /\ phase' \in {"fitting", "upstream"} => phase \in {"fitting", "upstream"}
        /\ UNCHANGED <<session, store, declared, names, reply, map>>
    BY DEF MessagesDone, DropMessage, SimplifyTools, DropTool, Overflow, Send, Continue,
           conversation, work, request, ghosts
  <1>2. Len(declared) \in Nat
    BY LenProperties DEF TypeOK, RequestType
  <1> QED
    BY <1>1, <1>2, NamesUntouched

\* Whatever the tools, the names they are sanitised to and the length of the
\* conversation: where no two tools declared while one ToolIdMap lived are
\* sanitised to one name, the calls of declared tools reach the client in
\* their places and under the names the client gave (translate_response,
\* ToolIdMap.original_tool_name).
THEOREM CallsAlwaysArrive == Spec => []CallsArrive
  <1>1. Init => Naming
    <2> SUFFICES ASSUME Init
                 PROVE  Naming
      OBVIOUS
    <2>1. /\ map = EmptyToolIdMap /\ store = EmptyToolIdMap /\ declared = <<>> /\ reply = <<>>
          /\ phase = "client"
      BY DEF Init
    <2>2. NamesOf(map) /\ NamesOf(store) /\ Elements(declared) = {}
      BY <2>1 DEF NamesOf, EmptyToolIdMap, Elements
    <2> QED
      BY <2>1, <2>2 DEF Naming
  <1>2. TypeOK /\ TypeOK' /\ Naming /\ [Next]_vars => Naming'
    <2> SUFFICES ASSUME TypeOK, TypeOK', Naming, [Next]_vars
                 PROVE  Naming'
      OBVIOUS
    <2>1. CASE \E d \in Declarations, m \in Asked, s \in BOOLEAN : Ask(d, m, s)
      BY <2>1, NamesAsk
    <2>2. CASE TranslateMessage \/ MapTool \/ ToolsDone
      BY <2>2, NamesTranslateMessage, NamesMapTool, NamesToolsDone
    <2>3. CASE \E n \in 0..MaxCalls : Respond(n)
      BY <2>3, NamesRespond
    <2>4. CASE NextCall \/ UpstreamFails \/ Finish
      BY <2>4, NamesNextCall, NamesEnd
    <2>5. CASE \/ MessagesDone \/ DropMessage \/ SimplifyTools \/ DropTool \/ Overflow \/ Send
               \/ \E text \in BOOLEAN : Continue(text)
      BY <2>5, NamesElsewhere
    <2>6. CASE UNCHANGED vars
      <3>1. UNCHANGED <<session, store, phase, cursor, map, declared, stream, calls, reply, names>>
        BY <2>6 DEF vars, work, request, conversation, ghosts
      <3>2. /\ NamesOf(map)' = NamesOf(map) /\ NamesOf(store)' = NamesOf(store)
            /\ Elements(declared)' = Elements(declared)
            /\ Remembered(cursor - 1)' = Remembered(cursor - 1)
            /\ Remembered(Len(declared))' = Remembered(Len(declared))
        BY <3>1 DEF NamesOf, Elements, Remembered
      <3>3. Callable' = Callable
        BY <3>1, <3>2 DEF Callable, Unambiguous
      <3>4. Arrived' = Arrived
        BY <3>1, <3>2 DEF Arrived, Meant
      <3> QED
        BY <3>1, <3>2, <3>3, <3>4 DEF Naming
    <2> QED
      BY <2>1, <2>2, <2>3, <2>4, <2>5, <2>6 DEF Next, Quiet
  <1>3. Naming => CallsArrive
    BY DEF Naming, CallsArrive, Callable, Arrived
  <1> QED
    BY <1>1, <1>2, <1>3, TypeCorrect, PTL DEF Spec
-----------------------------------------------------------------------------
(***************************************************************************)
(* The order of results.  The message of the client that is translated     *)
(* answers the calls of the message before it, whose ids were registered   *)
(* in the order of the calls: sorting the results gives them the places of *)
(* their calls, behind the message just translated.                        *)
(***************************************************************************)
IdsOf(uses) == [u \in DOMAIN uses |-> uses[u].id]

\* The client answers, message by message, the calls of the message before.
Alternating ==
  /\ history[1].results = <<>>
  /\ phase = "reading" => history[Len(history)].role = "assistant"
  /\ \A i \in DOMAIN history :
       /\ Len(history[i].calls) <= MaxCalls
       /\ history[i].role = "user" => history[i].calls = <<>>
       /\ history[i].role = "user" /\ i > 1 =>
            /\ history[i - 1].role = "assistant"
            /\ history[i].results \in Reorderings(IdsOf(history[i - 1].calls))

\* An answer is no longer than the calls it has translated.
Answering ==
  /\ phase # "response" => reply = <<>>
  /\ phase = "response" => Len(calls) <= MaxCalls /\ cursor <= Len(calls) + 1 /\ Len(reply) < cursor

\* Each tool message follows the call it answers; strict: at its place.
FollowsIn(msgs, strict) ==
  \A i \in DOMAIN msgs : msgs[i].role = "tool" =>
    \E j \in 1..(i - 1) :
      /\ msgs[j].role = "assistant"
      /\ \A k \in (j + 1)..i : msgs[k].role = "tool"
      /\ \E u \in DOMAIN msgs[j].calls :
           msgs[j].calls[u].id = msgs[i].id /\ (strict => u = i - j)

\* The calls of message i are registered under their own ids, and in order.
CallsRegistered(i) ==
  \A u \in DOMAIN history[i].calls :
    /\ map.aToO[history[i].calls[u].id] = history[i].calls[u].id
    /\ map.oToA[history[i].calls[u].id] = history[i].calls[u].id
    /\ ~reused => \A v \in DOMAIN history[i].calls :
         u < v => IsBefore(history[i].calls[u].id, history[i].calls[v].id)

Registering ==
  /\ cursor <= Len(history) + 1
  /\ \A i \in 1..(cursor - 1) : CallsRegistered(i)
  /\ \A k \in DOMAIN callOrder :
       \E i \in 1..(cursor - 1) : \E u \in DOMAIN history[i].calls :
         callOrder[k] = history[i].calls[u].id
  /\ cursor > 1 /\ history[cursor - 1].role = "assistant" =>
       messages # <<>> /\ messages[Len(messages)] = Assistant(history[cursor - 1].calls)

Following ==
  /\ Alternating /\ Answering
  /\ phase = "messages" => Registering
  /\ phase \in {"messages", "tools"} => FollowsIn(messages, ~reused)
  /\ FollowsIn(full, ~reused)

\* A set of natural numbers that is not empty has a least element.
LEMMA Least ==
  ASSUME NEW T, T \subseteq Nat, T # {}
  PROVE  \E x \in T : \A y \in T : x <= y
  <1> DEFINE R == {p \in Nat \X Nat : p[1] < p[2]}
  <1>1. IsWellFoundedOn(R, Nat)
    BY NatLessThanWellFounded DEF OpToRel
  <1>2. \A x, y \in T : ~ (<<y, x>> \in R) => x <= y
    OBVIOUS
  <1> HIDE DEF R
  <1>3. \E x \in T : \A y \in T : ~ (<<y, x>> \in R)
    BY <1>1, WFMin
  <1> QED
    BY <1>2, <1>3

\* The only way to reorder places and keep their order is to keep them: the
\* least place sent lower, or the last one sent higher, would have nowhere to go.
LEMMA OrderKeepsPlaces ==
  ASSUME NEW n \in Nat, NEW p \in [1..n -> 1..n],
         \A i, j \in 1..n : i < j => p[i] < p[j]
  PROVE  \A i \in 1..n : p[i] = i
  <1>1. \A i \in 1..n : p[i] >= i
    <2> DEFINE T == {i \in 1..n : p[i] < i}
    <2> SUFFICES ASSUME T # {}
                 PROVE  FALSE
      OBVIOUS
    <2>1. T \subseteq Nat
      OBVIOUS
    <2>2. PICK i \in T : \A j \in T : i <= j
      <3> HIDE DEF T
      <3> QED
        BY <2>1, Least
    <2>3. i \in 1..n /\ p[i] \in 1..n /\ p[i] < i
      OBVIOUS
    <2>4. p[p[i]] < p[i]
      BY <2>3
    <2>5. p[i] \in T
      BY <2>3, <2>4
    <2>6. i <= p[i]
      BY <2>2, <2>5
    <2> QED
      BY <2>3, <2>6
  <1>2. \A i \in 1..n : p[i] <= i
    <2> DEFINE T == {k \in 0..n : k < n /\ p[n - k] > n - k}
    <2> SUFFICES ASSUME NEW i \in 1..n, p[i] > i
                 PROVE  FALSE
      OBVIOUS
    <2>1. n - i \in T
      <3>1. n - i \in 0..n /\ n - i < n /\ n - (n - i) = i
        OBVIOUS
      <3> QED
        BY <3>1
    <2>2. T \subseteq Nat
      OBVIOUS
    <2>3. PICK k \in T : \A l \in T : k <= l
      <3> HIDE DEF T
      <3> QED
        BY <2>1, <2>2, Least
    <2>4. k \in 0..n /\ k < n /\ n - k \in 1..n /\ p[n - k] \in 1..n /\ p[n - k] > n - k
      BY <2>3
    <2>5. p[p[n - k]] > p[n - k]
      BY <2>4
    <2>6. n - p[n - k] \in T
      <3>1. /\ n - p[n - k] \in 0..n /\ n - p[n - k] < n
            /\ n - (n - p[n - k]) = p[n - k]
        BY <2>4, SMTT(30)
      <3> QED
        BY <2>5, <3>1
    <2>7. k <= n - p[n - k]
      BY <2>3, <2>6
    <2> QED
      BY <2>4, <2>7
  <1> QED
    BY <1>1, <1>2

\* s is made of the elements of ids at the places q.
PlacedBy(s, ids, q) ==
  /\ q \in [1..Len(ids) -> 1..Len(ids)]
  /\ \A i, j \in 1..Len(ids) : q[i] = q[j] => i = j
  /\ s = [i \in 1..Len(ids) |-> ids[q[i]]]

\* A reordering of a sequence, and a reordering of that.
LEMMA ReorderedTwice ==
  ASSUME NEW S, NEW ids \in Seq(S), NEW r \in Reorderings(ids), NEW s \in Reorderings(r)
  PROVE  \E q : PlacedBy(s, ids, q)
  <1>1. DOMAIN ids = 1..Len(ids)
    BY LenProperties
  <1>2. PICK p \in [1..Len(ids) -> 1..Len(ids)] :
          /\ r = [i \in 1..Len(ids) |-> ids[p[i]]]
          /\ \A i, j \in 1..Len(ids) : p[i] = p[j] => i = j
    BY <1>1 DEF Reorderings
  <1>3. DOMAIN r = 1..Len(ids)
    BY <1>2
  <1>4. PICK o \in [1..Len(ids) -> 1..Len(ids)] :
          /\ s = [i \in 1..Len(ids) |-> r[o[i]]]
          /\ \A i, j \in 1..Len(ids) : o[i] = o[j] => i = j
    BY <1>3 DEF Reorderings
  <1> DEFINE q == [i \in 1..Len(ids) |-> p[o[i]]]
  <1>5. /\ q \in [1..Len(ids) -> 1..Len(ids)]
        /\ \A i, j \in 1..Len(ids) : q[i] = q[j] => i = j
        /\ s = [i \in 1..Len(ids) |-> ids[q[i]]]
    BY <1>2, <1>4
  <1> QED
    BY <1>5 DEF PlacedBy

\* Tool messages that follow the calls they answer, and others after them.
LEMMA FollowsOn ==
  ASSUME NEW msgs \in Seq(UpstreamMessage), NEW strict \in BOOLEAN, FollowsIn(msgs, strict),
         NEW r \in Seq(UpstreamMessage), NEW t \in Seq(UpstreamMessage),
         \A k \in DOMAIN t : t[k].role # "tool",
         r # <<>> => /\ msgs # <<>> /\ msgs[Len(msgs)].role = "assistant"
                     /\ \A k \in DOMAIN r :
                          /\ r[k].role = "tool"
                          /\ \E u \in DOMAIN msgs[Len(msgs)].calls :
                               /\ msgs[Len(msgs)].calls[u].id = r[k].id
                               /\ strict => u = k
  PROVE  FollowsIn(msgs \o r \o t, strict)
  <1> DEFINE n == Len(msgs)
             all == msgs \o r \o t
  <1>1. /\ n \in Nat /\ Len(r) \in Nat /\ Len(t) \in Nat
        /\ DOMAIN msgs = 1..n /\ DOMAIN r = 1..Len(r) /\ DOMAIN t = 1..Len(t)
    BY LenProperties
  <1>2. /\ DOMAIN all = 1..(n + Len(r) + Len(t))
        /\ \A i \in 1..n : all[i] = msgs[i]
        /\ \A k \in 1..Len(r) : all[n + k] = r[k]
        /\ \A k \in 1..Len(t) : all[n + Len(r) + k] = t[k]
    OBVIOUS
  <1> HIDE DEF n, all
  <1> SUFFICES ASSUME NEW i \in DOMAIN all, all[i].role = "tool"
               PROVE  \E j \in 1..(i - 1) :
                        /\ all[j].role = "assistant"
                        /\ \A k \in (j + 1)..i : all[k].role = "tool"
                        /\ \E u \in DOMAIN all[j].calls :
                             all[j].calls[u].id = all[i].id /\ (strict => u = i - j)
    BY DEF FollowsIn, all
  <1>3. CASE i \in 1..n
    <2>1. PICK j \in 1..(i - 1) :
            /\ msgs[j].role = "assistant"
            /\ \A k \in (j + 1)..i : msgs[k].role = "tool"
            /\ \E u \in DOMAIN msgs[j].calls :
                 msgs[j].calls[u].id = msgs[i].id /\ (strict => u = i - j)
      <3>1. i \in DOMAIN msgs /\ msgs[i].role = "tool"
        BY <1>1, <1>2, <1>3
      <3> QED
        BY <3>1 DEF FollowsIn
    <2>2. j \in 1..n /\ \A k \in (j + 1)..i : k \in 1..n
      BY <1>1, <1>3
    <2> QED
      BY <1>2, <1>3, <2>1, <2>2, SMTT(30)
  <1>4. CASE \E k \in 1..Len(r) : i = n + k
    <2>1. PICK k \in 1..Len(r) : i = n + k
      BY <1>4
    <2>2. n >= 1 /\ n \in 1..n /\ msgs[n].role = "assistant" /\ r # <<>>
      BY <1>1, <2>1 DEF n
    <2>3. PICK u \in DOMAIN msgs[n].calls : msgs[n].calls[u].id = r[k].id /\ (strict => u = k)
      BY <1>1, <2>1, <2>2 DEF n
    <2>4. all[n] = msgs[n] /\ all[i] = r[k] /\ n \in 1..(i - 1) /\ i - n = k
      BY <1>1, <1>2, <2>1, <2>2
    <2>5. \A l \in (n + 1)..i : all[l].role = "tool"
      <3> SUFFICES ASSUME NEW l \in (n + 1)..i
                   PROVE  all[l].role = "tool"
        OBVIOUS
      <3>1. l - n \in 1..Len(r) /\ l = n + (l - n)
        BY <1>1, <2>1
      <3> QED
        BY <1>1, <1>2, <2>2, <3>1 DEF n
    <2> QED
      BY <2>2, <2>3, <2>4, <2>5
  <1>5. CASE \E k \in 1..Len(t) : i = n + Len(r) + k
    <2>1. PICK k \in 1..Len(t) : i = n + Len(r) + k
      BY <1>5
    <2>2. all[i] = t[k] /\ t[k].role # "tool"
      BY <1>1, <1>2, <2>1
    <2> QED
      BY <2>2
  <1>6. \/ i \in 1..n
        \/ \E k \in 1..Len(r) : i = n + k
        \/ \E k \in 1..Len(t) : i = n + Len(r) + k
    <2>1. i \in 1..(n + Len(r) + Len(t))
      BY <1>2
    <2>2. i > n => i = n + (i - n)
      BY <1>1, <2>1
    <2>3. i > n + Len(r) => i = n + Len(r) + (i - (n + Len(r)))
      BY <1>1, <2>1
    <2> QED
      BY <1>1, <2>1, <2>2, <2>3
  <1> QED
    BY <1>3, <1>4, <1>5, <1>6

\* The ids the client has seen are those of different calls.
LEMMA UsesDiffer ==
  ASSUME TypeOK, Alternating, IdsDistinct, ~reused,
         NEW i \in DOMAIN history, NEW u \in DOMAIN history[i].calls,
         NEW j \in DOMAIN history, NEW v \in DOMAIN history[j].calls,
         history[i].calls[u].id = history[j].calls[v].id
  PROVE  i = j /\ u = v
  <1>1. \A k \in DOMAIN history :
          /\ history[k].calls \in Seq(Use) /\ Len(history[k].calls) <= MaxCalls
    <2>1. history \in Seq(ClientMessage)
      BY DEF TypeOK, ConversationType
    <2> QED
      BY <2>1, LenProperties, ElementOfSeq, MessageTypes DEF Alternating
  <1>2. \A k \in DOMAIN history : \A w \in DOMAIN history[k].calls : w \in 1..MaxCalls
    <2> SUFFICES ASSUME NEW k \in DOMAIN history, NEW w \in DOMAIN history[k].calls
                 PROVE  w \in 1..MaxCalls
      OBVIOUS
    <2>1. w \in 1..Len(history[k].calls) /\ Len(history[k].calls) \in Nat
      BY <1>1, LenProperties
    <2> QED
      BY <1>1, <2>1, DialogueAssumption
  <1>3. <<i, u>> \in Uses /\ <<j, v>> \in Uses
    BY <1>2 DEF Uses
  <1>4. \A p, q \in Uses : history[p[1]].calls[p[2]].id = history[q[1]].calls[q[2]].id => p = q
    BY DEF IdsDistinct
  <1> QED
    BY <1>3, <1>4

\* The tool messages of the message at the cursor, and their places.
LEMMA ResultsInPlace ==
  ASSUME TypeOK, Alternating, Registering, cursor \in DOMAIN history, history[cursor].role = "user",
         NEW s \in Sorted(history[cursor].results), s # <<>>
  PROVE  /\ cursor > 1 /\ cursor - 1 \in DOMAIN history /\ history[cursor - 1].role = "assistant"
         /\ \A k \in DOMAIN s : \E u \in DOMAIN history[cursor - 1].calls :
              /\ history[cursor - 1].calls[u].id = AnthropicToOpenai(s[k])
              /\ ~reused => u = k
  <1> DEFINE uses == history[cursor - 1].calls
             ids == IdsOf(uses)
             n == Len(ids)
  <1>1. s \in Reorderings(history[cursor].results)
    BY DEF Sorted
  <1>2. DOMAIN history = 1..Len(history) /\ Len(history) \in Nat /\ cursor \in Nat
    BY LenProperties DEF TypeOK, ConversationType, RequestType
  <1>3. cursor > 1
    <2> SUFFICES ASSUME cursor = 1
                 PROVE  s = <<>>
      BY <1>2
    <2>1. s \in Reorderings(<<>>)
      BY <1>1 DEF Alternating
    <2> QED
      BY <2>1 DEF Reorderings
  <1>4. /\ cursor - 1 \in DOMAIN history /\ cursor - 1 \in 1..(cursor - 1)
        /\ history[cursor - 1].role = "assistant"
        /\ history[cursor].results \in Reorderings(ids)
    BY <1>2, <1>3 DEF Alternating
  <1>5. uses \in Seq(Use) /\ DOMAIN uses = 1..Len(uses) /\ Len(uses) \in Nat
    <2>1. history \in Seq(ClientMessage)
      BY DEF TypeOK, ConversationType
    <2>2. history[cursor - 1] \in ClientMessage
      BY <1>4, <2>1, ElementOfSeq, LenProperties
    <2> QED
      BY <2>2, MessageTypes, LenProperties
  <1>6. /\ ids \in Seq(AnthropicIds) /\ n = Len(uses)
        /\ \A u \in 1..n : ids[u] = uses[u].id
    <2>1. ids \in Seq(AnthropicIds)
      BY <1>5, CallIdsType DEF IdsOf
    <2>2. DOMAIN ids = 1..Len(uses) /\ \A u \in 1..Len(uses) : ids[u] = uses[u].id
      BY <1>5 DEF IdsOf
    <2>3. n = Len(uses)
      <3> HIDE DEF ids, uses
      <3> QED
        BY <1>5, <2>1, <2>2, LenProperties
    <2> QED
      BY <2>1, <2>2, <2>3
  <1>7. PICK q : PlacedBy(s, ids, q)
    <2> HIDE DEF ids
    <2> QED
      BY <1>1, <1>4, <1>6, ReorderedTwice
  <1>8. \A u \in 1..n :
          /\ map.aToO[ids[u]] = ids[u] /\ map.oToA[ids[u]] = ids[u]
          /\ ~reused => \A v \in 1..n : u < v => IsBefore(ids[u], ids[v])
    <2>1. CallsRegistered(cursor - 1)
      BY <1>4 DEF Registering
    <2> QED
      BY <1>5, <1>6, <2>1, ZenonT(40) DEF CallsRegistered
  <1>9. /\ DOMAIN s = 1..n
        /\ \A k \in 1..n : q[k] \in 1..n /\ s[k] = ids[q[k]] /\ AnthropicToOpenai(s[k]) = s[k]
    BY <1>7, <1>8 DEF AnthropicToOpenai, PlacedBy
  <1>10. ~reused => \A k \in 1..n : q[k] = k
    <2> SUFFICES ASSUME ~reused
                 PROVE  \A k \in 1..n : q[k] = k
      OBVIOUS
    <2>1. \A i, j \in 1..n : i < j => q[i] < q[j]
      <3> SUFFICES ASSUME NEW i \in 1..n, NEW j \in 1..n, i < j, ~(q[i] < q[j])
                   PROVE  FALSE
        OBVIOUS
      <3>1. q[i] \in 1..n /\ q[j] \in 1..n /\ q[i] # q[j]
        BY <1>7 DEF PlacedBy
      <3>2. q[j] < q[i]
        BY <3>1
      <3>3. IsBefore(s[j], s[i])
        BY <1>8, <1>9, <3>1, <3>2
      <3>4. ~IsBefore(map.oToA[AnthropicToOpenai(s[j])], map.oToA[AnthropicToOpenai(s[i])])
        BY <1>9 DEF Sorted
      <3>5. map.oToA[AnthropicToOpenai(s[j])] = s[j] /\ map.oToA[AnthropicToOpenai(s[i])] = s[i]
        BY <1>8, <1>9, <3>1
      <3> QED
        BY <3>3, <3>4, <3>5
    <2>2. n \in Nat /\ q \in [1..n -> 1..n]
      BY <1>5, <1>6, <1>7 DEF PlacedBy
    <2> HIDE DEF n
    <2> QED
      BY <2>1, <2>2, OrderKeepsPlaces
  <1>11. \A k \in DOMAIN s : \E u \in DOMAIN uses :
           uses[u].id = AnthropicToOpenai(s[k]) /\ (~reused => u = k)
    <2> SUFFICES ASSUME NEW k \in 1..n
                 PROVE  \E u \in DOMAIN uses :
                          uses[u].id = AnthropicToOpenai(s[k]) /\ (~reused => u = k)
      BY <1>9
    <2>1. q[k] \in DOMAIN uses /\ uses[q[k]].id = AnthropicToOpenai(s[k])
      BY <1>5, <1>6, <1>9
    <2> QED
      BY <1>10, <2>1
  <1> QED
    BY <1>3, <1>4, <1>11

\* The results of a message of the client follow their calls.
LEMMA FollowsTranslateUser ==
  ASSUME TypeOK, Following, TranslateMessage, TranslateUser
  PROVE  Following'
  <1>1. /\ phase = "messages" /\ phase' = "messages" /\ cursor \in DOMAIN history /\ cursor' = cursor + 1
        /\ history[cursor].role = "user"
        /\ UNCHANGED <<history, map, callOrder, full, reused, reply, calls>>
    BY DEF TranslateMessage, TranslateUser, conversation, ghosts
  <1>2. /\ Alternating /\ Registering /\ FollowsIn(messages, ~reused) /\ FollowsIn(full, ~reused)
        /\ reply = <<>>
    BY <1>1 DEF Following, Answering
  <1>3. DOMAIN history = 1..Len(history) /\ Len(history) \in Nat /\ cursor \in Nat /\ cursor >= 1
    BY LenProperties DEF TypeOK, ConversationType, RequestType
  <1> DEFINE Results(s) == [i \in DOMAIN s |-> Tool(AnthropicToOpenai(s[i]))]
             Text == IF history[cursor].text THEN <<Plain("user")>> ELSE <<>>
  <1>4. PICK s \in Sorted(history[cursor].results) : messages' = messages \o Results(s) \o Text
    BY DEF TranslateUser
  <1>5. FollowsIn(messages', ~reused)
    <2>1. s \in Seq(AnthropicIds)
      <3>1. history[cursor] \in ClientMessage
        <4>1. history \in Seq(ClientMessage)
          BY DEF TypeOK, ConversationType
        <4> QED
          BY <1>1, <4>1, LenProperties, ElementOfSeq
      <3> QED
        BY <3>1, MessageTypes, ReorderingsType DEF Sorted
    <2>2. Results(s) \in Seq(UpstreamMessage)
      <3>1. DOMAIN s = 1..Len(s) /\ Len(s) \in Nat
        BY <2>1, LenProperties
      <3>2. \A i \in 1..Len(s) : Tool(AnthropicToOpenai(s[i])) \in UpstreamMessage
        BY <2>1, ElementOfSeq, AnthropicToOpenaiType, MessageTypes DEF TypeOK, RequestType
      <3> QED
        BY <3>1, <3>2, FunctionIsSeq
    <2>3. Text \in Seq(UpstreamMessage) /\ \A k \in DOMAIN Text : Text[k].role # "tool"
      <3>1. Text \in Seq(UpstreamMessage)
        BY MessageTypes, SingletonSeq, EmptySeq
      <3>2. \A k \in DOMAIN Text : Text[k].role # "tool"
        BY DEF Plain
      <3> QED
        BY <3>1, <3>2
    <2>4. /\ DOMAIN Results(s) = DOMAIN s
          /\ \A k \in DOMAIN s : Results(s)[k].role = "tool" /\ Results(s)[k].id = AnthropicToOpenai(s[k])
      BY DEF Tool
    <2>5. Results(s) # <<>> =>
            /\ messages # <<>> /\ messages[Len(messages)].role = "assistant"
            /\ \A k \in DOMAIN Results(s) :
                 /\ Results(s)[k].role = "tool"
                 /\ \E u \in DOMAIN messages[Len(messages)].calls :
                      /\ messages[Len(messages)].calls[u].id = Results(s)[k].id
                      /\ ~reused => u = k
      <3> SUFFICES ASSUME s # <<>>
                   PROVE  /\ messages # <<>> /\ messages[Len(messages)].role = "assistant"
                          /\ \A k \in DOMAIN s : \E u \in DOMAIN messages[Len(messages)].calls :
                               /\ messages[Len(messages)].calls[u].id = AnthropicToOpenai(s[k])
                               /\ ~reused => u = k
        BY <2>1, <2>4
      <3>1. /\ cursor > 1 /\ history[cursor - 1].role = "assistant"
            /\ \A k \in DOMAIN s : \E u \in DOMAIN history[cursor - 1].calls :
                 /\ history[cursor - 1].calls[u].id = AnthropicToOpenai(s[k])
                 /\ ~reused => u = k
        BY <1>1, <1>2, ResultsInPlace
      <3>2. messages # <<>> /\ messages[Len(messages)] = Assistant(history[cursor - 1].calls)
        BY <1>2, <3>1 DEF Registering
      <3>3. /\ messages[Len(messages)].role = "assistant"
            /\ messages[Len(messages)].calls = history[cursor - 1].calls
        BY <3>2 DEF Assistant
      <3> QED
        BY <3>1, <3>2, <3>3
    <2>6. messages \in Seq(UpstreamMessage) /\ (~reused) \in BOOLEAN
      BY DEF TypeOK, PayloadType
    <2> HIDE DEF Results, Text
    <2>7. FollowsIn(messages \o Results(s) \o Text, ~reused)
      BY <1>2, <2>2, <2>3, <2>5, <2>6, FollowsOn
    <2> QED
      BY <1>4, <2>7
  <1>6. Registering'
    <2>1. \A i \in 1..cursor : CallsRegistered(i)
      <3>1. CallsRegistered(cursor)
        BY <1>1, <1>2 DEF CallsRegistered, Alternating
      <3>2. \A i \in 1..(cursor - 1) : CallsRegistered(i)
        BY <1>2 DEF Registering
      <3> QED
        BY <1>3, <3>1, <3>2
    <2>2. \A i \in 1..cursor : CallsRegistered(i)'
      BY <1>1, <2>1 DEF CallsRegistered, IsBefore
    <2>3. cursor' - 1 = cursor /\ cursor' <= Len(history') + 1
      BY <1>1, <1>3
    <2>4. \A k \in DOMAIN callOrder :
            \E i \in 1..cursor : \E u \in DOMAIN history[i].calls : callOrder[k] = history[i].calls[u].id
      BY <1>2, <1>3 DEF Registering
    <2>5. history'[cursor' - 1].role # "assistant"
      BY <1>1, <2>3
    <2>6. \A i \in 1..(cursor' - 1) : CallsRegistered(i)'
      BY <2>2, <2>3
    <2> QED
      BY <1>1, <2>3, <2>4, <2>5, <2>6 DEF Registering
  <1>7. Alternating' /\ Answering'
    BY <1>1, <1>2 DEF Alternating, Answering
  <1> QED
    BY <1>1, <1>2, <1>5, <1>6, <1>7 DEF Following

\* An id that came first stays first.
LEMMA BeforeStays ==
  ASSUME callOrder \in Seq(AnthropicIds), NEW ids \in Seq(AnthropicIds), callOrder' = callOrder \o ids,
         NEW a, NEW b, IsBefore(a, b)
  PROVE  IsBefore(a, b)'
  <1>1. PICK i \in DOMAIN callOrder : callOrder[i] = a /\ \A j \in 1..i : callOrder[j] # b
    BY DEF IsBefore
  <1>2. /\ DOMAIN callOrder = 1..Len(callOrder) /\ Len(callOrder) \in Nat /\ Len(ids) \in Nat
        /\ DOMAIN callOrder' = 1..(Len(callOrder) + Len(ids))
        /\ \A k \in 1..Len(callOrder) : callOrder'[k] = callOrder[k]
    BY LenProperties, ConcatProperties
  <1>3. i \in DOMAIN callOrder' /\ callOrder'[i] = a
    BY <1>1, <1>2
  <1>4. \A j \in 1..i : callOrder'[j] # b
    BY <1>1, <1>2
  <1> QED
    BY <1>3, <1>4 DEF IsBefore

\* The calls of a message of the assistant are registered in their order.
LEMMA RegistersAssistant ==
  ASSUME TypeOK, Following, IdsDistinct, TranslateMessage, TranslateAssistant
  PROVE  Registering'
  <1>0. PICK c : c = cursor
    OBVIOUS
  <1> DEFINE uses == history[c].calls
             ids == [i \in DOMAIN uses |-> uses[i].id]
             n == Len(callOrder)
  <1>1. /\ phase = "messages" /\ cursor \in DOMAIN history /\ cursor' = cursor + 1
        /\ map' = Registered(map, Elements(ids)) /\ callOrder' = callOrder \o ids
        /\ messages' = Append(messages, Assistant(uses))
        /\ UNCHANGED <<history, reused>>
    BY <1>0 DEF TranslateMessage, TranslateAssistant, ghosts
  <1>2. Alternating /\ Registering
    BY <1>1 DEF Following
  <1>3. /\ DOMAIN history = 1..Len(history) /\ Len(history) \in Nat /\ cursor \in Nat /\ cursor >= 1
        /\ callOrder \in Seq(AnthropicIds) /\ messages \in Seq(UpstreamMessage)
        /\ map \in ToolIdMap
    BY LenProperties DEF TypeOK, ConversationType, RequestType, PayloadType
  <1>4. \A i \in DOMAIN history :
          /\ history[i].calls \in Seq(Use)
          /\ \A u \in DOMAIN history[i].calls : history[i].calls[u].id \in AnthropicIds
    <2>1. history \in Seq(ClientMessage)
      BY DEF TypeOK, ConversationType
    <2>2. \A i \in DOMAIN history : history[i].calls \in Seq(Use)
      BY <2>1, LenProperties, ElementOfSeq, MessageTypes
    <2>3. \A s \in Seq(Use) : \A u \in DOMAIN s : s[u].id \in AnthropicIds
      <3> SUFFICES ASSUME NEW s \in Seq(Use), NEW u \in DOMAIN s
                   PROVE  s[u].id \in AnthropicIds
        OBVIOUS
      <3>1. s[u] \in Use
        BY LenProperties, ElementOfSeq
      <3> QED
        BY <3>1 DEF Use
    <2> QED
      BY <2>2, <2>3
  <1>5. /\ uses \in Seq(Use) /\ DOMAIN uses = 1..Len(uses) /\ Len(uses) \in Nat
        /\ ids \in Seq(AnthropicIds) /\ Len(ids) = Len(uses)
        /\ \A u \in DOMAIN uses : ids[u] = uses[u].id
    <2>1. uses \in Seq(Use)
      BY <1>0, <1>1, <1>4
    <2>2. ids \in Seq(AnthropicIds)
      BY <2>1, CallIdsType
    <2>3. DOMAIN ids = DOMAIN uses /\ \A u \in DOMAIN uses : ids[u] = uses[u].id
      OBVIOUS
    <2> HIDE DEF ids, uses
    <2>4. Len(ids) = Len(uses)
      BY <2>1, <2>2, <2>3, LenProperties
    <2> QED
      BY <2>1, <2>2, <2>3, <2>4, LenProperties
  <1>6. /\ Elements(ids) \subseteq AnthropicIds
        /\ \A u \in DOMAIN uses : uses[u].id \in Elements(ids)
    <2>1. \A u \in DOMAIN uses : u \in DOMAIN ids /\ ids[u] = uses[u].id
      OBVIOUS
    <2> HIDE DEF ids
    <2> QED
      BY <1>5, <2>1, ElementsType DEF Elements
  <1> HIDE DEF ids
  <1>7. \A a \in AnthropicIds :
          /\ a \in Elements(ids) \/ map.aToO[a] = a => map'.aToO[a] = a
          /\ a \in Elements(ids) \/ map.oToA[a] = a => map'.oToA[a] = a
    BY <1>1, <1>3, <1>6 DEF Registered, ToolIdMap, Ids
  <1>8. /\ DOMAIN callOrder = 1..n /\ n \in Nat
        /\ DOMAIN callOrder' = 1..(n + Len(uses))
        /\ \A k \in 1..n : callOrder'[k] = callOrder[k]
        /\ \A u \in 1..Len(uses) : callOrder'[n + u] = uses[u].id
    <2>1. /\ callOrder' \in Seq(AnthropicIds) /\ Len(callOrder') = n + Len(ids)
          /\ \A k \in 1..(n + Len(ids)) :
               callOrder'[k] = IF k <= n THEN callOrder[k] ELSE ids[k - n]
      BY <1>1, <1>3, <1>5, ConcatProperties, ZenonT(40)
    <2>2. DOMAIN callOrder = 1..n /\ n \in Nat /\ DOMAIN callOrder' = 1..(n + Len(uses))
      BY <1>3, <1>5, <2>1, LenProperties
    <2>3. \A u \in 1..Len(uses) :
            n + u \in 1..(n + Len(ids)) /\ ~(n + u <= n) /\ (n + u) - n = u /\ u \in DOMAIN uses
      BY <1>5, <2>2
    <2>4. \A u \in 1..Len(uses) : callOrder'[n + u] = uses[u].id
      BY <1>5, <2>1, <2>3
    <2>5. \A k \in 1..n : callOrder'[k] = callOrder[k]
      BY <1>5, <2>1, <2>2
    <2> QED
      BY <2>2, <2>4, <2>5
  <1>9. \A i \in 1..(cursor - 1) : CallsRegistered(i)'
    <2> SUFFICES ASSUME NEW i \in 1..(cursor - 1), NEW u \in DOMAIN history[i].calls
                 PROVE  /\ map'.aToO[history[i].calls[u].id] = history[i].calls[u].id
                        /\ map'.oToA[history[i].calls[u].id] = history[i].calls[u].id
                        /\ ~reused => \A v \in DOMAIN history[i].calls :
                             u < v => IsBefore(history[i].calls[u].id, history[i].calls[v].id)'
      BY <1>1 DEF CallsRegistered
    <2>1. CallsRegistered(i) /\ i \in DOMAIN history
      BY <1>1, <1>2, <1>3 DEF Registering
    <2>2. /\ map.aToO[history[i].calls[u].id] = history[i].calls[u].id
          /\ map.oToA[history[i].calls[u].id] = history[i].calls[u].id
          /\ ~reused => \A v \in DOMAIN history[i].calls :
               u < v => IsBefore(history[i].calls[u].id, history[i].calls[v].id)
      BY <2>1 DEF CallsRegistered
    <2>3. history[i].calls[u].id \in AnthropicIds
      BY <1>4, <2>1
    <2>4. ~reused => \A v \in DOMAIN history[i].calls :
            u < v => IsBefore(history[i].calls[u].id, history[i].calls[v].id)'
      BY <1>1, <1>3, <1>5, <2>2, BeforeStays
    <2> QED
      BY <1>7, <2>2, <2>3, <2>4
  <1>10. CallsRegistered(c)'
    <2> SUFFICES ASSUME NEW u \in DOMAIN uses
                 PROVE  /\ map'.aToO[uses[u].id] = uses[u].id
                        /\ map'.oToA[uses[u].id] = uses[u].id
                        /\ ~reused => \A v \in DOMAIN uses :
                             u < v => IsBefore(uses[u].id, uses[v].id)'
      BY <1>1 DEF CallsRegistered
    <2>1. map'.aToO[uses[u].id] = uses[u].id /\ map'.oToA[uses[u].id] = uses[u].id
      BY <1>1, <1>4, <1>6, <1>7
    <2>2. ASSUME ~reused, NEW v \in DOMAIN uses, u < v
          PROVE  IsBefore(uses[u].id, uses[v].id)'
      <3>1. n + u \in DOMAIN callOrder' /\ callOrder'[n + u] = uses[u].id
        BY <1>5, <1>8
      <3>2. ASSUME NEW j \in 1..(n + u), callOrder'[j] = uses[v].id
            PROVE  FALSE
        <4>1. CASE j \in 1..n
          <5>1. PICK i \in 1..(cursor - 1) : \E w \in DOMAIN history[i].calls :
                  callOrder[j] = history[i].calls[w].id
            BY <1>2, <1>8, <4>1 DEF Registering
          <5>2. PICK w \in DOMAIN history[i].calls : callOrder[j] = history[i].calls[w].id
            BY <5>1
          <5>3. history[i].calls[w].id = history[c].calls[v].id
            BY <1>8, <3>2, <4>1, <5>2
          <5>4. i \in DOMAIN history /\ c \in DOMAIN history /\ i # c
            BY <1>0, <1>1, <1>3
          <5> QED
            BY <1>2, <2>2, <5>3, <5>4, UsesDiffer
        <4>2. CASE j \notin 1..n
          <5>1. j - n \in 1..Len(uses) /\ j = n + (j - n) /\ j - n < v /\ j - n # v
            BY <1>5, <1>8, <2>2, <4>2
          <5>2. j - n \in DOMAIN uses /\ uses[j - n].id = uses[v].id
            BY <1>5, <1>8, <3>2, <5>1
          <5>3. c \in DOMAIN history
            BY <1>0, <1>1
          <5> QED
            BY <1>2, <2>2, <5>1, <5>2, <5>3, UsesDiffer
        <4> QED
          BY <4>1, <4>2
      <3>3. PICK a, b : a = uses[u].id /\ b = uses[v].id
        OBVIOUS
      <3>4. IsBefore(a, b)'
        <4> HIDE DEF uses, n
        <4> QED
          BY <3>1, <3>2, <3>3 DEF IsBefore
      <3>5. history' = history
        BY <1>1
      <3> QED
        BY <3>3, <3>4, <3>5
    <2> QED
      BY <2>1, <2>2
  <1>11. \A k \in DOMAIN callOrder' :
           \E i \in 1..cursor : \E u \in DOMAIN history[i].calls : callOrder'[k] = history[i].calls[u].id
    <2> SUFFICES ASSUME NEW k \in 1..(n + Len(uses))
                 PROVE  \E i \in 1..cursor : \E u \in DOMAIN history[i].calls :
                          callOrder'[k] = history[i].calls[u].id
      BY <1>8
    <2>1. CASE k \in 1..n
      <3>1. \E i \in 1..(cursor - 1) : \E u \in DOMAIN history[i].calls :
              callOrder[k] = history[i].calls[u].id
        BY <1>2, <1>8, <2>1 DEF Registering
      <3> QED
        BY <1>3, <1>8, <2>1, <3>1
    <2>2. CASE k \notin 1..n
      <3>1. k - n \in 1..Len(uses) /\ k = n + (k - n)
        BY <1>5, <1>8, <2>2
      <3>2. c \in 1..cursor /\ k - n \in DOMAIN uses
        BY <1>0, <1>3, <1>5, <3>1
      <3>3. callOrder'[n + (k - n)] = uses[k - n].id
        BY <1>8, <3>1
      <3> HIDE DEF uses
      <3>4. callOrder'[k] = uses[k - n].id
        BY <3>1, <3>3
      <3> QED
        BY <3>2, <3>4 DEF uses
    <2> QED
      BY <2>1, <2>2
  <1>12. cursor' - 1 = cursor /\ cursor' <= Len(history') + 1
    <2>1. cursor \in 1..Len(history) /\ cursor' = cursor + 1 /\ history' = history
      BY <1>1, <1>3
    <2> QED
      BY <1>3, <2>1
  <1>13. \A i \in 1..(cursor' - 1) : CallsRegistered(i)'
    <2>1. \A i \in 1..(cursor' - 1) : i = c \/ i \in 1..(cursor - 1)
      BY <1>0, <1>3, <1>12
    <2> QED
      BY <1>9, <1>10, <2>1
  <1>14. messages' # <<>> /\ messages'[Len(messages')] = Assistant(history'[cursor' - 1].calls)
    <2>1. messages' # <<>> /\ messages'[Len(messages')] = Assistant(uses)
      <3>1. Assistant(uses) \in UpstreamMessage
        BY <1>5, MessageTypes
      <3> QED
        BY <1>1, <1>3, <3>1
    <2> QED
      BY <1>0, <1>1, <1>12, <2>1
  <1> QED
    BY <1>1, <1>11, <1>12, <1>13, <1>14 DEF Registering

\* The calls of a message of the assistant stand behind everything so far.
LEMMA FollowsTranslateAssistant ==
  ASSUME TypeOK, Following, IdsDistinct, TranslateMessage, TranslateAssistant
  PROVE  Following'
  <1>1. /\ phase = "messages" /\ phase' = "messages" /\ cursor \in DOMAIN history
        /\ messages' = Append(messages, Assistant(history[cursor].calls))
        /\ UNCHANGED <<history, full, reused, reply, calls>>
    BY DEF TranslateMessage, TranslateAssistant, conversation, ghosts
  <1>2. Registering'
    BY RegistersAssistant
  <1>3. FollowsIn(messages', ~reused)
    <2> DEFINE m == Assistant(history[cursor].calls)
    <2>1. messages \in Seq(UpstreamMessage) /\ m \in UpstreamMessage
      <3>1. history \in Seq(ClientMessage) /\ messages \in Seq(UpstreamMessage)
        BY DEF TypeOK, ConversationType, PayloadType
      <3>2. history[cursor] \in ClientMessage
        BY <1>1, <3>1, LenProperties, ElementOfSeq
      <3> QED
        BY <3>1, <3>2, MessageTypes
    <2>2. m.role # "tool"
      BY DEF Assistant
    <2> HIDE DEF m
    <2>3. <<m>> \in Seq(UpstreamMessage) /\ \A k \in DOMAIN <<m>> : <<m>>[k].role # "tool"
      BY <2>1, <2>2
    <2>4. FollowsIn(messages, ~reused)
      BY <1>1 DEF Following
    <2>5. FollowsIn(messages \o <<>> \o <<m>>, ~reused)
      <3>1. <<>> \in Seq(UpstreamMessage) /\ (~reused) \in BOOLEAN
        BY EmptySeq
      <3> QED
        BY <2>1, <2>3, <2>4, <3>1, FollowsOn
    <2>6. messages \o <<>> \o <<m>> = Append(messages, m)
      BY <2>1
    <2> QED
      BY <1>1, <2>5, <2>6 DEF m
  <1> QED
    BY <1>1, <1>2, <1>3 DEF Following, Alternating, Answering

\* A request begins with the messages of the system.
LEMMA FollowsAsk ==
  ASSUME TypeOK, Following, NEW d \in Declarations, NEW m \in Asked, NEW s \in BOOLEAN, Ask(d, m, s)
  PROVE  Following'
  <1>1. /\ phase = "client" /\ phase' = "messages" /\ cursor' = 1 /\ callOrder' = <<>>
        /\ messages' = [i \in 1..systems |-> Plain("system")]
        /\ UNCHANGED <<history, full, reused, reply, calls>>
    BY DEF Ask
  <1>2. FollowsIn(messages', ~reused)
    BY <1>1 DEF FollowsIn, Plain
  <1>3. Registering'
    <2>1. Len(history) \in Nat
      BY LenProperties DEF TypeOK, ConversationType
    <2>2. 1..(cursor' - 1) = {} /\ ~(cursor' > 1) /\ DOMAIN callOrder' = {}
      BY <1>1
    <2>3. cursor' <= Len(history') + 1
      BY <1>1, <2>1
    <2> QED
      BY <2>2, <2>3 DEF Registering
  <1> QED
    BY <1>1, <1>2, <1>3 DEF Following, Alternating, Answering

\* The calls of an answer are translated one by one.
LEMMA FollowsNextCall ==
  ASSUME TypeOK, Following, NextCall
  PROVE  Following'
  <1>1. /\ phase = "response" /\ phase' = "response" /\ cursor \in DOMAIN calls /\ cursor' = cursor + 1
        /\ UNCHANGED <<history, full, calls>>
    BY DEF NextCall, conversation
  <1>2. /\ calls \in Seq([id : UpstreamIds, name : Names, valid : BOOLEAN]) /\ reply \in Seq(Use)
        /\ cursor \in Nat /\ reused \in BOOLEAN
    BY DEF TypeOK, AnswerType, RequestType, GhostType
  <1>3. cursor \in 1..Len(calls) /\ Len(calls) \in Nat /\ Len(reply) \in Nat
    BY <1>1, <1>2, LenProperties
  <1>4. Len(reply') \in Nat /\ Len(reply') <= Len(reply) + 1
    <2>1. reply' = reply \/ \E e : reply' = Append(reply, e)
      BY DEF NextCall, TranslateCall, SkipCall
    <2>2. CASE reply' = reply
      BY <1>3, <2>2
    <2>3. CASE \E e : reply' = Append(reply, e)
      <3>1. PICK e : reply' = Append(reply, e)
        BY <2>3
      <3>2. Len(reply') = Len(reply) + 1
        BY <1>2, <3>1
      <3> QED
        BY <1>3, <3>2
    <2> QED
      BY <2>1, <2>2, <2>3
  <1>5. Answering'
    BY <1>1, <1>3, <1>4 DEF Following, Answering
  <1>6. reused => reused'
    BY DEF NextCall, TranslateCall, SkipCall
  <1>7. FollowsIn(full, ~reused) => FollowsIn(full, ~reused')
    BY <1>6 DEF FollowsIn
  <1> QED
    BY <1>1, <1>5, <1>7 DEF Following, Alternating

\* One message more, and the others where they were.
LEMMA HistoryGrows ==
  ASSUME TypeOK, NEW m \in ClientMessage, history' = Append(history, m)
  PROVE  /\ DOMAIN history = 1..Len(history) /\ Len(history) \in Nat /\ Len(history) >= 1
         /\ Len(history') = Len(history) + 1 /\ DOMAIN history' = 1..(Len(history) + 1)
         /\ \A i \in 1..Len(history) : history'[i] = history[i]
         /\ history'[Len(history) + 1] = m
  BY LenProperties, AppendProperties DEF TypeOK, ConversationType

\* The answer becomes a message of the assistant.
LEMMA FollowsFinish ==
  ASSUME TypeOK, Following, Finish
  PROVE  Following'
  <1>1. /\ phase = "response" /\ phase' = "reading" /\ reply' = <<>> /\ full' = <<>>
        /\ history' = Append(history, AssistantMessage(reply))
    BY DEF Finish, Idle
  <1>2. Alternating /\ Answering
    BY DEF Following
  <1> DEFINE m == AssistantMessage(reply)
  <1>3. m \in ClientMessage /\ m.role = "assistant" /\ m.calls = reply
    BY MessageTypes DEF TypeOK, AnswerType, AssistantMessage
  <1>4. Len(reply) <= MaxCalls
    <2>1. Len(reply) \in Nat /\ Len(calls) \in Nat /\ cursor \in Nat /\ MaxCalls \in Nat
      BY LenProperties, DialogueAssumption DEF TypeOK, AnswerType, RequestType
    <2> QED
      BY <1>1, <1>2, <2>1 DEF Answering
  <1> HIDE DEF m
  <1>5. /\ DOMAIN history = 1..Len(history) /\ Len(history) \in Nat /\ Len(history) >= 1
        /\ Len(history') = Len(history) + 1 /\ DOMAIN history' = 1..(Len(history) + 1)
        /\ \A i \in 1..Len(history) : history'[i] = history[i]
        /\ history'[Len(history) + 1] = m
    BY <1>1, <1>3, HistoryGrows DEF m
  <1>6. Alternating'
    <2>1. \A i \in DOMAIN history' :
            \/ i = Len(history) + 1 /\ history'[i] = m
            \/ i \in DOMAIN history /\ history'[i] = history[i]
               /\ (i > 1 => history'[i - 1] = history[i - 1])
      BY <1>5
    <2>2. history'[1] = history[1]
      BY <1>5
    <2>3. \A i \in DOMAIN history' :
            /\ Len(history'[i].calls) <= MaxCalls
            /\ history'[i].role = "user" => history'[i].calls = <<>>
            /\ history'[i].role = "user" /\ i > 1 =>
                 /\ history'[i - 1].role = "assistant"
                 /\ history'[i].results \in Reorderings(IdsOf(history'[i - 1].calls))
      BY <1>2, <1>3, <1>4, <2>1 DEF Alternating
    <2> QED
      BY <1>2, <1>3, <1>5, <2>2, <2>3 DEF Alternating
  <1>7. FollowsIn(full', ~reused')
    BY <1>1 DEF FollowsIn
  <1> QED
    BY <1>1, <1>6, <1>7 DEF Following, Answering

\* The client answers the calls of the assistant's message.
LEMMA FollowsContinue ==
  ASSUME TypeOK, Following, NEW text \in BOOLEAN, Continue(text)
  PROVE  Following'
  <1> DEFINE uses == history[Len(history)].calls
  <1>1. PICK s \in Reorderings(IdsOf(uses)) : history' = Append(history, UserMessage(s, text))
    BY DEF Continue, IdsOf
  <1>2. phase = "reading" /\ phase' = "client" /\ UNCHANGED <<full, reused, reply, calls>>
    BY DEF Continue, work, ghosts
  <1>3. Alternating /\ Answering
    BY DEF Following
  <1> DEFINE m == UserMessage(s, text)
  <1>4. m \in ClientMessage /\ m.calls = <<>> /\ m.results = s
    <2>1. uses \in Seq(Use)
      <3>1. history \in Seq(ClientMessage) /\ Len(history) \in DOMAIN history
        BY LenProperties DEF TypeOK, ConversationType
      <3>2. history[Len(history)] \in ClientMessage
        BY <3>1, LenProperties, ElementOfSeq
      <3> QED
        BY <3>2, MessageTypes
    <2>2. s \in Seq(AnthropicIds)
      BY <1>1, <2>1, CallIdsType, ReorderingsType DEF IdsOf
    <2> QED
      BY <2>2, MessageTypes DEF UserMessage
  <1> HIDE DEF m
  <1>5. /\ DOMAIN history = 1..Len(history) /\ Len(history) \in Nat /\ Len(history) >= 1
        /\ Len(history') = Len(history) + 1 /\ DOMAIN history' = 1..(Len(history) + 1)
        /\ \A i \in 1..Len(history) : history'[i] = history[i]
        /\ history'[Len(history) + 1] = m
    BY <1>1, <1>4, HistoryGrows DEF m
  <1>6. Alternating'
    <2>1. \A i \in DOMAIN history' :
            \/ /\ i = Len(history) + 1 /\ i - 1 = Len(history)
               /\ history'[i] = m /\ history'[i - 1] = history[Len(history)]
            \/ i \in DOMAIN history /\ history'[i] = history[i]
               /\ (i > 1 => history'[i - 1] = history[i - 1])
      BY <1>5
    <2>2. history'[1] = history[1] /\ Len(<<>>) <= MaxCalls
      BY <1>5, DialogueAssumption
    <2>3. \A i \in DOMAIN history' :
            /\ Len(history'[i].calls) <= MaxCalls
            /\ history'[i].role = "user" => history'[i].calls = <<>>
            /\ history'[i].role = "user" /\ i > 1 =>
                 /\ history'[i - 1].role = "assistant"
                 /\ history'[i].results \in Reorderings(IdsOf(history'[i - 1].calls))
      BY <1>1, <1>2, <1>3, <1>4, <2>1, <2>2 DEF Alternating
    <2> QED
      BY <1>2, <1>3, <2>2, <2>3 DEF Alternating
  <1> QED
    BY <1>2, <1>3, <1>6 DEF Following, Answering

\* The rest of a request touches neither history nor, once made, the messages.
LEMMA FollowsElsewhere ==
  ASSUME TypeOK, Following,
         \/ MessagesDone \/ MapTool \/ ToolsDone
         \/ DropMessage \/ SimplifyTools \/ DropTool \/ Overflow \/ Send
         \/ \E n \in 0..MaxCalls : Respond(n)
         \/ UpstreamFails
  PROVE  Following'
  <1>1. CASE \/ MessagesDone \/ MapTool \/ ToolsDone
             \/ DropMessage \/ SimplifyTools \/ DropTool \/ Overflow \/ Send
    <2>1. /\ phase \notin {"response", "reading"} /\ phase' \notin {"messages", "response", "reading"}
          /\ phase' = "tools" => messages' = messages /\ phase \in {"messages", "tools"}
          /\ full' = full \/ (full' = messages /\ phase = "tools")
          /\ UNCHANGED <<history, reused, reply>>
      BY <1>1 DEF MessagesDone, MapTool, ToolsDone, DropMessage, SimplifyTools, DropTool, Overflow, Send,
                  conversation, work, ghosts
    <2> QED
      BY <2>1 DEF Following, Alternating, Answering
  <1>2. ASSUME NEW n \in 0..MaxCalls, Respond(n)
        PROVE  Following'
    <2>1. /\ phase = "upstream" /\ phase' = "response" /\ cursor' = 1
          /\ UNCHANGED <<history, reused, reply, full>>
      BY <1>2 DEF Respond, conversation, ghosts
    <2>2. Len(calls') = n
      <3> DEFINE Sent == [id : UpstreamIds, name : Names, valid : IF stream THEN {TRUE} ELSE BOOLEAN]
      <3>1. calls' \in [1..n -> Sent]
        BY <1>2 DEF Respond
      <3>2. n \in Nat
        BY DialogueAssumption
      <3> HIDE DEF Sent
      <3> QED
        BY <3>1, <3>2, FunctionIsSeq
    <2>3. Len(<<>>) = 0 /\ MaxCalls \in Nat
      BY DialogueAssumption
    <2> QED
      BY <1>2, <2>1, <2>2, <2>3 DEF Following, Alternating, Answering
  <1>3. CASE UpstreamFails
    <2>1. /\ phase = "upstream" /\ phase' = "client" /\ reply' = <<>> /\ full' = <<>>
          /\ UNCHANGED <<history, reused>>
      BY <1>3 DEF UpstreamFails, Idle, ghosts
    <2>2. FollowsIn(full', ~reused')
      BY <2>1 DEF FollowsIn
    <2> QED
      BY <2>1, <2>2 DEF Following, Alternating, Answering
  <1> QED
    BY <1>1, <1>2, <1>3

\* A payload begins with the messages of the system.
SystemsFirst ==
  /\ phase \in {"messages", "tools"} =>
       systems <= Len(messages) /\ \A i \in 1..systems : messages[i].role = "system"
  /\ phase \in {"fitting", "upstream", "overflow"} =>
       systems <= Len(full) /\ \A i \in 1..systems : full[i].role = "system"

\* They are put there first, and what is made of the history comes after them.
LEMMA SystemsStayFirst ==
  ASSUME TypeOK, SystemsFirst, [Next]_vars
  PROVE  SystemsFirst'
  <1>1. systems \in Nat /\ messages \in Seq(UpstreamMessage) /\ Len(messages) \in Nat
    BY PayloadNumbers DEF TypeOK, PayloadType
  <1>2. ASSUME NEW d \in Declarations, NEW m \in Asked, NEW s \in BOOLEAN, Ask(d, m, s)
        PROVE  SystemsFirst'
    <2>1. /\ phase' = "messages" /\ systems' = systems
          /\ messages' = [i \in 1..systems |-> Plain("system")]
      BY <1>2 DEF Ask, conversation
    <2>2. Len(messages') = systems /\ \A i \in 1..systems : messages'[i].role = "system"
      BY <1>1, <2>1 DEF Plain
    <2> QED
      BY <1>1, <2>1, <2>2 DEF SystemsFirst
  <1>3. CASE TranslateMessage
    <2>1. phase = "messages" /\ phase' = "messages" /\ systems' = systems
      BY <1>3 DEF TranslateMessage, conversation
    <2>2. Len(messages') >= Len(messages) /\ \A i \in 1..Len(messages) : messages'[i] = messages[i]
      <3>1. CASE TranslateAssistant
        BY <1>1, <3>1, AppendProperties DEF TranslateAssistant
      <3>2. CASE TranslateUser
        <4>1. PICK s \in Sorted(history[cursor].results) :
                messages' = messages \o [i \in DOMAIN s |-> Tool(AnthropicToOpenai(s[i]))]
                              \o (IF history[cursor].text THEN <<Plain("user")>> ELSE <<>>)
          BY <3>2 DEF TranslateUser
        <4> QED
          BY <1>1, <4>1
      <3> QED
        BY <1>3, <3>1, <3>2 DEF TranslateMessage
    <2> QED
      BY <1>1, <2>1, <2>2 DEF SystemsFirst
  <1>4. CASE MessagesDone \/ MapTool
    BY <1>4 DEF MessagesDone, MapTool, conversation, work, SystemsFirst
  <1>5. CASE ToolsDone
    BY <1>5 DEF ToolsDone, conversation, SystemsFirst
  <1>6. CASE DropMessage \/ SimplifyTools \/ DropTool \/ Overflow \/ Send
    BY <1>6 DEF DropMessage, SimplifyTools, DropTool, Overflow, Send, conversation, work, SystemsFirst
  <1>7. CASE \/ \E n \in 0..MaxCalls : Respond(n)
             \/ UpstreamFails \/ NextCall \/ Finish
             \/ \E text \in BOOLEAN : Continue(text)
    <2>1. phase' \in {"response", "client", "reading"}
      BY <1>7 DEF Respond, UpstreamFails, NextCall, Finish, Continue
    <2> QED
      BY <2>1 DEF SystemsFirst
  <1>8. CASE UNCHANGED vars
    BY <1>8 DEF vars, work, conversation, SystemsFirst
  <1> QED
    BY <1>2, <1>3, <1>4, <1>5, <1>6, <1>7, <1>8 DEF Next, Quiet

\* What the fitting leaves of results that follow their calls follows them too,
\* or has lost them at the cut.
LEMMA CutOrFollows ==
  ASSUME TypeOK, Fitting, SystemsFirst, phase = "upstream",
         \A i \in DOMAIN full : full[i].role = "tool" => Follows(full, i),
         NEW i \in DOMAIN messages, messages[i].role = "tool"
  PROVE  Follows(messages, i) \/ Orphaned(i)
  <1> DEFINE d == Dropped
  <1>1. /\ systems \in Nat /\ Len(messages) \in Nat /\ Len(full) \in Nat
        /\ DOMAIN messages = 1..Len(messages) /\ DOMAIN full = 1..Len(full)
        /\ full \in Seq(UpstreamMessage)
    BY PayloadNumbers, LenProperties DEF TypeOK, PayloadType
  <1>2. /\ systems <= Len(messages) /\ Len(messages) <= Len(full)
        /\ messages = Without(full, systems, Dropped)
    BY DEF Fitting, KeptMessages
  <1>3. d \in Nat /\ Len(full) - d = Len(messages) /\ systems + d <= Len(full)
    BY <1>1, <1>2 DEF Dropped
  <1>4. \A k \in 1..Len(messages) : messages[k] = IF k <= systems THEN full[k] ELSE full[k + d]
    <2>1. messages = Without(full, systems, d)
      BY <1>2
    <2> HIDE DEF d
    <2>2. /\ full \in Seq(UpstreamMessage) /\ systems \in Nat
          /\ d \in Nat /\ systems + d <= Len(full)
      BY <1>1, <1>3
    <2>3. \A k \in 1..(Len(full) - d) :
            Without(full, systems, d)[k] = IF k <= systems THEN full[k] ELSE full[k + d]
      BY <2>2, WithoutIs
    <2> QED
      BY <1>3, <2>1, <2>3
  <1> HIDE DEF d
  <1>5. PICK n : n = i + d
    OBVIOUS
  <1>6. i > systems /\ messages[i] = full[n]
    <2>1. ~(i <= systems)
      <3> SUFFICES ASSUME i <= systems
                   PROVE  FALSE
        OBVIOUS
      <3>1. messages[i] = full[i] /\ i \in 1..systems
        BY <1>1, <1>4
      <3>2. full[i].role = "system"
        BY <3>1 DEF SystemsFirst
      <3> QED
        BY <3>1, <3>2
    <2> QED
      BY <1>1, <1>4, <1>5, <2>1
  <1>7. Follows(full, n)
    <2>1. n \in DOMAIN full
      BY <1>1, <1>3, <1>5
    <2> QED
      BY <1>6, <2>1
  <1>8. PICK j \in 1..(n - 1) :
          /\ full[j].role = "assistant"
          /\ \A k \in (j + 1)..n : full[k].role = "tool"
          /\ \E u \in DOMAIN full[j].calls :
               full[j].calls[u].id = full[n].id /\ (~reused => u = n - j)
    BY <1>7 DEF Follows
  <1>9. j > systems
    <2> SUFFICES ASSUME ~(j > systems)
                 PROVE  FALSE
      OBVIOUS
    <2>1. j \in 1..systems
      BY <1>1, <1>3
    <2> QED
      BY <1>8, <2>1 DEF SystemsFirst
  <1>10. CASE j > systems + d
    <2>1. /\ j - d \in 1..(i - 1) /\ messages[j - d] = full[j]
      <3>1. j - d \in 1..(i - 1) /\ j - d \in 1..Len(messages) /\ ~(j - d <= systems) /\ (j - d) + d = j
        BY <1>1, <1>3, <1>5, <1>10
      <3> QED
        BY <1>4, <3>1
    <2>2. \A k \in ((j - d) + 1)..i : messages[k].role = "tool"
      <3> SUFFICES ASSUME NEW k \in ((j - d) + 1)..i
                   PROVE  messages[k].role = "tool"
        OBVIOUS
      <3>1. k \in 1..Len(messages) /\ ~(k <= systems) /\ k + d \in (j + 1)..n
        BY <1>1, <1>3, <1>5, <1>10
      <3> QED
        BY <1>4, <1>8, <3>1
    <2>3. n - j = i - (j - d)
      BY <1>1, <1>3, <1>5
    <2>4. \E u \in DOMAIN messages[j - d].calls :
            messages[j - d].calls[u].id = messages[i].id /\ (~reused => u = i - (j - d))
      BY <1>6, <1>8, <2>1, <2>3
    <2>5. messages[j - d].role = "assistant"
      BY <1>8, <2>1
    <2> QED
      BY <2>1, <2>2, <2>4, <2>5 DEF Follows
  <1>11. CASE ~(j > systems + d)
    <2>1. Len(messages) < Len(full)
      BY <1>1, <1>3, <1>9, <1>11
    <2>2. \A k \in (systems + 1)..i : messages[k].role = "tool"
      <3> SUFFICES ASSUME NEW k \in (systems + 1)..i
                   PROVE  messages[k].role = "tool"
        OBVIOUS
      <3>1. k \in 1..Len(messages) /\ ~(k <= systems) /\ k + d \in (j + 1)..n
        BY <1>1, <1>3, <1>5, <1>11
      <3> QED
        BY <1>4, <1>8, <3>1
    <2> QED
      BY <2>1, <2>2 DEF Orphaned
  <1> QED
    BY <1>10, <1>11

\* However the client orders its results and the upstream its calls, and
\* however long the conversation: each tool message follows the assistant
\* message that called its tool, at the place of its call unless an upstream id
\* came back (_anthropic_message_to_openai); and of what is sent upstream that
\* is true of all but the results left at the head of a truncated history, whose
\* assistant message _truncate_messages_to_fit has dropped.
THEOREM ResultsAlwaysFollowCalls == Spec => []ResultsFollowCalls
  <1>1. Init => Following
    <2> SUFFICES ASSUME Init
                 PROVE  Following
      OBVIOUS
    <2>1. /\ history = <<UserMessage(<<>>, TRUE)>> /\ phase = "client" /\ reply = <<>> /\ full = <<>>
      BY DEF Init
    <2>2. /\ DOMAIN history = {1} /\ history[1].results = <<>> /\ history[1].calls = <<>>
      BY <2>1 DEF UserMessage
    <2>3. FollowsIn(full, ~reused)
      BY <2>1 DEF FollowsIn
    <2>4. \A i \in DOMAIN history :
            i = 1 /\ ~(i > 1) /\ history[i].calls = <<>> /\ Len(history[i].calls) <= MaxCalls
      <3>1. Len(<<>>) = 0 /\ MaxCalls >= 0
        BY DialogueAssumption
      <3> QED
        BY <2>2, <3>1
    <2>5. Alternating
      BY <2>1, <2>2, <2>4 DEF Alternating
    <2> QED
      BY <2>1, <2>3, <2>5 DEF Following, Answering
  <1>2. TypeOK /\ IdsDistinct /\ Following /\ [Next]_vars => Following'
    <2> SUFFICES ASSUME TypeOK, IdsDistinct, Following, [Next]_vars
                 PROVE  Following'
      OBVIOUS
    <2>1. CASE \E d \in Declarations, m \in Asked, s \in BOOLEAN : Ask(d, m, s)
      BY <2>1, FollowsAsk
    <2>2. CASE TranslateMessage
      BY <2>2, FollowsTranslateAssistant, FollowsTranslateUser DEF TranslateMessage
    <2>3. CASE NextCall \/ Finish
      BY <2>3, FollowsNextCall, FollowsFinish
    <2>4. CASE \E text \in BOOLEAN : Continue(text)
      BY <2>4, FollowsContinue
    <2>5. CASE \/ MessagesDone \/ MapTool \/ ToolsDone
               \/ DropMessage \/ SimplifyTools \/ DropTool \/ Overflow \/ Send
               \/ \E n \in 0..MaxCalls : Respond(n)
               \/ UpstreamFails
      BY <2>5, FollowsElsewhere
    <2>6. CASE UNCHANGED vars
      <3>1. UNCHANGED <<history, phase, cursor, map, callOrder, messages, calls, reply, full, reused>>
        BY <2>6 DEF vars, work, ghosts
      <3>2. Registering' = Registering
        BY <3>1 DEF Registering, CallsRegistered, IsBefore
      <3> QED
        BY <3>1, <3>2 DEF Following, Alternating, Answering
    <2> QED
      BY <2>1, <2>2, <2>3, <2>4, <2>5, <2>6 DEF Next, Quiet
  <1>3. Init => SystemsFirst
    BY DEF Init, SystemsFirst
  <1>4. TypeOK /\ SystemsFirst /\ [Next]_vars => SystemsFirst'
    BY SystemsStayFirst
  <1>5. TypeOK /\ Fitting /\ SystemsFirst /\ Following => ResultsFollowCalls
    <2> SUFFICES ASSUME TypeOK, Fitting, SystemsFirst, Following
                 PROVE  ResultsFollowCalls
      OBVIOUS
    <2>1. \A i \in DOMAIN full : full[i].role = "tool" => Follows(full, i)
      BY DEF Following, FollowsIn, Follows
    <2>2. phase = "upstream" =>
            \A i \in DOMAIN messages : messages[i].role = "tool" => Follows(messages, i) \/ Orphaned(i)
      BY <2>1, CutOrFollows
    <2> QED
      BY <2>1, <2>2 DEF ResultsFollowCalls
  <1> QED
    BY <1>1, <1>2, <1>3, <1>4, <1>5, TypeCorrect, IdsStayDistinct, AlwaysFitting, PTL DEF Spec
=============================================================================
