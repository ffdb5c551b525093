------------------------- MODULE ToolCallStream_proofs -------------------------
(***************************************************************************)
(* Proofs about ToolCallStream for any answers of the model: who is to     *)
(* close each stage that the stream has opened, and what a tool is told of *)
(* what its stage shows.  The second part is built up from the streamer    *)
(* and the presenter: what one character can do, then a piece of text,     *)
(* then the state of a call.                                               *)
(***************************************************************************)
EXTENDS ToolCallStream, TLAPS, FiniteSetTheorems, WellFoundedInduction

-----------------------------------------------------------------------------
(* The inductive invariant: no step needs more than the owners before it. *)

IInv ==
  /\ script \in Scripts
  /\ DOMAIN waiting = Calls
  /\ TypeOK /\ OpenStagesOwned

LEMMA ScriptType ==
  ASSUME IInv
  PROVE  /\ script.stages \subseteq StageIndexes
         /\ \A c \in DOMAIN script.calls :
              NameOf(c) \in FunctionNames /\ Len(Text(c)) \in Nat
BY StreamAssumption DEF IInv, NameOf, Text

CustomStatuses == StageStatuses \ {"adopted"}

LEMMA CloseTool ==
  ASSUME NEW stages \in [Calls -> StageStatuses], NEW which, NEW status \in StageStatuses
  PROVE  /\ Close(stages, which, status) \in [Calls -> StageStatuses]
         /\ \A c \in Calls : Close(stages, which, status)[c] =
                               IF c \in which THEN status ELSE stages[c]
BY DEF Close

(* Every custom stage that is open is tracked: none is open when they are closed. *)
LEMMA CloseCustom ==
  ASSUME IInv, NEW status \in {"completed", "failed"}
  PROVE  /\ Close(custom, tracked, status) \in [StageIndexes -> CustomStatuses]
         /\ \A i \in StageIndexes : Close(custom, tracked, status)[i] # "open"
BY DEF Close, IInv, TypeOK, OpenStagesOwned, CustomStatuses, StageStatuses

-----------------------------------------------------------------------------
(* The stages of the calls. *)

(* What handling call c leaves of the sink, when its stage is opened, let go of, or stays. *)
SinkKept(c) ==
  /\ stage' \in [Calls -> StageStatuses]
  /\ \A d \in Calls : stage'[d] = "open" <=> d \in owned'
  /\ owned' \cap hidden' = {}
  /\ owned' \subseteq Calls /\ hidden' \subseteq Calls /\ nameSet' \subseteq Calls /\ lost' \subseteq Calls
  /\ function' \in [Calls -> FunctionNames \cup {Unknown}]
  /\ \A d \in Calls : waiting'[d] # <<>> => function'[d] = Unknown
  /\ DOMAIN waiting' = Calls

LEMMA ArgumentType ==
  ASSUME IInv, NEW c \in Calls, NEW n \in FunctionNames \cup {Unknown},
         NEW buf, NEW p, NEW piece, Argument(c, n, buf, p, piece)
  PROVE  /\ function' \in [Calls -> FunctionNames \cup {Unknown}]
         /\ \A d \in Calls : waiting'[d] # <<>> => function'[d] = Unknown
         /\ DOMAIN waiting' = Calls
<1>1. /\ function \in [Calls -> FunctionNames \cup {Unknown}]
      /\ \A d \in Calls : waiting[d] # <<>> => function[d] = Unknown
      /\ DOMAIN waiting = Calls
  BY DEF IInv, TypeOK
<1>2. /\ function' = [function EXCEPT ![c] = n]
      /\ waiting' = [waiting EXCEPT ![c] = IF n = Unknown THEN buf \o piece ELSE <<>>]
  BY DEF Argument
<1> QED
  BY <1>1, <1>2

LEMMA OpenStageKeeps ==
  ASSUME IInv, NEW c \in Calls, NameOf(c) \in FunctionNames, c \notin hidden, c \notin owned,
         NEW withName \in BOOLEAN, NEW piece, OpenStage(c, withName, piece)
  PROVE  SinkKept(c)
<1> DEFINE n == IF withName THEN NameOf(c) ELSE Unknown
<1>1. n \in FunctionNames \cup {Unknown}
  OBVIOUS
<1>2. CASE UNCHANGED <<stage, state>> /\ hidden' \in {hidden, hidden \cup {c}} /\ lost' \in {lost, lost \cup {c}}
  BY <1>2 DEF IInv, TypeOK, OpenStagesOwned, SinkKept, state
<1>3. CASE /\ stage' = [stage EXCEPT ![c] = "open"]
           /\ owned' = owned \cup {c}
           /\ nameSet' = IF withName THEN nameSet \cup {c} ELSE nameSet
           /\ Argument(c, n, <<>>, IF withName THEN WithPresenter(n, <<>>) ELSE NoPresenter, piece)
           /\ UNCHANGED <<hidden, lost>>
  <2>1. /\ function' \in [Calls -> FunctionNames \cup {Unknown}]
        /\ \A d \in Calls : waiting'[d] # <<>> => function'[d] = Unknown
        /\ DOMAIN waiting' = Calls
    BY <1>1, <1>3, ArgumentType
  <2>2. /\ stage' \in [Calls -> StageStatuses]
        /\ \A d \in Calls : stage'[d] = "open" <=> d \in owned'
        /\ owned' \cap hidden' = {}
    BY <1>3 DEF IInv, TypeOK, OpenStagesOwned, StageStatuses
  <2>3. owned' \subseteq Calls /\ hidden' \subseteq Calls /\ nameSet' \subseteq Calls /\ lost' \subseteq Calls
    BY <1>3 DEF IInv, TypeOK
  <2> QED
    BY <2>1, <2>2, <2>3 DEF SinkKept
<1> QED
  BY <1>2, <1>3 DEF OpenStage

LEMMA LateNameKeeps ==
  ASSUME IInv, NEW c \in Calls, NameOf(c) \in FunctionNames, c \in owned,
         NEW piece, LateName(c, piece)
  PROVE  SinkKept(c)
<1> DEFINE n == NameOf(c)
<1>1. CASE /\ hidden' = hidden \cup {c}
           /\ stage' = [stage EXCEPT ![c] = "completed"]
           /\ owned' = owned \ {c}
           /\ UNCHANGED <<nameSet, function, waiting, presenter, lost>>
  BY <1>1 DEF IInv, TypeOK, OpenStagesOwned, SinkKept, StageStatuses
<1>2. CASE /\ nameSet' \in {nameSet, nameSet \cup {c}}
           /\ Argument(c, n, <<>>, WithPresenter(n, waiting[c]), piece)
           /\ UNCHANGED <<hidden, stage, owned, lost>>
  <2>1. /\ function' \in [Calls -> FunctionNames \cup {Unknown}]
        /\ \A d \in Calls : waiting'[d] # <<>> => function'[d] = Unknown
        /\ DOMAIN waiting' = Calls
    BY <1>2, ArgumentType
  <2> QED
    BY <1>2, <2>1 DEF IInv, TypeOK, OpenStagesOwned, SinkKept
<1> QED
  BY <1>1, <1>2 DEF LateName

LEMMA MoreTextKeeps ==
  ASSUME IInv, NEW c \in Calls, NEW piece, MoreText(c, piece)
  PROVE  SinkKept(c)
<1>1. function[c] \in FunctionNames \cup {Unknown}
  BY DEF IInv, TypeOK
<1>2. /\ function' \in [Calls -> FunctionNames \cup {Unknown}]
      /\ \A d \in Calls : waiting'[d] # <<>> => function'[d] = Unknown
      /\ DOMAIN waiting' = Calls
  BY <1>1, ArgumentType DEF MoreText
<1> QED
  BY <1>2 DEF MoreText, IInv, TypeOK, OpenStagesOwned, SinkKept

LEMMA ToolCallKeepsIInv ==
  ASSUME IInv, NEW c \in Calls, ToolCallDelta(c)
  PROVE  IInv'
<1>1. /\ phase = "running" /\ c \in DOMAIN script.calls
      /\ NameOf(c) \in FunctionNames /\ Len(Text(c)) \in Nat
      /\ UNCHANGED <<phase, script, streamed>>
      /\ begun' = begun \cup {c}
      /\ custom' = Close(custom, tracked, "completed") /\ tracked' = {}
  BY ScriptType DEF ToolCallDelta
<1>2. PICK withName \in BOOLEAN, withId \in BOOLEAN, n \in 0..1 :
        /\ sent[c] + n <= Len(Text(c))
        /\ sent' = [sent EXCEPT ![c] = @ + n]
        /\ named' = IF withName THEN named \cup {c} ELSE named
        /\ identified' = IF withId THEN identified \cup {c} ELSE identified
        /\ SinkToolCall(c, withName, SubSeq(Text(c), sent[c] + 1, sent[c] + n))
  BY DEF ToolCallDelta
<1>3. SinkKept(c)
  <2> DEFINE piece == SubSeq(Text(c), sent[c] + 1, sent[c] + n)
  <2>1. SinkToolCall(c, withName, piece)
    BY <1>2
  <2> HIDE DEF piece
  <2>2. CASE c \in hidden /\ UNCHANGED <<hidden, stage, state, lost>>
    BY <2>2 DEF IInv, TypeOK, OpenStagesOwned, SinkKept, state
  <2>3. CASE c \notin hidden /\ c \notin owned /\ OpenStage(c, withName, piece)
    BY <1>1, <2>3, OpenStageKeeps
  <2>4. CASE c \in owned /\ LateName(c, piece)
    BY <1>1, <2>4, LateNameKeeps
  <2>5. CASE MoreText(c, piece)
    BY <2>5, MoreTextKeeps
  <2> QED
    BY <2>1, <2>2, <2>3, <2>4, <2>5 DEF SinkToolCall
<1>4. \A d \in DOMAIN script'.calls : sent'[d] \in 0..Len(Text(d))'
  <2>1. \A d \in DOMAIN script.calls : sent[d] \in 0..Len(Text(d))
    BY DEF IInv, TypeOK
  <2>2. \A d : Text(d)' = Text(d)
    BY <1>1 DEF Text
  <2>3. ASSUME NEW d \in DOMAIN script.calls PROVE sent'[d] \in 0..Len(Text(d))
    <3>1. CASE d = c
      <4>1. CASE c \in DOMAIN sent
        BY <1>1, <1>2, <2>1, <3>1, <4>1
      <4>2. CASE c \notin DOMAIN sent
        BY <1>2, <2>1, <2>3, <3>1, <4>2
      <4> QED
        BY <4>1, <4>2
    <3>2. CASE d # c
      BY <1>2, <2>1, <3>2
    <3> QED
      BY <3>1, <3>2
  <2> QED
    BY <1>1, <2>2, <2>3
<1>5. /\ custom' \in [StageIndexes -> StageStatuses \ {"adopted"}]
      /\ \A i \in StageIndexes : custom'[i] = "open" <=> i \in tracked'
  BY <1>1, CloseCustom DEF CustomStatuses
<1>6. TypeOK'
  BY <1>1, <1>2, <1>3, <1>4, <1>5 DEF IInv, TypeOK, SinkKept
<1>7. OpenStagesOwned'
  BY <1>1, <1>3, <1>5 DEF OpenStagesOwned, SinkKept
<1> QED
  BY <1>1, <1>3, <1>6, <1>7 DEF IInv, SinkKept

-----------------------------------------------------------------------------
(* The stages of the deployment, and the end of the stream. *)

LEMMA CustomKeepsIInv ==
  ASSUME IInv, UNCHANGED <<phase, input, tools>>, phase = "running",
         custom' \in [StageIndexes -> StageStatuses \ {"adopted"}],
         tracked' \subseteq StageIndexes,
         \A i \in StageIndexes : custom'[i] = "open" <=> i \in tracked'
  PROVE  IInv'
<1>1. TypeOK'
  BY DEF IInv, TypeOK, input, tools, state, Text
<1>2. OpenStagesOwned'
  BY DEF IInv, OpenStagesOwned, tools, state
<1> QED
  BY <1>1, <1>2 DEF IInv, input, tools, state

(* The end lets go of every stage; StreamSucceeds gives some to the tools. *)
LEMMA EndKeepsIInv ==
  ASSUME IInv, NEW end \in {"completed", "failed"},
         phase' \in {"succeeded", "failed"}, owned' = {}, tracked' = {},
         custom' = Close(custom, tracked, end),
         \/ stage' = Close(stage, owned, end)
         \/ stage' = Close(Close(stage, owned, end), Adopted, "adopted"),
         streamed' \subseteq Calls,
         UNCHANGED <<input, hidden, nameSet, function, waiting, lost>>
  PROVE  IInv'
<1>1. /\ custom' \in [StageIndexes -> StageStatuses \ {"adopted"}]
      /\ \A i \in StageIndexes : custom'[i] # "open"
  BY CloseCustom DEF CustomStatuses
<1>2. stage' \in [Calls -> StageStatuses] /\ \A c \in Calls : stage'[c] # "open"
  <2>1. stage \in [Calls -> StageStatuses] /\ \A c \in Calls : stage[c] = "open" <=> c \in owned
    BY DEF IInv, TypeOK, OpenStagesOwned
  <2> DEFINE shut == Close(stage, owned, end)
  <2>2. shut \in [Calls -> StageStatuses] /\ \A c \in Calls : shut[c] # "open"
    BY <2>1, CloseTool DEF StageStatuses
  <2> HIDE DEF shut
  <2>3. CASE stage' = shut
    BY <2>2, <2>3
  <2>4. CASE stage' = Close(shut, Adopted, "adopted")
    BY <2>2, <2>4, CloseTool DEF StageStatuses
  <2> QED
    BY <2>3, <2>4 DEF shut
<1>3. TypeOK'
  BY <1>1, <1>2 DEF IInv, TypeOK, input, Text
<1>4. OpenStagesOwned'
  BY <1>1, <1>2 DEF OpenStagesOwned
<1> QED
  BY <1>3, <1>4 DEF IInv, input

LEMMA CustomStageOpensKeepsIInv ==
  ASSUME IInv, NEW i \in StageIndexes, CustomStageOpens(i)
  PROVE  IInv'
<1>1. /\ custom \in [StageIndexes -> StageStatuses \ {"adopted"}] /\ tracked \subseteq StageIndexes
      /\ \A j \in StageIndexes : custom[j] = "open" <=> j \in tracked
      /\ i \notin tracked /\ phase = "running" /\ UNCHANGED <<phase, input, tools>>
  BY DEF IInv, TypeOK, OpenStagesOwned, CustomStageOpens
<1>2. \/ custom' = [custom EXCEPT ![i] = "open"] /\ tracked' = tracked \cup {i}
      \/ \E status \in {"completed", "failed"} :
           custom' = [custom EXCEPT ![i] = status] /\ tracked' = tracked
  BY DEF CustomStageOpens
<1>3. /\ custom' \in [StageIndexes -> StageStatuses \ {"adopted"}] /\ tracked' \subseteq StageIndexes
      /\ \A j \in StageIndexes : custom'[j] = "open" <=> j \in tracked'
  BY <1>1, <1>2 DEF StageStatuses
<1> QED
  BY <1>1, <1>3, CustomKeepsIInv

LEMMA CustomStageEndsKeepsIInv ==
  ASSUME IInv, NEW i \in StageIndexes, CustomStageEnds(i)
  PROVE  IInv'
<1>1. /\ custom \in [StageIndexes -> StageStatuses \ {"adopted"}] /\ tracked \subseteq StageIndexes
      /\ \A j \in StageIndexes : custom[j] = "open" <=> j \in tracked
      /\ phase = "running" /\ UNCHANGED <<phase, input, tools>>
  BY DEF IInv, TypeOK, OpenStagesOwned, CustomStageEnds
<1>2. PICK status \in {"completed", "failed"} :
        custom' = [custom EXCEPT ![i] = status] /\ tracked' = tracked \ {i}
  BY DEF CustomStageEnds
<1>3. /\ custom' \in [StageIndexes -> StageStatuses \ {"adopted"}] /\ tracked' \subseteq StageIndexes
      /\ \A j \in StageIndexes : custom'[j] = "open" <=> j \in tracked'
  BY <1>1, <1>2 DEF StageStatuses
<1> QED
  BY <1>1, <1>3, CustomKeepsIInv

LEMMA ContentKeepsIInv ==
  ASSUME IInv, ContentDelta
  PROVE  IInv'
<1>1. /\ custom' \in [StageIndexes -> StageStatuses \ {"adopted"}] /\ tracked' \subseteq StageIndexes
      /\ \A j \in StageIndexes : custom'[j] = "open" <=> j \in tracked'
  BY CloseCustom DEF ContentDelta, CustomStatuses
<1> QED
  BY <1>1, CustomKeepsIInv DEF ContentDelta

-----------------------------------------------------------------------------
(* The theorems. *)

LEMMA InitIInv ==
  ASSUME Init
  PROVE  IInv
<1>1. script \in Scripts /\ DOMAIN waiting = Calls
  BY DEF Init
<1>2. TypeOK
  <2>1. \A c \in DOMAIN script.calls : Len(Text(c)) \in Nat
    BY <1>1, StreamAssumption DEF Text
  <2>2. \A c \in DOMAIN script.calls : sent[c] \in 0..Len(Text(c))
    BY <2>1, StreamAssumption, <1>1 DEF Init
  <2>3. script.stages \subseteq StageIndexes
    BY <1>1, StreamAssumption
  <2> QED
    BY <2>2, <2>3 DEF Init, TypeOK, StageStatuses
<1>3. OpenStagesOwned
  BY DEF Init, OpenStagesOwned
<1> QED
  BY <1>1, <1>2, <1>3 DEF IInv

LEMMA NextKeepsIInv ==
  ASSUME IInv, [Next]_vars
  PROVE  IInv'
<1>1. CASE UNCHANGED vars
  <2>1. TypeOK'
    BY <1>1 DEF IInv, TypeOK, vars, input, tools, state, Text
  <2> QED
    BY <1>1, <2>1 DEF IInv, OpenStagesOwned, vars, input, tools, state
<1>2. CASE StreamSucceeds
  <2>1. streamed' \subseteq Calls
    BY <1>2 DEF StreamSucceeds, Adopted, IInv, TypeOK
  <2> QED
    BY <1>2, <2>1, EndKeepsIInv DEF StreamSucceeds
<1>3. CASE StreamFails
  <2>1. streamed' \subseteq Calls
    BY <1>3 DEF StreamFails, IInv, TypeOK
  <2> QED
    BY <1>3, <2>1, EndKeepsIInv DEF StreamFails
<1> QED
  BY <1>1, <1>2, <1>3, ToolCallKeepsIInv, ContentKeepsIInv, CustomStageOpensKeepsIInv,
     CustomStageEndsKeepsIInv DEF Next, Terminated

LEMMA Invariant == Spec => []IInv
<1>1. Init => IInv
  BY InitIInv
<1>2. IInv /\ [Next]_vars => IInv'
  BY NextKeepsIInv
<1> QED
  BY <1>1, <1>2, PTL DEF Spec

(* The variables of a stream keep their types, for any answer of the model
   (AccumulationSink, ChoiceUiSink). *)
THEOREM StreamTyped == Spec => []TypeOK
<1>1. IInv => TypeOK
  BY DEF IInv
<1> QED
  BY <1>1, Invariant, PTL

(* Every stage that is open has an owner that will close it, whatever comes in whatever
   order and wherever the stream breaks; after the stream none is open (on_stream_success,
   on_stream_failure). *)
THEOREM OpenStagesHaveOwner == Spec => []OpenStagesOwned
<1>1. IInv => OpenStagesOwned
  BY DEF IInv
<1> QED
  BY <1>1, Invariant, PTL

-----------------------------------------------------------------------------
(* What the presenter shows of a request is well formed at every moment: the pieces of it
   that come in pairs are counted. *)

IsList(s) == s \in Seq(ToSet(s))
Bit(on) == IF on THEN 1 ELSE 0

Kinds(s, kind) == {i \in DOMAIN s : s[i].is = kind}
Number(s, kind) == Cardinality(Kinds(s, kind))

Tally(s, headers, opens, closes, quotes, ends) ==
  /\ IsList(s)
  /\ Number(s, "header") = headers
  /\ Number(s, "fence_open") = opens /\ Number(s, "fence_close") = closes
  /\ Number(s, "quote") = quotes /\ Number(s, "object_end") = ends

WalkerFields ==
  {"phase", "key", "current", "escape", "hex", "parts", "raw", "depth", "inString", "nestEscape"}
InMember == {"in_key", "after_key", "seek_value", "in_string", "in_raw"}

Walker(s) ==
  /\ DOMAIN s = WalkerFields
  /\ s.phase \in InMember \cup {"seek_object", "between_keys", "done"}
  /\ IsList(s.parts)

PresenterFields ==
  {"mode", "streamer", "header", "skip", "stringOpen", "fenceOpen", "firstKey", "jsonString",
   "streamed", "finished", "shown"}

Ends(p) == p.finished /\ p.header /\ p.mode = "json_object"

Heads(p) == IF p.header THEN 1 ELSE 0
Fences(p) == IF p.fenceOpen THEN 1 ELSE 0
Quotes(p) == IF p.jsonString THEN 1 ELSE 0
Finals(p) == IF Ends(p) THEN 1 ELSE 0

(* One header, one fence open at most, one quote open at most, and the end of the object
   once. *)
Balanced(p) ==
  \E closed, pairs \in Nat :
    Tally(p.shown, Heads(p), closed + Fences(p), closed,
          2 * pairs + Quotes(p), Finals(p))

Flags(p) ==
  /\ DOMAIN p = PresenterFields
  /\ p.mode \in {"config_map", "json_object"}
  /\ p.header \in BOOLEAN /\ p.stringOpen \in BOOLEAN /\ p.fenceOpen \in BOOLEAN
  /\ p.jsonString \in BOOLEAN /\ p.finished \in BOOLEAN /\ p.streamed \in BOOLEAN
  /\ p.header => p.streamed
  /\ p.mode = "config_map" => (p.streamed => p.header) /\ ~p.jsonString
  /\ p.mode = "json_object" => ~p.stringOpen
  /\ p.fenceOpen => p.stringOpen
  /\ p.stringOpen \/ p.jsonString => p.header

Rendered(p) == Flags(p) /\ (p.header <=> p.shown # <<>>) /\ Balanced(p)

(* A fence or a quote is open only inside the string that it belongs to. *)
Inside(p) ==
  /\ p.fenceOpen => ~p.finished /\ p.streamer.phase = "in_string"
                    /\ KeyConfig[p.streamer.current] = "fenced"
  /\ p.jsonString => ~p.finished /\ p.streamer.phase = "in_string"

Sound(p) == Rendered(p) /\ Walker(p.streamer) /\ Inside(p)

(* Where the walk is when n characters of a text are consumed whose object opens at i and has
   its first key at j, and the next character that this text has. *)
Place(i, j, n) == IF n < i THEN "before" ELSE IF n < j THEN "between" ELSE "after"

Due(ch, i, j, n) ==
  /\ n + 1 = i => ch = "{"
  /\ n + 1 = j => ch = Quote
  /\ n + 1 < j /\ n + 1 # i => ch \in Space

(* As long as a JSON presenter shows nothing of an object with a member, the end of the object
   is not reached. *)
Opening(p, place) ==
  /\ ~p.header => ~p.streamed /\ ~p.finished
  /\ place = "before" => p.streamer.phase = "seek_object" /\ ~p.header
  /\ place = "between" => p.streamer.phase = "between_keys" /\ ~p.header
  /\ place = "after" => p.header \/ p.streamer.phase \in InMember

Follows(p, text, n) ==
  \A i, j \in DOMAIN text : OpensAt(text, i, j) => Opening(p, Place(i, j, n))

-----------------------------------------------------------------------------
(* Sequences, position by position. *)

LEMMA ListFrom ==
  ASSUME NEW n \in Nat, NEW s, s = [i \in 1..n |-> s[i]]
  PROVE  IsList(s) /\ Len(s) = n
<1>1. DOMAIN s = 1..n
  OBVIOUS
<1>2. ToSet(s) = {s[i] : i \in 1..n}
  BY <1>1 DEF ToSet
<1>3. s \in [1..n -> ToSet(s)]
  BY <1>2
<1> HIDE DEF ToSet
<1>4. s \in Seq(ToSet(s))
  BY <1>3
<1> QED
  BY <1>1, <1>4 DEF IsList

LEMMA ListIs ==
  ASSUME NEW s, IsList(s)
  PROVE  Len(s) \in Nat /\ DOMAIN s = 1..Len(s) /\ s = [i \in 1..Len(s) |-> s[i]]
BY DEF IsList

LEMMA SeqIs ==
  ASSUME NEW E, NEW s \in Seq(E)
  PROVE  Len(s) \in Nat /\ s = [i \in 1..Len(s) |-> s[i]]
OBVIOUS

LEMMA SeqWidens ==
  ASSUME NEW D, NEW E, D \subseteq E, NEW s \in Seq(D)
  PROVE  s \in Seq(E)
<1>1. Len(s) \in Nat /\ s \in [1..Len(s) -> D]
  OBVIOUS
<1>2. s \in [1..Len(s) -> E]
  BY <1>1
<1> QED
  BY <1>1, <1>2

LEMMA Joined ==
  ASSUME NEW s, IsList(s), NEW t, IsList(t)
  PROVE  /\ IsList(s \o t) /\ Len(s \o t) = Len(s) + Len(t)
         /\ \A i \in 1..Len(s) : (s \o t)[i] = s[i]
         /\ \A i \in 1..Len(t) : (s \o t)[Len(s) + i] = t[i]
<1> DEFINE E == ToSet(s) \cup ToSet(t)
           u == s \o t
<1>1. s \in Seq(E) /\ t \in Seq(E)
  <2>1. s \in Seq(ToSet(s)) /\ ToSet(s) \subseteq E /\ t \in Seq(ToSet(t)) /\ ToSet(t) \subseteq E
    BY DEF IsList
  <2> HIDE DEF E
  <2> QED
    BY <2>1, SeqWidens
<1> HIDE DEF E
<1>2. u \in Seq(E) /\ Len(u) = Len(s) + Len(t) /\ Len(s) \in Nat /\ Len(t) \in Nat
  BY <1>1
<1>3. \A i \in 1..Len(s) : u[i] = s[i]
  BY <1>1
<1>4. \A i \in 1..Len(t) : u[Len(s) + i] = t[i]
  BY <1>1
<1> HIDE DEF u
<1>5. u = [i \in 1..Len(u) |-> u[i]] /\ Len(u) \in Nat
  BY <1>2, SeqIs
<1>6. IsList(u)
  BY <1>5, ListFrom
<1> QED
  BY <1>2, <1>3, <1>4, <1>6 DEF u

(* A set of numbers has a least member. *)
LEMMA LeastNat ==
  ASSUME NEW I, I \subseteq Nat, I # {}
  PROVE  \E m \in I : \A n \in I : m <= n
<1> DEFINE R == OpToRel(<, Nat)
<1>1. \E m \in I : \A n \in I : ~(<<n, m>> \in R)
  <2>1. IsWellFoundedOn(R, Nat)
    BY NatLessThanWellFounded
  <2> HIDE DEF R
  <2> QED BY <2>1, WFMin
<1>2. \A n, m \in Nat : n < m => <<n, m>> \in R
  BY DEF OpToRel
<1>3. PICK m \in I : \A n \in I : ~(<<n, m>> \in R)
  BY <1>1
<1> HIDE DEF R
<1>4. \A n \in I : ~(n < m)
  BY <1>2, <1>3
<1> QED
  BY <1>4

-----------------------------------------------------------------------------
(* Pieces of a kind, counted. *)

LEMMA KindsFinite ==
  ASSUME NEW s, IsList(s), NEW kind
  PROVE  IsFiniteSet(Kinds(s, kind)) /\ Number(s, kind) \in Nat
<1>1. Kinds(s, kind) \subseteq 1..Len(s) /\ Len(s) \in Nat
  BY ListIs DEF Kinds
<1>2. IsFiniteSet(1..Len(s))
  BY <1>1, FS_Interval
<1>3. IsFiniteSet(Kinds(s, kind))
  BY <1>1, <1>2, FS_Subset
<1> QED
  BY <1>3, FS_CardinalityType DEF Number

LEMMA NumberJoined ==
  ASSUME NEW s, IsList(s), NEW t, IsList(t), NEW kind
  PROVE  Number(s \o t, kind) = Number(s, kind) + Number(t, kind)
<1> DEFINE u == s \o t
           S == Kinds(s, kind)
           T == Kinds(t, kind)
           U == Kinds(u, kind)
           V == {i \in U : i > Len(s)}
           shift == [i \in T |-> Len(s) + i]
<1>1. /\ Len(s) \in Nat /\ DOMAIN s = 1..Len(s) /\ Len(t) \in Nat /\ DOMAIN t = 1..Len(t)
  BY ListIs
<1>2. /\ IsList(u) /\ Len(u) = Len(s) + Len(t)
      /\ \A i \in 1..Len(s) : u[i] = s[i]
      /\ \A i \in 1..Len(t) : u[Len(s) + i] = t[i]
  BY Joined
<1>3. DOMAIN u = 1..(Len(s) + Len(t))
  BY <1>2, ListIs
<1> HIDE DEF u
<1>4. S \cup V = U
  <2>1. \A i : i \in S <=> i \in 1..Len(s) /\ s[i].is = kind
    BY <1>1 DEF Kinds
  <2>2. \A i : i \in U <=> i \in 1..(Len(s) + Len(t)) /\ u[i].is = kind
    BY <1>3 DEF Kinds
  <2>3. \A i : i \in V <=> i \in U /\ i > Len(s)
    OBVIOUS
  <2> HIDE DEF S, U, V
  <2>4. \A i \in 1..(Len(s) + Len(t)) : i > Len(s) \/ i \in 1..Len(s)
    BY <1>1
  <2>5. \A i \in 1..Len(s) : i \in 1..(Len(s) + Len(t))
    BY <1>1
  <2> QED
    BY <1>2, <2>1, <2>2, <2>3, <2>4, <2>5
<1>5. S \cap V = {}
  BY <1>1 DEF Kinds
<1>6. shift \in Bijection(T, V)
  <2>1. \A i \in T : i \in 1..Len(t) /\ t[i].is = kind
    BY <1>1 DEF Kinds
  <2>2. \A j : j \in V <=> j \in 1..(Len(s) + Len(t)) /\ u[j].is = kind /\ j > Len(s)
    BY <1>3 DEF Kinds
  <2>3. \A i \in 1..Len(t) : i \in T <=> t[i].is = kind
    BY <1>1 DEF Kinds
  <2> HIDE DEF T, V
  <2>4. \A i \in T : Len(s) + i \in V
    BY <1>1, <1>2, <2>1, <2>2
  <2>5. \A j \in V : \E i \in T : j = Len(s) + i
    <3> SUFFICES ASSUME NEW j \in V PROVE \E i \in T : j = Len(s) + i
      OBVIOUS
    <3>1. j \in 1..(Len(s) + Len(t)) /\ u[j].is = kind /\ j > Len(s)
      BY <2>2
    <3>2. (j - Len(s)) \in 1..Len(t) /\ j = Len(s) + (j - Len(s))
      BY <1>1, <3>1
    <3>3. u[j] = t[j - Len(s)]
      BY <1>2, <3>2
    <3> QED
      BY <2>3, <3>1, <3>2, <3>3
  <2>6. \A i, j \in T : Len(s) + i = Len(s) + j => i = j
    BY <1>1, <2>1
  <2> QED
    BY <2>4, <2>5, <2>6 DEF Bijection, Injection, Surjection, IsInjective
<1>7. IsFiniteSet(S) /\ IsFiniteSet(T) /\ IsFiniteSet(U)
  BY <1>2, KindsFinite
<1>8. IsFiniteSet(V) /\ Cardinality(V) = Cardinality(T)
  <2>1. ExistsBijection(T, V)
    BY <1>6 DEF ExistsBijection
  <2> HIDE DEF T, V
  <2> QED
    BY <1>7, <2>1, FS_Bijection
<1>9. Cardinality(S \cup V) = Cardinality(S) + Cardinality(V) - Cardinality(S \cap V)
  <2> HIDE DEF S, V
  <2> QED
    BY <1>7, <1>8, FS_Union
<1>10. Cardinality(S \cap V) = 0 /\ Cardinality(S) \in Nat /\ Cardinality(V) \in Nat
  <2> HIDE DEF S, V
  <2> QED
    BY <1>5, <1>7, <1>8, FS_EmptySet, FS_CardinalityType
<1> HIDE DEF V
<1>11. Number(u, kind) = Cardinality(U) /\ Number(s, kind) = Cardinality(S) /\ Number(t, kind) = Cardinality(T)
  BY DEF Number
<1> HIDE DEF S, T, U
<1>12. Number(u, kind) = Number(s, kind) + Number(t, kind)
  BY <1>4, <1>8, <1>9, <1>10, <1>11
<1> QED
  BY <1>12 DEF u

LEMMA TallyJoined ==
  ASSUME NEW s, NEW h1, NEW o1, NEW c1, NEW q1, NEW e1,
         NEW t, NEW h2, NEW o2, NEW c2, NEW q2, NEW e2,
         Tally(s, h1, o1, c1, q1, e1), Tally(t, h2, o2, c2, q2, e2)
  PROVE  Tally(s \o t, h1 + h2, o1 + o2, c1 + c2, q1 + q2, e1 + e2)
<1>1. IsList(s) /\ IsList(t)
  BY DEF Tally
<1>2. IsList(s \o t)
  BY <1>1, Joined
<1>3. \A kind : Number(s \o t, kind) = Number(s, kind) + Number(t, kind)
  BY <1>1, NumberJoined
<1> QED
  BY <1>2, <1>3 DEF Tally

LEMMA TallyNone == Tally(<<>>, 0, 0, 0, 0, 0) /\ IsList(<<>>)
<1>1. IsList(<<>>)
  BY DEF IsList
<1>2. \A kind : Kinds(<<>>, kind) = {}
  BY DEF Kinds
<1>3. \A kind : Number(<<>>, kind) = 0
  BY <1>2, FS_EmptySet DEF Number
<1> QED
  BY <1>1, <1>3 DEF Tally

LEMMA OneIsList ==
  ASSUME NEW x
  PROVE  IsList(<<x>>) /\ Len(<<x>>) = 1
<1> DEFINE s == <<x>>
<1>1. s = [i \in 1..1 |-> s[i]]
  OBVIOUS
<1> HIDE DEF s
<1>2. IsList(s) /\ Len(s) = 1
  BY <1>1, ListFrom
<1> QED
  BY <1>2 DEF s

LEMMA TallyOne ==
  ASSUME NEW kind, NEW k, NEW text
  PROVE  Tally(<<Tok(kind, k, text)>>, Bit(kind = "header"), Bit(kind = "fence_open"),
               Bit(kind = "fence_close"), Bit(kind = "quote"), Bit(kind = "object_end"))
<1> DEFINE s == <<Tok(kind, k, text)>>
<1>1. IsList(s) /\ Len(s) = 1
  BY OneIsList
<1>2. DOMAIN s = {1} /\ s[1].is = kind
  BY DEF Tok
<1> HIDE DEF s
<1>3. \A q : Kinds(s, q) = IF kind = q THEN {1} ELSE {}
  BY <1>2 DEF Kinds
<1>4. \A q : Number(s, q) = Bit(kind = q)
  BY <1>3, FS_EmptySet, FS_Singleton DEF Number, Bit
<1>5. Tally(s, Bit(kind = "header"), Bit(kind = "fence_open"), Bit(kind = "fence_close"),
            Bit(kind = "quote"), Bit(kind = "object_end"))
  BY <1>1, <1>4 DEF Tally
<1> QED
  BY <1>5 DEF s

LEMMA TallyChars ==
  ASSUME NEW k, NEW text, IsList(text)
  PROVE  Tally(Chars(k, text), 0, 0, 0, 0, 0)
<1> DEFINE s == Chars(k, text)
<1>1. DOMAIN text = 1..Len(text) /\ Len(text) \in Nat
  BY ListIs
<1>2. s = [i \in 1..Len(text) |-> Tok("text", k, <<text[i]>>)]
  BY <1>1 DEF Chars
<1>3. s = [i \in 1..Len(text) |-> s[i]] /\ \A i \in DOMAIN s : s[i].is = "text"
  BY <1>2 DEF Tok
<1> HIDE DEF s
<1>4. IsList(s)
  BY <1>1, <1>3, ListFrom
<1>5. \A kind : kind # "text" => Kinds(s, kind) = {}
  BY <1>3 DEF Kinds
<1>6. \A kind : kind # "text" => Number(s, kind) = 0
  BY <1>5, FS_EmptySet DEF Number
<1>7. Tally(s, 0, 0, 0, 0, 0)
  BY <1>4, <1>6 DEF Tally
<1> QED
  BY <1>7 DEF s

-----------------------------------------------------------------------------
(* One character of the argument text, and the events that it completes. *)

(* The event goes on with the string that it is about. *)
Onward(s, t) == s.phase = "in_string" => t.phase = "in_string" /\ t.current = s.current

Silent(s, r) ==
  /\ r.events = <<>> /\ Onward(s, r.s)
  /\ s.phase \in InMember => r.s.phase \in InMember
Named(s, r) ==
  /\ \E k : r.events = <<KeyReady(k)>>
  /\ s.phase = "in_key" /\ r.s.phase = "after_key"
Spelled(s, r) ==
  /\ \E ch : r.events = <<StringChars(s.current, ch)>>
  /\ s.phase = "in_string" /\ Onward(s, r.s)
Valued(s, r) ==
  /\ \E v, str : /\ r.events = <<ValueComplete(s.current, v, str)>>
                 /\ str => IsList(v)
  /\ s.phase \in {"in_string", "in_raw"} /\ r.s.phase = "between_keys"
Ended(s, r) ==
  r.events = <<ObjectDone>> /\ s.phase = "between_keys" /\ r.s.phase = "done"
ValuedEnded(s, r) ==
  /\ \E v : r.events = <<ValueComplete(s.current, v, FALSE), ObjectDone>>
  /\ s.phase = "in_raw" /\ r.s.phase = "done"

Consumed(s, r) ==
  /\ DOMAIN r = {"s", "events"} /\ Walker(r.s)
  /\ \/ Silent(s, r) \/ Named(s, r) \/ Spelled(s, r)
     \/ Valued(s, r) \/ Ended(s, r) \/ ValuedEnded(s, r)

LEMMA StringCharIs ==
  ASSUME NEW s, Walker(s), NEW ch
  PROVE  LET d == StringChar(s, ch) IN
           Walker(d.s) /\ d.s.phase = s.phase /\ d.s.current = s.current /\ d.s.parts = s.parts
<1> DEFINE d == StringChar(s, ch)
<1>1. d.s \in {s, [s EXCEPT !.hex = @ - 1], [s EXCEPT !.escape = FALSE, !.hex = IF ch = "u" THEN 4 ELSE 0],
               [s EXCEPT !.escape = TRUE]}
  BY DEF StringChar
<1> HIDE DEF d
<1>2. DOMAIN d.s = DOMAIN s /\ d.s.phase = s.phase /\ d.s.current = s.current /\ d.s.parts = s.parts
  BY <1>1 DEF Walker, WalkerFields
<1>3. Walker(d.s)
  BY <1>2 DEF Walker
<1> QED
  BY <1>2, <1>3 DEF d

LEMMA NoneIsList == IsList(<<>>)
BY TallyNone

LEMMA AppendedIsList ==
  ASSUME NEW s, IsList(s), NEW x
  PROVE  IsList(Append(s, x))
<1>1. s \in Seq(ToSet(s) \cup {x})
  BY SeqWidens DEF IsList
<1> DEFINE t == Append(s, x)
<1>2. t \in Seq(ToSet(s) \cup {x})
  BY <1>1
<1> HIDE DEF t
<1>3. t = [i \in 1..Len(t) |-> t[i]] /\ Len(t) \in Nat
  BY <1>2, SeqIs
<1>4. IsList(t)
  BY <1>3, ListFrom
<1> QED
  BY <1>4 DEF t

LEMMA InKeyIs ==
  ASSUME NEW s, Walker(s), s.phase = "in_key", NEW ch
  PROVE  Consumed(s, InKey(s, ch))
<1> DEFINE d == StringChar(s, ch)
           k == Head(s.key)
           r == InKey(s, ch)
<1>1. Walker(d.s) /\ d.s.phase = "in_key"
  BY StringCharIs
<1>2. \/ r = Emit([d.s EXCEPT !.phase = "after_key", !.current = k], KeyReady(k))
      \/ r = Stay(d.s)
      \/ r = Stay([d.s EXCEPT !.key = Append(@, d.got)])
  BY DEF InKey
<1> HIDE DEF d, r, k
<1> SUFFICES Consumed(s, r)
  BY DEF r
<1>3. CASE r = Emit([d.s EXCEPT !.phase = "after_key", !.current = k], KeyReady(k))
  <2>1. Walker(r.s) /\ r.s.phase = "after_key"
    BY <1>1, <1>3 DEF Walker, WalkerFields, InMember, Emit
  <2>2. r.events = <<KeyReady(k)>> /\ DOMAIN r = {"s", "events"}
    BY <1>3 DEF Emit
  <2>3. Named(s, r)
    BY <2>1, <2>2 DEF Named
  <2> QED
    BY <2>1, <2>2, <2>3 DEF Consumed
<1>4. CASE r = Stay(d.s) \/ r = Stay([d.s EXCEPT !.key = Append(@, d.got)])
  <2>1. Walker(r.s) /\ r.s.phase = "in_key"
    BY <1>1, <1>4 DEF Walker, WalkerFields, InMember, Stay
  <2>2. r.events = <<>> /\ DOMAIN r = {"s", "events"}
    BY <1>4 DEF Stay
  <2>3. Silent(s, r)
    BY <2>1, <2>2 DEF Silent, Onward, InMember
  <2> QED
    BY <2>1, <2>2, <2>3 DEF Consumed
<1> QED
  BY <1>2, <1>3, <1>4

LEMMA InStringIs ==
  ASSUME NEW s, Walker(s), s.phase = "in_string", NEW ch
  PROVE  Consumed(s, InString(s, ch))
<1> DEFINE d == StringChar(s, ch)
           r == InString(s, ch)
<1>1. Walker(d.s) /\ d.s.phase = "in_string" /\ d.s.current = s.current /\ IsList(s.parts)
  BY StringCharIs DEF Walker
<1>2. \/ r = Emit([d.s EXCEPT !.phase = "between_keys", !.parts = <<>>],
                  ValueComplete(s.current, s.parts, TRUE))
      \/ r = Stay(d.s)
      \/ r = Emit([d.s EXCEPT !.parts = Append(@, d.got)], StringChars(s.current, d.got))
  BY DEF InString
<1>3. d.s.parts = s.parts
  BY StringCharIs
<1> HIDE DEF d, r
<1> SUFFICES Consumed(s, r)
  BY DEF r
<1>4. CASE r = Emit([d.s EXCEPT !.phase = "between_keys", !.parts = <<>>],
                    ValueComplete(s.current, s.parts, TRUE))
  <2>1. Walker(r.s) /\ r.s.phase = "between_keys"
    BY <1>1, <1>4, NoneIsList DEF Walker, WalkerFields, InMember, Emit
  <2>2. r.events = <<ValueComplete(s.current, s.parts, TRUE)>> /\ DOMAIN r = {"s", "events"}
    BY <1>4 DEF Emit
  <2>3. Valued(s, r)
    BY <1>1, <2>1, <2>2 DEF Valued
  <2> QED
    BY <2>1, <2>2, <2>3 DEF Consumed
<1>5. CASE r = Stay(d.s)
  <2>1. Walker(r.s) /\ r.s.phase = "in_string" /\ r.s.current = s.current
    BY <1>1, <1>5 DEF Stay
  <2>2. r.events = <<>> /\ DOMAIN r = {"s", "events"}
    BY <1>5 DEF Stay
  <2>3. Silent(s, r)
    BY <2>1, <2>2 DEF Silent, Onward, InMember
  <2> QED
    BY <2>1, <2>2, <2>3 DEF Consumed
<1>6. CASE r = Emit([d.s EXCEPT !.parts = Append(@, d.got)], StringChars(s.current, d.got))
  <2>1. Walker(r.s) /\ r.s.phase = "in_string" /\ r.s.current = s.current
    <3>1. IsList(Append(d.s.parts, d.got))
      BY <1>1, <1>3, AppendedIsList
    <3> QED
      BY <1>1, <1>6, <3>1 DEF Walker, WalkerFields, Emit
  <2>2. r.events = <<StringChars(s.current, d.got)>> /\ DOMAIN r = {"s", "events"}
    BY <1>6 DEF Emit
  <2>3. Spelled(s, r)
    BY <2>1, <2>2 DEF Spelled, Onward
  <2> QED
    BY <2>1, <2>2, <2>3 DEF Consumed
<1> QED
  BY <1>2, <1>4, <1>5, <1>6

(* A character inside a member, or before the object, that completes nothing. *)
LEMMA StaysSilent ==
  ASSUME NEW s, NEW t, Walker(t), s.phase # "in_string",
         s.phase \in InMember => t.phase \in InMember
  PROVE  Consumed(s, Stay(t))
<1> DEFINE r == Stay(t)
<1>1. r.s = t /\ r.events = <<>> /\ DOMAIN r = {"s", "events"}
  BY DEF Stay
<1> HIDE DEF r
<1>2. Silent(s, r)
  BY <1>1 DEF Silent, Onward
<1>3. Consumed(s, r)
  BY <1>1, <1>2 DEF Consumed
<1> QED
  BY <1>3 DEF r

RawFinished(s, raw, r) ==
  /\ Consumed(s, r) /\ Walker(r.s) /\ r.s.phase = "between_keys"
  /\ r.events = <<ValueComplete(s.current, raw, FALSE)>>

LEMMA FinishRawIs ==
  ASSUME NEW s, NEW t, Walker(t), s.phase = "in_raw", t.current = s.current, NEW raw
  PROVE  RawFinished(s, raw, FinishRaw(t, raw))
<1> DEFINE r == FinishRaw(t, raw)
<1>1. Walker(r.s) /\ r.s.phase = "between_keys"
  BY DEF Walker, WalkerFields, InMember, FinishRaw, Emit
<1>2. r.events = <<ValueComplete(s.current, raw, FALSE)>> /\ DOMAIN r = {"s", "events"}
  BY DEF FinishRaw, Emit
<1> HIDE DEF r
<1>3. Valued(s, r)
  BY <1>1, <1>2 DEF Valued
<1>4. Consumed(s, r)
  BY <1>1, <1>2, <1>3 DEF Consumed
<1>5. RawFinished(s, raw, r)
  BY <1>1, <1>2, <1>4 DEF RawFinished
<1> QED
  BY <1>5 DEF r

KeysSought(s, ch, r) ==
  /\ Consumed(s, r) /\ Walker(r.s)
  /\ \/ r.events = <<>> /\ ch # "}"
     \/ r.events = <<ObjectDone>> /\ ch = "}" /\ r.s.phase = "done"
  /\ ch = Quote => r.s.phase = "in_key"
  /\ ch \notin {"}", Quote} => r.s.phase = "between_keys"

LEMMA BetweenKeysIs ==
  ASSUME NEW s, Walker(s), s.phase = "between_keys", NEW ch
  PROVE  KeysSought(s, ch, BetweenKeys(s, ch))
<1> DEFINE r == BetweenKeys(s, ch)
<1>0. Quote # "}"
  BY DEF Quote
<1>1. CASE ch = "}"
  <2>1. r = Emit([s EXCEPT !.phase = "done"], ObjectDone)
    BY <1>0, <1>1 DEF BetweenKeys
  <2> HIDE DEF r
  <2>2. Walker(r.s) /\ r.s.phase = "done" /\ r.events = <<ObjectDone>> /\ DOMAIN r = {"s", "events"}
    BY <2>1 DEF Walker, WalkerFields, Emit
  <2>3. Consumed(s, r)
    BY <2>2 DEF Consumed, Ended
  <2>4. KeysSought(s, ch, r)
    BY <1>0, <1>1, <2>2, <2>3 DEF KeysSought
  <2> QED
    BY <2>4 DEF r
<1>2. CASE ch = Quote
  <2>1. r = Stay([s EXCEPT !.phase = "in_key", !.key = <<>>, !.escape = FALSE, !.hex = 0])
    BY <1>0, <1>2 DEF BetweenKeys
  <2> HIDE DEF r
  <2>2. Walker(r.s) /\ r.s.phase = "in_key" /\ r.events = <<>> /\ r = Stay(r.s)
    BY <2>1 DEF Walker, WalkerFields, Stay, InMember
  <2>3. Consumed(s, r)
    BY <2>2, StaysSilent DEF InMember
  <2>4. KeysSought(s, ch, r)
    BY <1>0, <1>2, <2>2, <2>3 DEF KeysSought
  <2> QED
    BY <2>4 DEF r
<1>3. CASE ch # "}" /\ ch # Quote
  <2>1. r = Stay(s)
    BY <1>3 DEF BetweenKeys
  <2>2. Consumed(s, Stay(s))
    BY StaysSilent
  <2> HIDE DEF r
  <2>3. Consumed(s, r) /\ Walker(r.s) /\ r.events = <<>> /\ r.s.phase = "between_keys"
    BY <2>1, <2>2 DEF Stay
  <2>4. KeysSought(s, ch, r)
    BY <1>3, <2>3 DEF KeysSought
  <2> QED
    BY <2>4 DEF r
<1> QED
  BY <1>1, <1>2, <1>3

LEMMA InNestedIs ==
  ASSUME NEW s, Walker(s), s.phase = "in_raw", NEW ch
  PROVE  Consumed(s, InNested(s, ch))
<1> DEFINE t == [s EXCEPT !.raw = Append(@, ch)]
           u == [t EXCEPT !.depth = 0]
           others == {t, [t EXCEPT !.nestEscape = FALSE],
                      [t EXCEPT !.nestEscape = (ch = Backslash), !.inString = (ch # Quote)],
                      [t EXCEPT !.inString = TRUE], [t EXCEPT !.depth = @ + 1],
                      [t EXCEPT !.depth = @ - 1]}
<1>1. InNested(s, ch) = FinishRaw(u, t.raw) \/ \E v \in others : InNested(s, ch) = Stay(v)
  BY DEF InNested
<1>2. DOMAIN t = DOMAIN s /\ t.phase = s.phase /\ t.current = s.current /\ t.parts = s.parts
  BY DEF Walker, WalkerFields
<1> HIDE DEF t
<1>3. CASE InNested(s, ch) = FinishRaw(u, t.raw)
  <2>1. Walker(u) /\ u.current = s.current
    BY <1>2 DEF Walker, WalkerFields
  <2> HIDE DEF u
  <2>2. RawFinished(s, t.raw, FinishRaw(u, t.raw))
    BY <2>1, FinishRawIs
  <2> QED
    BY <1>3, <2>2 DEF RawFinished
<1>4. CASE \E v \in others : InNested(s, ch) = Stay(v)
  <2>1. PICK v \in others : InNested(s, ch) = Stay(v)
    BY <1>4
  <2>2. Walker(v) /\ v.phase = s.phase
    BY <1>2 DEF Walker, WalkerFields
  <2> HIDE DEF others
  <2> QED
    BY <2>1, <2>2, StaysSilent DEF InMember
<1> QED
  BY <1>1, <1>3, <1>4

LEMMA OneThen ==
  ASSUME NEW x, NEW y
  PROVE  <<x>> \o <<>> = <<x>> /\ <<x>> \o <<y>> = <<x, y>>
<1> DEFINE s == <<x>>
           t == <<y>>
           u == s \o <<>>
           v == s \o t
<1>0. IsList(s) /\ IsList(t)
  BY OneIsList
<1>1. Len(s) = 1 /\ s[1] = x /\ Len(t) = 1 /\ t[1] = y
  BY OneIsList
<1> HIDE DEF s, t
<1>2. IsList(u) /\ Len(u) = Len(s) + Len(<<>>) /\ \A i \in 1..Len(s) : u[i] = s[i]
  BY <1>0, NoneIsList, Joined
<1>3. /\ IsList(v) /\ Len(v) = Len(s) + Len(t)
      /\ \A i \in 1..Len(s) : v[i] = s[i]
      /\ \A i \in 1..Len(t) : v[Len(s) + i] = t[i]
  BY <1>0, Joined
<1> HIDE DEF u, v
<1>4. Len(u) = 1 /\ Len(v) = 2 /\ u[1] = x /\ v[1] = x /\ v[2] = y
  <2>1. u[1] = x /\ v[1] = x /\ v[1 + 1] = y
    BY <1>1, <1>2, <1>3
  <2>2. Len(<<>>) = 0
    OBVIOUS
  <2> QED
    BY <1>1, <1>2, <1>3, <2>1, <2>2
<1>5. u = [i \in 1..1 |-> u[i]] /\ v = [i \in 1..2 |-> v[i]]
  BY <1>2, <1>3, <1>4, ListIs
<1>6. u = <<x>>
  BY <1>4, <1>5
<1>7. v = <<x, y>>
  BY <1>4, <1>5
<1> QED
  BY <1>6, <1>7 DEF s, t, u, v

LEMMA TailIs ==
  ASSUME NEW x, NEW t, IsList(t)
  PROVE  Tail(<<x>> \o t) = t
<1> DEFINE s == <<x>>
           u == s \o t
           r == Tail(u)
<1>0. IsList(s)
  BY OneIsList
<1>1. Len(s) = 1
  BY OneIsList
<1> HIDE DEF s
<1>2. /\ IsList(u) /\ Len(u) = Len(s) + Len(t)
      /\ \A i \in 1..Len(s) : u[i] = s[i]
      /\ \A i \in 1..Len(t) : u[Len(s) + i] = t[i]
  BY <1>0, Joined
<1> HIDE DEF u
<1>3. Len(t) \in Nat /\ t = [i \in 1..Len(t) |-> t[i]]
  BY ListIs
<1>4. Len(u) = 1 + Len(t) /\ \A i \in 1..Len(t) : u[1 + i] = t[i]
  BY <1>1, <1>2
<1>5. u \in Seq(ToSet(u)) /\ u # <<>>
  BY <1>2, <1>3, <1>4 DEF IsList
<1>6. r \in Seq(ToSet(u)) /\ Len(r) = Len(u) - 1 /\ \A i \in 1..Len(r) : r[i] = u[i + 1]
  BY <1>5
<1> HIDE DEF r
<1>7. Len(r) = Len(t) /\ r = [i \in 1..Len(r) |-> r[i]]
  BY <1>3, <1>4, <1>6, SeqIs
<1>8. \A i \in 1..Len(t) : r[i] = t[i]
  BY <1>3, <1>4, <1>6, <1>7
<1>9. r = t
  BY <1>3, <1>7, <1>8
<1> QED
  BY <1>9 DEF s, u, r

LEMMA InScalarIs ==
  ASSUME NEW s, Walker(s), s.phase = "in_raw", NEW ch
  PROVE  Consumed(s, InScalar(s, ch))
<1> DEFINE done == FinishRaw(s, s.raw)
           more == BetweenKeys(done.s, ch)
           r == [s |-> more.s, events |-> done.events \o more.events]
<1>1. CASE ch \notin Space \cup {",", "}"}
  <2> DEFINE t == [s EXCEPT !.raw = Append(@, ch)]
  <2>1. InScalar(s, ch) = Stay(t)
    BY <1>1 DEF InScalar
  <2>2. Walker(t) /\ t.phase = s.phase
    BY DEF Walker, WalkerFields
  <2> HIDE DEF t
  <2> QED
    BY <2>1, <2>2, StaysSilent
<1>2. CASE ch \in Space \cup {",", "}"}
  <2>1. InScalar(s, ch) = r
    BY <1>2 DEF InScalar
  <2>2. RawFinished(s, s.raw, done)
    BY FinishRawIs
  <2> HIDE DEF done
  <2>3. KeysSought(done.s, ch, more)
    BY <2>2, BetweenKeysIs DEF RawFinished
  <2>4. ch # Quote
    BY <1>2 DEF Space, Quote
  <2> HIDE DEF more
  <2>5. DOMAIN r = {"s", "events"} /\ r.s = more.s /\ r.events = done.events \o more.events
    OBVIOUS
  <2> HIDE DEF r
  <2> SUFFICES Consumed(s, r)
    BY <2>1
  <2>6. CASE more.events = <<>> /\ ch # "}"
    <3>1. r.events = <<ValueComplete(s.current, s.raw, FALSE)>>
      BY <2>2, <2>5, <2>6, OneThen DEF RawFinished
    <3>2. Valued(s, r)
      BY <2>3, <2>4, <2>5, <2>6, <3>1 DEF Valued, KeysSought
    <3> QED
      BY <2>3, <2>5, <3>2 DEF Consumed, KeysSought
  <2>7. CASE more.events = <<ObjectDone>> /\ more.s.phase = "done"
    <3>1. r.events = <<ValueComplete(s.current, s.raw, FALSE), ObjectDone>>
      BY <2>2, <2>5, <2>7, OneThen DEF RawFinished
    <3>2. ValuedEnded(s, r)
      BY <2>5, <2>7, <3>1 DEF ValuedEnded
    <3> QED
      BY <2>3, <2>5, <3>2 DEF Consumed, KeysSought
  <2> QED
    BY <2>3, <2>6, <2>7 DEF KeysSought
<1> QED
  BY <1>1, <1>2

LEMMA SeekValueIs ==
  ASSUME NEW s, Walker(s), s.phase = "seek_value", NEW ch
  PROVE  Consumed(s, SeekValue(s, ch))
<1> DEFINE a == [s EXCEPT !.phase = "in_string", !.parts = <<>>, !.escape = FALSE, !.hex = 0]
           b == [s EXCEPT !.phase = "in_raw", !.raw = <<ch>>, !.depth = IF ch \in Opens THEN 1 ELSE 0,
                          !.inString = FALSE, !.nestEscape = FALSE]
<1>1. \E t \in {s, a, b} : SeekValue(s, ch) = Stay(t)
  BY DEF SeekValue
<1>2. \A t \in {s, a, b} : Walker(t) /\ t.phase \in InMember
  BY NoneIsList DEF Walker, WalkerFields, InMember
<1> HIDE DEF a, b
<1> QED
  BY <1>1, <1>2, StaysSilent

LEMMA ConsumeIs ==
  ASSUME NEW s, Walker(s), NEW ch
  PROVE  Consumed(s, Consume(s, ch))
<1>1. CASE s.phase = "seek_object"
  <2> DEFINE t == [s EXCEPT !.phase = IF ch = "{" THEN "between_keys" ELSE "done"]
  <2>1. Consume(s, ch) = Stay(s) \/ Consume(s, ch) = Stay(t)
    BY <1>1 DEF Consume
  <2>2. Walker(t)
    BY DEF Walker, WalkerFields
  <2> HIDE DEF t
  <2> QED
    BY <1>1, <2>1, <2>2, StaysSilent DEF InMember
<1>2. CASE s.phase = "between_keys"
  BY <1>2, BetweenKeysIs DEF Consume, KeysSought
<1>3. CASE s.phase = "in_key"
  BY <1>3, InKeyIs DEF Consume
<1>4. CASE s.phase = "after_key"
  <2> DEFINE t == IF ch = ":" THEN [s EXCEPT !.phase = "seek_value"] ELSE s
  <2>1. Consume(s, ch) = Stay(t)
    BY <1>4 DEF Consume
  <2>2. Walker(t) /\ t.phase \in InMember
    BY <1>4 DEF Walker, WalkerFields, InMember
  <2> HIDE DEF t
  <2> QED
    BY <1>4, <2>1, <2>2, StaysSilent
<1>5. CASE s.phase = "seek_value"
  BY <1>5, SeekValueIs DEF Consume
<1>6. CASE s.phase = "in_string"
  BY <1>6, InStringIs DEF Consume
<1>7. CASE s.phase = "in_raw"
  BY <1>7, InNestedIs, InScalarIs DEF Consume
<1>8. CASE s.phase = "done"
  <2>1. Consume(s, ch) = Stay(s)
    BY <1>8 DEF Consume
  <2> QED
    BY <1>8, <2>1, StaysSilent DEF InMember
<1> QED
  BY <1>1, <1>2, <1>3, <1>4, <1>5, <1>6, <1>7, <1>8 DEF Walker, InMember

-----------------------------------------------------------------------------
(* What the presenter adds, event by event. *)

LEMMA OpenCounts ==
  ASSUME NEW p
  PROVE  Heads(p) \in {0, 1} /\ Fences(p) \in {0, 1} /\ Quotes(p) \in {0, 1} /\ Finals(p) \in {0, 1}
BY DEF Heads, Fences, Quotes, Finals

Unpaired(t) == Tally(t, 0, 0, 0, 0, 0)

LEMMA Pieces ==
  ASSUME NEW k
  PROVE  /\ Unpaired(<<ParamName(k)>>) /\ Unpaired(<<ParamEnd(k)>>)
         /\ Unpaired(<<Tok("json_key", k, <<>>)>>) /\ Unpaired(<<Comma>>)
         /\ Unpaired(<<Tok("replacement", k, <<>>)>>)
         /\ \A v : Unpaired(<<Tok("value", k, v)>>)
         /\ Tally(<<FenceOpen(k)>>, 0, 1, 0, 0, 0) /\ Tally(<<FenceClose(k)>>, 0, 0, 1, 0, 0)
         /\ Tally(<<Tok("quote", k, <<>>)>>, 0, 0, 0, 1, 0)
         /\ Tally(<<Header>>, 1, 0, 0, 0, 0) /\ Tally(<<ObjectEnd>>, 0, 0, 0, 0, 1)
<1> DEFINE Of(kind, l, text) ==
             Tally(<<Tok(kind, l, text)>>, Bit(kind = "header"), Bit(kind = "fence_open"),
                   Bit(kind = "fence_close"), Bit(kind = "quote"), Bit(kind = "object_end"))
<1>1. \A kind, l, text : Of(kind, l, text)
  BY TallyOne
<1> HIDE DEF Of
<1>2. /\ Of("name", k, <<>>) /\ Of("end", k, <<>>) /\ Of("json_key", k, <<>>)
      /\ Of("comma", NoKey, <<>>) /\ Of("replacement", k, <<>>) /\ \A v : Of("value", k, v)
      /\ Of("fence_open", k, <<>>) /\ Of("fence_close", k, <<>>) /\ Of("quote", k, <<>>)
      /\ Of("header", NoKey, <<>>) /\ Of("object_end", NoKey, <<>>)
  BY <1>1
<1>3. Bit(TRUE) = 1 /\ Bit(FALSE) = 0
  BY DEF Bit
<1>4. Unpaired(<<ParamName(k)>>) /\ Unpaired(<<ParamEnd(k)>>)
  BY <1>2, <1>3 DEF Of, Unpaired, ParamName, ParamEnd
<1>5. Unpaired(<<Tok("json_key", k, <<>>)>>) /\ Unpaired(<<Comma>>)
  BY <1>2, <1>3 DEF Of, Unpaired, Comma
<1>6. Unpaired(<<Tok("replacement", k, <<>>)>>) /\ \A v : Unpaired(<<Tok("value", k, v)>>)
  BY <1>2, <1>3 DEF Of, Unpaired
<1>7. Tally(<<FenceOpen(k)>>, 0, 1, 0, 0, 0) /\ Tally(<<FenceClose(k)>>, 0, 0, 1, 0, 0)
  BY <1>2, <1>3 DEF Of, FenceOpen, FenceClose
<1>8. Tally(<<Tok("quote", k, <<>>)>>, 0, 0, 0, 1, 0)
  BY <1>2, <1>3 DEF Of
<1>9. Tally(<<Header>>, 1, 0, 0, 0, 0) /\ Tally(<<ObjectEnd>>, 0, 0, 0, 0, 1)
  BY <1>2, <1>3 DEF Of, Header, ObjectEnd
<1> QED
  BY <1>4, <1>5, <1>6, <1>7, <1>8, <1>9

LEMMA UnpairedJoined ==
  ASSUME NEW s, NEW t, NEW h, NEW o, NEW c, NEW q, NEW e
  PROVE  /\ Unpaired(s) /\ Tally(t, h, o, c, q, e) => Tally(s \o t, h, o, c, q, e)
         /\ Tally(s, h, o, c, q, e) /\ Unpaired(t) => Tally(s \o t, h, o, c, q, e)
<1>0. ASSUME NEW u, Tally(u, h, o, c, q, e)
      PROVE  h \in Nat /\ o \in Nat /\ c \in Nat /\ q \in Nat /\ e \in Nat
  BY <1>0, KindsFinite DEF Tally
<1>1. ASSUME Unpaired(s), Tally(t, h, o, c, q, e) PROVE Tally(s \o t, h, o, c, q, e)
  <2>1. Tally(s \o t, 0 + h, 0 + o, 0 + c, 0 + q, 0 + e)
    BY <1>1, TallyJoined DEF Unpaired
  <2>2. 0 + h = h /\ 0 + o = o /\ 0 + c = c /\ 0 + q = q /\ 0 + e = e
    BY <1>0, <1>1
  <2> QED
    BY <2>1, <2>2
<1>2. ASSUME Tally(s, h, o, c, q, e), Unpaired(t) PROVE Tally(s \o t, h, o, c, q, e)
  <2>1. Tally(s \o t, h + 0, o + 0, c + 0, q + 0, e + 0)
    BY <1>2, TallyJoined DEF Unpaired
  <2>2. h + 0 = h /\ o + 0 = o /\ c + 0 = c /\ q + 0 = q /\ e + 0 = e
    BY <1>0, <1>2
  <2> QED
    BY <2>1, <2>2
<1> QED
  BY <1>1, <1>2

(* A whole parameter has as many fences closed as opened. *)
LEMMA ParamPaired ==
  ASSUME NEW k, NEW v, NEW str, str => IsList(v)
  PROVE  \E n \in {0, 1} : Tally(ConfigMapParam(k, v, str), 0, n, n, 0, 0)
<1> DEFINE text == ValueText(k, v, str)
           value == FormatValue(k, v, str)
<1>1. Unpaired(text)
  <2>1. CASE str
    BY <2>1, TallyChars DEF ValueText, Unpaired
  <2>2. CASE ~str
    BY <2>2, Pieces DEF ValueText
  <2> QED
    BY <2>1, <2>2
<1> HIDE DEF text
<1>2. \E n \in {0, 1} : Tally(value, 0, n, n, 0, 0)
  <2>1. CASE KeyConfig[k] = "replaced"
    <3>1. value = <<Tok("replacement", k, <<>>)>>
      BY <2>1 DEF FormatValue
    <3>2. Unpaired(value)
      BY <3>1, Pieces
    <3> QED
      BY <3>2 DEF Unpaired
  <2>2. CASE KeyConfig[k] = "fenced"
    <3>1. value = (<<FenceOpen(k)>> \o text) \o <<FenceClose(k)>>
      BY <2>2 DEF FormatValue, text
    <3>2. Tally(<<FenceOpen(k)>> \o text, 0, 1, 0, 0, 0)
      BY <1>1, Pieces, UnpairedJoined
    <3>3. Tally(<<FenceClose(k)>>, 0, 0, 1, 0, 0)
      BY Pieces
    <3>4. Tally(value, 0 + 0, 1 + 0, 0 + 1, 0 + 0, 0 + 0)
      BY <3>1, <3>2, <3>3, TallyJoined
    <3> HIDE DEF value
    <3>5. Tally(value, 0, 1, 1, 0, 0)
      BY <3>4
    <3> QED
      BY <3>5
  <2>3. CASE KeyConfig[k] # "replaced" /\ KeyConfig[k] # "fenced"
    <3>1. value = text
      BY <2>3 DEF FormatValue, text
    <3> QED
      BY <1>1, <3>1 DEF Unpaired
  <2> QED
    BY <2>1, <2>2, <2>3
<1> HIDE DEF value
<1>3. PICK n \in {0, 1} : Tally(value, 0, n, n, 0, 0)
  BY <1>2
<1>4. CASE KeyConfig[k] = "ignored"
  BY <1>4, TallyNone DEF ConfigMapParam
<1>5. CASE KeyConfig[k] # "ignored"
  <2>1. ConfigMapParam(k, v, str) = (<<ParamName(k)>> \o value) \o <<ParamEnd(k)>>
    BY <1>5 DEF ConfigMapParam, value
  <2>2. Tally(<<ParamName(k)>> \o value, 0, n, n, 0, 0)
    BY <1>3, Pieces, UnpairedJoined
  <2>3. Tally((<<ParamName(k)>> \o value) \o <<ParamEnd(k)>>, 0, n, n, 0, 0)
    BY <2>2, Pieces, UnpairedJoined
  <2> QED
    BY <2>1, <2>3
<1> QED
  BY <1>4, <1>5

(* q is p with more content, of h headers and so on. *)
Adds(p, q, h, o, c, n, e, d) ==
  /\ h \in Nat /\ o \in Nat /\ c \in Nat /\ n \in Nat /\ e \in Nat /\ d \in Nat
  /\ \E t : Tally(t, h, o, c, n, e) /\ q.shown = p.shown \o t
  /\ Heads(q) = Heads(p) + h
  /\ Fences(p) + o = c + Fences(q)
  /\ Quotes(p) + n = 2 * d + Quotes(q)
  /\ Finals(q) = Finals(p) + e

LEMMA AddsRenders ==
  ASSUME NEW p, NEW q, Balanced(p), Flags(q), q.header,
         NEW h, NEW o, NEW c, NEW n, NEW e, NEW d, Adds(p, q, h, o, c, n, e, d)
  PROVE  Rendered(q)
<1>1. PICK closed \in Nat, pairs \in Nat :
        Tally(p.shown, Heads(p), closed + Fences(p), closed,
              2 * pairs + Quotes(p), Finals(p))
  BY DEF Balanced
<1>2. PICK t : Tally(t, h, o, c, n, e) /\ q.shown = p.shown \o t
  BY DEF Adds
<1>3. /\ Heads(q) = Heads(p) + h /\ Fences(p) + o = c + Fences(q)
      /\ Quotes(p) + n = 2 * d + Quotes(q) /\ Finals(q) = Finals(p) + e
  BY DEF Adds
<1>4. /\ h \in Nat /\ o \in Nat /\ c \in Nat /\ n \in Nat /\ e \in Nat /\ d \in Nat
      /\ Heads(p) \in Nat /\ Fences(p) \in Nat /\ Quotes(p) \in Nat
      /\ Finals(p) \in Nat /\ Fences(q) \in Nat /\ Quotes(q) \in Nat
  <2>1. h \in Nat /\ o \in Nat /\ c \in Nat /\ n \in Nat /\ e \in Nat /\ d \in Nat
    BY DEF Adds
  <2> QED
    BY <2>1, OpenCounts
<1>5. closed + Fences(p) \in Nat /\ 2 * pairs + Quotes(p) \in Nat
  BY <1>4
<1>6. Tally(q.shown, Heads(p) + h, (closed + Fences(p)) + o, closed + c,
            (2 * pairs + Quotes(p)) + n, Finals(p) + e)
  <2>1. Tally(p.shown, Heads(p), closed + Fences(p), closed, 2 * pairs + Quotes(p), Finals(p))
    BY <1>1
  <2>2. Tally(t, h, o, c, n, e) /\ q.shown = p.shown \o t
    BY <1>2
  <2> QED
    BY <1>4, <1>5, <2>1, <2>2, TallyJoined
<1>7. /\ Heads(p) + h = Heads(q) /\ Finals(p) + e = Finals(q)
      /\ (closed + Fences(p)) + o = (closed + c) + Fences(q)
      /\ (2 * pairs + Quotes(p)) + n = 2 * (pairs + d) + Quotes(q)
      /\ closed + c \in Nat /\ pairs + d \in Nat
  BY <1>3, <1>4
<1>8. Tally(q.shown, Heads(q), (closed + c) + Fences(q), closed + c,
            2 * (pairs + d) + Quotes(q), Finals(q))
  BY <1>6, <1>7
<1>9. Balanced(q)
  BY <1>7, <1>8 DEF Balanced
<1>10. q.shown # <<>>
  <2>1. Number(q.shown, "header") = Heads(q) /\ Number(<<>>, "header") = 0
    BY <1>8, TallyNone DEF Tally
  <2>2. Heads(q) = 1
    BY DEF Heads
  <2> QED
    BY <2>1, <2>2
<1> QED
  BY <1>9, <1>10 DEF Rendered

(* Nothing is added. *)
LEMMA SameRenders ==
  ASSUME NEW p, NEW q, Rendered(p), Flags(q), q.shown = p.shown, q.header = p.header,
         q.fenceOpen = p.fenceOpen, q.jsonString = p.jsonString, Ends(q) <=> Ends(p)
  PROVE  Rendered(q)
<1>1. Finals(q) = Finals(p) /\ Heads(q) = Heads(p) /\ Fences(q) = Fences(p) /\ Quotes(q) = Quotes(p)
  BY DEF Finals, Heads, Fences, Quotes
<1>2. Balanced(q)
  BY <1>1 DEF Rendered, Balanced
<1> QED
  BY <1>2 DEF Rendered

(* What an event leaves alone. *)
Keeps(p, q) ==
  /\ q.mode = p.mode /\ q.streamer = p.streamer /\ q.finished = p.finished
  /\ p.header => q.header

(* ... and what a piece of content does. *)
SameFlags(p, q) ==
  /\ q.stringOpen = p.stringOpen /\ q.fenceOpen = p.fenceOpen /\ q.jsonString = p.jsonString
  /\ q.header = p.header /\ q.streamed = p.streamed

LEMMA ShowUnpaired ==
  ASSUME NEW p, Rendered(p), p.header, NEW t, Unpaired(t)
  PROVE  Rendered(Show(p, t)) /\ Keeps(p, Show(p, t)) /\ SameFlags(p, Show(p, t))
<1> DEFINE q == Show(p, t)
<1>1. /\ DOMAIN q = PresenterFields /\ q.shown = p.shown \o t
      /\ \A f \in PresenterFields \ {"shown"} : q[f] = p[f]
  BY DEF Show, Rendered, Flags
<1> HIDE DEF q
<1>2. Keeps(p, q) /\ SameFlags(p, q)
  BY <1>1 DEF Keeps, SameFlags, PresenterFields
<1>3. Flags(q) /\ q.header
  BY <1>1, <1>2 DEF Rendered, Flags, Keeps, SameFlags
<1>4. Adds(p, q, 0, 0, 0, 0, 0, 0)
  <2>1. Tally(t, 0, 0, 0, 0, 0) /\ q.shown = p.shown \o t
    BY <1>1 DEF Unpaired
  <2>2. Heads(q) = Heads(p) /\ Fences(q) = Fences(p) /\ Quotes(q) = Quotes(p) /\ Finals(q) = Finals(p)
    BY <1>2 DEF Keeps, SameFlags, Heads, Fences, Quotes, Finals, Ends
  <2> QED
    BY <2>1, <2>2, OpenCounts DEF Adds
<1>5. Rendered(q)
  BY <1>3, <1>4, AddsRenders DEF Rendered
<1> QED
  BY <1>2, <1>5 DEF q

LEMMA EnsureHeaderIs ==
  ASSUME NEW p, Rendered(p), ~p.finished
  PROVE  LET q == EnsureHeader(p) IN
           /\ Rendered(q) /\ Keeps(p, q) /\ q.header
           /\ q.stringOpen = p.stringOpen /\ q.fenceOpen = p.fenceOpen /\ q.jsonString = p.jsonString
<1> DEFINE q == EnsureHeader(p)
<1>1. CASE p.header
  BY <1>1 DEF EnsureHeader, Keeps
<1>2. CASE ~p.header
  <2>1. /\ DOMAIN q = PresenterFields /\ q.shown = p.shown \o <<Header>> /\ q.header /\ q.streamed
        /\ q.header \in BOOLEAN /\ q.streamed \in BOOLEAN
        /\ \A f \in PresenterFields \ {"shown", "header", "streamed"} : q[f] = p[f]
    BY <1>2 DEF EnsureHeader, Show, Rendered, Flags, PresenterFields
  <2> HIDE DEF q
  <2>2. /\ Keeps(p, q) /\ q.stringOpen = p.stringOpen /\ q.fenceOpen = p.fenceOpen
        /\ q.jsonString = p.jsonString
    BY <2>1 DEF Keeps, PresenterFields
  <2>3. Flags(q)
    BY <2>1, <2>2 DEF Rendered, Flags, Keeps
  <2>4. Adds(p, q, 1, 0, 0, 0, 0, 0)
    <3>1. Tally(<<Header>>, 1, 0, 0, 0, 0)
      BY Pieces
    <3>2. Heads(q) = 1 /\ Heads(p) = 0 /\ Fences(q) = Fences(p) /\ Quotes(q) = Quotes(p)
      BY <1>2, <2>1, <2>2 DEF Heads, Fences, Quotes
    <3>3. Finals(q) = 0 /\ Finals(p) = 0
      BY <2>2 DEF Keeps, Finals, Ends
    <3>4. \E t : Tally(t, 1, 0, 0, 0, 0) /\ q.shown = p.shown \o t
      BY <2>1, <3>1
    <3>5. /\ Heads(q) = Heads(p) + 1 /\ Fences(p) + 0 = 0 + Fences(q)
          /\ Quotes(p) + 0 = 2 * 0 + Quotes(q) /\ Finals(q) = Finals(p) + 0
      BY <3>2, <3>3, OpenCounts
    <3> QED
      BY <3>4, <3>5 DEF Adds
  <2>5. Rendered(q)
    BY <2>1, <2>3, <2>4, AddsRenders DEF Rendered
  <2> QED
    BY <2>1, <2>2, <2>5 DEF q
<1> QED
  BY <1>1, <1>2

LEMMA OnKeyIs ==
  ASSUME NEW p, Rendered(p), ~p.fenceOpen, NEW k
  PROVE  LET q == OnKey(p, k) IN
           /\ Rendered(q) /\ Keeps(p, q) /\ ~q.fenceOpen /\ q.jsonString = p.jsonString
           /\ q.streamed = p.streamed
<1> DEFINE q == OnKey(p, k)
<1>1. /\ DOMAIN q = PresenterFields /\ q.stringOpen = FALSE /\ q.fenceOpen = FALSE
      /\ \A f \in PresenterFields \ {"stringOpen", "fenceOpen", "skip"} : q[f] = p[f]
  BY DEF OnKey, Rendered, Flags, PresenterFields
<1> HIDE DEF q
<1>2. /\ Keeps(p, q) /\ q.jsonString = p.jsonString /\ q.streamed = p.streamed /\ q.header = p.header
      /\ q.shown = p.shown
  BY <1>1 DEF Keeps, PresenterFields
<1>3. Flags(q)
  BY <1>1, <1>2 DEF Rendered, Flags, Keeps
<1>4. q.fenceOpen = p.fenceOpen
  BY <1>1 DEF Rendered, Flags
<1>5. Ends(q) <=> Ends(p)
  BY <1>2 DEF Ends, Keeps
<1>6. Rendered(q)
  BY <1>2, <1>3, <1>4, <1>5, SameRenders
<1> QED
  BY <1>1, <1>2, <1>6 DEF q

-----------------------------------------------------------------------------
(* A character of a string. *)

SpellsOn(p, k, q) ==
  /\ Rendered(q) /\ Keeps(p, q)
  /\ q.fenceOpen => KeyConfig[k] = "fenced"
  /\ q = p \/ q.header

LEMMA ConfigMapCharsIs ==
  ASSUME NEW p, Rendered(p), ~p.finished, p.mode = "config_map", NEW k,
         p.fenceOpen => KeyConfig[k] = "fenced", NEW text, IsList(text)
  PROVE  SpellsOn(p, k, ConfigMapChars(p, k, text))
<1> DEFINE head == EnsureHeader(p)
           fenced == KeyConfig[k] = "fenced"
           added == <<ParamName(k)>> \o (IF fenced THEN <<FenceOpen(k)>> ELSE <<>>)
           opened == [Show(head, added) EXCEPT !.stringOpen = TRUE, !.fenceOpen = (@ \/ fenced)]
           base == IF p.stringOpen THEN p ELSE opened
<1>1. Unpaired(Chars(k, text))
  BY TallyChars DEF Unpaired
<1>2. CASE KeyConfig[k] = "replaced"
  BY <1>2 DEF ConfigMapChars, SpellsOn, Keeps
<1>3. CASE KeyConfig[k] # "replaced"
  <2>1. ConfigMapChars(p, k, text) = Show(base, Chars(k, text))
    BY <1>3 DEF ConfigMapChars
  <2>2. Rendered(base) /\ Keeps(p, base) /\ base.header /\ (base.fenceOpen => fenced)
    <3>1. CASE p.stringOpen
      BY <3>1 DEF Rendered, Flags, Keeps
    <3>2. CASE ~p.stringOpen
      <4>1. /\ Rendered(head) /\ Keeps(p, head) /\ head.header /\ ~head.stringOpen
            /\ ~head.fenceOpen /\ ~head.jsonString
        BY <3>2, EnsureHeaderIs DEF Rendered, Flags
      <4> HIDE DEF head
      <4>2. /\ DOMAIN opened = PresenterFields /\ opened.shown = head.shown \o added
            /\ opened.stringOpen = TRUE /\ opened.fenceOpen = (head.fenceOpen \/ fenced)
            /\ \A f \in PresenterFields \ {"shown", "stringOpen", "fenceOpen"} : opened[f] = head[f]
        BY <4>1 DEF Show, Rendered, Flags, PresenterFields
      <4> HIDE DEF opened
      <4>3. /\ Keeps(p, opened) /\ opened.header = head.header /\ opened.jsonString = head.jsonString
            /\ opened.streamed = head.streamed /\ opened.mode = head.mode
            /\ opened.finished = head.finished /\ (opened.fenceOpen <=> fenced)
            /\ opened.fenceOpen \in BOOLEAN
        BY <4>1, <4>2 DEF Keeps, PresenterFields
      <4>4. Flags(opened) /\ opened.header
        BY <4>1, <4>2, <4>3 DEF Rendered, Flags, Keeps
      <4>5. Adds(head, opened, 0, Fences(opened), 0, 0, 0, 0)
        <5>1. Tally(added, 0, Fences(opened), 0, 0, 0)
          <6>1. CASE fenced
            <7>1. Tally(<<ParamName(k)>> \o <<FenceOpen(k)>>, 0, 1, 0, 0, 0)
              BY Pieces, UnpairedJoined
            <7>2. Fences(opened) = 1
              BY <4>3, <6>1 DEF Fences
            <7> QED
              BY <6>1, <7>1, <7>2
          <6>2. CASE ~fenced
            <7>1. Tally(<<ParamName(k)>> \o <<>>, 0, 0, 0, 0, 0)
              BY Pieces, UnpairedJoined, TallyNone
            <7>2. Fences(opened) = 0
              BY <4>3, <6>2 DEF Fences
            <7> QED
              BY <6>2, <7>1, <7>2
          <6> QED
            BY <6>1, <6>2
        <5> HIDE DEF added
        <5>2. Fences(head) = 0 /\ Heads(opened) = Heads(head) /\ Quotes(opened) = Quotes(head)
          BY <4>1, <4>3 DEF Heads, Fences, Quotes
        <5>3. Finals(opened) = Finals(head)
          BY <4>3 DEF Finals, Ends
        <5>4. \E t : Tally(t, 0, Fences(opened), 0, 0, 0) /\ opened.shown = head.shown \o t
          BY <4>2, <5>1
        <5>5. /\ Heads(opened) = Heads(head) + 0 /\ Fences(head) + Fences(opened) = 0 + Fences(opened)
              /\ Quotes(head) + 0 = 2 * 0 + Quotes(opened) /\ Finals(opened) = Finals(head) + 0
              /\ Fences(opened) \in Nat
          BY <5>2, <5>3, OpenCounts
        <5> QED
          BY <5>4, <5>5 DEF Adds
      <4>6. Rendered(opened)
        BY <4>1, <4>4, <4>5, AddsRenders DEF Rendered
      <4> QED
        BY <3>2, <4>3, <4>4, <4>6
    <3> QED
      BY <3>1, <3>2 DEF Rendered, Flags
  <2> HIDE DEF base, fenced
  <2> DEFINE q == Show(base, Chars(k, text))
  <2>3. Rendered(q) /\ Keeps(base, q) /\ SameFlags(base, q)
    BY <1>1, <2>2, ShowUnpaired
  <2> HIDE DEF q
  <2>4. Keeps(p, q) /\ q.header /\ (q.fenceOpen => fenced)
    BY <2>2, <2>3 DEF Keeps, SameFlags
  <2>5. SpellsOn(p, k, q)
    BY <2>3, <2>4 DEF SpellsOn, fenced
  <2> QED
    BY <2>1, <2>5 DEF q
<1> QED
  BY <1>2, <1>3

LEMMA StartMemberIs ==
  ASSUME NEW p, Rendered(p), ~p.finished, NEW k
  PROVE  LET q == StartMember(p, k) IN
           /\ Rendered(q) /\ Keeps(p, q) /\ q.header
           /\ q.stringOpen = p.stringOpen /\ q.fenceOpen = p.fenceOpen /\ q.jsonString = p.jsonString
<1> DEFINE head == EnsureHeader(p)
           added == (IF p.firstKey THEN <<>> ELSE <<Comma>>) \o <<Tok("json_key", k, <<>>)>>
           r == Show(head, added)
           q == StartMember(p, k)
<1>1. /\ Rendered(head) /\ Keeps(p, head) /\ head.header /\ head.stringOpen = p.stringOpen
      /\ head.fenceOpen = p.fenceOpen /\ head.jsonString = p.jsonString
  BY EnsureHeaderIs
<1>2. Unpaired(added)
  <2>1. Unpaired(<<>>) /\ Unpaired(<<Comma>>) /\ Unpaired(<<Tok("json_key", k, <<>>)>>)
    BY Pieces, TallyNone DEF Unpaired
  <2>2. Unpaired(<<>> \o <<Tok("json_key", k, <<>>)>>) /\ Unpaired(<<Comma>> \o <<Tok("json_key", k, <<>>)>>)
    BY <2>1, UnpairedJoined DEF Unpaired
  <2> QED
    BY <2>2
<1>3. q = [r EXCEPT !.firstKey = FALSE]
  BY DEF StartMember
<1> HIDE DEF added, head, q
<1>4. Rendered(r) /\ Keeps(head, r) /\ SameFlags(head, r)
  BY <1>1, <1>2, ShowUnpaired
<1> HIDE DEF r
<1>5. DOMAIN q = PresenterFields /\ \A f \in PresenterFields \ {"firstKey"} : q[f] = r[f]
  BY <1>3, <1>4 DEF Rendered, Flags
<1>6. Keeps(r, q) /\ SameFlags(r, q) /\ q.shown = r.shown
  BY <1>5 DEF Keeps, SameFlags, PresenterFields
<1>7. Flags(q)
  BY <1>4, <1>5, <1>6 DEF Rendered, Flags, Keeps, SameFlags
<1>8. Rendered(q)
  <2>1. Ends(q) <=> Ends(r)
    BY <1>6 DEF Ends, Keeps, SameFlags
  <2> QED
    BY <1>4, <1>6, <1>7, <2>1, SameRenders DEF SameFlags
<1>9. /\ Keeps(p, q) /\ q.header /\ q.stringOpen = p.stringOpen /\ q.fenceOpen = p.fenceOpen
      /\ q.jsonString = p.jsonString
  BY <1>1, <1>4, <1>6 DEF Keeps, SameFlags
<1> QED
  BY <1>8, <1>9 DEF q

LEMMA JsonCharsIs ==
  ASSUME NEW p, Rendered(p), ~p.finished, p.mode = "json_object", NEW k, NEW text, IsList(text)
  PROVE  SpellsOn(p, k, JsonChars(p, k, text))
<1> DEFINE head == StartMember(p, k)
           opened == [Show(head, <<Tok("quote", k, <<>>)>>) EXCEPT !.jsonString = TRUE]
           base == IF p.jsonString THEN p ELSE opened
<1>1. Unpaired(Chars(k, text))
  BY TallyChars DEF Unpaired
<1>2. JsonChars(p, k, text) = Show(base, Chars(k, text))
  BY DEF JsonChars
<1>3. Rendered(base) /\ Keeps(p, base) /\ base.header
  <2>1. CASE p.jsonString
    BY <2>1 DEF Rendered, Flags, Keeps
  <2>2. CASE ~p.jsonString
    <3>1. /\ Rendered(head) /\ Keeps(p, head) /\ head.header /\ head.stringOpen = p.stringOpen
          /\ head.fenceOpen = p.fenceOpen /\ ~head.jsonString
      BY <2>2, StartMemberIs
    <3> HIDE DEF head
    <3>2. /\ DOMAIN opened = PresenterFields /\ opened.jsonString = TRUE
          /\ opened.shown = head.shown \o <<Tok("quote", k, <<>>)>>
          /\ \A f \in PresenterFields \ {"shown", "jsonString"} : opened[f] = head[f]
      BY <3>1 DEF Show, Rendered, Flags, PresenterFields
    <3> HIDE DEF opened
    <3>3. /\ Keeps(p, opened) /\ opened.header = head.header /\ opened.fenceOpen = head.fenceOpen
          /\ opened.stringOpen = head.stringOpen /\ opened.streamed = head.streamed
          /\ opened.mode = head.mode /\ opened.finished = head.finished
      BY <3>1, <3>2 DEF Keeps, PresenterFields
    <3>4. Flags(opened) /\ opened.header
      BY <3>1, <3>2, <3>3 DEF Rendered, Flags, Keeps
    <3>5. Adds(head, opened, 0, 0, 0, 1, 0, 0)
      <4>1. Tally(<<Tok("quote", k, <<>>)>>, 0, 0, 0, 1, 0)
        BY Pieces
      <4>2. /\ Quotes(head) = 0 /\ Quotes(opened) = 1 /\ Heads(opened) = Heads(head)
            /\ Fences(opened) = Fences(head)
        BY <3>1, <3>2, <3>3 DEF Heads, Fences, Quotes
      <4>3. Finals(opened) = Finals(head)
        BY <3>3 DEF Finals, Ends
      <4>4. \E t : Tally(t, 0, 0, 0, 1, 0) /\ opened.shown = head.shown \o t
        BY <3>2, <4>1
      <4>5. /\ Heads(opened) = Heads(head) + 0 /\ Fences(head) + 0 = 0 + Fences(opened)
            /\ Quotes(head) + 1 = 2 * 0 + Quotes(opened) /\ Finals(opened) = Finals(head) + 0
        BY <4>2, <4>3, OpenCounts
      <4> QED
        BY <4>4, <4>5 DEF Adds
    <3>6. Rendered(opened)
      BY <3>1, <3>4, <3>5, AddsRenders DEF Rendered
    <3> QED
      BY <2>2, <3>3, <3>4, <3>6
  <2> QED
    BY <2>1, <2>2 DEF Rendered, Flags
<1> HIDE DEF base
<1> DEFINE q == Show(base, Chars(k, text))
<1>4. Rendered(q) /\ Keeps(base, q) /\ SameFlags(base, q)
  BY <1>1, <1>3, ShowUnpaired
<1> HIDE DEF q
<1>5. Keeps(p, q) /\ q.header
  BY <1>3, <1>4 DEF Keeps, SameFlags
<1>6. ~q.fenceOpen
  BY <1>4, <1>5 DEF Rendered, Flags, Keeps
<1>7. SpellsOn(p, k, q)
  BY <1>4, <1>5, <1>6 DEF SpellsOn
<1> QED
  BY <1>2, <1>7 DEF q

-----------------------------------------------------------------------------
(* The end of a value, and of the object. *)

Completes(p, q) ==
  /\ Rendered(q) /\ Keeps(p, q) /\ ~q.fenceOpen /\ ~q.jsonString
  /\ q.mode = "json_object" => q.header

LEMMA ConfigMapValueIs ==
  ASSUME NEW p, Rendered(p), ~p.finished, p.mode = "config_map", NEW k,
         p.fenceOpen => KeyConfig[k] = "fenced", NEW v, NEW str, str => IsList(v)
  PROVE  Completes(p, ConfigMapValue(p, k, v, str))
<1> DEFINE q == ConfigMapValue(p, k, v, str)
<1>0. p.jsonString = FALSE
  BY DEF Rendered, Flags
<1>1. CASE KeyConfig[k] = "ignored"
  <2>1. q = p /\ ~p.fenceOpen
    BY <1>1 DEF ConfigMapValue
  <2> HIDE DEF q
  <2>2. Completes(p, q)
    BY <1>0, <2>1 DEF Completes, Keeps
  <2> QED
    BY <2>2 DEF q
<1>2. CASE KeyConfig[k] # "ignored" /\ p.stringOpen
  <2> DEFINE added == (IF p.fenceOpen THEN <<FenceClose(k)>> ELSE <<>>) \o <<ParamEnd(k)>>
  <2>1. q = [Show(p, added) EXCEPT !.stringOpen = FALSE, !.fenceOpen = FALSE]
    BY <1>2 DEF ConfigMapValue
  <2>2. /\ DOMAIN q = PresenterFields /\ q.shown = p.shown \o added /\ q.stringOpen = FALSE
        /\ q.fenceOpen = FALSE
        /\ \A f \in PresenterFields \ {"shown", "stringOpen", "fenceOpen"} : q[f] = p[f]
    BY <2>1 DEF Show, Rendered, Flags, PresenterFields
  <2> HIDE DEF q
  <2>3. /\ Keeps(p, q) /\ q.header = p.header /\ q.jsonString = p.jsonString
        /\ q.streamed = p.streamed
    BY <2>2 DEF Keeps, PresenterFields
  <2>4. Flags(q) /\ q.header
    BY <1>2, <2>2, <2>3 DEF Rendered, Flags, Keeps
  <2>5. Adds(p, q, 0, 0, Fences(p), 0, 0, 0)
    <3>1. Tally(added, 0, 0, Fences(p), 0, 0)
      <4>1. CASE p.fenceOpen
        <5>1. Tally(<<FenceClose(k)>> \o <<ParamEnd(k)>>, 0, 0, 1, 0, 0)
          BY Pieces, UnpairedJoined
        <5>2. Fences(p) = 1
          BY <4>1 DEF Fences
        <5> QED
          BY <4>1, <5>1, <5>2
      <4>2. CASE ~p.fenceOpen
        <5>1. Tally(<<>> \o <<ParamEnd(k)>>, 0, 0, 0, 0, 0)
          BY Pieces, UnpairedJoined, TallyNone DEF Unpaired
        <5>2. Fences(p) = 0
          BY <4>2 DEF Fences
        <5> QED
          BY <4>2, <5>1, <5>2
      <4> QED
        BY <4>1, <4>2
    <3> HIDE DEF added
    <3>2. Heads(q) = Heads(p) /\ Fences(q) = 0 /\ Quotes(q) = Quotes(p) /\ Finals(q) = Finals(p)
      BY <2>2, <2>3 DEF Keeps, Heads, Fences, Quotes, Finals, Ends
    <3>3. \E t : Tally(t, 0, 0, Fences(p), 0, 0) /\ q.shown = p.shown \o t
      BY <2>2, <3>1
    <3>4. /\ Heads(q) = Heads(p) + 0 /\ Fences(p) + 0 = Fences(p) + Fences(q)
          /\ Quotes(p) + 0 = 2 * 0 + Quotes(q) /\ Finals(q) = Finals(p) + 0
          /\ Fences(p) \in Nat
      BY <3>2, OpenCounts
    <3> QED
      BY <3>3, <3>4 DEF Adds
  <2>6. Rendered(q)
    BY <2>4, <2>5, AddsRenders DEF Rendered
  <2>7. Completes(p, q)
    BY <1>0, <2>2, <2>3, <2>6 DEF Completes, Keeps
  <2> QED
    BY <2>7 DEF q
<1>3. CASE KeyConfig[k] # "ignored" /\ ~p.stringOpen
  <2> DEFINE head == EnsureHeader(p)
             added == ConfigMapParam(k, v, str)
  <2>1. q = Show(head, added)
    BY <1>3 DEF ConfigMapValue
  <2>2. /\ Rendered(head) /\ Keeps(p, head) /\ head.header /\ ~head.fenceOpen /\ ~head.jsonString
    BY <1>0, <1>3, EnsureHeaderIs DEF Rendered, Flags
  <2> HIDE DEF head
  <2>3. PICK n \in {0, 1} : Tally(added, 0, n, n, 0, 0)
    BY ParamPaired
  <2> HIDE DEF added
  <2>4. /\ DOMAIN q = PresenterFields /\ q.shown = head.shown \o added
        /\ \A f \in PresenterFields \ {"shown"} : q[f] = head[f]
    BY <2>1, <2>2 DEF Show, Rendered, Flags
  <2> HIDE DEF q
  <2>5. Keeps(head, q) /\ SameFlags(head, q)
    BY <2>4 DEF Keeps, SameFlags, PresenterFields
  <2>6. Flags(q) /\ q.header
    BY <2>2, <2>4, <2>5 DEF Rendered, Flags, Keeps, SameFlags
  <2>7. Adds(head, q, 0, n, n, 0, 0, 0)
    <3>1. Heads(q) = Heads(head) /\ Fences(q) = 0 /\ Fences(head) = 0 /\ Quotes(q) = Quotes(head)
      BY <2>2, <2>5 DEF SameFlags, Heads, Fences, Quotes
    <3>2. Finals(q) = Finals(head)
      BY <2>5 DEF Keeps, SameFlags, Finals, Ends
    <3>3. \E t : Tally(t, 0, n, n, 0, 0) /\ q.shown = head.shown \o t
      BY <2>3, <2>4
    <3>4. /\ Heads(q) = Heads(head) + 0 /\ Fences(head) + n = n + Fences(q)
          /\ Quotes(head) + 0 = 2 * 0 + Quotes(q) /\ Finals(q) = Finals(head) + 0 /\ n \in Nat
      BY <3>1, <3>2, OpenCounts
    <3> QED
      BY <3>3, <3>4 DEF Adds
  <2>8. Rendered(q)
    BY <2>2, <2>6, <2>7, AddsRenders DEF Rendered
  <2>9. Completes(p, q)
    BY <2>2, <2>5, <2>6, <2>8 DEF Completes, Keeps, SameFlags
  <2> QED
    BY <2>9 DEF q
<1>4. p.stringOpen \in BOOLEAN
  BY DEF Rendered, Flags
<1> QED
  BY <1>1, <1>2, <1>3, <1>4

LEMMA JsonValueIs ==
  ASSUME NEW p, Rendered(p), ~p.finished, p.mode = "json_object", NEW k,
         NEW v, NEW str, str => IsList(v)
  PROVE  Completes(p, JsonValue(p, k, v, str))
<1> DEFINE q == JsonValue(p, k, v, str)
           quote == <<Tok("quote", k, <<>>)>>
<1>0. ~p.stringOpen /\ ~p.fenceOpen
  BY DEF Rendered, Flags
<1>1. CASE p.jsonString
  <2>1. q = [Show(p, quote) EXCEPT !.jsonString = FALSE]
    BY <1>1 DEF JsonValue
  <2>2. /\ DOMAIN q = PresenterFields /\ q.shown = p.shown \o quote /\ q.jsonString = FALSE
        /\ \A f \in PresenterFields \ {"shown", "jsonString"} : q[f] = p[f]
    BY <2>1 DEF Show, Rendered, Flags, PresenterFields
  <2> HIDE DEF q
  <2>3. /\ Keeps(p, q) /\ q.header = p.header /\ q.fenceOpen = p.fenceOpen
        /\ q.streamed = p.streamed /\ q.stringOpen = p.stringOpen
    BY <2>2 DEF Keeps, PresenterFields
  <2>4. Flags(q) /\ q.header
    BY <1>1, <2>2, <2>3 DEF Rendered, Flags, Keeps
  <2>5. Adds(p, q, 0, 0, 0, 1, 0, 1)
    <3>1. Tally(quote, 0, 0, 0, 1, 0)
      BY Pieces
    <3> HIDE DEF quote
    <3>2. Heads(q) = Heads(p) /\ Fences(q) = Fences(p) /\ Quotes(q) = 0 /\ Quotes(p) = 1
      BY <1>1, <2>2, <2>3 DEF Heads, Fences, Quotes
    <3>3. Finals(q) = Finals(p)
      BY <2>3 DEF Keeps, Finals, Ends
    <3>4. \E t : Tally(t, 0, 0, 0, 1, 0) /\ q.shown = p.shown \o t
      BY <2>2, <3>1
    <3>5. /\ Heads(q) = Heads(p) + 0 /\ Fences(p) + 0 = 0 + Fences(q)
          /\ Quotes(p) + 1 = 2 * 1 + Quotes(q) /\ Finals(q) = Finals(p) + 0
      BY <3>2, <3>3, OpenCounts
    <3> QED
      BY <3>4, <3>5 DEF Adds
  <2>6. Rendered(q)
    BY <2>4, <2>5, AddsRenders DEF Rendered
  <2>7. Completes(p, q)
    BY <1>0, <2>2, <2>3, <2>4, <2>6 DEF Completes
  <2> QED
    BY <2>7 DEF q
<1>2. CASE ~p.jsonString
  <2> DEFINE head == StartMember(p, k)
             added == Tail(JsonMember(k, v, str))
             n == IF str THEN 1 ELSE 0
  <2>1. q = Show(head, added)
    BY <1>2 DEF JsonValue
  <2>2. /\ Rendered(head) /\ Keeps(p, head) /\ head.header /\ ~head.fenceOpen /\ ~head.jsonString
    BY <1>0, <1>2, StartMemberIs
  <2> HIDE DEF head
  <2>3. Tally(added, 0, 0, 0, 2 * n, 0)
    <3>1. CASE str
      <4> DEFINE body == (quote \o Chars(k, v)) \o quote
      <4>1. Tally(quote, 0, 0, 0, 1, 0)
        BY Pieces
      <4>2. Tally(quote \o Chars(k, v), 0, 0, 0, 1, 0)
        <5>1. Unpaired(Chars(k, v))
          BY <3>1, TallyChars DEF Unpaired
        <5> HIDE DEF quote
        <5> QED
          BY <4>1, <5>1, UnpairedJoined
      <4>3. Tally(body, 0 + 0, 0 + 0, 0 + 0, 1 + 1, 0 + 0)
        <5> HIDE DEF quote
        <5> QED
          BY <4>1, <4>2, TallyJoined
      <4>4. JsonMember(k, v, str) = <<Tok("json_key", k, <<>>)>> \o body
        BY <3>1 DEF JsonMember
      <4> HIDE DEF body
      <4>5. IsList(body)
        BY <4>3 DEF Tally
      <4>6. added = body
        BY <4>4, <4>5, TailIs
      <4>7. Tally(body, 0, 0, 0, 2 * n, 0)
        <5>1. 1 + 1 = 2 * n /\ 0 + 0 = 0
          BY <3>1
        <5> QED
          BY <4>3, <5>1
      <4> QED
        BY <4>6, <4>7
    <3>2. CASE ~str
      <4> DEFINE body == <<Tok("value", k, v)>>
      <4>1. Tally(body, 0, 0, 0, 0, 0)
        BY Pieces DEF Unpaired
      <4>2. JsonMember(k, v, str) = <<Tok("json_key", k, <<>>)>> \o body
        BY <3>2 DEF JsonMember
      <4> HIDE DEF body
      <4>3. IsList(body)
        BY <4>1 DEF Tally
      <4>4. added = body
        BY <4>2, <4>3, TailIs
      <4>5. 2 * n = 0
        BY <3>2
      <4> QED
        BY <4>1, <4>4, <4>5
    <3> QED
      BY <3>1, <3>2
  <2> HIDE DEF added
  <2>4. /\ DOMAIN q = PresenterFields /\ q.shown = head.shown \o added
        /\ \A f \in PresenterFields \ {"shown"} : q[f] = head[f]
    BY <2>1, <2>2 DEF Show, Rendered, Flags
  <2> HIDE DEF q
  <2>5. Keeps(head, q) /\ SameFlags(head, q)
    BY <2>4 DEF Keeps, SameFlags, PresenterFields
  <2>6. Flags(q) /\ q.header
    BY <2>2, <2>4, <2>5 DEF Rendered, Flags, Keeps, SameFlags
  <2>7. Adds(head, q, 0, 0, 0, 2 * n, 0, n)
    <3>1. Heads(q) = Heads(head) /\ Fences(q) = Fences(head) /\ Quotes(q) = Quotes(head)
      BY <2>5 DEF SameFlags, Heads, Fences, Quotes
    <3>2. Finals(q) = Finals(head)
      BY <2>5 DEF Keeps, SameFlags, Finals, Ends
    <3>3. \E t : Tally(t, 0, 0, 0, 2 * n, 0) /\ q.shown = head.shown \o t
      BY <2>3, <2>4
    <3>4. n \in Nat
      OBVIOUS
    <3> HIDE DEF n
    <3>5. /\ Heads(q) = Heads(head) + 0 /\ Fences(head) + 0 = 0 + Fences(q)
          /\ Quotes(head) + 2 * n = 2 * n + Quotes(q) /\ Finals(q) = Finals(head) + 0
          /\ 2 * n \in Nat
      BY <3>1, <3>2, <3>4, OpenCounts
    <3> QED
      BY <3>3, <3>4, <3>5 DEF Adds
  <2>8. Rendered(q)
    BY <2>2, <2>6, <2>7, AddsRenders DEF Rendered
  <2>9. Completes(p, q)
    BY <2>2, <2>5, <2>6, <2>8 DEF Completes, Keeps, SameFlags
  <2> QED
    BY <2>9 DEF q
<1> QED
  BY <1>1, <1>2

LEMMA OnValueIs ==
  ASSUME NEW p, Rendered(p), ~p.finished, NEW k,
         p.fenceOpen => KeyConfig[k] = "fenced", NEW v, NEW str, str => IsList(v)
  PROVE  Completes(p, OnValue(p, k, v, str))
<1> DEFINE r == IF p.mode = "config_map" THEN ConfigMapValue(p, k, v, str) ELSE JsonValue(p, k, v, str)
           q == OnValue(p, k, v, str)
<1>1. Completes(p, r)
  <2>1. CASE p.mode = "config_map"
    BY <2>1, ConfigMapValueIs
  <2>2. CASE p.mode = "json_object"
    BY <2>2, JsonValueIs
  <2> QED
    BY <2>1, <2>2 DEF Rendered, Flags
<1>2. q = [r EXCEPT !.skip = FALSE, !.stringOpen = FALSE]
  BY DEF OnValue
<1> HIDE DEF r, q
<1>3. /\ DOMAIN q = PresenterFields /\ q.stringOpen = FALSE
      /\ \A f \in PresenterFields \ {"skip", "stringOpen"} : q[f] = r[f]
  BY <1>1, <1>2 DEF Completes, Rendered, Flags, PresenterFields
<1>4. /\ Keeps(r, q) /\ q.header = r.header /\ q.fenceOpen = r.fenceOpen /\ q.streamed = r.streamed
      /\ q.jsonString = r.jsonString /\ q.shown = r.shown
  BY <1>3 DEF Keeps, PresenterFields
<1>5. Flags(q)
  BY <1>1, <1>3, <1>4 DEF Completes, Rendered, Flags, Keeps
<1>6. Rendered(q)
  <2>1. Ends(q) <=> Ends(r)
    BY <1>4 DEF Ends, Keeps
  <2> QED
    BY <1>1, <1>4, <1>5, <2>1, SameRenders DEF Completes
<1>7. Completes(p, q)
  BY <1>1, <1>4, <1>6 DEF Completes, Keeps
<1> QED
  BY <1>7 DEF q

LEMMA OnObjectDoneIs ==
  ASSUME NEW p, Rendered(p), ~p.finished, ~p.fenceOpen, ~p.jsonString
  PROVE  LET q == OnObjectDone(p) IN
           /\ Rendered(q) /\ ~q.fenceOpen /\ ~q.jsonString /\ q.mode = p.mode
           /\ q.streamer = p.streamer /\ (p.header => q.header)
<1> DEFINE head == EnsureHeader(p)
           q == OnObjectDone(p)
<1>1. CASE p.mode = "config_map"
  <2>1. q = [head EXCEPT !.streamed = TRUE, !.finished = TRUE]
    BY <1>1 DEF OnObjectDone
  <2>2. Rendered(head) /\ Keeps(p, head) /\ head.header /\ ~head.fenceOpen /\ ~head.jsonString
    BY EnsureHeaderIs
  <2> HIDE DEF head, q
  <2>3. /\ DOMAIN q = PresenterFields /\ q.streamed = TRUE /\ q.finished = TRUE
        /\ \A f \in PresenterFields \ {"streamed", "finished"} : q[f] = head[f]
    BY <2>1, <2>2 DEF Rendered, Flags, PresenterFields
  <2>4. /\ q.mode = head.mode /\ q.streamer = head.streamer /\ q.header = head.header
        /\ q.fenceOpen = head.fenceOpen /\ q.stringOpen = head.stringOpen
        /\ q.jsonString = head.jsonString /\ q.shown = head.shown
    BY <2>3 DEF PresenterFields
  <2>5. Flags(q)
    BY <2>2, <2>3, <2>4 DEF Rendered, Flags
  <2>6. Rendered(q)
    <3>1. Ends(q) <=> Ends(head)
      BY <1>1, <2>2, <2>4 DEF Ends, Keeps
    <3> QED
      BY <2>2, <2>4, <2>5, <3>1, SameRenders
  <2>7. /\ Rendered(q) /\ ~q.fenceOpen /\ ~q.jsonString /\ q.mode = p.mode
        /\ q.streamer = p.streamer /\ (p.header => q.header)
    BY <2>2, <2>4, <2>6 DEF Keeps
  <2> QED
    BY <2>7 DEF q
<1>2. CASE p.mode = "json_object" /\ p.header
  <2>1. q = [Show(p, <<ObjectEnd>>) EXCEPT !.streamed = TRUE, !.finished = TRUE]
    BY <1>2 DEF OnObjectDone
  <2> HIDE DEF q
  <2>2. /\ DOMAIN q = PresenterFields /\ q.streamed = TRUE /\ q.finished = TRUE
        /\ q.shown = p.shown \o <<ObjectEnd>>
        /\ \A f \in PresenterFields \ {"streamed", "finished", "shown"} : q[f] = p[f]
    BY <2>1 DEF Show, Rendered, Flags, PresenterFields
  <2>3. /\ q.mode = p.mode /\ q.streamer = p.streamer /\ q.header = p.header
        /\ q.fenceOpen = p.fenceOpen /\ q.stringOpen = p.stringOpen /\ q.jsonString = p.jsonString
    BY <2>2 DEF PresenterFields
  <2>4. Flags(q)
    BY <1>2, <2>2, <2>3 DEF Rendered, Flags
  <2>5. Adds(p, q, 0, 0, 0, 0, 1, 0)
    <3>1. Tally(<<ObjectEnd>>, 0, 0, 0, 0, 1)
      BY Pieces
    <3>2. /\ Heads(q) = Heads(p) /\ Fences(q) = Fences(p) /\ Quotes(q) = Quotes(p)
          /\ Finals(q) = 1 /\ Finals(p) = 0
      BY <1>2, <2>2, <2>3 DEF Heads, Fences, Quotes, Finals, Ends
    <3>3. \E t : Tally(t, 0, 0, 0, 0, 1) /\ q.shown = p.shown \o t
      BY <2>2, <3>1
    <3>4. /\ Heads(q) = Heads(p) + 0 /\ Fences(p) + 0 = 0 + Fences(q)
          /\ Quotes(p) + 0 = 2 * 0 + Quotes(q) /\ Finals(q) = Finals(p) + 1
      BY <3>2, OpenCounts
    <3> QED
      BY <3>3, <3>4 DEF Adds
  <2>6. Rendered(q)
    BY <1>2, <2>3, <2>4, <2>5, AddsRenders DEF Rendered
  <2> QED
    BY <2>3, <2>6 DEF q
<1>3. CASE p.mode = "json_object" /\ ~p.header
  <2>1. q = [p EXCEPT !.streamed = TRUE, !.finished = TRUE]
    BY <1>3 DEF OnObjectDone
  <2> HIDE DEF q
  <2>2. /\ DOMAIN q = PresenterFields /\ q.streamed = TRUE /\ q.finished = TRUE
        /\ \A f \in PresenterFields \ {"streamed", "finished"} : q[f] = p[f]
    BY <2>1 DEF Rendered, Flags, PresenterFields
  <2>3. /\ q.mode = p.mode /\ q.streamer = p.streamer /\ q.header = p.header
        /\ q.fenceOpen = p.fenceOpen /\ q.stringOpen = p.stringOpen
        /\ q.jsonString = p.jsonString /\ q.shown = p.shown
    BY <2>2 DEF PresenterFields
  <2>4. Flags(q)
    BY <1>3, <2>2, <2>3 DEF Rendered, Flags
  <2>5. Rendered(q)
    <3>1. Ends(q) <=> Ends(p)
      BY <1>3, <2>3 DEF Ends
    <3> QED
      BY <2>3, <2>4, <3>1, SameRenders
  <2> QED
    BY <2>3, <2>5 DEF q
<1> QED
  BY <1>1, <1>2, <1>3 DEF Rendered, Flags

-----------------------------------------------------------------------------
(* One character, and the end of the stream. *)

SameProgress(p, q) ==
  q.header = p.header /\ q.streamed = p.streamed /\ q.finished = p.finished

(* q is what a presenter p that goes on has become, with r for the streamer's part. *)
Goes(p, r, q) ==
  /\ Sound(q) /\ q.mode = p.mode /\ q.streamer = r.s
  /\ p.header => q.header
  /\ r.events = <<>> => SameProgress(p, q)
  /\ p.mode = "json_object" /\ ~q.header /\ p.streamer.phase \in InMember
       => SameProgress(p, q) /\ q.streamer.phase \in InMember

LEMMA SoundFrom ==
  ASSUME NEW q, Rendered(q), Walker(q.streamer), ~q.fenceOpen, ~q.jsonString
  PROVE  Sound(q)
BY DEF Sound, Inside

LEMMA FeedIs ==
  ASSUME NEW p, Sound(p), NEW ch
  PROVE  /\ p.finished => Feed(p, ch) = p
         /\ ~p.finished => Goes(p, Consume(p.streamer, ch), Feed(p, ch))
<1> DEFINE s == p.streamer
           r == Consume(s, ch)
           b == [p EXCEPT !.streamer = r.s]
           q == Feed(p, ch)
<1>1. CASE p.finished
  BY <1>1 DEF Feed
<1>2. CASE ~p.finished
  <2> SUFFICES Goes(p, r, q)
    BY <1>2
  <2>1. Rendered(p) /\ Walker(s) /\ Inside(p) /\ Consumed(s, r)
    BY ConsumeIs DEF Sound
  <2>2. /\ Len(r.events) = 0 => q = b
        /\ Len(r.events) = 1 => q = Apply(b, r.events[1])
        /\ Len(r.events) = 2 => q = Apply(Apply(b, r.events[1]), r.events[2])
    BY <1>2 DEF Feed
  <2> HIDE DEF r, q
  <2>3. DOMAIN b = PresenterFields /\ b.streamer = r.s /\ \A f \in PresenterFields \ {"streamer"} : b[f] = p[f]
    BY <2>1 DEF Rendered, Flags, PresenterFields
  <2> HIDE DEF b
  <2>4. /\ SameFlags(p, b) /\ SameProgress(p, b) /\ b.mode = p.mode /\ b.shown = p.shown
        /\ ~b.finished
    BY <1>2, <2>3 DEF SameFlags, SameProgress, PresenterFields
  <2>5. Rendered(b)
    <3>1. Flags(b)
      BY <2>1, <2>3, <2>4 DEF Rendered, Flags, SameFlags, SameProgress
    <3>2. Ends(b) <=> Ends(p)
      BY <2>4 DEF Ends, SameProgress
    <3> QED
      BY <2>1, <2>4, <3>1, <3>2, SameRenders DEF SameFlags
  <2>6. /\ b.fenceOpen => s.phase = "in_string" /\ KeyConfig[s.current] = "fenced"
        /\ b.jsonString => s.phase = "in_string"
    BY <2>1, <2>4 DEF Inside, SameFlags
  <2>7. Walker(r.s)
    BY <2>1 DEF Consumed
  <2>8. CASE Silent(s, r)
    <3>1. q = b /\ r.events = <<>>
      BY <2>2, <2>8 DEF Silent
    <3>2. Inside(q)
      BY <2>3, <2>4, <2>6, <2>8, <3>1 DEF Silent, Onward, Inside
    <3>3. Sound(q)
      BY <2>3, <2>5, <2>7, <3>1, <3>2 DEF Sound
    <3> QED
      BY <2>3, <2>4, <2>8, <3>1, <3>3 DEF Goes, Silent, SameProgress
  <2>9. CASE Named(s, r)
    <3>1. PICK k : r.events = <<KeyReady(k)>>
      BY <2>9 DEF Named
    <3>2. q = OnKey(b, k)
      BY <2>2, <3>1 DEF Apply, KeyReady
    <3>3. s.phase = "in_key" /\ r.s.phase = "after_key"
      BY <2>9 DEF Named
    <3>4. ~b.fenceOpen /\ ~b.jsonString
      BY <2>6, <3>3
    <3>5. /\ Rendered(q) /\ Keeps(b, q) /\ ~q.fenceOpen /\ q.jsonString = b.jsonString
          /\ q.streamed = b.streamed /\ q.header = b.header
      <4>1. q.header = b.header
        BY <2>3, <3>2 DEF OnKey, PresenterFields
      <4> QED
        BY <2>5, <3>2, <3>4, <4>1, OnKeyIs
    <3>6. Sound(q)
      BY <2>3, <2>7, <3>4, <3>5, SoundFrom DEF Keeps
    <3> QED
      BY <2>3, <2>4, <3>3, <3>5, <3>6 DEF Goes, Keeps, SameProgress, InMember
  <2>10. CASE Spelled(s, r)
    <3> DEFINE k == s.current
    <3>1. PICK c : r.events = <<StringChars(k, c)>>
      BY <2>10 DEF Spelled
    <3>2. q = IF b.skip THEN b ELSE IF b.mode = "config_map" THEN ConfigMapChars(b, k, <<c>>)
                               ELSE JsonChars(b, k, <<c>>)
      BY <2>2, <3>1 DEF Apply, StringChars
    <3>3. s.phase = "in_string" /\ r.s.phase = "in_string" /\ r.s.current = k
      BY <2>10 DEF Spelled, Onward
    <3>4. SpellsOn(b, k, q)
      <4>1. CASE b.skip
        BY <2>5, <2>6, <3>2, <4>1 DEF SpellsOn, Keeps
      <4>2. CASE ~b.skip /\ b.mode = "config_map"
        BY <2>4, <2>5, <2>6, <3>2, <4>2, OneIsList, ConfigMapCharsIs
      <4>3. CASE ~b.skip /\ b.mode = "json_object"
        BY <2>4, <2>5, <3>2, <4>3, OneIsList, JsonCharsIs
      <4> QED
        BY <2>5, <4>1, <4>2, <4>3 DEF Rendered, Flags
    <3>5. Sound(q)
      <4>1. Inside(q)
        BY <2>3, <2>4, <3>3, <3>4 DEF SpellsOn, Keeps, Inside
      <4> QED
        BY <2>3, <2>7, <3>4, <4>1 DEF SpellsOn, Keeps, Sound
    <3>6. r.events # <<>>
      BY <3>1
    <3> QED
      BY <2>3, <2>4, <3>3, <3>4, <3>5, <3>6 DEF Goes, SpellsOn, Keeps, SameProgress, InMember
  <2>11. CASE Valued(s, r)
    <3> DEFINE k == s.current
    <3>1. PICK v, str : r.events = <<ValueComplete(k, v, str)>> /\ (str => IsList(v))
      BY <2>11 DEF Valued
    <3>2. q = OnValue(b, k, v, str)
      BY <2>2, <3>1 DEF Apply, ValueComplete
    <3>3. Completes(b, q)
      BY <2>4, <2>5, <2>6, <3>1, <3>2, OnValueIs
    <3>4. Sound(q)
      BY <2>3, <2>7, <3>3, SoundFrom DEF Completes, Keeps
    <3>5. r.events # <<>>
      BY <3>1
    <3> QED
      BY <2>3, <2>4, <3>3, <3>4, <3>5 DEF Goes, Completes, Keeps, SameProgress
  <2>12. CASE Ended(s, r)
    <3>1. r.events = <<ObjectDone>> /\ s.phase = "between_keys"
      BY <2>12 DEF Ended
    <3>2. q = OnObjectDone(b)
      BY <2>2, <3>1 DEF Apply, ObjectDone
    <3>3. ~b.fenceOpen /\ ~b.jsonString
      BY <2>6, <3>1
    <3>4. /\ Rendered(q) /\ ~q.fenceOpen /\ ~q.jsonString /\ q.mode = b.mode
          /\ q.streamer = b.streamer /\ (b.header => q.header)
      BY <2>4, <2>5, <3>2, <3>3, OnObjectDoneIs
    <3>5. Sound(q)
      BY <2>3, <2>7, <3>4, SoundFrom
    <3>6. r.events # <<>> /\ s.phase \notin InMember
      BY <3>1 DEF InMember
    <3> QED
      BY <2>3, <2>4, <3>4, <3>5, <3>6 DEF Goes, SameProgress
  <2>13. CASE ValuedEnded(s, r)
    <3> DEFINE k == s.current
    <3>1. PICK v : r.events = <<ValueComplete(k, v, FALSE), ObjectDone>>
      BY <2>13 DEF ValuedEnded
    <3> DEFINE d == OnValue(b, k, v, FALSE)
    <3>2. q = OnObjectDone(d)
      <4>1. Apply(b, ValueComplete(k, v, FALSE)) = d
        BY DEF Apply, ValueComplete
      <4> HIDE DEF d
      <4>2. Apply(d, ObjectDone) = OnObjectDone(d)
        BY DEF Apply, ObjectDone
      <4>3. q = Apply(Apply(b, r.events[1]), r.events[2])
        BY <2>2, <3>1
      <4>4. r.events[1] = ValueComplete(k, v, FALSE) /\ r.events[2] = ObjectDone
        BY <3>1
      <4> QED
        BY <4>1, <4>2, <4>3, <4>4
    <3>3. Completes(b, d)
      BY <2>4, <2>5, <2>6, OnValueIs
    <3> HIDE DEF d
    <3>4. /\ Rendered(q) /\ ~q.fenceOpen /\ ~q.jsonString /\ q.mode = d.mode
          /\ q.streamer = d.streamer /\ (d.header => q.header)
      BY <2>4, <3>2, <3>3, OnObjectDoneIs DEF Completes, Keeps
    <3>5. Sound(q)
      BY <2>3, <2>7, <3>3, <3>4, SoundFrom DEF Completes, Keeps
    <3>6. r.events # <<>>
      BY <3>1
    <3> QED
      BY <2>3, <2>4, <3>3, <3>4, <3>5, <3>6 DEF Goes, Completes, Keeps, SameProgress
  <2> QED
    BY <2>1, <2>8, <2>9, <2>10, <2>11, <2>12, <2>13 DEF Consumed
<1> QED
  BY <1>1, <1>2

(* What is left open is closed when the stream ends inside the object. *)
LEMMA FinishIs ==
  ASSUME NEW p, Sound(p)
  PROVE  LET q == Finish(p) IN
           /\ Rendered(q) /\ ~q.fenceOpen /\ ~q.jsonString /\ q.mode = p.mode
           /\ q.mode = "json_object" /\ q.header => q.finished
           /\ ~q.header => ~p.header /\ q.streamed = p.streamed
<1> DEFINE q == Finish(p)
<1>1. Rendered(p) /\ Inside(p) /\ Flags(p)
  BY DEF Sound, Rendered
<1>2. CASE p.finished
  BY <1>1, <1>2 DEF Finish, Inside
<1>3. CASE ~p.finished /\ p.mode = "config_map" /\ p.fenceOpen
  <2> DEFINE added == <<FenceClose(p.streamer.current)>>
  <2>1. q = [Show(p, added) EXCEPT !.fenceOpen = FALSE, !.streamed = TRUE, !.finished = TRUE]
    BY <1>3 DEF Finish
  <2> HIDE DEF q
  <2>2. /\ DOMAIN q = PresenterFields /\ q.shown = p.shown \o added
        /\ q.fenceOpen = FALSE /\ q.streamed = TRUE /\ q.finished = TRUE
        /\ \A f \in PresenterFields \ {"shown", "fenceOpen", "streamed", "finished"} : q[f] = p[f]
    BY <1>1, <2>1 DEF Show, Flags, PresenterFields
  <2>3. /\ q.mode = p.mode /\ q.header = p.header /\ q.stringOpen = p.stringOpen
        /\ q.jsonString = p.jsonString
    BY <2>2 DEF PresenterFields
  <2>4. Flags(q) /\ q.header
    BY <1>1, <1>3, <2>2, <2>3 DEF Flags
  <2>5. Adds(p, q, 0, 0, 1, 0, 0, 0)
    <3>1. Tally(added, 0, 0, 1, 0, 0)
      BY Pieces
    <3> HIDE DEF added
    <3>2. /\ Heads(q) = Heads(p) /\ Fences(p) = 1 /\ Fences(q) = 0 /\ Quotes(q) = Quotes(p)
          /\ Finals(q) = 0 /\ Finals(p) = 0
      BY <1>3, <2>2, <2>3 DEF Heads, Fences, Quotes, Finals, Ends
    <3>3. \E t : Tally(t, 0, 0, 1, 0, 0) /\ q.shown = p.shown \o t
      BY <2>2, <3>1
    <3>4. /\ Heads(q) = Heads(p) + 0 /\ Fences(p) + 0 = 1 + Fences(q)
          /\ Quotes(p) + 0 = 2 * 0 + Quotes(q) /\ Finals(q) = Finals(p) + 0
      BY <3>2, OpenCounts
    <3> QED
      BY <3>3, <3>4 DEF Adds
  <2>6. Rendered(q)
    BY <1>1, <2>4, <2>5, AddsRenders DEF Rendered
  <2>7. ~q.jsonString
    BY <1>3, <2>3, <2>4 DEF Flags
  <2> QED
    BY <1>3, <2>2, <2>3, <2>4, <2>6, <2>7 DEF q
<1>4. CASE ~p.finished /\ p.mode = "json_object" /\ p.header
  <2> DEFINE closing == IF p.jsonString THEN <<Tok("quote", p.streamer.current, <<>>)>> ELSE <<>>
             added == closing \o <<ObjectEnd>>
  <2>1. q = [Show(p, added) EXCEPT !.jsonString = FALSE, !.streamed = TRUE, !.finished = TRUE]
    BY <1>4 DEF Finish
  <2> HIDE DEF q
  <2>2. /\ DOMAIN q = PresenterFields /\ q.shown = p.shown \o added
        /\ q.jsonString = FALSE /\ q.streamed = TRUE /\ q.finished = TRUE
        /\ \A f \in PresenterFields \ {"shown", "jsonString", "streamed", "finished"} : q[f] = p[f]
    BY <1>1, <2>1 DEF Show, Flags, PresenterFields
  <2>3. /\ q.mode = p.mode /\ q.header = p.header /\ q.stringOpen = p.stringOpen
        /\ q.fenceOpen = p.fenceOpen
    BY <2>2 DEF PresenterFields
  <2>4. Flags(q) /\ q.header
    BY <1>1, <1>4, <2>2, <2>3 DEF Flags
  <2>5. Adds(p, q, 0, 0, 0, Quotes(p), 1, Quotes(p))
    <3>1. Tally(closing, 0, 0, 0, Quotes(p), 0)
      <4>1. CASE p.jsonString
        BY <4>1, Pieces DEF Quotes
      <4>2. CASE ~p.jsonString
        BY <4>2, TallyNone DEF Quotes
      <4> QED
        BY <4>1, <4>2
    <3> HIDE DEF closing
    <3>2. Tally(<<ObjectEnd>>, 0, 0, 0, 0, 1)
      BY Pieces
    <3>3. Tally(added, 0 + 0, 0 + 0, 0 + 0, Quotes(p) + 0, 0 + 1)
      BY <3>1, <3>2, TallyJoined
    <3>4. Quotes(p) + 0 = Quotes(p) /\ 0 + 0 = 0 /\ 0 + 1 = 1 /\ Quotes(p) \in Nat
      BY OpenCounts
    <3>5. Tally(added, 0, 0, 0, Quotes(p), 1)
      BY <3>3, <3>4
    <3> HIDE DEF added
    <3>6. /\ Heads(q) = Heads(p) /\ Fences(q) = Fences(p) /\ Quotes(q) = 0
          /\ Finals(q) = 1 /\ Finals(p) = 0
      BY <1>4, <2>2, <2>3 DEF Heads, Fences, Quotes, Finals, Ends
    <3>7. \E t : Tally(t, 0, 0, 0, Quotes(p), 1) /\ q.shown = p.shown \o t
      BY <2>2, <3>5
    <3>8. /\ Heads(q) = Heads(p) + 0 /\ Fences(p) + 0 = 0 + Fences(q)
          /\ Quotes(p) + Quotes(p) = 2 * Quotes(p) + Quotes(q) /\ Finals(q) = Finals(p) + 1
      BY <3>4, <3>6, OpenCounts
    <3> QED
      BY <3>4, <3>7, <3>8 DEF Adds
  <2>6. Rendered(q)
    BY <1>1, <2>4, <2>5, AddsRenders DEF Rendered
  <2>7. ~q.fenceOpen
    BY <1>4, <2>3, <2>4 DEF Flags
  <2> QED
    BY <1>4, <2>2, <2>3, <2>4, <2>6, <2>7 DEF q
<1>5. CASE ~p.finished /\ ~(p.mode = "config_map" /\ p.fenceOpen) /\ ~(p.mode = "json_object" /\ p.header)
  <2>1. q = [p EXCEPT !.finished = TRUE]
    BY <1>5 DEF Finish
  <2> HIDE DEF q
  <2>2. /\ DOMAIN q = PresenterFields /\ q.finished = TRUE
        /\ \A f \in PresenterFields \ {"finished"} : q[f] = p[f]
    BY <1>1, <2>1 DEF Flags, PresenterFields
  <2>3. /\ q.mode = p.mode /\ q.header = p.header /\ q.stringOpen = p.stringOpen
        /\ q.fenceOpen = p.fenceOpen /\ q.jsonString = p.jsonString /\ q.streamed = p.streamed
        /\ q.shown = p.shown
    BY <2>2 DEF PresenterFields
  <2>4. Flags(q)
    BY <1>1, <2>2, <2>3 DEF Flags
  <2>5. Ends(q) <=> Ends(p)
    BY <1>5, <2>3 DEF Ends
  <2>6. Rendered(q)
    BY <1>1, <2>3, <2>4, <2>5, SameRenders
  <2>7. ~q.fenceOpen /\ ~q.jsonString
    BY <1>1, <1>5, <2>3 DEF Flags
  <2> QED
    BY <1>5, <2>2, <2>3, <2>6, <2>7 DEF q
<1> QED
  BY <1>1, <1>2, <1>3, <1>4, <1>5

-----------------------------------------------------------------------------
(* A piece of text, character by character. *)

Path(p, t, n, f) == f = [i \in 0..n |-> IF i = 0 THEN p ELSE Feed(f[i - 1], t[i])]

LEMMA PathAt ==
  ASSUME NEW p, NEW t, NEW n \in Nat, NEW f, Path(p, t, n, f)
  PROVE  f[0] = p /\ \A i \in 1..n : f[i] = Feed(f[i - 1], t[i])
<1>1. f = [i \in 0..n |-> IF i = 0 THEN p ELSE Feed(f[i - 1], t[i])]
  BY DEF Path
<1>2. f[0] = p
  BY <1>1
<1>3. ASSUME NEW i \in 1..n PROVE f[i] = Feed(f[i - 1], t[i])
  <2>1. i \in 0..n /\ i # 0
    OBVIOUS
  <2>2. f[i] = IF i = 0 THEN p ELSE Feed(f[i - 1], t[i])
    BY <1>1, <2>1
  <2> QED
    BY <2>1, <2>2
<1> QED
  BY <1>2, <1>3

LEMMA PathExists ==
  ASSUME NEW p, NEW t, NEW n \in Nat
  PROVE  \E f : Path(p, t, n, f)
<1> DEFINE D == {k \in Nat : ~\E f : Path(p, t, k, f)}
<1>1. SUFFICES ASSUME D # {} PROVE FALSE
  OBVIOUS
<1>2. PICK k \in D : \A j \in D : k <= j
  <2>1. D \subseteq Nat
    OBVIOUS
  <2> HIDE DEF D
  <2> QED
    BY <1>1, <2>1, LeastNat
<1>3. k \in Nat /\ ~\E f : Path(p, t, k, f)
  OBVIOUS
<1>4. k # 0
  <2> SUFFICES ASSUME k = 0 PROVE FALSE
    OBVIOUS
  <2> DEFINE f == [i \in 0..0 |-> p]
  <2>1. f = [i \in 0..0 |-> IF i = 0 THEN p ELSE Feed(f[i - 1], t[i])]
    OBVIOUS
  <2> HIDE DEF f
  <2>2. Path(p, t, k, f)
    BY <2>1 DEF Path
  <2> QED
    BY <1>3, <2>2
<1>5. k - 1 \in Nat /\ ~(k <= k - 1)
  BY <1>3, <1>4
<1>6. PICK f : Path(p, t, k - 1, f)
  BY <1>2, <1>5
<1> DEFINE x == Feed(f[k - 1], t[k])
           g == [i \in 0..k |-> IF i = k THEN x ELSE f[i]]
<1>7. \A i \in 0..k : g[i] = IF i = 0 THEN p ELSE Feed(g[i - 1], t[i])
  <2> SUFFICES ASSUME NEW i \in 0..k PROVE g[i] = IF i = 0 THEN p ELSE Feed(g[i - 1], t[i])
    OBVIOUS
  <2>1. g[i] = IF i = k THEN x ELSE f[i]
    OBVIOUS
  <2>2. i # 0 => g[i - 1] = f[i - 1]
    <3> SUFFICES ASSUME i # 0 PROVE g[i - 1] = f[i - 1]
      OBVIOUS
    <3>1. i - 1 \in 0..k /\ i - 1 # k
      BY <1>3
    <3> QED
      BY <3>1
  <2> HIDE DEF g
  <2>3. CASE i = k
    BY <1>4, <2>1, <2>2, <2>3
  <2>4. CASE i # k
    <3>1. i = 0 \/ i \in 1..(k - 1)
      BY <1>3, <2>4
    <3>2. f[0] = p /\ \A j \in 1..(k - 1) : f[j] = Feed(f[j - 1], t[j])
      BY <1>5, <1>6, PathAt
    <3> QED
      BY <2>1, <2>2, <2>4, <3>1, <3>2
  <2> QED
    BY <2>3, <2>4
<1>8. g = [i \in 0..k |-> g[i]]
  OBVIOUS
<1> HIDE DEF g
<1>9. Path(p, t, k, g)
  BY <1>7, <1>8 DEF Path
<1> QED
  BY <1>3, <1>9

LEMMA FeedAllPath ==
  ASSUME NEW p, NEW t, IsList(t)
  PROVE  \E f : Path(p, t, Len(t), f) /\ FeedAll(p, t) = f[Len(t)]
<1> DEFINE Built(f) == f = [i \in 0..Len(t) |-> IF i = 0 THEN p ELSE Feed(f[i - 1], t[i])]
           g == CHOOSE f : Built(f)
<1>1. FeedAll(p, t) = g[Len(t)]
  BY DEF FeedAll
<1>2. Len(t) \in Nat
  BY ListIs
<1>3. \A f : Path(p, t, Len(t), f) <=> Built(f)
  BY DEF Path
<1>4. \E f : Path(p, t, Len(t), f)
  BY <1>2, PathExists
<1> HIDE DEF Built
<1>5. Built(g)
  BY <1>3, <1>4
<1> HIDE DEF g
<1> QED
  BY <1>1, <1>3, <1>5

LEMMA FedSound ==
  ASSUME NEW p, Sound(p), NEW ch
  PROVE  Sound(Feed(p, ch)) /\ Feed(p, ch).mode = p.mode
<1>1. p.finished \in BOOLEAN
  BY DEF Sound, Rendered, Flags
<1> QED
  BY <1>1, FeedIs DEF Goes

LEMMA FedAllSound ==
  ASSUME NEW p, Sound(p), NEW t, IsList(t)
  PROVE  Sound(FeedAll(p, t)) /\ FeedAll(p, t).mode = p.mode
<1> DEFINE n == Len(t)
<1>1. PICK f : Path(p, t, n, f) /\ FeedAll(p, t) = f[n]
  BY FeedAllPath
<1>2. n \in Nat
  BY ListIs
<1> HIDE DEF n
<1>3. Path(p, t, n, f)
  BY <1>1
<1>4. f[0] = p /\ \A i \in 1..n : f[i] = Feed(f[i - 1], t[i])
  BY <1>2, <1>3, PathAt
<1> DEFINE D == {i \in 0..n : ~(Sound(f[i]) /\ f[i].mode = p.mode)}
<1>5. D = {}
  <2> SUFFICES ASSUME D # {} PROVE FALSE
    OBVIOUS
  <2>1. PICK i \in D : \A j \in D : i <= j
    <3>1. D \subseteq Nat
      BY <1>2
    <3> HIDE DEF D
    <3> QED
      BY <3>1, LeastNat
  <2>2. i \in 0..n /\ ~(Sound(f[i]) /\ f[i].mode = p.mode)
    OBVIOUS
  <2>3. i # 0
    BY <1>4, <2>2
  <2>4. i \in 1..n /\ i - 1 \in 0..n /\ ~(i <= i - 1)
    BY <1>2, <2>2, <2>3
  <2>5. Sound(f[i - 1]) /\ f[i - 1].mode = p.mode
    BY <2>1, <2>4
  <2>6. f[i] = Feed(f[i - 1], t[i])
    BY <1>4, <2>4
  <2> QED
    BY <2>2, <2>5, <2>6, FedSound
<1>6. n \in 0..n
  BY <1>2
<1> QED
  BY <1>1, <1>5, <1>6

-----------------------------------------------------------------------------
(* Where the walk through the text of an object is. *)

LEMMA SeekIs ==
  ASSUME NEW s, Walker(s), s.phase = "seek_object", NEW ch
  PROVE  /\ ch \in Space => Consume(s, ch).events = <<>> /\ Consume(s, ch).s.phase = "seek_object"
         /\ ch = "{" => Consume(s, ch).events = <<>> /\ Consume(s, ch).s.phase = "between_keys"
<1>1. Consume(s, ch) = IF ch \in Space THEN Stay(s)
                       ELSE Stay([s EXCEPT !.phase = IF ch = "{" THEN "between_keys" ELSE "done"])
  BY DEF Consume
<1>2. ASSUME ch \in Space
      PROVE  Consume(s, ch).events = <<>> /\ Consume(s, ch).s.phase = "seek_object"
  BY <1>1, <1>2 DEF Stay
<1>3. ASSUME ch = "{"
      PROVE  Consume(s, ch).events = <<>> /\ Consume(s, ch).s.phase = "between_keys"
  <2> DEFINE w == [s EXCEPT !.phase = IF ch = "{" THEN "between_keys" ELSE "done"]
  <2>1. ch \notin Space
    BY <1>3 DEF Space
  <2>2. w.phase = "between_keys"
    BY <1>3 DEF Walker, WalkerFields
  <2> HIDE DEF w
  <2>3. Consume(s, ch) = Stay(w)
    BY <1>1, <2>1 DEF w
  <2> QED
    BY <2>2, <2>3 DEF Stay
<1> QED
  BY <1>2, <1>3

LEMMA SkipIs ==
  ASSUME NEW s, Walker(s), s.phase = "between_keys", NEW ch
  PROVE  /\ ch \in Space => Consume(s, ch).events = <<>> /\ Consume(s, ch).s.phase = "between_keys"
         /\ ch = Quote => Consume(s, ch).events = <<>> /\ Consume(s, ch).s.phase = "in_key"
<1> DEFINE r == Consume(s, ch)
<1>1. r = BetweenKeys(s, ch)
  BY DEF Consume
<1> HIDE DEF r
<1>2. KeysSought(s, ch, r)
  BY <1>1, BetweenKeysIs
<1>3. ch \in Space => ch \notin {"}", Quote}
  BY DEF Space, Quote
<1>4. ch = Quote => ch # "}"
  BY DEF Quote
<1>5. /\ ch \in Space => r.events = <<>> /\ r.s.phase = "between_keys"
      /\ ch = Quote => r.events = <<>> /\ r.s.phase = "in_key"
  BY <1>2, <1>3, <1>4 DEF KeysSought
<1> QED
  BY <1>5 DEF r

LEMMA PlaceOf ==
  ASSUME NEW i \in Nat, NEW j \in Nat, NEW n \in Nat, i < j
  PROVE  /\ Place(i, j, n) = "before" <=> n < i
         /\ Place(i, j, n) = "between" <=> i <= n /\ n < j
         /\ Place(i, j, n) = "after" <=> j <= n
         /\ Place(i, j, n) \in {"before", "between", "after"}
<1>1. CASE n < i
  <2>1. ~(i <= n) /\ ~(j <= n)
    BY <1>1
  <2>2. Place(i, j, n) = "before"
    BY <1>1 DEF Place
  <2> QED
    BY <1>1, <2>1, <2>2
<1>2. CASE i <= n /\ n < j
  <2>1. ~(n < i) /\ ~(j <= n)
    BY <1>2
  <2>2. Place(i, j, n) = "between"
    BY <1>2, <2>1 DEF Place
  <2> QED
    BY <1>2, <2>1, <2>2
<1>3. CASE j <= n
  <2>1. ~(n < i) /\ ~(n < j)
    BY <1>3
  <2>2. Place(i, j, n) = "after"
    BY <2>1 DEF Place
  <2> QED
    BY <1>3, <2>1, <2>2
<1>4. n < i \/ (i <= n /\ n < j) \/ j <= n
  OBVIOUS
<1> QED
  BY <1>1, <1>2, <1>3, <1>4

LEMMA NextPlace ==
  ASSUME NEW i \in Nat, NEW j \in Nat, NEW n \in Nat, i < j
  PROVE  \/ n < i /\ n + 1 < i /\ n + 1 < j /\ n + 1 # i
         \/ n < i /\ n + 1 = i /\ i <= n + 1 /\ n + 1 < j
         \/ i <= n /\ n < j /\ n + 1 # i /\ i <= n + 1 /\ n + 1 < j
         \/ i <= n /\ n < j /\ n + 1 = j /\ j <= n + 1
         \/ j <= n /\ j <= n + 1
OBVIOUS

LEMMA PlaceStep ==
  ASSUME NEW i \in Nat, NEW j \in Nat, NEW n \in Nat, i < j, NEW ch, Due(ch, i, j, n)
  PROVE  LET before == Place(i, j, n)
             after == Place(i, j, n + 1)
         IN \/ before = "before" /\ after = "before" /\ ch \in Space
            \/ before = "before" /\ after = "between" /\ ch = "{"
            \/ before = "between" /\ after = "between" /\ ch \in Space
            \/ before = "between" /\ after = "after" /\ ch = Quote
            \/ before = "after" /\ after = "after"
<1>1. n + 1 \in Nat
  OBVIOUS
<1>2. /\ n + 1 = i => ch = "{"
      /\ n + 1 = j => ch = Quote
      /\ n + 1 < j /\ n + 1 # i => ch \in Space
  BY DEF Due
<1>3. /\ n < i => Place(i, j, n) = "before"
      /\ i <= n /\ n < j => Place(i, j, n) = "between"
      /\ j <= n => Place(i, j, n) = "after"
  BY PlaceOf
<1>4. /\ n + 1 < i => Place(i, j, n + 1) = "before"
      /\ i <= n + 1 /\ n + 1 < j => Place(i, j, n + 1) = "between"
      /\ j <= n + 1 => Place(i, j, n + 1) = "after"
  BY <1>1, PlaceOf
<1> QED
  BY <1>2, <1>3, <1>4, NextPlace

LEMMA OpeningStep ==
  ASSUME NEW p, Sound(p), p.mode = "json_object", NEW old, NEW new, NEW ch, Opening(p, old),
         \/ old = "before" /\ new = "before" /\ ch \in Space
         \/ old = "before" /\ new = "between" /\ ch = "{"
         \/ old = "between" /\ new = "between" /\ ch \in Space
         \/ old = "between" /\ new = "after" /\ ch = Quote
         \/ old = "after" /\ new = "after"
  PROVE  Opening(Feed(p, ch), new)
<1> DEFINE q == Feed(p, ch)
           r == Consume(p.streamer, ch)
<1> SUFFICES Opening(q, new)
  OBVIOUS
<1>1. /\ ~p.header => ~p.streamed /\ ~p.finished
      /\ old = "before" => p.streamer.phase = "seek_object" /\ ~p.header
      /\ old = "between" => p.streamer.phase = "between_keys" /\ ~p.header
      /\ old = "after" => p.header \/ p.streamer.phase \in InMember
  BY DEF Opening
<1>2. /\ p.finished => q = p
      /\ ~p.finished => Goes(p, r, q)
  <2>1. p.finished \in BOOLEAN
    BY DEF Sound, Rendered, Flags
  <2> QED
    BY FeedIs
<1>3. Walker(p.streamer)
  BY DEF Sound
<1>4. ASSUME ~p.header, r.events = <<>>
      PROVE  ~q.header /\ ~q.streamed /\ ~q.finished /\ q.streamer = r.s
  <2> HIDE DEF q, r
  <2>1. Goes(p, r, q) /\ ~p.header /\ ~p.streamed /\ ~p.finished
    BY <1>1, <1>2, <1>4
  <2> QED
    BY <1>4, <2>1 DEF Goes, SameProgress
<1>5. CASE old = "before" /\ new = "before" /\ ch \in Space
  <2>1. r.events = <<>> /\ r.s.phase = "seek_object"
    BY <1>1, <1>3, <1>5, SeekIs
  <2> HIDE DEF q, r
  <2> QED
    BY <1>1, <1>4, <1>5, <2>1 DEF Opening
<1>6. CASE old = "before" /\ new = "between" /\ ch = "{"
  <2>1. r.events = <<>> /\ r.s.phase = "between_keys"
    BY <1>1, <1>3, <1>6, SeekIs
  <2> HIDE DEF q, r
  <2> QED
    BY <1>1, <1>4, <1>6, <2>1 DEF Opening
<1>7. CASE old = "between" /\ new = "between" /\ ch \in Space
  <2>1. r.events = <<>> /\ r.s.phase = "between_keys"
    BY <1>1, <1>3, <1>7, SkipIs
  <2> HIDE DEF q, r
  <2> QED
    BY <1>1, <1>4, <1>7, <2>1 DEF Opening
<1>8. CASE old = "between" /\ new = "after" /\ ch = Quote
  <2>1. r.events = <<>> /\ r.s.phase \in InMember
    BY <1>1, <1>3, <1>8, SkipIs DEF InMember
  <2> HIDE DEF q, r
  <2> QED
    BY <1>1, <1>4, <1>8, <2>1 DEF Opening
<1>9. CASE old = "after" /\ new = "after"
  <2> HIDE DEF q, r
  <2>1. ASSUME ~q.header PROVE ~q.streamed /\ ~q.finished /\ q.streamer.phase \in InMember
    <3>1. p.header \/ p.streamer.phase \in InMember
      BY <1>1, <1>9
    <3>2. CASE p.finished
      BY <1>1, <1>2, <2>1, <3>2
    <3>3. CASE ~p.finished
      <4>1. Goes(p, r, q)
        BY <1>2, <3>3
      <4> QED
        BY <1>1, <2>1, <3>1, <4>1 DEF Goes, SameProgress
    <3>4. p.finished \in BOOLEAN
      BY DEF Sound, Rendered, Flags
    <3> QED
      BY <3>2, <3>3, <3>4
  <2> QED
    BY <1>9, <2>1 DEF Opening
<1> HIDE DEF q, r
<1> QED
  BY <1>5, <1>6, <1>7, <1>8, <1>9

LEMMA OpensIs ==
  ASSUME NEW text \in Seq(STRING), NEW i, NEW j, OpensAt(text, i, j), NEW n \in Nat,
         n + 1 <= Len(text)
  PROVE  i \in Nat /\ j \in Nat /\ i < j /\ Due(text[n + 1], i, j, n)
<1> DEFINE ch == text[n + 1]
<1>1. /\ i \in DOMAIN text /\ j \in DOMAIN text /\ i < j
      /\ text[i] = "{" /\ text[j] = Quote
      /\ \A k \in 1..(j - 1) : k = i \/ text[k] \in Space
  BY DEF OpensAt
<1>2. i \in Nat /\ j \in Nat
  <2>1. DOMAIN text = 1..Len(text) /\ Len(text) \in Nat
    OBVIOUS
  <2>2. i \in 1..Len(text) /\ j \in 1..Len(text)
    <3>1. i \in DOMAIN text /\ j \in DOMAIN text
      BY DEF OpensAt
    <3> QED
      BY <2>1, <3>1
  <2> QED
    BY <2>1, <2>2
<1>3. n + 1 = i => ch = "{"
  BY <1>1
<1>4. n + 1 = j => ch = Quote
  BY <1>1
<1>5. n + 1 < j => n + 1 \in 1..(j - 1)
  BY <1>2
<1>6. n + 1 < j /\ n + 1 # i => ch \in Space
  BY <1>1, <1>5
<1>7. Due(ch, i, j, n)
  <2> HIDE DEF ch
  <2> QED
    BY <1>3, <1>4, <1>6 DEF Due
<1> QED
  BY <1>1, <1>2, <1>7

IsText(text) == text \in Seq(STRING)

LEMMA FollowsStep ==
  ASSUME NEW p, Sound(p), p.mode = "json_object", NEW text, IsText(text),
         NEW n \in Nat, n + 1 <= Len(text), Follows(p, text, n)
  PROVE  Follows(Feed(p, text[n + 1]), text, n + 1)
<1> DEFINE ch == text[n + 1]
           q == Feed(p, ch)
<1> SUFFICES ASSUME NEW i \in DOMAIN text, NEW j \in DOMAIN text, OpensAt(text, i, j)
             PROVE  Opening(q, Place(i, j, n + 1))
  BY DEF Follows
<1>1. Opening(p, Place(i, j, n))
  BY DEF Follows
<1>2. i \in Nat /\ j \in Nat /\ i < j /\ Due(ch, i, j, n)
  BY OpensIs DEF IsText
<1> DEFINE old == Place(i, j, n)
           new == Place(i, j, n + 1)
<1>3. \/ old = "before" /\ new = "before" /\ ch \in Space
      \/ old = "before" /\ new = "between" /\ ch = "{"
      \/ old = "between" /\ new = "between" /\ ch \in Space
      \/ old = "between" /\ new = "after" /\ ch = Quote
      \/ old = "after" /\ new = "after"
  <2> HIDE DEF ch
  <2> QED
    BY <1>2, PlaceStep
<1>4. Opening(p, old)
  BY <1>1
<1> HIDE DEF ch, old, new
<1>5. Opening(q, new)
  BY <1>3, <1>4, OpeningStep
<1> QED
  BY <1>5 DEF new

(* t is what comes after the first m characters of text. *)
Continues(text, m, t) == m + Len(t) <= Len(text) /\ \A k \in 1..Len(t) : t[k] = text[m + k]

LEMMA FedAllFollows ==
  ASSUME NEW p, Sound(p), p.mode = "json_object", NEW text, IsText(text), NEW m \in Nat,
         NEW t, IsList(t), Continues(text, m, t),
         Follows(p, text, m)
  PROVE  Follows(FeedAll(p, t), text, m + Len(t))
<1> DEFINE n == Len(t)
<1>1. PICK f : Path(p, t, n, f) /\ FeedAll(p, t) = f[n]
  BY FeedAllPath
<1>2. n \in Nat
  BY ListIs
<1>3. m + n <= Len(text) /\ \A k \in 1..n : t[k] = text[m + k]
  BY DEF Continues
<1> HIDE DEF n
<1>4. Path(p, t, n, f)
  BY <1>1
<1>5. f[0] = p /\ \A i \in 1..n : f[i] = Feed(f[i - 1], t[i])
  BY <1>2, <1>4, PathAt
<1> DEFINE Good(q, i) == Sound(q) /\ q.mode = "json_object" /\ Follows(q, text, m + i)
           D == {i \in 0..n : ~Good(f[i], i)}
<1>6. D = {}
  <2> SUFFICES ASSUME D # {} PROVE FALSE
    OBVIOUS
  <2>1. PICK i \in D : \A j \in D : i <= j
    <3>1. D \subseteq Nat
      BY <1>2
    <3> HIDE DEF D
    <3> QED
      BY <3>1, LeastNat
  <2>2. i \in 0..n /\ ~Good(f[i], i)
    OBVIOUS
  <2>3. i # 0
    <3>1. m + 0 = m
      OBVIOUS
    <3>2. Good(f[0], 0)
      BY <1>5, <3>1
    <3> HIDE DEF Good
    <3> QED
      BY <2>2, <3>2
  <2>4. i \in 1..n /\ i - 1 \in 0..n /\ ~(i <= i - 1)
    BY <1>2, <2>2, <2>3
  <2>5. Good(f[i - 1], i - 1)
    BY <2>1, <2>4
  <2>6. f[i] = Feed(f[i - 1], t[i])
    BY <1>5, <2>4
  <2> DEFINE k == m + (i - 1)
  <2>7. k \in Nat /\ k + 1 = m + i /\ k + 1 <= Len(text) /\ t[i] = text[k + 1]
    <3>1. k \in Nat /\ k + 1 = m + i
      BY <1>2, <2>4
    <3>2. m + i <= Len(text)
      <4>1. Len(text) \in Nat
        BY DEF IsText
      <4> QED
        BY <1>3, <1>2, <2>4, <4>1
    <3> QED
      BY <1>3, <2>4, <3>1, <3>2
  <2>8. Sound(f[i - 1]) /\ f[i - 1].mode = "json_object" /\ Follows(f[i - 1], text, k)
    BY <2>5
  <2> HIDE DEF k, D
  <2>9. Follows(Feed(f[i - 1], text[k + 1]), text, k + 1)
    BY <2>7, <2>8, FollowsStep
  <2>10. Sound(f[i]) /\ f[i].mode = "json_object"
    BY <2>6, <2>8, FedSound
  <2> QED
    BY <2>2, <2>6, <2>7, <2>9, <2>10
<1>7. n \in 0..n
  BY <1>2
<1>8. Good(f[n], n)
  BY <1>6, <1>7
<1> QED
  BY <1>1, <1>8 DEF n

-----------------------------------------------------------------------------
(* The state that the sink keeps of one call. *)

(* buf is all of the first m characters of text. *)
Buffered(text, buf, m) == Len(buf) = m /\ \A k \in 1..m : buf[k] = text[k]

(* The presenter a call has, its name being fn or not known yet. *)
Fits(fn, p) ==
  IF fn = Unknown \/ Mode(fn) = "none" THEN p = NoPresenter ELSE Sound(p) /\ p.mode = Mode(fn)

(* No text was lost: m characters of text are in the buffer, or in the presenter. *)
Seen(text, fn, buf, p, m) ==
  /\ fn = Unknown => Buffered(text, buf, m)
  /\ p.mode = "json_object" => Follows(p, text, m)

LEMMA PieceIs ==
  ASSUME NEW text, IsText(text), NEW m \in 0..Len(text), NEW n \in 0..1, m + n <= Len(text)
  PROVE  LET piece == SubSeq(text, m + 1, m + n)
         IN IsList(piece) /\ Len(piece) = n /\ Continues(text, m, piece)
<1> DEFINE piece == SubSeq(text, m + 1, m + n)
<1>1. text \in Seq(STRING) /\ Len(text) \in Nat
  BY DEF IsText
<1>2. piece \in Seq(STRING) /\ Len(piece) = n /\ \A k \in 1..n : piece[k] = text[m + k]
  BY <1>1
<1> HIDE DEF piece
<1>3. n \in Nat /\ piece = [k \in 1..n |-> piece[k]]
  BY <1>2, SeqIs
<1>4. IsList(piece)
  BY <1>3, ListFrom
<1>5. Continues(text, m, piece)
  BY <1>2 DEF Continues
<1> QED
  BY <1>2, <1>4, <1>5 DEF piece

LEMMA NewSound ==
  ASSUME NEW mode \in {"config_map", "json_object"}
  PROVE  /\ Sound(NewPresenter(mode)) /\ NewPresenter(mode).mode = mode
         /\ \A text : IsText(text) => Follows(NewPresenter(mode), text, 0)
<1> DEFINE p == NewPresenter(mode)
<1>1. /\ DOMAIN p = PresenterFields /\ p.mode = mode /\ p.streamer = NewStreamer /\ p.shown = <<>>
      /\ ~p.header /\ ~p.stringOpen /\ ~p.fenceOpen /\ ~p.jsonString /\ ~p.streamed /\ ~p.finished
  BY DEF NewPresenter, PresenterFields
<1>2. /\ p.header \in BOOLEAN /\ p.stringOpen \in BOOLEAN /\ p.fenceOpen \in BOOLEAN
      /\ p.jsonString \in BOOLEAN /\ p.finished \in BOOLEAN /\ p.streamed \in BOOLEAN
  BY DEF NewPresenter
<1> HIDE DEF p
<1>3. Flags(p)
  BY <1>1, <1>2 DEF Flags
<1>4. Balanced(p)
  <2>1. Heads(p) = 0 /\ Fences(p) = 0 /\ Quotes(p) = 0 /\ Finals(p) = 0
    BY <1>1 DEF Heads, Fences, Quotes, Finals, Ends
  <2>2. 0 + 0 = 0 /\ 2 * 0 + 0 = 0
    OBVIOUS
  <2>3. Tally(p.shown, Heads(p), 0 + Fences(p), 0, 2 * 0 + Quotes(p), Finals(p))
    BY <1>1, <2>1, <2>2, TallyNone
  <2> QED
    BY <2>3 DEF Balanced
<1>5. Walker(p.streamer) /\ p.streamer.phase = "seek_object"
  <2>1. DOMAIN NewStreamer = WalkerFields /\ NewStreamer.phase = "seek_object" /\ NewStreamer.parts = <<>>
    BY DEF NewStreamer, WalkerFields
  <2> QED
    BY <1>1, <2>1, NoneIsList DEF Walker
<1>6. Sound(p)
  BY <1>1, <1>3, <1>4, <1>5 DEF Sound, Rendered, Inside
<1>7. ASSUME NEW text, IsText(text) PROVE Follows(p, text, 0)
  <2> SUFFICES ASSUME NEW i \in DOMAIN text, NEW j \in DOMAIN text, OpensAt(text, i, j)
               PROVE  Opening(p, Place(i, j, 0))
    BY DEF Follows
  <2>1. DOMAIN text = 1..Len(text) /\ Len(text) \in Nat
    BY <1>7 DEF IsText
  <2>2. i \in 1..Len(text)
    BY <2>1
  <2>3. 0 < i
    BY <2>1, <2>2
  <2>4. Place(i, j, 0) = "before"
    BY <2>3 DEF Place
  <2> QED
    BY <1>1, <1>5, <2>4 DEF Opening
<1>8. Sound(p) /\ p.mode = mode /\ \A text : IsText(text) => Follows(p, text, 0)
  BY <1>1, <1>6, <1>7
<1> QED
  BY <1>8 DEF p

LEMMA NoPresenterIs ==
  /\ NoPresenter.mode = "none" /\ NoPresenter.shown = <<>> /\ ~NoPresenter.streamed
  /\ Finish(NoPresenter).shown = <<>> /\ ~Finish(NoPresenter).streamed
<1> DEFINE p == NoPresenter
<1>1. /\ p.mode = "none" /\ p.shown = <<>> /\ ~p.streamed /\ ~p.finished
      /\ DOMAIN p = PresenterFields
  BY DEF NoPresenter, NewPresenter, PresenterFields
<1> HIDE DEF p
<1>2. Finish(p) = [p EXCEPT !.finished = TRUE]
  BY <1>1 DEF Finish
<1>3. Finish(p).shown = <<>> /\ ~Finish(p).streamed
  BY <1>1, <1>2 DEF PresenterFields
<1> QED
  BY <1>1, <1>3 DEF p

LEMMA NewFits ==
  ASSUME NEW fn \in FunctionNames, NEW buf, IsList(buf)
  PROVE  Fits(fn, WithPresenter(fn, buf))
<1>1. fn # Unknown /\ Mode(fn) \in {"config_map", "json_object", "none"}
  BY StreamAssumption DEF Mode
<1>2. CASE Mode(fn) = "none"
  BY <1>2 DEF Fits, WithPresenter
<1>3. CASE Mode(fn) # "none"
  <2> DEFINE p == NewPresenter(Mode(fn))
  <2>1. Sound(p) /\ p.mode = Mode(fn)
    BY <1>1, <1>3, NewSound
  <2>2. WithPresenter(fn, buf) = FeedAll(p, buf)
    BY <1>3 DEF WithPresenter
  <2> HIDE DEF p
  <2>3. Sound(FeedAll(p, buf)) /\ FeedAll(p, buf).mode = Mode(fn)
    BY <2>1, FedAllSound
  <2> QED
    BY <1>1, <1>3, <2>2, <2>3 DEF Fits
<1> QED
  BY <1>2, <1>3

LEMMA NewSeen ==
  ASSUME NEW fn \in FunctionNames, NEW text, IsText(text), NEW buf, IsList(buf),
         NEW m \in Nat, m <= Len(text), Buffered(text, buf, m)
  PROVE  Seen(text, fn, <<>>, WithPresenter(fn, buf), m)
<1>1. fn # Unknown /\ Mode(fn) \in {"config_map", "json_object", "none"}
  BY StreamAssumption DEF Mode
<1>2. ASSUME WithPresenter(fn, buf).mode = "json_object"
      PROVE  Follows(WithPresenter(fn, buf), text, m)
  <2>1. Fits(fn, WithPresenter(fn, buf))
    BY NewFits
  <2>2. Mode(fn) = "json_object"
    BY <1>1, <1>2, <2>1, NoPresenterIs DEF Fits
  <2> DEFINE p == NewPresenter("json_object")
  <2>3. Sound(p) /\ p.mode = "json_object" /\ Follows(p, text, 0)
    BY NewSound
  <2>4. WithPresenter(fn, buf) = FeedAll(p, buf)
    BY <2>2 DEF WithPresenter
  <2> HIDE DEF p
  <2>5. Len(buf) = m /\ \A k \in 1..m : buf[k] = text[k]
    BY DEF Buffered
  <2>6. 0 + m = m /\ \A k \in 1..m : 0 + k = k
    OBVIOUS
  <2>7. Continues(text, 0, buf)
    BY <2>5, <2>6 DEF Continues
  <2>8. 0 \in Nat
    OBVIOUS
  <2>9. Follows(FeedAll(p, buf), text, 0 + Len(buf))
    BY <2>3, <2>7, <2>8, FedAllFollows
  <2> QED
    BY <2>4, <2>5, <2>6, <2>9
<1> QED
  BY <1>1, <1>2 DEF Seen

(* _feed_argument_chunk: what the state of the call is then. *)
BufferWith(fn, buf, piece) == IF fn = Unknown THEN buf \o piece ELSE <<>>
PresenterWith(fn, p, piece) ==
  IF fn = Unknown \/ Mode(fn) = "none" THEN NoPresenter ELSE FeedAll(p, piece)

LEMMA FedFits ==
  ASSUME NEW fn, NEW buf, IsList(buf), NEW p, Fits(fn, p), NEW piece, IsList(piece)
  PROVE  IsList(BufferWith(fn, buf, piece)) /\ Fits(fn, PresenterWith(fn, p, piece))
<1>1. IsList(BufferWith(fn, buf, piece))
  <2>1. IsList(buf \o piece)
    BY Joined
  <2> QED
    BY <2>1, NoneIsList DEF BufferWith
<1>2. CASE fn = Unknown \/ Mode(fn) = "none"
  BY <1>1, <1>2 DEF Fits, PresenterWith
<1>3. CASE ~(fn = Unknown \/ Mode(fn) = "none")
  <2>1. Sound(p) /\ p.mode = Mode(fn)
    BY <1>3 DEF Fits
  <2>2. Sound(FeedAll(p, piece)) /\ FeedAll(p, piece).mode = Mode(fn)
    BY <2>1, FedAllSound
  <2> QED
    BY <1>1, <1>3, <2>2 DEF Fits, PresenterWith
<1> QED
  BY <1>2, <1>3

LEMMA FedSeen ==
  ASSUME NEW text, IsText(text), NEW m \in Nat, NEW fn, NEW buf, IsList(buf),
         NEW p, Fits(fn, p), NEW piece, IsList(piece), Continues(text, m, piece),
         Seen(text, fn, buf, p, m)
  PROVE  Seen(text, fn, BufferWith(fn, buf, piece), PresenterWith(fn, p, piece), m + Len(piece))
<1>1. CASE fn = Unknown
  <2> DEFINE u == buf \o piece
  <2>1. Len(buf) = m /\ \A k \in 1..m : buf[k] = text[k]
    BY <1>1 DEF Seen, Buffered
  <2>2. /\ Len(u) = Len(buf) + Len(piece)
        /\ \A k \in 1..Len(buf) : u[k] = buf[k]
        /\ \A k \in 1..Len(piece) : u[Len(buf) + k] = piece[k]
    BY Joined
  <2> HIDE DEF u
  <2>3. Len(piece) \in Nat
    BY ListIs
  <2>4. \A k \in 1..Len(piece) : piece[k] = text[m + k]
    BY DEF Continues
  <2>5. ASSUME NEW k \in 1..(m + Len(piece)) PROVE u[k] = text[k]
    <3>1. CASE k <= m
      <4>1. k \in 1..m
        BY <2>3, <3>1
      <4> QED
        BY <2>1, <2>2, <4>1
    <3>2. CASE m < k
      <4> DEFINE e == k - m
      <4>1. e \in 1..Len(piece) /\ m + e = k
        BY <2>3, <3>2
      <4> HIDE DEF e
      <4> QED
        BY <2>1, <2>2, <2>4, <4>1
    <3> QED
      BY <2>3, <3>1, <3>2
  <2>6. Buffered(text, u, m + Len(piece))
    BY <2>1, <2>2, <2>5 DEF Buffered
  <2>7. BufferWith(fn, buf, piece) = u /\ PresenterWith(fn, p, piece).mode = "none"
    BY <1>1, NoPresenterIs DEF BufferWith, PresenterWith, u
  <2> QED
    BY <2>6, <2>7 DEF Seen
<1>2. CASE fn # Unknown
  <2>1. ASSUME PresenterWith(fn, p, piece).mode = "json_object"
        PROVE  Follows(PresenterWith(fn, p, piece), text, m + Len(piece))
    <3>1. Mode(fn) # "none" /\ PresenterWith(fn, p, piece) = FeedAll(p, piece)
      BY <1>2, <2>1, NoPresenterIs DEF PresenterWith
    <3>2. Sound(p) /\ p.mode = "json_object"
      BY <1>2, <2>1, <3>1, FedAllSound DEF Fits
    <3>3. Follows(p, text, m)
      BY <3>2 DEF Seen
    <3>4. Follows(FeedAll(p, piece), text, m + Len(piece))
      BY <3>2, <3>3, FedAllFollows
    <3> QED
      BY <3>1, <3>4
  <2> QED
    BY <1>2, <2>1 DEF Seen
<1> QED
  BY <1>1, <1>2

-----------------------------------------------------------------------------
(* The inductive invariant of what is shown: the sink's state of every call is in step with
   the text that came in. *)

SinkSound(c) ==
  /\ c \in owned =>
       /\ c \in DOMAIN script.calls
       /\ function[c] # Unknown => c \in named
       /\ IsList(waiting[c]) /\ Fits(function[c], presenter[c])
       /\ c \notin lost => Seen(Text(c), function[c], waiting[c], presenter[c], sent[c])
  /\ c \notin owned \cup hidden \cup lost => sent[c] = 0

SInv ==
  /\ IInv
  /\ DOMAIN presenter = Calls /\ DOMAIN sent = Calls
  /\ phase = "running" => \A c \in Calls : SinkSound(c)
  /\ phase # "succeeded" => \A c \in Calls : stage[c] # "adopted"
  /\ StreamedIsHonest

(* What a delta with call c brings. *)
Brings(c, withName, piece) ==
  /\ script' = script /\ c \in DOMAIN script.calls /\ NameOf(c) \in FunctionNames
  /\ IsText(Text(c)) /\ sent[c] \in 0..Len(Text(c))
  /\ IsList(piece) /\ Continues(Text(c), sent[c], piece)
  /\ sent'[c] = sent[c] + Len(piece)
  /\ named \subseteq named' /\ (withName => c \notin named /\ c \in named')

LEMMA CallText ==
  ASSUME IInv, NEW c \in DOMAIN script.calls
  PROVE  IsText(Text(c)) /\ NameOf(c) \in FunctionNames /\ c \in Calls /\ sent[c] \in 0..Len(Text(c))
         /\ (Object(c) # <<>> => \E i, j \in DOMAIN Text(c) : OpensAt(Text(c), i, j))
<1>1. script \in Scripts /\ sent[c] \in 0..Len(Text(c))
  BY DEF IInv, TypeOK
<1> QED
  BY <1>1, StreamAssumption DEF IsText, Text, NameOf, Object

LEMMA SameCall ==
  ASSUME NEW d, SinkSound(d), script' = script,
         function'[d] = function[d], waiting'[d] = waiting[d], presenter'[d] = presenter[d],
         sent'[d] = sent[d], named \subseteq named', d \in owned' <=> d \in owned,
         d \in hidden' <=> d \in hidden, d \in lost' <=> d \in lost
  PROVE  SinkSound(d)'
BY DEF SinkSound, Text

(* A call whose stage the sink holds after the delta. *)
LEMMA HeldSound ==
  ASSUME NEW c, NEW withName, NEW piece, Brings(c, withName, piece), c \in owned', NEW fn, NEW buf, NEW p,
         IsList(buf), Fits(fn, p),
         c \notin lost' => Seen(Text(c), fn, buf, p, sent[c]),
         fn # Unknown => c \in named',
         function'[c] = fn, waiting'[c] = BufferWith(fn, buf, piece),
         presenter'[c] = PresenterWith(fn, p, piece)
  PROVE  SinkSound(c)'
<1>1. /\ script' = script /\ c \in DOMAIN script.calls /\ IsText(Text(c)) /\ sent[c] \in 0..Len(Text(c))
      /\ IsList(piece) /\ Continues(Text(c), sent[c], piece) /\ sent'[c] = sent[c] + Len(piece)
  BY DEF Brings
<1>2. sent[c] \in Nat
  <2>1. Len(Text(c)) \in Nat
    BY <1>1 DEF IsText
  <2> QED
    BY <1>1, <2>1
<1>3. IsList(waiting'[c]) /\ Fits(function'[c], presenter'[c])
  BY <1>1, FedFits
<1>4. c \notin lost' => Seen(Text(c), function'[c], waiting'[c], presenter'[c], sent'[c])
  BY <1>1, <1>2, FedSeen
<1>5. Text(c)' = Text(c)
  BY <1>1 DEF Text
<1> QED
  BY <1>1, <1>3, <1>4, <1>5 DEF SinkSound

LEMMA ArgumentIs ==
  ASSUME SInv, NEW c \in Calls, NEW fn, NEW buf, NEW p, NEW piece, Argument(c, fn, buf, p, piece)
  PROVE  /\ function'[c] = fn /\ waiting'[c] = BufferWith(fn, buf, piece)
         /\ presenter'[c] = PresenterWith(fn, p, piece) /\ DOMAIN presenter' = Calls
         /\ \A d \in Calls \ {c} : /\ function'[d] = function[d] /\ waiting'[d] = waiting[d]
                                   /\ presenter'[d] = presenter[d]
<1>1. DOMAIN function = Calls /\ DOMAIN waiting = Calls /\ DOMAIN presenter = Calls
  BY DEF SInv, IInv, TypeOK
<1>2. /\ function' = [function EXCEPT ![c] = fn]
      /\ waiting' = [waiting EXCEPT ![c] = BufferWith(fn, buf, piece)]
      /\ presenter' = [presenter EXCEPT ![c] = PresenterWith(fn, p, piece)]
  BY DEF Argument, BufferWith, PresenterWith
<1> QED
  BY <1>1, <1>2

(* The calls that a delta with call c is not about. *)
OthersSame(c) ==
  /\ DOMAIN presenter' = Calls
  /\ \A d \in Calls \ {c} :
       /\ function'[d] = function[d] /\ waiting'[d] = waiting[d] /\ presenter'[d] = presenter[d]
       /\ (d \in owned' <=> d \in owned) /\ (d \in hidden' <=> d \in hidden)
       /\ (d \in lost' <=> d \in lost)

LEMMA OpenStageSound ==
  ASSUME SInv, NEW c \in Calls, SinkSound(c), c \notin hidden, c \notin owned,
         NEW withName \in BOOLEAN, NEW piece, Brings(c, withName, piece),
         OpenStage(c, withName, piece)
  PROVE  SinkSound(c)' /\ OthersSame(c)
<1> DEFINE fn == IF withName THEN NameOf(c) ELSE Unknown
           p == IF withName THEN WithPresenter(fn, <<>>) ELSE NoPresenter
<1>1. c \notin lost => sent[c] = 0
  BY DEF SinkSound
<1>2. DOMAIN presenter = Calls
  BY DEF SInv
<1>3. CASE hidden' = hidden \cup {c} /\ UNCHANGED <<stage, state, lost>>
  BY <1>2, <1>3 DEF SinkSound, OthersSame, state
<1>4. CASE /\ lost' = IF piece = <<>> THEN lost ELSE lost \cup {c}
           /\ UNCHANGED <<hidden, stage, state>>
  <2>1. OthersSame(c)
    BY <1>2, <1>4 DEF OthersSame, state
  <2>2. c \notin lost' => sent'[c] = 0
    <3> SUFFICES ASSUME c \notin lost' PROVE sent'[c] = 0
      OBVIOUS
    <3>1. piece = <<>> /\ sent[c] = 0
      BY <1>1, <1>4
    <3>2. Len(<<>>) = 0 /\ 0 + 0 = 0
      OBVIOUS
    <3>3. sent'[c] = sent[c] + Len(piece)
      BY DEF Brings
    <3> QED
      BY <3>1, <3>2, <3>3
  <2> QED
    BY <1>4, <2>1, <2>2 DEF SinkSound, state
<1>5. CASE /\ owned' = owned \cup {c} /\ UNCHANGED <<hidden, lost>>
           /\ Argument(c, fn, <<>>, p, piece)
  <2>1. /\ function'[c] = fn /\ waiting'[c] = BufferWith(fn, <<>>, piece)
        /\ presenter'[c] = PresenterWith(fn, p, piece) /\ DOMAIN presenter' = Calls
        /\ \A d \in Calls \ {c} : /\ function'[d] = function[d] /\ waiting'[d] = waiting[d]
                                  /\ presenter'[d] = presenter[d]
    BY <1>5, ArgumentIs
  <2>2. OthersSame(c)
    BY <1>5, <2>1 DEF OthersSame
  <2>3. IsText(Text(c)) /\ NameOf(c) \in FunctionNames /\ (withName => c \in named')
    BY DEF Brings
  <2>4. Buffered(Text(c), <<>>, 0) /\ 0 \in Nat /\ 0 <= Len(Text(c)) /\ IsList(<<>>)
    <3>1. Len(Text(c)) \in Nat
      BY <2>3 DEF IsText
    <3> QED
      BY <3>1, NoneIsList DEF Buffered
  <2>5. Fits(fn, p) /\ Seen(Text(c), fn, <<>>, p, 0)
    <3>1. CASE withName
      BY <2>3, <2>4, <3>1, NewFits, NewSeen
    <3>2. CASE ~withName
      BY <2>4, <3>2, NoPresenterIs DEF Fits, Seen
    <3> QED
      BY <3>1, <3>2
  <2>6. fn # Unknown => c \in named'
    BY <2>3
  <2>7. c \notin lost' => Seen(Text(c), fn, <<>>, p, sent[c])
    BY <1>1, <1>5, <2>5
  <2>8. c \in owned'
    BY <1>5
  <2> HIDE DEF fn, p
  <2>9. SinkSound(c)'
    BY <2>1, <2>4, <2>5, <2>6, <2>7, <2>8, HeldSound
  <2> QED
    BY <2>2, <2>9
<1> QED
  BY <1>3, <1>4, <1>5 DEF OpenStage

LEMMA LateNameSound ==
  ASSUME SInv, NEW c \in Calls, SinkSound(c), c \in owned,
         NEW piece, Brings(c, TRUE, piece), LateName(c, piece)
  PROVE  SinkSound(c)' /\ OthersSame(c)
<1> DEFINE fn == NameOf(c)
           p == WithPresenter(fn, waiting[c])
<1>1. DOMAIN presenter = Calls
  BY DEF SInv
<1>2. CASE /\ hidden' = hidden \cup {c} /\ owned' = owned \ {c}
           /\ UNCHANGED <<function, waiting, presenter, lost>>
  BY <1>1, <1>2 DEF SinkSound, OthersSame
<1>3. CASE Argument(c, fn, <<>>, p, piece) /\ UNCHANGED <<hidden, owned, lost>>
  <2>1. /\ function'[c] = fn /\ waiting'[c] = BufferWith(fn, <<>>, piece)
        /\ presenter'[c] = PresenterWith(fn, p, piece) /\ DOMAIN presenter' = Calls
        /\ \A d \in Calls \ {c} : /\ function'[d] = function[d] /\ waiting'[d] = waiting[d]
                                  /\ presenter'[d] = presenter[d]
    BY <1>3, ArgumentIs
  <2>2. OthersSame(c)
    BY <1>3, <2>1 DEF OthersSame
  <2>3. IsText(Text(c)) /\ fn \in FunctionNames /\ c \in named' /\ c \notin named
        /\ sent[c] \in 0..Len(Text(c))
    BY DEF Brings
  <2>4. function[c] = Unknown /\ IsList(waiting[c])
        /\ (c \notin lost => Seen(Text(c), Unknown, waiting[c], presenter[c], sent[c]))
    BY <2>3 DEF SinkSound
  <2>5. Fits(fn, p)
    BY <2>3, <2>4, NewFits
  <2>6. c \notin lost' => Seen(Text(c), fn, <<>>, p, sent[c])
    <3> SUFFICES ASSUME c \notin lost' PROVE Seen(Text(c), fn, <<>>, p, sent[c])
      OBVIOUS
    <3>1. Buffered(Text(c), waiting[c], sent[c])
      BY <1>3, <2>4 DEF Seen
    <3>2. Len(Text(c)) \in Nat
      BY <2>3 DEF IsText
    <3>3. sent[c] \in Nat /\ sent[c] <= Len(Text(c))
      BY <2>3, <3>2
    <3> QED
      BY <2>3, <2>4, <3>1, <3>3, NewSeen
  <2>7. c \in owned'
    BY <1>3
  <2> HIDE DEF fn, p
  <2>8. SinkSound(c)'
    BY <2>1, <2>3, <2>5, <2>6, <2>7, NoneIsList, HeldSound
  <2> QED
    BY <2>2, <2>8
<1> QED
  BY <1>2, <1>3 DEF LateName

LEMMA MoreTextSound ==
  ASSUME SInv, NEW c \in Calls, SinkSound(c), c \in owned,
         NEW withName, NEW piece, Brings(c, withName, piece), MoreText(c, piece)
  PROVE  SinkSound(c)' /\ OthersSame(c)
<1> DEFINE fn == function[c]
           buf == waiting[c]
           p == presenter[c]
<1>1. Argument(c, fn, buf, p, piece) /\ UNCHANGED <<hidden, owned, lost>>
  BY DEF MoreText
<1>2. /\ function'[c] = fn /\ waiting'[c] = BufferWith(fn, buf, piece)
      /\ presenter'[c] = PresenterWith(fn, p, piece) /\ DOMAIN presenter' = Calls
      /\ \A d \in Calls \ {c} : /\ function'[d] = function[d] /\ waiting'[d] = waiting[d]
                                /\ presenter'[d] = presenter[d]
  BY <1>1, ArgumentIs
<1>3. OthersSame(c)
  BY <1>1, <1>2 DEF OthersSame
<1>4. IsList(buf) /\ Fits(fn, p) /\ (c \notin lost' => Seen(Text(c), fn, buf, p, sent[c]))
  BY <1>1 DEF SinkSound
<1>5. fn # Unknown => c \in named'
  BY DEF SinkSound, Brings
<1>6. c \in owned'
  BY <1>1
<1> HIDE DEF fn, buf, p
<1>7. SinkSound(c)'
  BY <1>2, <1>4, <1>5, <1>6, HeldSound
<1> QED
  BY <1>3, <1>7

-----------------------------------------------------------------------------
(* The end of the stream, and the steps that leave the calls alone. *)

LEMMA EvenPairs == ASSUME NEW k \in Nat PROVE (2 * k + 0) % 2 = 0
OBVIOUS

LEMMA FinishHonest ==
  ASSUME NEW fn, NEW p, Fits(fn, p)
  PROVE  LET q == Finish(p) IN
           /\ q.shown # <<>> => q.streamed
           /\ q.shown # <<>> =>
                /\ Number(q.shown, "header") = 1
                /\ Number(q.shown, "fence_open") = Number(q.shown, "fence_close")
                /\ Number(q.shown, "quote") % 2 = 0
                /\ q.mode = "json_object" => Number(q.shown, "object_end") = 1
           /\ q.streamed /\ q.shown = <<>> => p.mode = "json_object" /\ ~p.header /\ p.streamed
<1> DEFINE q == Finish(p)
<1>1. CASE p = NoPresenter
  BY <1>1, NoPresenterIs
<1>2. CASE Sound(p)
  <2>1. /\ Rendered(q) /\ ~q.fenceOpen /\ ~q.jsonString /\ q.mode = p.mode
        /\ q.mode = "json_object" /\ q.header => q.finished
        /\ ~q.header => ~p.header /\ q.streamed = p.streamed
    BY <1>2, FinishIs
  <2> HIDE DEF q
  <2>2. Flags(q) /\ (q.header <=> q.shown # <<>>) /\ Balanced(q)
    BY <2>1 DEF Rendered
  <2>3. ASSUME q.shown # <<>>
        PROVE  /\ q.streamed
               /\ Number(q.shown, "header") = 1
               /\ Number(q.shown, "fence_open") = Number(q.shown, "fence_close")
               /\ Number(q.shown, "quote") % 2 = 0
               /\ q.mode = "json_object" => Number(q.shown, "object_end") = 1
    <3>1. q.header /\ q.streamed
      BY <2>2, <2>3 DEF Flags
    <3>2. Heads(q) = 1 /\ Fences(q) = 0 /\ Quotes(q) = 0 /\ (q.mode = "json_object" => Finals(q) = 1)
      BY <2>1, <3>1 DEF Heads, Fences, Quotes, Finals, Ends
    <3>3. PICK closed \in Nat, pairs \in Nat :
            Tally(q.shown, Heads(q), closed + Fences(q), closed, 2 * pairs + Quotes(q), Finals(q))
      BY <2>2 DEF Balanced
    <3>4. /\ Number(q.shown, "header") = Heads(q)
          /\ Number(q.shown, "fence_open") = closed + Fences(q)
          /\ Number(q.shown, "fence_close") = closed
          /\ Number(q.shown, "quote") = 2 * pairs + Quotes(q)
          /\ Number(q.shown, "object_end") = Finals(q)
      BY <3>3 DEF Tally
    <3>5. closed + 0 = closed /\ (2 * pairs + 0) % 2 = 0
      BY EvenPairs
    <3> QED
      BY <3>1, <3>2, <3>4, <3>5
  <2>4. ASSUME q.streamed, q.shown = <<>>
        PROVE  p.mode = "json_object" /\ ~p.header /\ p.streamed
    <3>1. ~q.header /\ ~p.header /\ p.streamed
      BY <2>1, <2>2, <2>4
    <3>2. q.mode # "config_map" /\ q.mode \in {"config_map", "json_object"}
      BY <2>2, <2>4, <3>1 DEF Flags
    <3> QED
      BY <2>1, <3>1, <3>2
  <2>5. /\ q.shown # <<>> => q.streamed
        /\ q.shown # <<>> =>
             /\ Number(q.shown, "header") = 1
             /\ Number(q.shown, "fence_open") = Number(q.shown, "fence_close")
             /\ Number(q.shown, "quote") % 2 = 0
             /\ q.mode = "json_object" => Number(q.shown, "object_end") = 1
        /\ q.streamed /\ q.shown = <<>> => p.mode = "json_object" /\ ~p.header /\ p.streamed
    BY <2>3, <2>4
  <2> QED
    BY <2>5 DEF q
<1> QED
  BY <1>1, <1>2 DEF Fits

LEMMA StreamSucceedsHonest ==
  ASSUME SInv, StreamSucceeds
  PROVE  StreamedIsHonest'
<1>1. /\ phase = "running" /\ script' = script /\ lost' = lost
      /\ presenter' = [c \in Calls |-> IF c \in Adopted THEN Finish(presenter[c]) ELSE presenter[c]]
      /\ streamed' = {c \in Adopted : presenter'[c].streamed}
      /\ stage' = Close(Close(stage, owned, "completed"), Adopted, "adopted")
  BY DEF StreamSucceeds, input
<1>2. /\ DOMAIN stage = Calls /\ \A c \in Calls : stage[c] # "adopted"
      /\ \A c \in Calls : SinkSound(c)
      /\ IInv
  BY <1>1 DEF SInv, IInv, TypeOK
<1> SUFFICES ASSUME NEW c \in Calls, stage'[c] = "adopted"
             PROVE  LET shown == presenter'[c].shown
                        Count(kind) == Cardinality({i \in DOMAIN shown : shown[i].is = kind})
                    IN /\ shown # <<>> => c \in streamed'
                       /\ c \in streamed' /\ shown # <<>> =>
                            /\ Count("header") = 1
                            /\ Count("fence_open") = Count("fence_close")
                            /\ Count("quote") % 2 = 0
                            /\ presenter'[c].mode = "json_object" => Count("object_end") = 1
                       /\ c \in streamed' /\ shown = <<>> => Object(c)' = <<>> \/ c \in lost'
  BY DEF StreamedIsHonest
<1>3. c \in Adopted
  BY <1>1, <1>2 DEF Close
<1> DEFINE p == presenter[c]
           q == Finish(p)
<1>4. presenter'[c] = q
  BY <1>1, <1>3
<1>5. c \in streamed' <=> q.streamed
  BY <1>1, <1>3, <1>4
<1>6. /\ c \in DOMAIN script.calls /\ Fits(function[c], p)
      /\ c \notin lost => Seen(Text(c), function[c], waiting[c], p, sent[c])
  BY <1>2, <1>3 DEF SinkSound, Adopted
<1> HIDE DEF p, q
<1>7. /\ q.shown # <<>> => q.streamed
      /\ q.shown # <<>> =>
           /\ Number(q.shown, "header") = 1
           /\ Number(q.shown, "fence_open") = Number(q.shown, "fence_close")
           /\ Number(q.shown, "quote") % 2 = 0
           /\ q.mode = "json_object" => Number(q.shown, "object_end") = 1
      /\ q.streamed /\ q.shown = <<>> => p.mode = "json_object" /\ ~p.header /\ p.streamed
  BY <1>6, FinishHonest DEF q
<1>8. ASSUME q.streamed, q.shown = <<>>, c \notin lost PROVE Object(c) = <<>>
  <2> SUFFICES ASSUME Object(c) # <<>> PROVE FALSE
    OBVIOUS
  <2>1. PICK i \in DOMAIN Text(c), j \in DOMAIN Text(c) : OpensAt(Text(c), i, j)
    BY <1>2, <1>6, CallText
  <2>2. Follows(p, Text(c), sent[c])
    BY <1>6, <1>7, <1>8 DEF Seen
  <2>3. ~p.header => ~p.streamed /\ ~p.finished
    BY <2>1, <2>2 DEF Follows, Opening
  <2> QED
    BY <1>7, <1>8, <2>3
<1>9. Object(c)' = Object(c)
  BY <1>1 DEF Object
<1> QED
  BY <1>1, <1>4, <1>5, <1>7, <1>8, <1>9 DEF Number, Kinds

LEMMA NoneAdopted ==
  ASSUME DOMAIN stage = Calls, \A c \in Calls : stage[c] # "adopted"
  PROVE  StreamedIsHonest
BY DEF StreamedIsHonest

LEMMA ToolCallSound ==
  ASSUME SInv, NEW c \in Calls, ToolCallDelta(c)
  PROVE  SInv'
<1>1. IInv' /\ IInv
  BY ToolCallKeepsIInv DEF SInv
<1>2. /\ phase = "running" /\ phase' = "running" /\ script' = script
      /\ c \in DOMAIN script.calls
      /\ DOMAIN sent = Calls /\ \A d \in Calls : SinkSound(d) /\ stage[d] # "adopted"
      /\ DOMAIN presenter = Calls
  BY DEF ToolCallDelta, SInv
<1>3. IsText(Text(c)) /\ NameOf(c) \in FunctionNames /\ sent[c] \in 0..Len(Text(c))
  BY <1>1, <1>2, CallText
<1>4. PICK withName \in BOOLEAN, withId \in BOOLEAN, n \in 0..1 :
        /\ withName => c \notin named
        /\ sent[c] + n <= Len(Text(c))
        /\ sent' = [sent EXCEPT ![c] = @ + n]
        /\ named' = IF withName THEN named \cup {c} ELSE named
        /\ SinkToolCall(c, withName, SubSeq(Text(c), sent[c] + 1, sent[c] + n))
  BY DEF ToolCallDelta
<1> DEFINE piece == SubSeq(Text(c), sent[c] + 1, sent[c] + n)
<1>5. IsList(piece) /\ Len(piece) = n /\ Continues(Text(c), sent[c], piece)
  <2> DEFINE text == Text(c)
             m == sent[c]
  <2>1. IsText(text) /\ m \in 0..Len(text) /\ m + n <= Len(text)
    BY <1>3, <1>4
  <2> HIDE DEF text, m
  <2>2. LET t == SubSeq(text, m + 1, m + n) IN IsList(t) /\ Len(t) = n /\ Continues(text, m, t)
    BY <2>1, PieceIs
  <2> QED
    BY <2>2 DEF text, m
<1>6. SinkToolCall(c, withName, piece)
  BY <1>4
<1> HIDE DEF piece
<1>7. /\ DOMAIN sent' = Calls /\ sent'[c] = sent[c] + Len(piece)
      /\ \A d \in Calls \ {c} : sent'[d] = sent[d]
      /\ named \subseteq named' /\ (withName => c \in named')
  BY <1>2, <1>4, <1>5
<1>8. Brings(c, withName, piece)
  BY <1>2, <1>3, <1>4, <1>5, <1>7 DEF Brings
<1>9. SinkSound(c)
  BY <1>2
<1>10. SinkSound(c)' /\ OthersSame(c)
  <2>1. CASE c \in hidden /\ UNCHANGED <<hidden, stage, state, lost>>
    <3>1. c \notin owned
      BY <1>1, <2>1 DEF IInv, OpenStagesOwned
    <3> QED
      BY <1>2, <2>1, <3>1 DEF SinkSound, OthersSame, state
  <2>2. CASE c \notin hidden /\ c \notin owned /\ OpenStage(c, withName, piece)
    BY <1>8, <1>9, <2>2, OpenStageSound
  <2>3. CASE c \in owned /\ c \notin nameSet /\ withName /\ LateName(c, piece)
    BY <1>8, <1>9, <2>3, LateNameSound
  <2>4. CASE c \in owned /\ MoreText(c, piece)
    BY <1>8, <1>9, <2>4, MoreTextSound
  <2> QED
    BY <1>6, <2>1, <2>2, <2>3, <2>4 DEF SinkToolCall
<1>11. ASSUME NEW d \in Calls PROVE SinkSound(d)'
  <2>1. CASE d = c
    BY <1>10, <2>1
  <2>2. CASE d # c
    BY <1>2, <1>7, <1>10, <2>2, SameCall DEF OthersSame
  <2> QED
    BY <2>1, <2>2
<1>12. DOMAIN stage' = Calls /\ \A d \in Calls : stage'[d] # "adopted"
  <2>1. DOMAIN stage = Calls
    BY <1>1 DEF IInv, TypeOK
  <2>2. stage' = stage \/ stage' = [stage EXCEPT ![c] = "open"] \/ stage' = [stage EXCEPT ![c] = "completed"]
    BY <1>6 DEF SinkToolCall, OpenStage, LateName, MoreText
  <2> QED
    BY <1>2, <2>1, <2>2
<1>13. StreamedIsHonest'
  BY <1>12 DEF StreamedIsHonest
<1> QED
  BY <1>1, <1>2, <1>7, <1>10, <1>11, <1>12, <1>13 DEF SInv, OthersSame

LEMMA InitSound ==
  ASSUME Init
  PROVE  SInv
<1>1. IInv
  BY InitIInv
<1>2. /\ phase = "running" /\ owned = {} /\ DOMAIN presenter = Calls /\ DOMAIN sent = Calls
      /\ DOMAIN stage = Calls
      /\ \A c \in Calls : sent[c] = 0 /\ stage[c] # "adopted"
  BY DEF Init
<1>3. \A c \in Calls : SinkSound(c)
  BY <1>2 DEF SinkSound
<1>4. StreamedIsHonest
  BY <1>2, NoneAdopted
<1> QED
  BY <1>1, <1>2, <1>3, <1>4 DEF SInv

(* A step that opens or closes stages of the deployment, or none at all. *)
LEMMA CallsUntouched ==
  ASSUME SInv, IInv', UNCHANGED <<phase, input, tools>>
  PROVE  SInv'
<1>1. UNCHANGED <<phase, script, sent, named, hidden, stage, owned, function, waiting, presenter, lost, streamed>>
  BY DEF input, tools, state
<1>2. \A c \in Calls : SinkSound(c) => SinkSound(c)'
  BY <1>1, SameCall
<1>3. StreamedIsHonest'
  <2>1. StreamedIsHonest
    BY DEF SInv
  <2> QED
    BY <1>1, <2>1, ZenonT(60) DEF StreamedIsHonest, Object
<1> QED
  BY <1>1, <1>2, <1>3 DEF SInv

LEMMA StreamSucceedsSound ==
  ASSUME SInv, IInv', StreamSucceeds
  PROVE  SInv'
<1>1. phase' = "succeeded" /\ sent' = sent /\ DOMAIN presenter' = Calls
  BY DEF StreamSucceeds, input
<1>2. StreamedIsHonest'
  BY StreamSucceedsHonest
<1> QED
  BY <1>1, <1>2 DEF SInv

LEMMA StreamFailsSound ==
  ASSUME SInv, IInv', StreamFails
  PROVE  SInv'
<1>1. /\ phase = "running" /\ phase' = "failed" /\ sent' = sent /\ presenter' = presenter
      /\ stage' = Close(stage, owned, "failed")
  BY DEF StreamFails, input
<1>2. DOMAIN stage = Calls /\ \A c \in Calls : stage[c] # "adopted"
  BY <1>1 DEF SInv, IInv, TypeOK
<1>3. DOMAIN stage' = Calls /\ \A c \in Calls : stage'[c] # "adopted"
  BY <1>1, <1>2 DEF Close
<1>4. StreamedIsHonest'
  BY <1>3 DEF StreamedIsHonest
<1> QED
  BY <1>1, <1>3, <1>4 DEF SInv

LEMMA NextKeepsSInv ==
  ASSUME SInv, [Next]_vars
  PROVE  SInv'
<1>1. IInv'
  BY NextKeepsIInv DEF SInv
<1>2. CASE UNCHANGED vars
  BY <1>1, <1>2, CallsUntouched DEF vars
<1>3. CASE ContentDelta \/ \E i \in StageIndexes : CustomStageOpens(i) \/ CustomStageEnds(i)
  BY <1>1, <1>3, CallsUntouched DEF ContentDelta, CustomStageOpens, CustomStageEnds
<1> QED
  BY <1>1, <1>2, <1>3, ToolCallSound, StreamSucceedsSound, StreamFailsSound DEF Next, Terminated

(* A tool is told the truth about its stage, for any answer of the model, wherever its text is
   cut and however late a name comes: arguments are dumped again only when nothing of them is
   shown, and what counts as rendered is one block that is closed (_publish_adopted_tool_stages,
   StreamingArgumentPresenter.finish). *)
THEOREM StreamedTellsTheTruth == Spec => []StreamedIsHonest
<1>1. Init => SInv
  BY InitSound
<1>2. SInv /\ [Next]_vars => SInv'
  BY NextKeepsSInv
<1>3. SInv => StreamedIsHonest
  BY DEF SInv
<1> QED
  BY <1>1, <1>2, <1>3, PTL DEF Spec

=============================================================================
