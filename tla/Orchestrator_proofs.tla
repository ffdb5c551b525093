------------------------ MODULE Orchestrator_proofs ------------------------
(***************************************************************************)
(* Proofs about Orchestrator for every set of calls and tools, every       *)
(* iteration limit and every number of hooks and closers.                  *)
(***************************************************************************)
EXTENDS Orchestrator, FiniteSetTheorems, TLAPS

(* The set of the ids of a list: appending a call adds it, the empty list has none. *)
LEMMA ElemsOfAppend ==
  ASSUME NEW S, NEW q \in Seq(S), NEW c \in S
  PROVE  Elems(Append(q, c)) = Elems(q) \cup {c}
<1>1. DOMAIN Append(q, c) = DOMAIN q \cup {Len(q) + 1}
  OBVIOUS
<1>2. \A i \in DOMAIN q : Append(q, c)[i] = q[i]
  OBVIOUS
<1>3. Append(q, c)[Len(q) + 1] = c
  OBVIOUS
<1>4. QED
  BY <1>1, <1>2, <1>3 DEF Elems

LEMMA ElemsType ==
  ASSUME NEW S, NEW q \in Seq(S)
  PROVE  Elems(q) \subseteq S
BY DEF Elems

LEMMA ElemsOfEmpty == Elems(<<>>) = {}
BY DEF Elems

(* What two lists in a row hold. *)
LEMMA ConcatElements ==
  ASSUME NEW p \in Seq(Row), NEW q \in Seq(Row), NEW r, r = p \o q
  PROVE  /\ r \in Seq(Row) /\ Len(r) = Len(p) + Len(q)
         /\ \A i \in 1..Len(p) : r[i] = p[i]
         /\ \A i \in 1..Len(q) : r[Len(p) + i] = q[i]
OBVIOUS

(* Rows are well typed. *)
LEMMA RowTypes ==
  /\ UserRow \in Row
  /\ \A int, ext \in Seq(CallIds) : AssistantRow(int, ext) \in Row
  /\ \A c \in CallIds, b \in Bodies : ToolRow(c, b) \in Row
  /\ \A m \in Row : Rejected(m) \in Row
<1>1. UserRow \in Row
  BY DEF UserRow, Row, Bodies
<1>2. ASSUME NEW int \in Seq(CallIds), NEW ext \in Seq(CallIds)
      PROVE  AssistantRow(int, ext) \in Row
  BY DEF AssistantRow, Row, Bodies
<1>3. ASSUME NEW c \in CallIds, NEW b \in Bodies
      PROVE  ToolRow(c, b) \in Row
  BY DEF ToolRow, Row
<1>4. ASSUME NEW m \in Row
      PROVE  Rejected(m) \in Row
  BY DEF Rejected, Row, Bodies
<1>5. QED
  BY <1>1, <1>2, <1>3, <1>4

-----------------------------------------------------------------------------
(* What a turn starts with: the user's message, at most one call of ours with its result,
   and then, when the client resumes the turn, its calls at the place gap and its results. *)
Started(h, head, gap) ==
  /\ h[1] = UserRow
  /\ \/ head = 1
     \/ /\ head = 3 /\ 3 \in DOMAIN h
        /\ \E c \in CallIds, b \in Bodies :
             ~IsExternal(c) /\ h[2] = AssistantRow(<<c>>, <<>>) /\ h[3] = ToolRow(c, b)
  /\ \/ gap = 1
     \/ gap = head + 1 /\ \E ext \in Seq(CallIds) : h[gap] = AssistantRow(<<>>, ext)
  /\ \A i \in DOMAIN h :
       \/ i \in 1..head
       \/ i = gap
       \/ \E c \in CallIds : IsExternal(c) /\ h[i] = ToolRow(c, "text")

LEMMA OwnRows ==
  ASSUME NEW own \in {<<>>} \cup Injected \cup Restored
  PROVE  \/ own = <<>>
         \/ \E c \in CallIds, b \in Bodies : ~IsExternal(c) /\ own = OwnPair(c, b)
<1>1. \A c \in CallIds : IsGetContent(c) => ~IsExternal(c)
  BY ToolAssumption DEF IsGetContent, IsExternal
<1>2. "ok" \in Bodies /\ "error" \in Bodies
  BY DEF Bodies
<1> QED
  BY <1>1, <1>2 DEF Injected, Restored

LEMMA OwnRowsType ==
  ASSUME NEW c \in CallIds, NEW b \in Bodies
  PROVE  /\ OwnPair(c, b) \in Seq(Row) /\ Len(OwnPair(c, b)) = 2
         /\ OwnPair(c, b)[1] = AssistantRow(<<c>>, <<>>) /\ OwnPair(c, b)[2] = ToolRow(c, b)
<1>1. <<c>> \in Seq(CallIds) /\ <<>> \in Seq(CallIds)
  OBVIOUS
<1>2. AssistantRow(<<c>>, <<>>) \in Row /\ ToolRow(c, b) \in Row
  BY <1>1, RowTypes
<1> QED
  BY <1>2 DEF OwnPair

LEMMA BroughtRows ==
  ASSUME NEW rows \in Brought
  PROVE  /\ rows \in Seq(Row) /\ Len(rows) >= 1
         /\ \E ext \in Seq(CallIds) : rows[1] = AssistantRow(<<>>, ext)
         /\ \A i \in 2..Len(rows) :
              \E c \in CallIds : IsExternal(c) /\ rows[i] = ToolRow(c, "text")
<1> DEFINE some == {c \in CallIds : IsExternal(c)}
           lists == UNION {[1..n -> some] : n \in 1..MaxBrought}
<1>1. PICK ext \in lists, ids \in lists :
        rows = <<AssistantRow(<<>>, ext)>> \o [i \in DOMAIN ids |-> ToolRow(ids[i], "text")]
  BY DEF Brought
<1>2. \A q \in lists : q \in Seq(some)
  <2> SUFFICES ASSUME NEW q \in lists PROVE q \in Seq(some)
    OBVIOUS
  <2>1. PICK n \in 1..MaxBrought : q \in [1..n -> some]
    OBVIOUS
  <2>2. n \in Nat
    BY BoundAssumption
  <2> HIDE DEF some
  <2> QED
    BY <2>1, <2>2
<1>3. ext \in Seq(some) /\ ids \in Seq(some) /\ some \subseteq CallIds
  BY <1>1, <1>2
<1> DEFINE told == [i \in DOMAIN ids |-> ToolRow(ids[i], "text")]
           first == <<AssistantRow(<<>>, ext)>>
<1>4. ext \in Seq(CallIds) /\ <<>> \in Seq(CallIds)
  <2> HIDE DEF some
  <2> QED
    BY <1>3
<1>5. first \in Seq(Row) /\ Len(first) = 1 /\ first[1] = AssistantRow(<<>>, ext)
  <2> DEFINE m == AssistantRow(<<>>, ext)
  <2>1. m \in Row
    BY <1>4, RowTypes
  <2> HIDE DEF m
  <2> QED
    BY <2>1 DEF m
<1>6. \A i \in DOMAIN ids : ids[i] \in CallIds /\ IsExternal(ids[i])
  BY <1>3
<1>7. told \in Seq(Row) /\ Len(told) = Len(ids)
  <2>1. \A i \in DOMAIN ids : ToolRow(ids[i], "text") \in Row
    BY <1>6, RowTypes DEF Bodies
  <2>2. DOMAIN ids = 1..Len(ids) /\ Len(ids) \in Nat
    BY <1>3
  <2> QED
    BY <2>1, <2>2
<1>8. \A i \in 1..Len(told) : told[i] = ToolRow(ids[i], "text") /\ i \in DOMAIN ids
  BY <1>3, <1>7
<1>9. rows = first \o told
  BY <1>1
<1> HIDE DEF first, told, lists, some
<1>10. /\ rows \in Seq(Row) /\ Len(rows) = 1 + Len(told) /\ rows[1] = first[1]
       /\ \A i \in 2..Len(rows) : i - 1 \in 1..Len(told) /\ rows[i] = told[i - 1]
  <2>1. first \in Seq(Row) /\ told \in Seq(Row) /\ Len(first) = 1 /\ rows = first \o told
    BY <1>5, <1>7, <1>9
  <2>2. /\ rows \in Seq(Row) /\ Len(rows) = 1 + Len(told)
        /\ \A i \in 1..Len(first) : rows[i] = first[i]
        /\ \A i \in 1..Len(told) : rows[Len(first) + i] = told[i]
    <3>1. /\ rows \in Seq(Row) /\ Len(rows) = Len(first) + Len(told)
          /\ \A i \in 1..Len(first) : rows[i] = first[i]
          /\ \A i \in 1..Len(told) : rows[Len(first) + i] = told[i]
      <4>1. rows \in Seq(Row) /\ Len(rows) = Len(first) + Len(told)
        BY <2>1, ConcatElements
      <4>2. \A i \in 1..Len(first) : rows[i] = first[i]
        BY <2>1, ConcatElements, ZenonT(30)
      <4>3. \A i \in 1..Len(told) : rows[Len(first) + i] = told[i]
        BY <2>1, ConcatElements
      <4> QED
        BY <4>1, <4>2, <4>3
    <3> QED
      BY <2>1, <3>1
  <2>3. rows[1] = first[1]
    BY <2>1, <2>2
  <2>4. \A i \in 2..Len(rows) : i - 1 \in 1..Len(told) /\ i = 1 + (i - 1)
    BY <1>7, <2>2
  <2>5. \A i \in 2..Len(rows) : rows[i] = told[i - 1]
    BY <2>1, <2>2, <2>4
  <2> QED
    BY <2>2, <2>3, <2>4, <2>5
<1>11. \A i \in 2..Len(rows) : \E c \in CallIds : IsExternal(c) /\ rows[i] = ToolRow(c, "text")
  <2> SUFFICES ASSUME NEW i \in 2..Len(rows)
               PROVE  \E c \in CallIds : IsExternal(c) /\ rows[i] = ToolRow(c, "text")
    OBVIOUS
  <2>1. rows[i] = ToolRow(ids[i - 1], "text") /\ i - 1 \in DOMAIN ids
    BY <1>8, <1>10
  <2> QED
    BY <1>6, <2>1
<1>12. Len(rows) >= 1
  BY <1>7, <1>10
<1> QED
  BY <1>4, <1>5, <1>10, <1>11, <1>12

LEMMA StartRows ==
  ASSUME Init
  PROVE  /\ messages \in Seq(Row)
         /\ \E head \in {1, 3}, gap \in DOMAIN messages : Started(messages, head, gap)
<1> DEFINE user == <<UserRow>>
<1>1. user \in Seq(Row) /\ Len(user) = 1 /\ user[1] = UserRow
  BY RowTypes
<1>2. ASSUME NEW own \in {<<>>} \cup Injected \cup Restored, NEW h, h = user \o own
      PROVE  /\ h \in Seq(Row) /\ Len(h) \in {1, 3} /\ h[1] = UserRow
             /\ \/ Len(h) = 1
                \/ /\ Len(h) = 3
                   /\ \E c \in CallIds, b \in Bodies :
                        ~IsExternal(c) /\ h[2] = AssistantRow(<<c>>, <<>>) /\ h[3] = ToolRow(c, b)
  <2>1. CASE own = <<>>
    <3> HIDE DEF user
    <3>1. h = user
      BY <1>1, <1>2, <2>1
    <3> QED
      BY <1>1, <3>1
  <2>2. ASSUME NEW c \in CallIds, NEW b \in Bodies, own = OwnPair(c, b)
        PROVE  /\ h \in Seq(Row) /\ Len(h) = 3 /\ h[1] = UserRow
               /\ h[2] = AssistantRow(<<c>>, <<>>) /\ h[3] = ToolRow(c, b)
    <3>1. /\ own \in Seq(Row) /\ Len(own) = 2
          /\ own[1] = AssistantRow(<<c>>, <<>>) /\ own[2] = ToolRow(c, b)
      BY <2>2, OwnRowsType
    <3> HIDE DEF user
    <3>2. user \in Seq(Row) /\ Len(user) = 1 /\ h = user \o own /\ own \in Seq(Row) /\ Len(own) = 2
      BY <1>1, <1>2, <3>1
    <3>6. /\ h \in Seq(Row) /\ Len(h) = Len(user) + Len(own)
          /\ \A i \in 1..Len(user) : h[i] = user[i]
          /\ \A i \in 1..Len(own) : h[Len(user) + i] = own[i]
      <4>1. h \in Seq(Row) /\ Len(h) = Len(user) + Len(own)
        BY <3>2, ConcatElements
      <4>2. \A i \in 1..Len(user) : h[i] = user[i]
        BY <3>2, ConcatElements, ZenonT(30)
      <4>3. \A i \in 1..Len(own) : h[Len(user) + i] = own[i]
        BY <3>2, ConcatElements, ZenonT(30)
      <4> QED
        BY <4>1, <4>2, <4>3
    <3>3. h \in Seq(Row) /\ Len(h) = 3
      BY <3>2, <3>6
    <3>4. h[1] = user[1]
      BY <3>2, <3>6
    <3>5. h[2] = own[1] /\ h[3] = own[2]
      BY <3>2, <3>6
    <3> QED
      BY <1>1, <3>1, <3>3, <3>4, <3>5
  <2> QED
    BY <2>1, <2>2, OwnRows
<1>3. CASE \E own \in {<<>>} \cup Injected : messages = user \o own
  <2>1. PICK own \in {<<>>} \cup Injected : messages = user \o own
    BY <1>3
  <2> HIDE DEF user
  <2>2. /\ messages \in Seq(Row) /\ Len(messages) \in {1, 3} /\ messages[1] = UserRow
        /\ \/ Len(messages) = 1
           \/ /\ Len(messages) = 3
              /\ \E c \in CallIds, b \in Bodies :
                   /\ ~IsExternal(c) /\ messages[2] = AssistantRow(<<c>>, <<>>)
                   /\ messages[3] = ToolRow(c, b)
    BY <1>2, <2>1
  <2>3. DOMAIN messages = 1..Len(messages)
    BY <2>2
  <2>4. 1 \in DOMAIN messages /\ (Len(messages) = 3 => 3 \in DOMAIN messages)
    BY <2>2, <2>3
  <2>5. Started(messages, Len(messages), 1)
    BY <2>2, <2>3, <2>4 DEF Started
  <2> QED
    BY <2>2, <2>4, <2>5
<1>4. CASE \E own \in {<<>>} \cup Restored, rows \in Brought : messages = user \o own \o rows
  <2>1. PICK own \in {<<>>} \cup Restored, rows \in Brought : messages = user \o own \o rows
    BY <1>4
  <2> DEFINE h == user \o own
             n == Len(h)
  <2>2. /\ h \in Seq(Row) /\ n \in {1, 3} /\ h[1] = UserRow
        /\ \/ n = 1
           \/ /\ n = 3
              /\ \E c \in CallIds, b \in Bodies :
                   ~IsExternal(c) /\ h[2] = AssistantRow(<<c>>, <<>>) /\ h[3] = ToolRow(c, b)
    <3> HIDE DEF user
    <3> QED
      BY <1>2
  <2>3. messages = h \o rows
    BY <2>1
  <2>4. /\ rows \in Seq(Row) /\ Len(rows) >= 1
        /\ \E ext \in Seq(CallIds) : rows[1] = AssistantRow(<<>>, ext)
        /\ \A i \in 2..Len(rows) :
              \E c \in CallIds : IsExternal(c) /\ rows[i] = ToolRow(c, "text")
    BY BroughtRows
  <2> HIDE DEF h, user
  <2>5. messages \in Seq(Row) /\ Len(messages) = n + Len(rows)
    BY <2>2, <2>3, <2>4
  <2>6. \A i \in 1..n : messages[i] = h[i]
    BY <2>2, <2>3, <2>4
  <2>7. \A i \in 1..Len(rows) : messages[n + i] = rows[i]
    BY <2>2, <2>3, <2>4
  <2> HIDE DEF n
  <2>8. DOMAIN messages = 1..(n + Len(rows)) /\ n \in Nat /\ Len(rows) \in Nat
    BY <2>2, <2>4, <2>5
  <2>9. n + 1 \in DOMAIN messages /\ messages[n + 1] = rows[1] /\ 1 \in 1..n
    BY <2>2, <2>4, <2>7, <2>8
  <2>10. messages[1] = UserRow /\ (n = 3 => messages[2] = h[2] /\ messages[3] = h[3])
    BY <2>2, <2>6, <2>9
  <2>11. \A i \in DOMAIN messages : i \in 1..n \/ i = n + 1 \/ (i - n \in 2..Len(rows) /\ i = n + (i - n))
    BY <2>8
  <2>12. \A i \in DOMAIN messages :
           \/ i \in 1..n
           \/ i = n + 1
           \/ \E c \in CallIds : IsExternal(c) /\ messages[i] = ToolRow(c, "text")
    <3> SUFFICES ASSUME NEW i \in DOMAIN messages, i \notin 1..n, i # n + 1
                 PROVE  \E c \in CallIds : IsExternal(c) /\ messages[i] = ToolRow(c, "text")
      OBVIOUS
    <3>1. i - n \in 2..Len(rows) /\ i = n + (i - n)
      BY <2>11
    <3>2. i - n \in 1..Len(rows)
      BY <2>8, <3>1
    <3>3. messages[i] = rows[i - n]
      BY <2>7, <3>1, <3>2
    <3> QED
      BY <2>4, <3>1, <3>3
  <2>13. n = 3 => 3 \in DOMAIN messages
    BY <2>8
  <2>14. \E ext \in Seq(CallIds) : messages[n + 1] = AssistantRow(<<>>, ext)
    BY <2>4, <2>9
  <2>15. Started(messages, n, n + 1)
    BY <2>2, <2>10, <2>12, <2>13, <2>14 DEF Started
  <2> QED
    BY <2>2, <2>5, <2>9, <2>15
<1> QED
  BY <1>3, <1>4 DEF Init

-----------------------------------------------------------------------------
(* Type correctness. *)

LEMMA InitTypeOK == Init => TypeOK
<1> SUFFICES ASSUME Init PROVE TypeOK
  OBVIOUS
<1>1. messages \in Seq(Row) /\ used \subseteq CallIds
  BY StartRows DEF Init
<1>2. /\ stage \in [CallIds -> Statuses] /\ adopted \subseteq CallIds
      /\ pending \subseteq CallIds
      /\ ui \in [CallIds -> Bodies \cup {"none"}]
      /\ shown \in [CallIds -> Bodies \cup {"none"}]
  BY DEF Init, Statuses
<1>3. /\ task \in [CallIds -> {"none", "created", "running", "returned", "raised", "cancelled"}]
      /\ body \in [CallIds -> Bodies]
      /\ produced \in [CallIds -> SUBSET Urls]
  BY DEF Init, Bodies
<1>4. posted \in [Urls -> Nat] /\ propagated \subseteq Urls /\ surfaced \subseteq CallIds
  BY DEF Init
<1>5. internal \in Seq(CallIds) /\ external \in Seq(CallIds)
  BY DEF Init
<1>6. /\ pc = "iterate" /\ failed = FALSE /\ iteration = 0 /\ kind = "completed"
      /\ attempts = 0 /\ choiceHeld = TRUE /\ enforced = FALSE /\ retryUsed = FALSE
      /\ hooksLeft = 0 /\ hooksRun = 0 /\ closersLeft \in Nat
      /\ persisted = FALSE /\ cancelled = FALSE
  BY BoundAssumption DEF Init
<1>7. QED
  BY <1>1, <1>2, <1>3, <1>4, <1>5, <1>6 DEF TypeOK

(* The pieces actions share. *)
LEMMA FlushType ==
  ASSUME TypeOK, NEW stg \in [CallIds -> Statuses], NEW status \in Statuses, Flush(stg, status)
  PROVE  /\ stage' \in [CallIds -> Statuses]
         /\ shown' \in [CallIds -> Bodies \cup {"none"}]
         /\ pending' = {}
         /\ ui' \in [CallIds -> Bodies \cup {"none"}]
BY DEF Flush, TypeOK, Statuses

LEMMA RecoverType ==
  ASSUME TypeOK, RecoverAndRetry
  PROVE  /\ messages' \in Seq(Row)
         /\ ui' \in [CallIds -> Bodies \cup {"none"}]
         /\ Len(messages') = Len(messages)
<1>1. messages \in Seq(Row)
  BY DEF TypeOK
<1>2. messages' = [i \in DOMAIN messages |-> Rejected(messages[i])]
  BY DEF RecoverAndRetry
<1>3. \A i \in DOMAIN messages : messages'[i] \in Row
  BY <1>1, <1>2, RowTypes
<1>4. messages' \in Seq(Row) /\ Len(messages') = Len(messages)
  BY <1>1, <1>2, <1>3
<1>5. ui' = [c \in CallIds |->
               IF ui[c] # "none" /\ \E i \in DOMAIN messages' : messages'[i].id = c
               THEN messages'[CHOOSE i \in DOMAIN messages' : messages'[i].id = c].content
               ELSE ui[c]]
  BY <1>2 DEF RecoverAndRetry, SyncedUi
<1>6. ASSUME NEW c \in CallIds
      PROVE  ui'[c] \in Bodies \cup {"none"}
  <2>1. CASE \E i \in DOMAIN messages' : messages'[i].id = c
    <3> DEFINE k == CHOOSE i \in DOMAIN messages' : messages'[i].id = c
    <3>1. k \in DOMAIN messages'
      BY <2>1
    <3>2. messages'[k] \in Row
      BY <3>1, <1>4
    <3>3. messages'[k].content \in Bodies
      BY <3>2 DEF Row
    <3>4. QED
      BY <1>5, <3>3 DEF TypeOK
  <2>2. CASE ~ \E i \in DOMAIN messages' : messages'[i].id = c
    BY <1>5, <2>2 DEF TypeOK
  <2>3. QED
    BY <2>1, <2>2
<1>7. QED
  BY <1>4, <1>5, <1>6

LEMMA BuildRequestType ==
  ASSUME TypeOK, BuildRequest
  PROVE  /\ pc' = "create" /\ attempts' \in Nat
         /\ enforced' \in BOOLEAN /\ choiceHeld' \in BOOLEAN
         /\ internal' \in Seq(CallIds) /\ external' \in Seq(CallIds)
<1>1. <<>> \in Seq(CallIds)
  OBVIOUS
<1>2. attempts' \in Nat
  BY DEF BuildRequest, TypeOK
<1>3. enforced' \in BOOLEAN /\ choiceHeld' \in BOOLEAN
  BY Zenon DEF BuildRequest, TypeOK
<1>4. QED
  BY <1>1, <1>2, <1>3 DEF BuildRequest

LEMMA SinkFailedType ==
  ASSUME TypeOK PROVE SinkFailed \in [CallIds -> Statuses]
BY DEF TypeOK, SinkFailed, Statuses

LEMMA RaiseType ==
  ASSUME TypeOK, NEW stg \in [CallIds -> Statuses], Raise(stg)
  PROVE  /\ stage' \in [CallIds -> Statuses]
         /\ shown' \in [CallIds -> Bodies \cup {"none"}]
         /\ pending' = {}
         /\ ui' \in [CallIds -> Bodies \cup {"none"}]
         /\ adopted' = {}
         /\ failed' = TRUE
         /\ pc' = "closing"
BY FlushType DEF Raise, Statuses

LEMMA SurfaceType ==
  ASSUME TypeOK, NEW leftover, SurfaceExternal(leftover)
  PROVE  /\ stage' \in [CallIds -> Statuses]
         /\ shown' \in [CallIds -> Bodies \cup {"none"}]
         /\ pending' = {} /\ adopted' = {}
         /\ ui' \in [CallIds -> Bodies \cup {"none"}]
         /\ surfaced' \subseteq CallIds
         /\ kind' = "external_tool_calls" /\ hooksLeft' = 0 /\ pc' = "hooks"
<1> DEFINE stg == [c \in CallIds |-> IF c \in leftover THEN "completed" ELSE stage[c]]
<1>1. stg \in [CallIds -> Statuses]
  BY DEF TypeOK, Statuses
<1>2. Flush(stg, "completed")
  BY DEF SurfaceExternal
<1>3. /\ stage' \in [CallIds -> Statuses]
      /\ shown' \in [CallIds -> Bodies \cup {"none"}]
      /\ pending' = {}
      /\ ui' \in [CallIds -> Bodies \cup {"none"}]
  <2> HIDE DEF stg
  <2> QED
    BY <1>1, <1>2, FlushType DEF Statuses
<1>4. surfaced' \subseteq CallIds
  BY ElemsType DEF SurfaceExternal, TypeOK
<1>5. QED
  BY <1>3, <1>4 DEF SurfaceExternal

LEMMA NextTypeOK == TypeOK /\ [Next]_vars => TypeOK'
<1> SUFFICES ASSUME TypeOK, [Next]_vars PROVE TypeOK'
  OBVIOUS
<1> USE DEF control, model, calls, stages, results, choice, ending
<1>1. ASSUME StartIteration PROVE TypeOK'
  BY <1>1, BuildRequestType DEF StartIteration, TypeOK
<1>2. ASSUME ExceedIterations PROVE TypeOK'
  <2>1. stage \in [CallIds -> Statuses] /\ Raise(stage)
    BY <1>2 DEF ExceedIterations, TypeOK
  <2>2. iteration' \in Nat
    BY <1>2 DEF ExceedIterations, TypeOK
  <2>3. QED
    BY <1>2, <2>1, <2>2, RaiseType DEF ExceedIterations, TypeOK
<1>3. ASSUME CreateSucceeds PROVE TypeOK'
  BY <1>3 DEF CreateSucceeds, TypeOK
<1>4. ASSUME CreateRejected PROVE TypeOK'
  <2>1. RecoverAndRetry /\ BuildRequest
    BY <1>4 DEF CreateRejected, RecoverAndRetry
  <2>2. /\ messages' \in Seq(Row) /\ retryUsed' = TRUE
        /\ ui' \in [CallIds -> Bodies \cup {"none"}]
    BY <2>1, RecoverType DEF RecoverAndRetry
  <2>3. UNCHANGED <<adopted, pending, shown>>
    BY <2>1 DEF RecoverAndRetry
  <2>4. QED
    BY <1>4, <2>1, <2>2, <2>3, BuildRequestType DEF CreateRejected, TypeOK
<1>5. ASSUME CreateFails PROVE TypeOK'
  BY <1>5, RaiseType DEF CreateFails, TypeOK
<1>6. ASSUME NEW c \in CallIds, StreamToolCall(c) PROVE TypeOK'
  BY <1>6 DEF StreamToolCall, TypeOK, Statuses
<1>7. ASSUME StreamRejected PROVE TypeOK'
  <2>1. RecoverAndRetry /\ BuildRequest
    BY <1>7 DEF StreamRejected, RecoverAndRetry
  <2>2. /\ messages' \in Seq(Row) /\ retryUsed' = TRUE
        /\ ui' \in [CallIds -> Bodies \cup {"none"}]
    BY <2>1, RecoverType DEF RecoverAndRetry
  <2>3. UNCHANGED <<adopted, pending, shown>>
    BY <2>1 DEF RecoverAndRetry
  <2>4. stage' \in [CallIds -> Statuses]
    BY <1>7, SinkFailedType DEF StreamRejected
  <2>5. QED
    BY <1>7, <2>1, <2>2, <2>3, <2>4, BuildRequestType DEF StreamRejected, TypeOK
<1>8. ASSUME StreamFails PROVE TypeOK'
  BY <1>8, RaiseType, SinkFailedType DEF StreamFails, TypeOK
<1>9. ASSUME FinalAnswer PROVE TypeOK'
  <2>1. messages' \in Seq(Row)
    <3>1. <<>> \in Seq(CallIds)
      OBVIOUS
    <3>2. AssistantRow(<<>>, <<>>) \in Row
      BY <3>1, RowTypes DEF TypeOK
    <3>3. QED
      BY <1>9, <3>2 DEF FinalAnswer, TypeOK
  <2>2. QED
    BY <1>9, <2>1, FlushType, BoundAssumption DEF FinalAnswer, TypeOK, Statuses
<1>10. ASSUME OnlyExternalCalls PROVE TypeOK'
  <2>1. messages' \in Seq(Row)
    <3>1. <<>> \in Seq(CallIds)
      OBVIOUS
    <3>2. AssistantRow(<<>>, external) \in Row
      BY <3>1, RowTypes DEF TypeOK
    <3>3. QED
      BY <1>10, <3>2 DEF OnlyExternalCalls, TypeOK
  <2>2. QED
    BY <1>10, <2>1, SurfaceType DEF OnlyExternalCalls, TypeOK, Statuses
<1>11. ASSUME ArgumentsRejected PROVE TypeOK'
  <2>1. messages' \in Seq(Row)
    BY <1>11, RowTypes DEF ArgumentsRejected, TypeOK
  <2>2. QED
    BY <1>11, <2>1, RaiseType DEF ArgumentsRejected, TypeOK
<1>12. ASSUME DispatchTools PROVE TypeOK'
  <2>1. messages' \in Seq(Row)
    BY <1>12, RowTypes DEF DispatchTools, TypeOK
  <2>2. adopted' \subseteq CallIds
    BY <1>12 DEF DispatchTools, TypeOK, Streamed, Elems
  <2>3. QED
    BY <1>12, <2>1, <2>2 DEF DispatchTools, TypeOK
<1>13. ASSUME NEW c \in CallIds, ToolStarts(c) PROVE TypeOK'
  BY <1>13 DEF ToolStarts, TypeOK, Statuses
<1>14. ASSUME NEW c \in CallIds, UnknownTool(c) PROVE TypeOK'
  BY <1>14 DEF UnknownTool, TypeOK, Bodies
<1>15. ASSUME NEW c \in CallIds, ToolReturns(c) PROVE TypeOK'
  <2>1. body' \in [CallIds -> Bodies] /\ ui' \in [CallIds -> Bodies \cup {"none"}]
    <3>1. "ok" \in Bodies /\ "error" \in Bodies
      BY DEF Bodies
    <3>2. body' \in [CallIds -> Bodies]
      BY <1>15, <3>1, ZenonT(30) DEF ToolReturns, TypeOK
    <3>3. ui' = ui \/ ui' = [ui EXCEPT ![c] = "ok"]
      BY <1>15 DEF ToolReturns
    <3>4. QED
      BY <3>1, <3>2, <3>3, ZenonT(30) DEF TypeOK
  <2>2. produced' \in [CallIds -> SUBSET Urls]
    BY <1>15 DEF ToolReturns, TypeOK
  <2>3. stage' \in [CallIds -> Statuses] /\ pending' \subseteq CallIds
    <3>1. CASE DefersClose(c) /\ ~IsSuppressed(c)
      BY <1>15, <3>1 DEF ToolReturns, TypeOK
    <3>2. CASE ~(DefersClose(c) /\ ~IsSuppressed(c))
      BY <1>15, <3>2 DEF ToolReturns, TypeOK, Statuses
    <3>3. QED
      BY <3>1, <3>2
  <2>4. task' \in [CallIds -> {"none", "created", "running", "returned", "raised", "cancelled"}]
    BY <1>15 DEF ToolReturns, TypeOK
  <2>5. QED
    BY <1>15, <2>1, <2>2, <2>3, <2>4 DEF ToolReturns, TypeOK
<1>16. ASSUME NEW c \in CallIds, ToolRaises(c) PROVE TypeOK'
  BY <1>16 DEF ToolRaises, TypeOK, Statuses
<1>17. ASSUME GatherReturns PROVE TypeOK'
  BY <1>17 DEF GatherReturns, TypeOK
<1>18. ASSUME GatherRaises PROVE TypeOK'
  BY <1>18, RaiseType DEF GatherRaises, TypeOK
<1>19. ASSUME ApplyResults PROVE TypeOK'
  <2>1. messages' \in Seq(Row)
    <3>1. \A i \in 1..Len(internal) : ResultRows[i] \in Row
      BY RowTypes DEF ResultRows, TypeOK
    <3>2. ResultRows \in Seq(Row)
      BY <3>1 DEF ResultRows, TypeOK
    <3>3. QED
      BY <1>19, <3>2 DEF ApplyResults, TypeOK
  <2>2. posted' \in [Urls -> Nat] /\ propagated' \subseteq Urls
    BY <1>19, ElemsType DEF ApplyResults, PublishUrls, TypeOK
  <2>3. CASE external # <<>> /\ SurfaceExternal(adopted)
    BY <1>19, <2>1, <2>2, <2>3, SurfaceType DEF ApplyResults, TypeOK
  <2>4. CASE external = <<>>
    BY <1>19, <2>1, <2>2, <2>4 DEF ApplyResults, TypeOK, Statuses
  <2>5. QED
    BY <1>19, <2>3, <2>4 DEF ApplyResults
<1>20. ASSUME RunHook PROVE TypeOK'
  BY <1>20 DEF RunHook, TypeOK
<1>21. ASSUME LeaveLoop PROVE TypeOK'
  BY <1>21, FlushType DEF LeaveLoop, TypeOK, Statuses
<1>22. ASSUME CloseResource PROVE TypeOK'
  BY <1>22 DEF CloseResource, TypeOK
<1>23. ASSUME PersistState PROVE TypeOK'
  BY <1>23 DEF PersistState, TypeOK
<1>24. ASSUME Cancel PROVE TypeOK'
  <2>1. CASE CancelLoop
    <3> DEFINE stg == [c \in CallIds |-> IF task[c] = "running" /\ stage[c] = "open"
                                        THEN "failed" ELSE stage[c]]
    <3>1. stg \in [CallIds -> Statuses]
      BY DEF TypeOK, Statuses
    <3>2. PICK new \in [CallIds -> Statuses] : Raise(new)
      BY <2>1, <3>1, SinkFailedType DEF CancelLoop, TypeOK
    <3>3. task' \in [CallIds -> {"none", "created", "running", "returned", "raised", "cancelled"}]
      BY <2>1 DEF CancelLoop, TypeOK
    <3>4. QED
      BY <1>24, <3>2, <3>3, RaiseType DEF Cancel, TypeOK
  <2>2. CASE CancelTeardown
    BY <1>24, <2>2 DEF Cancel, CancelTeardown, TypeOK
  <2>3. QED
    BY <1>24, <2>1, <2>2 DEF Cancel
<1>25. ASSUME UNCHANGED vars PROVE TypeOK'
  BY <1>25 DEF vars, TypeOK
<1>26. QED
  BY <1>1, <1>2, <1>3, <1>4, <1>5, <1>6, <1>7, <1>8, <1>9, <1>10, <1>11, <1>12, <1>13, <1>14, <1>15, <1>16, <1>17, <1>18, <1>19, <1>20, <1>21, <1>22, <1>23, <1>24, <1>25 DEF Next, MainStep, TaskStep, Terminated

(* Every variable always holds a value of its type (Orchestrator and the tool
   tasks it starts). *)
THEOREM TypeCorrect == Spec => []TypeOK
<1>1. Init => TypeOK
  BY InitTypeOK
<1>2. TypeOK /\ [Next]_vars => TypeOK'
  BY NextTypeOK
<1>3. QED
  BY <1>1, <1>2, PTL DEF Spec

-----------------------------------------------------------------------------
(* Who owns a tool's task: only the gather of the current batch, until the
   request has failed. *)
TasksOwned ==
  /\ failed => pc \in {"closing", "done"}
  /\ pc = "tools" => \A c \in CallIds : ~Settled(c) => c \in Elems(internal)
  /\ ~failed /\ pc # "tools" => \A c \in CallIds : Settled(c)

LEMMA InitTasksOwned == Init => TasksOwned
BY DEF Init, TasksOwned, Settled

LEMMA NextTasksOwned == TypeOK /\ TasksOwned /\ [Next]_vars => TasksOwned'
<1> SUFFICES ASSUME TypeOK, TasksOwned, [Next]_vars PROVE TasksOwned'
  OBVIOUS
<1> USE DEF control, model, calls, stages, results, choice, ending, TasksOwned, Settled
<1>1. ASSUME task' = task, failed' = TRUE, pc' \in {"closing", "done"} PROVE TasksOwned'
  BY <1>1
<1>2. ASSUME task' = task, failed' = failed, pc \notin {"tools", "closing", "done"},
             pc' # "tools"
      PROVE  TasksOwned'
  BY <1>2
<1>3. CASE StartIteration
  BY <1>2, <1>3 DEF StartIteration, BuildRequest
<1>4. CASE ExceedIterations
  BY <1>1, <1>4 DEF ExceedIterations, Raise
<1>5. CASE CreateSucceeds
  BY <1>2, <1>5 DEF CreateSucceeds
<1>6. CASE CreateRejected
  BY <1>2, <1>6 DEF CreateRejected, RecoverAndRetry, BuildRequest
<1>7. CASE CreateFails
  BY <1>1, <1>7 DEF CreateFails, Raise
<1>8. ASSUME NEW c \in CallIds, StreamToolCall(c) PROVE TasksOwned'
  BY <1>2, <1>8 DEF StreamToolCall
<1>9. CASE StreamRejected
  BY <1>2, <1>9 DEF StreamRejected, RecoverAndRetry, BuildRequest
<1>10. CASE StreamFails
  BY <1>1, <1>10 DEF StreamFails, Raise
<1>11. CASE FinalAnswer
  BY <1>2, <1>11 DEF FinalAnswer
<1>12. CASE OnlyExternalCalls
  BY <1>2, <1>12 DEF OnlyExternalCalls, SurfaceExternal
<1>13. CASE ArgumentsRejected
  BY <1>1, <1>13 DEF ArgumentsRejected, Raise
<1>14. CASE DispatchTools
  BY <1>14 DEF DispatchTools
<1>15. ASSUME NEW c \in CallIds, ToolStarts(c) PROVE TasksOwned'
  BY <1>15 DEF ToolStarts, TypeOK
<1>16. ASSUME NEW c \in CallIds, UnknownTool(c) PROVE TasksOwned'
  BY <1>16 DEF UnknownTool, TypeOK
<1>17. ASSUME NEW c \in CallIds, ToolReturns(c) PROVE TasksOwned'
  BY <1>17 DEF ToolReturns, TypeOK
<1>18. ASSUME NEW c \in CallIds, ToolRaises(c) PROVE TasksOwned'
  BY <1>18 DEF ToolRaises, TypeOK
<1>19. CASE GatherReturns
  BY <1>19 DEF GatherReturns
<1>20. CASE GatherRaises
  BY <1>1, <1>20 DEF GatherRaises, Raise
<1>21. CASE ApplyResults
  BY <1>2, <1>21 DEF ApplyResults, SurfaceExternal
<1>22. CASE RunHook
  BY <1>22 DEF RunHook
<1>23. CASE LeaveLoop
  BY <1>23 DEF LeaveLoop
<1>24. CASE CloseResource
  BY <1>24 DEF CloseResource
<1>25. CASE PersistState
  BY <1>25 DEF PersistState
<1>26. CASE Cancel
  BY <1>26 DEF Cancel, CancelLoop, CancelTeardown, Raise
<1>27. CASE UNCHANGED vars
  BY <1>27 DEF vars
<1>28. QED
  BY <1>3, <1>4, <1>5, <1>6, <1>7, <1>8, <1>9, <1>10, <1>11, <1>12, <1>13, <1>14, <1>15,
     <1>16, <1>17, <1>18, <1>19, <1>20, <1>21, <1>22, <1>23, <1>24, <1>25, <1>26, <1>27
     DEF Next, MainStep, TaskStep, Terminated

(* No tool runs beside a model call, a hook or the end of a turn that did not
   fail, whatever order the gathered tasks finish in. *)
THEOREM ToolsJoined == Spec => []NoToolDuringModelCall
<1>1. Init => TypeOK /\ TasksOwned
  BY InitTypeOK, InitTasksOwned
<1>2. TypeOK /\ TasksOwned /\ [Next]_vars => (TypeOK /\ TasksOwned)'
  BY NextTypeOK, NextTasksOwned
<1>3. TypeOK /\ TasksOwned => NoToolDuringModelCall
  BY DEF TasksOwned, NoToolDuringModelCall
<1>4. QED
  BY <1>1, <1>2, <1>3, PTL DEF Spec

-----------------------------------------------------------------------------
(* Who owns an open stage while the request has not failed: the sink of the
   stream being read, the adopted stages nobody took, the task of a registered
   tool, or the deferred-close registry. *)
StagesOwned ==
  /\ ~failed => \A c \in CallIds : stage[c] = "open" =>
       \/ pc = "stream" /\ c \in Streamed
       \/ pc \in {"tools", "process"} /\ c \in adopted
       \/ pc = "tools" /\ IsRegistered(c) /\ task[c] \in {"created", "running"}
       \/ c \in pending
  /\ ~failed /\ pc \in {"hooks", "closing", "done"} => pending = {}

LEMMA InitStagesOwned == Init => StagesOwned
BY DEF Init, StagesOwned

LEMMA FlushCloses ==
  ASSUME TypeOK, NEW stg \in [CallIds -> Statuses], NEW status \in {"completed", "failed"},
         Flush(stg, status)
  PROVE  /\ \A c \in CallIds : stage'[c] = "open" => stg[c] = "open" /\ c \notin pending
         /\ pending' = {}
BY DEF Flush, TypeOK

LEMMA RaiseFails ==
  ASSUME NEW stg, Raise(stg) PROVE failed' = TRUE
BY DEF Raise

LEMMA SurfaceCloses ==
  ASSUME TypeOK, NEW leftover, SurfaceExternal(leftover)
  PROVE  /\ \A c \in CallIds : stage'[c] = "open" =>
              stage[c] = "open" /\ c \notin pending /\ c \notin leftover
         /\ pending' = {} /\ pc' = "hooks"
<1> DEFINE stg == [c \in CallIds |-> IF c \in leftover THEN "completed" ELSE stage[c]]
<1>1. stg \in [CallIds -> Statuses] /\ Flush(stg, "completed")
  BY DEF SurfaceExternal, TypeOK, Statuses
<1>2. /\ \A c \in CallIds : stage'[c] = "open" => stg[c] = "open" /\ c \notin pending
      /\ pending' = {}
  <2> HIDE DEF stg
  <2> QED
    BY <1>1, FlushCloses
<1>3. QED
  BY <1>2 DEF SurfaceExternal

LEMMA NextStagesOwned ==
  TypeOK /\ TasksOwned /\ StagesOwned /\ [Next]_vars => StagesOwned'
<1> SUFFICES ASSUME TypeOK, TasksOwned, StagesOwned, [Next]_vars PROVE StagesOwned'
  OBVIOUS
<1> USE DEF control, model, calls, stages, results, choice, ending
<1>1. ASSUME failed' = TRUE PROVE StagesOwned'
  BY <1>1 DEF StagesOwned
<1>2. CASE StartIteration
  BY <1>2 DEF StartIteration, BuildRequest, StagesOwned
<1>3. CASE ExceedIterations
  BY <1>3, <1>1, RaiseFails DEF ExceedIterations
<1>4. CASE CreateSucceeds
  BY <1>4 DEF CreateSucceeds, StagesOwned
<1>5. CASE CreateRejected
  BY <1>5 DEF CreateRejected, RecoverAndRetry, BuildRequest, StagesOwned
<1>6. CASE CreateFails
  BY <1>6, <1>1, RaiseFails DEF CreateFails
<1>7. ASSUME NEW c \in CallIds, StreamToolCall(c) PROVE StagesOwned'
  <2>1. c \in Streamed' /\ Streamed \subseteq Streamed'
    BY <1>7, ElemsOfAppend DEF StreamToolCall, Streamed, TypeOK
  <2>2. \A d \in CallIds : d # c => stage'[d] = stage[d]
    BY <1>7 DEF StreamToolCall, TypeOK
  <2>3. QED
    BY <1>7, <2>1, <2>2 DEF StreamToolCall, StagesOwned
<1>8. CASE StreamRejected
  <2>1. \A d \in CallIds : stage'[d] = "open" => stage[d] = "open" /\ d \notin Streamed
    BY <1>8 DEF StreamRejected, SinkFailed, TypeOK
  <2>2. QED
    BY <1>8, <2>1 DEF StreamRejected, RecoverAndRetry, BuildRequest, StagesOwned
<1>9. CASE StreamFails
  BY <1>9, <1>1, RaiseFails DEF StreamFails
<1>10. CASE FinalAnswer
  <2>1. Streamed = {}
    BY <1>10, ElemsOfEmpty DEF FinalAnswer, Streamed
  <2>2. /\ \A d \in CallIds : stage'[d] = "open" => stage[d] = "open" /\ d \notin pending
        /\ pending' = {}
    BY <1>10, FlushCloses DEF FinalAnswer, TypeOK
  <2>3. QED
    BY <1>10, <2>1, <2>2 DEF FinalAnswer, StagesOwned
<1>11. CASE OnlyExternalCalls
  <2>1. /\ \A d \in CallIds : stage'[d] = "open" =>
             stage[d] = "open" /\ d \notin pending /\ d \notin Streamed
        /\ pending' = {} /\ pc' = "hooks"
    BY <1>11, SurfaceCloses DEF OnlyExternalCalls
  <2>2. QED
    BY <1>11, <2>1 DEF OnlyExternalCalls, StagesOwned
<1>12. CASE ArgumentsRejected
  BY <1>12, <1>1, RaiseFails DEF ArgumentsRejected
<1>13. CASE DispatchTools
  <2>1. \A d \in CallIds : Runs(d) => task'[d] = "created"
    BY <1>13 DEF DispatchTools, Runs
  <2>2. QED
    BY <1>13, <2>1 DEF DispatchTools, StagesOwned, Runs
<1>14. ASSUME NEW c \in CallIds, ToolStarts(c) PROVE StagesOwned'
  <2>1. failed \/ pc = "tools"
    BY <1>14 DEF ToolStarts, TasksOwned, Settled
  <2>2. CASE failed
    BY <1>14, <1>1, <2>2 DEF ToolStarts
  <2>3. CASE pc = "tools"
    BY <1>14, <2>3 DEF ToolStarts, StagesOwned, TypeOK
  <2>4. QED
    BY <2>1, <2>2, <2>3
<1>15. ASSUME NEW c \in CallIds, UnknownTool(c) PROVE StagesOwned'
  <2>1. \A d \in CallIds : d # c => task'[d] = task[d]
    BY <1>15 DEF UnknownTool, TypeOK
  <2>2. ~IsRegistered(c) /\ UNCHANGED <<control, adopted, calls, stage, pending>>
    BY <1>15 DEF UnknownTool
  <2>3. QED
    BY <2>1, <2>2 DEF StagesOwned, Streamed
<1>16. ASSUME NEW c \in CallIds, ToolReturns(c) PROVE StagesOwned'
  <2>1. failed \/ pc = "tools"
    BY <1>16 DEF ToolReturns, TasksOwned, Settled
  <2>2. CASE failed
    BY <1>16, <1>1, <2>2 DEF ToolReturns
  <2>3. CASE ~failed /\ pc = "tools"
    <3>1. \A d \in CallIds : d # c => task'[d] = task[d]
      BY <1>16 DEF ToolReturns, TypeOK
    <3>2. stage'[c] = "open" => c \in pending'
      <4>1. CASE DefersClose(c) /\ ~IsSuppressed(c)
        BY <1>16, <4>1 DEF ToolReturns
      <4>2. CASE ~(DefersClose(c) /\ ~IsSuppressed(c))
        BY <1>16, <4>2 DEF ToolReturns, TypeOK
      <4>3. QED
        BY <4>1, <4>2
    <3>3. /\ \A d \in CallIds : d # c => stage'[d] = stage[d]
          /\ pending \subseteq pending'
      <4>1. CASE DefersClose(c) /\ ~IsSuppressed(c)
        BY <1>16, <4>1 DEF ToolReturns
      <4>2. CASE ~(DefersClose(c) /\ ~IsSuppressed(c))
        BY <1>16, <4>2 DEF ToolReturns, TypeOK
      <4>3. QED
        BY <4>1, <4>2
    <3>4. UNCHANGED <<control, adopted, calls>>
      BY <1>16 DEF ToolReturns
    <3>5. QED
      BY <2>3, <3>1, <3>2, <3>3, <3>4 DEF StagesOwned
  <2>4. QED
    BY <2>1, <2>2, <2>3
<1>17. ASSUME NEW c \in CallIds, ToolRaises(c) PROVE StagesOwned'
  <2>1. \A d \in CallIds : d # c => task'[d] = task[d] /\ stage'[d] = stage[d]
    BY <1>17 DEF ToolRaises, TypeOK
  <2>2. stage'[c] # "open"
    BY <1>17 DEF ToolRaises, TypeOK
  <2>3. UNCHANGED <<control, adopted, calls, pending>>
    BY <1>17 DEF ToolRaises
  <2>4. QED
    BY <2>1, <2>2, <2>3 DEF StagesOwned, Streamed
<1>18. CASE GatherReturns
  <2>1. ~failed => \A d \in CallIds : task[d] \notin {"created", "running"}
    BY <1>18 DEF GatherReturns, TasksOwned, Settled
  <2>2. QED
    BY <1>18, <2>1 DEF GatherReturns, StagesOwned
<1>19. CASE GatherRaises
  BY <1>19, <1>1, RaiseFails DEF GatherRaises
<1>20. CASE ApplyResults
  <2>1. CASE external # <<>> /\ SurfaceExternal(adopted)
    <3>1. /\ \A d \in CallIds : stage'[d] = "open" =>
               stage[d] = "open" /\ d \notin pending /\ d \notin adopted
          /\ pending' = {} /\ pc' = "hooks"
      BY <2>1, SurfaceCloses
    <3>2. QED
      BY <1>20, <3>1 DEF ApplyResults, StagesOwned
  <2>2. CASE external = <<>>
    <3>1. /\ \A d \in CallIds : stage'[d] = "open" => stage[d] = "open" /\ d \notin adopted
          /\ pending' = pending /\ pc' = "iterate" /\ pc = "process" /\ failed' = failed
      BY <1>20, <2>2 DEF ApplyResults, TypeOK
    <3>2. QED
      BY <3>1 DEF StagesOwned
  <2>3. QED
    BY <1>20, <2>1, <2>2 DEF ApplyResults
<1>21. CASE RunHook
  BY <1>21 DEF RunHook, StagesOwned
<1>22. CASE LeaveLoop
  <2>1. /\ \A d \in CallIds : stage'[d] = "open" => stage[d] = "open" /\ d \notin pending
        /\ pending' = {}
    BY <1>22, FlushCloses DEF LeaveLoop, TypeOK
  <2>2. QED
    BY <1>22, <2>1 DEF LeaveLoop, StagesOwned
<1>23. CASE CloseResource
  BY <1>23 DEF CloseResource, StagesOwned
<1>24. CASE PersistState
  BY <1>24 DEF PersistState, StagesOwned
<1>25. CASE Cancel
  BY <1>25, <1>1, RaiseFails DEF Cancel, CancelLoop, CancelTeardown
<1>26. CASE UNCHANGED vars
  BY <1>26 DEF vars, StagesOwned, Streamed
<1>27. QED
  BY <1>2, <1>3, <1>4, <1>5, <1>6, <1>7, <1>8, <1>9, <1>10, <1>11, <1>12,
     <1>13, <1>14, <1>15, <1>16, <1>17, <1>18, <1>19, <1>20, <1>21, <1>22,
     <1>23, <1>24, <1>25, <1>26
     DEF Next, MainStep, TaskStep, Terminated

(* A turn that did not fail leaves no stage open, whatever the model streamed,
   whichever tools ran and in whichever order they finished. *)
THEOREM StagesClosed == Spec => []StagesClosedOnSuccess
<1> DEFINE IInv == TypeOK /\ TasksOwned /\ StagesOwned
<1>1. Init => IInv
  BY InitTypeOK, InitTasksOwned, InitStagesOwned
<1>2. IInv /\ [Next]_vars => IInv'
  BY NextTypeOK, NextTasksOwned, NextStagesOwned
<1>3. IInv => StagesClosedOnSuccess
  BY DEF TasksOwned, StagesOwned, StagesClosedOnSuccess
<1>4. QED
  BY <1>1, <1>2, <1>3, PTL DEF Spec

-----------------------------------------------------------------------------
(* The requests sent so far: one per iteration and one for the recovery. *)
RequestsCounted ==
  /\ pc \notin {"closing", "done"} => iteration <= MaxIterations
  /\ attempts <= iteration + (IF retryUsed THEN 1 ELSE 0)
  /\ attempts <= MaxIterations + 1

LEMMA InitRequestsCounted == Init => RequestsCounted
BY BoundAssumption DEF Init, RequestsCounted

LEMMA NextRequestsCounted == TypeOK /\ RequestsCounted /\ [Next]_vars => RequestsCounted'
<1> SUFFICES ASSUME TypeOK, RequestsCounted, [Next]_vars PROVE RequestsCounted'
  OBVIOUS
<1> USE BoundAssumption
<1> USE DEF control, model, calls, stages, results, choice, ending
<1>1. ASSUME UNCHANGED <<iteration, attempts, retryUsed>>,
             pc \in {"closing", "done"} => pc' \in {"closing", "done"}
      PROVE  RequestsCounted'
  BY <1>1 DEF RequestsCounted
<1>2. CASE StartIteration
  BY <1>2 DEF StartIteration, BuildRequest, RequestsCounted, TypeOK
<1>3. CASE ExceedIterations
  BY <1>3 DEF ExceedIterations, Raise, RequestsCounted, TypeOK
<1>4. CASE CreateSucceeds
  BY <1>4, <1>1 DEF CreateSucceeds
<1>5. CASE CreateRejected
  BY <1>5 DEF CreateRejected, RecoverAndRetry, CanRecover, BuildRequest, RequestsCounted, TypeOK
<1>6. CASE CreateFails
  BY <1>6, <1>1 DEF CreateFails, Raise
<1>7. ASSUME NEW c \in CallIds, StreamToolCall(c) PROVE RequestsCounted'
  BY <1>7, <1>1 DEF StreamToolCall
<1>8. CASE StreamRejected
  BY <1>8 DEF StreamRejected, RecoverAndRetry, CanRecover, BuildRequest, RequestsCounted, TypeOK
<1>9. CASE StreamFails
  BY <1>9, <1>1 DEF StreamFails, Raise
<1>10. CASE FinalAnswer
  BY <1>10, <1>1 DEF FinalAnswer
<1>11. CASE OnlyExternalCalls
  BY <1>11, <1>1 DEF OnlyExternalCalls, SurfaceExternal
<1>12. CASE ArgumentsRejected
  BY <1>12, <1>1 DEF ArgumentsRejected, Raise
<1>13. CASE DispatchTools
  BY <1>13, <1>1 DEF DispatchTools
<1>14. ASSUME NEW c \in CallIds, ToolStarts(c) PROVE RequestsCounted'
  BY <1>14, <1>1 DEF ToolStarts
<1>15. ASSUME NEW c \in CallIds, UnknownTool(c) PROVE RequestsCounted'
  BY <1>15, <1>1 DEF UnknownTool
<1>16. ASSUME NEW c \in CallIds, ToolReturns(c) PROVE RequestsCounted'
  BY <1>16, <1>1 DEF ToolReturns
<1>17. ASSUME NEW c \in CallIds, ToolRaises(c) PROVE RequestsCounted'
  BY <1>17, <1>1 DEF ToolRaises
<1>18. CASE GatherReturns
  BY <1>18, <1>1 DEF GatherReturns
<1>19. CASE GatherRaises
  BY <1>19, <1>1 DEF GatherRaises, Raise
<1>20. CASE ApplyResults
  BY <1>20, <1>1 DEF ApplyResults, SurfaceExternal
<1>21. CASE RunHook
  BY <1>21, <1>1 DEF RunHook
<1>22. CASE LeaveLoop
  BY <1>22, <1>1 DEF LeaveLoop
<1>23. CASE CloseResource
  BY <1>23, <1>1 DEF CloseResource
<1>24. CASE PersistState
  BY <1>24, <1>1 DEF PersistState
<1>25. CASE Cancel
  BY <1>25, <1>1 DEF Cancel, CancelLoop, CancelTeardown, Raise
<1>26. CASE UNCHANGED vars
  BY <1>26, <1>1 DEF vars
<1>27. QED
  BY <1>2, <1>3, <1>4, <1>5, <1>6, <1>7, <1>8, <1>9, <1>10, <1>11, <1>12,
     <1>13, <1>14, <1>15, <1>16, <1>17, <1>18, <1>19, <1>20, <1>21, <1>22,
     <1>23, <1>24, <1>25, <1>26
     DEF Next, MainStep, TaskStep, Terminated

(* The model is called at most max_iterations times, and once more for the one
   recovery the request has. *)
THEOREM CallsBounded == Spec => []ModelCallsBounded
<1>1. Init => TypeOK /\ RequestsCounted
  BY InitTypeOK, InitRequestsCounted
<1>2. TypeOK /\ RequestsCounted /\ [Next]_vars => (TypeOK /\ RequestsCounted)'
  BY NextTypeOK, NextRequestsCounted
<1>3. RequestsCounted => ModelCallsBounded
  BY DEF RequestsCounted, ModelCallsBounded
<1>4. QED
  BY <1>1, <1>2, <1>3, PTL DEF Spec

-----------------------------------------------------------------------------
LEMMA NextStateSaved == TypeOK /\ StateSaved /\ [Next]_vars => StateSaved'
<1> SUFFICES ASSUME TypeOK, StateSaved, [Next]_vars PROVE StateSaved'
  OBVIOUS
<1> USE DEF control, model, calls, stages, results, choice, ending
<1>1. ASSUME pc' # "done" PROVE StateSaved'
  BY <1>1 DEF StateSaved
<1>2. ASSUME UNCHANGED <<pc, cancelled, persisted, closersLeft>> PROVE StateSaved'
  BY <1>2 DEF StateSaved
<1>3. CASE StartIteration
  BY <1>3, <1>1 DEF StartIteration, BuildRequest
<1>4. CASE ExceedIterations
  BY <1>4, <1>1 DEF ExceedIterations, Raise
<1>5. CASE CreateSucceeds
  BY <1>5, <1>1 DEF CreateSucceeds
<1>6. CASE CreateRejected
  BY <1>6, <1>1 DEF CreateRejected, RecoverAndRetry, BuildRequest
<1>7. CASE CreateFails
  BY <1>7, <1>1 DEF CreateFails, Raise
<1>8. ASSUME NEW c \in CallIds, StreamToolCall(c) PROVE StateSaved'
  BY <1>8, <1>2 DEF StreamToolCall
<1>9. CASE StreamRejected
  BY <1>9, <1>1 DEF StreamRejected, RecoverAndRetry, BuildRequest
<1>10. CASE StreamFails
  BY <1>10, <1>1 DEF StreamFails, Raise
<1>11. CASE FinalAnswer
  BY <1>11, <1>1 DEF FinalAnswer
<1>12. CASE OnlyExternalCalls
  BY <1>12, <1>1 DEF OnlyExternalCalls, SurfaceExternal
<1>13. CASE ArgumentsRejected
  BY <1>13, <1>1 DEF ArgumentsRejected, Raise
<1>14. CASE DispatchTools
  BY <1>14, <1>1 DEF DispatchTools
<1>15. ASSUME NEW c \in CallIds, ToolStarts(c) PROVE StateSaved'
  BY <1>15, <1>2 DEF ToolStarts
<1>16. ASSUME NEW c \in CallIds, UnknownTool(c) PROVE StateSaved'
  BY <1>16, <1>2 DEF UnknownTool
<1>17. ASSUME NEW c \in CallIds, ToolReturns(c) PROVE StateSaved'
  BY <1>17, <1>2 DEF ToolReturns
<1>18. ASSUME NEW c \in CallIds, ToolRaises(c) PROVE StateSaved'
  BY <1>18, <1>2 DEF ToolRaises
<1>19. CASE GatherReturns
  BY <1>19, <1>1 DEF GatherReturns
<1>20. CASE GatherRaises
  BY <1>20, <1>1 DEF GatherRaises, Raise
<1>21. CASE ApplyResults
  BY <1>21, <1>1 DEF ApplyResults, SurfaceExternal
<1>22. CASE RunHook
  BY <1>22, <1>1 DEF RunHook
<1>23. CASE LeaveLoop
  BY <1>23, <1>1 DEF LeaveLoop
<1>24. CASE CloseResource
  BY <1>24, <1>1 DEF CloseResource
<1>25. CASE PersistState
  BY <1>25 DEF PersistState, StateSaved
<1>26. CASE Cancel
  BY <1>26 DEF Cancel, StateSaved
<1>27. CASE UNCHANGED vars
  BY <1>27, <1>2 DEF vars
<1>28. QED
  BY <1>3, <1>4, <1>5, <1>6, <1>7, <1>8, <1>9, <1>10, <1>11, <1>12, <1>13,
     <1>14, <1>15, <1>16, <1>17, <1>18, <1>19, <1>20, <1>21, <1>22, <1>23,
     <1>24, <1>25, <1>26, <1>27
     DEF Next, MainStep, TaskStep, Terminated

(* However a request that the client did not leave ends, its resources were
   closed and its state was stored. *)
THEOREM StateIsSaved == Spec => []StateSaved
<1>1. Init => TypeOK /\ StateSaved
  BY InitTypeOK DEF Init, StateSaved
<1>2. TypeOK /\ StateSaved /\ [Next]_vars => (TypeOK /\ StateSaved)'
  BY NextTypeOK, NextStateSaved
<1>3. QED
  BY <1>1, <1>2, PTL DEF Spec

-----------------------------------------------------------------------------
(* The loop implements AgentTurn.  Between two answers each call of ours has its
   result; while an answer is acted on, what has none is what is being run. *)
TurnInv ==
  /\ \A c \in Elems(internal) : ~IsExternal(c)
  /\ OwnCalls \subseteq used /\ Elems(internal) \subseteq used
  /\ pc \in {"iterate", "create", "stream"} => OwnCalls = AnsweredCalls
  /\ pc \in {"tools", "process"} => OwnCalls = AnsweredCalls \cup Elems(internal)
  /\ pc \in {"create", "stream", "tools", "process"} =>
       /\ Elems(internal) \cap AnsweredCalls = {}
       /\ kind = "completed"
  /\ pc = "iterate" => kind = "completed"

-----------------------------------------------------------------------------
(* What the messages say of calls. *)

OwnIn(h) == {c \in CallIds : \E i \in DOMAIN h : c \in Elems(h[i].calls)}

(* The calls that have a tool message, and those of ours among them. *)
ToldIn(h) == {c \in CallIds : \E i \in DOMAIN h : h[i].role = "tool" /\ h[i].id = c}

AnsweredIn(h) == {c \in ToldIn(h) : ~IsExternal(c)}

LEMMA CallsOfMessages == OwnCalls = OwnIn(messages) /\ AnsweredCalls = AnsweredIn(messages)
BY DEF OwnCalls, OwnIn, AnsweredCalls, AnsweredIn, ToldIn

(* An answer of the model makes its own calls wanted. *)
LEMMA CallsOfAnswer ==
  ASSUME NEW h \in Seq(Row), NEW int \in Seq(CallIds), NEW ext \in Seq(CallIds)
  PROVE  /\ OwnIn(Append(h, AssistantRow(int, ext))) = OwnIn(h) \cup Elems(int)
         /\ ToldIn(Append(h, AssistantRow(int, ext))) = ToldIn(h)
         /\ AnsweredIn(Append(h, AssistantRow(int, ext))) = AnsweredIn(h)
<1> DEFINE m == AssistantRow(int, ext)
           g == Append(h, m)
<1>1. m.role = "assistant" /\ m.calls = int
  BY DEF AssistantRow
<1>2. m \in Row
  BY RowTypes
<1> HIDE DEF m
<1>3. /\ DOMAIN g = DOMAIN h \cup {Len(h) + 1}
      /\ g[Len(h) + 1] = m /\ \A i \in DOMAIN h : g[i] = h[i]
  BY <1>2
<1>4. Elems(int) \subseteq CallIds
  BY ElemsType
<1> HIDE DEF g
<1>5. OwnIn(g) = OwnIn(h) \cup Elems(int)
  BY <1>1, <1>3, <1>4 DEF OwnIn
<1>6. ToldIn(g) = ToldIn(h)
  BY <1>1, <1>3 DEF ToldIn
<1> QED
  BY <1>5, <1>6 DEF g, m, AnsweredIn

(* The messages after the results: the old ones, then one for each call that was run. *)
LEMMA ResultsAppended ==
  ASSUME TypeOK
  PROVE  LET g == messages \o ResultRows
             n == Len(messages)
         IN /\ \A i \in DOMAIN messages : i \in DOMAIN g /\ g[i] = messages[i]
            /\ \A i \in 1..Len(internal) : n + i \in DOMAIN g /\ g[n + i] = ResultRows[i]
            /\ \A j \in DOMAIN g : j \in DOMAIN messages \/ \E i \in 1..Len(internal) : j = n + i
<1> DEFINE g == messages \o ResultRows
           n == Len(messages)
<1>1. messages \in Seq(Row) /\ internal \in Seq(CallIds) /\ body \in [CallIds -> Bodies]
  BY DEF TypeOK
<1>2. ResultRows \in Seq(Row) /\ Len(ResultRows) = Len(internal)
  <2>1. \A i \in 1..Len(internal) : internal[i] \in CallIds
    BY <1>1
  <2>2. \A i \in 1..Len(internal) : ToolRow(internal[i], body[internal[i]]) \in Row
    BY <1>1, <2>1, RowTypes
  <2> QED
    BY <1>1, <2>2 DEF ResultRows
<1> HIDE DEF ResultRows
<1>3. Len(g) = n + Len(internal)
  BY <1>1, <1>2
<1>4. n \in Nat /\ Len(internal) \in Nat /\ DOMAIN messages = 1..n
  BY <1>1
<1>5. DOMAIN g = 1..(n + Len(internal))
  BY <1>1, <1>2, <1>3
<1>6. \A i \in DOMAIN messages : i \in DOMAIN g /\ g[i] = messages[i]
  BY <1>1, <1>2, <1>4, <1>5
<1>7. \A i \in 1..Len(internal) : n + i \in DOMAIN g /\ g[n + i] = ResultRows[i]
  BY <1>1, <1>2, <1>4, <1>5
<1>8. ASSUME NEW j \in DOMAIN g, j \notin DOMAIN messages
      PROVE  \E i \in 1..Len(internal) : j = n + i
  <2>1. j - n \in 1..Len(internal) /\ j = n + (j - n)
    BY <1>4, <1>5, <1>8
  <2> QED
    BY <2>1
<1> QED
  BY <1>6, <1>7, <1>8

(* The results answer the calls that were run. *)
LEMMA CallsOfResults ==
  ASSUME TypeOK, \A c \in Elems(internal) : ~IsExternal(c)
  PROVE  /\ OwnIn(messages \o ResultRows) = OwnIn(messages)
         /\ ToldIn(messages \o ResultRows) = ToldIn(messages) \cup Elems(internal)
         /\ AnsweredIn(messages \o ResultRows) = AnsweredIn(messages) \cup Elems(internal)
<1> DEFINE g == messages \o ResultRows
           n == Len(messages)
<1>1. messages \in Seq(Row) /\ internal \in Seq(CallIds) /\ body \in [CallIds -> Bodies]
  BY DEF TypeOK
<1>2. \A i \in 1..Len(internal) :
        LET m == ResultRows[i] IN m.role = "tool" /\ m.calls = <<>> /\ m.id = internal[i]
  BY DEF ResultRows, ToolRow
<1>3. /\ \A i \in DOMAIN messages : i \in DOMAIN g /\ g[i] = messages[i]
      /\ \A i \in 1..Len(internal) : n + i \in DOMAIN g /\ g[n + i] = ResultRows[i]
      /\ \A j \in DOMAIN g : j \in DOMAIN messages \/ \E i \in 1..Len(internal) : j = n + i
  BY ResultsAppended
<1> HIDE DEF g, n, ResultRows
<1>4. OwnIn(g) = OwnIn(messages)
  <2>1. \A i \in 1..Len(internal) : Elems(ResultRows[i].calls) = {}
    BY <1>2, ElemsOfEmpty
  <2> QED
    BY <1>3, <2>1 DEF OwnIn
<1>5. ToldIn(g) = ToldIn(messages) \cup Elems(internal)
  <2>1. Elems(internal) = {internal[i] : i \in 1..Len(internal)} /\ Elems(internal) \subseteq CallIds
    BY <1>1, ElemsType DEF Elems
  <2> QED
    BY <1>2, <1>3, <2>1 DEF ToldIn
<1>6. AnsweredIn(g) = AnsweredIn(messages) \cup Elems(internal)
  BY <1>5 DEF AnsweredIn
<1> QED
  BY <1>4, <1>5, <1>6 DEF g

(* A recovery rewrites contents only. *)
LEMMA CallsRewritten ==
  ASSUME TypeOK, RecoverAndRetry
  PROVE  /\ DOMAIN messages' = DOMAIN messages
         /\ \A i \in DOMAIN messages :
              /\ messages'[i].role = messages[i].role /\ messages'[i].id = messages[i].id
              /\ messages'[i].calls = messages[i].calls
              /\ messages'[i].content =
                   IF IsGetContentRow(messages[i]) THEN "rejected" ELSE messages[i].content
         /\ OwnIn(messages') = OwnIn(messages)
         /\ ToldIn(messages') = ToldIn(messages)
         /\ AnsweredIn(messages') = AnsweredIn(messages)
<1>1. messages' = [i \in DOMAIN messages |-> Rejected(messages[i])]
  BY DEF RecoverAndRetry
<1>2. \A m \in Row : /\ Rejected(m).role = m.role /\ Rejected(m).id = m.id
                     /\ Rejected(m).calls = m.calls
                     /\ Rejected(m).content = IF IsGetContentRow(m) THEN "rejected" ELSE m.content
  BY DEF Rejected, Row
<1>3. \A i \in DOMAIN messages : messages[i] \in Row
  BY DEF TypeOK
<1>4. /\ DOMAIN messages' = DOMAIN messages
      /\ \A i \in DOMAIN messages :
           /\ messages'[i].role = messages[i].role /\ messages'[i].id = messages[i].id
           /\ messages'[i].calls = messages[i].calls
           /\ messages'[i].content =
                IF IsGetContentRow(messages[i]) THEN "rejected" ELSE messages[i].content
  BY <1>1, <1>2, <1>3
<1> QED
  BY <1>4 DEF OwnIn, ToldIn, AnsweredIn

LEMMA InitTurnInv == Init => TurnInv
<1> SUFFICES ASSUME Init PROVE TurnInv
  OBVIOUS
<1>1. internal = <<>> /\ Elems(internal) = {} /\ pc = "iterate" /\ kind = "completed"
  BY ElemsOfEmpty DEF Init
<1>2. PICK head \in {1, 3}, gap \in DOMAIN messages : Started(messages, head, gap)
  BY StartRows
<1>3. /\ UserRow.role = "user" /\ UserRow.calls = <<>>
      /\ \A int, ext : AssistantRow(int, ext).role = "assistant" /\ AssistantRow(int, ext).calls = int
      /\ \A c, b : /\ ToolRow(c, b).role = "tool" /\ ToolRow(c, b).calls = <<>>
                  /\ ToolRow(c, b).id = c
      /\ \A c \in CallIds : Elems(<<c>>) = {c}
  BY DEF UserRow, AssistantRow, ToolRow, Elems
<1>4. CASE head = 1
  <2>1. \A i \in DOMAIN messages :
          /\ Elems(messages[i].calls) = {}
          /\ messages[i].role = "tool" => IsExternal(messages[i].id)
    BY <1>2, <1>3, <1>4, ElemsOfEmpty DEF Started
  <2>2. OwnCalls = {} /\ AnsweredCalls = {}
    BY <2>1 DEF OwnCalls, AnsweredCalls
  <2> QED
    BY <1>1, <2>2 DEF TurnInv
<1>5. CASE head = 3
  <2>1. PICK c \in CallIds, b \in Bodies :
          ~IsExternal(c) /\ messages[2] = AssistantRow(<<c>>, <<>>) /\ messages[3] = ToolRow(c, b)
    <3>1. head # 1
      BY <1>5
    <3> QED
      BY <1>2, <3>1, Zenon DEF Started
  <2>2. 2 \in DOMAIN messages /\ 3 \in DOMAIN messages
    <3>1. 3 \in DOMAIN messages
      BY <1>2, <1>5 DEF Started
    <3> QED
      BY <3>1, StartRows
  <2>3. \A i \in DOMAIN messages :
          \/ i = 1 \/ i = 2 \/ i = 3
          \/ \E ext : messages[i] = AssistantRow(<<>>, ext)
          \/ \E d \in CallIds : IsExternal(d) /\ messages[i] = ToolRow(d, "text")
    BY <1>2, <1>5 DEF Started
  <2>4. messages[1] = UserRow
    BY <1>2 DEF Started
  <2>5. \A i \in DOMAIN messages :
          /\ Elems(messages[i].calls) \subseteq {c}
          /\ messages[i].role = "tool" => IsExternal(messages[i].id) \/ messages[i].id = c
    BY <1>3, <2>1, <2>3, <2>4, ElemsOfEmpty
  <2>6. Elems(messages[2].calls) = {c} /\ messages[3].role = "tool" /\ messages[3].id = c
    BY <1>3, <2>1
  <2>7. OwnCalls = {c}
    BY <2>2, <2>5, <2>6 DEF OwnCalls
  <2>8. AnsweredCalls = {c}
    BY <2>1, <2>2, <2>5, <2>6 DEF AnsweredCalls
  <2>9. c \in used
    BY <2>2, <2>6 DEF Init
  <2> QED
    BY <1>1, <2>7, <2>8, <2>9 DEF TurnInv
<1> QED
  BY <1>4, <1>5

LEMMA NextTurnInv == TypeOK /\ TurnInv /\ [Next]_vars => TurnInv'
<1> SUFFICES ASSUME TypeOK, TurnInv, [Next]_vars PROVE TurnInv'
  OBVIOUS
<1> USE DEF control, model, calls, stages, results, choice, ending
<1>1. /\ OwnCalls = OwnIn(messages) /\ AnsweredCalls = AnsweredIn(messages)
      /\ OwnCalls' = OwnIn(messages') /\ AnsweredCalls' = AnsweredIn(messages')
  BY DEF OwnCalls, OwnIn, AnsweredCalls, AnsweredIn, ToldIn
<1>2. ASSUME UNCHANGED <<messages, internal, used, kind>>,
             \/ pc' = pc
             \/ pc = "create" /\ pc' = "stream"
             \/ pc = "tools" /\ pc' = "process"
             \/ pc' \in {"hooks", "closing", "done"}
      PROVE  TurnInv'
  BY <1>1, <1>2 DEF TurnInv
<1>3. ASSUME RecoverAndRetry, pc \in {"create", "stream"}, used' = used, kind' = kind
      PROVE  TurnInv'
  <2>1. OwnCalls' = OwnCalls /\ AnsweredCalls' = AnsweredCalls
    BY <1>1, <1>3, CallsRewritten
  <2>2. internal' = <<>> /\ Elems(internal') = {} /\ pc' = "create"
    BY <1>3, ElemsOfEmpty DEF RecoverAndRetry, BuildRequest
  <2> QED
    BY <1>3, <2>1, <2>2 DEF TurnInv
<1>4. ASSUME NEW int \in {<<>>, internal}, messages' = Append(messages, AssistantRow(int, external))
      PROVE  OwnCalls' = OwnCalls \cup Elems(int) /\ AnsweredCalls' = AnsweredCalls
  <2>1. messages \in Seq(Row) /\ internal \in Seq(CallIds) /\ external \in Seq(CallIds)
    BY DEF TypeOK
  <2>2. <<>> \in Seq(CallIds)
    OBVIOUS
  <2> QED
    BY <1>1, <1>4, <2>1, <2>2, CallsOfAnswer
<1>5. CASE StartIteration
  <2>1. internal' = <<>> /\ Elems(internal') = {}
    BY <1>5, ElemsOfEmpty DEF StartIteration, BuildRequest
  <2> QED
    BY <1>1, <1>5, <2>1 DEF StartIteration, BuildRequest, TurnInv
<1>6. CASE ExceedIterations \/ CreateSucceeds \/ CreateFails \/ StreamFails \/ GatherReturns
           \/ GatherRaises \/ RunHook \/ LeaveLoop \/ CloseResource \/ PersistState
  BY <1>2, <1>6 DEF ExceedIterations, CreateSucceeds, CreateFails, StreamFails, GatherReturns,
                    GatherRaises, RunHook, LeaveLoop, CloseResource, PersistState, Raise
<1>7. CASE CreateRejected \/ StreamRejected
  BY <1>3, <1>7 DEF CreateRejected, StreamRejected
<1>8. ASSUME NEW c \in CallIds, StreamToolCall(c) PROVE TurnInv'
  <2>1. Elems(internal') \subseteq Elems(internal) \cup {c}
    BY <1>8, ElemsOfAppend DEF StreamToolCall, TypeOK
  <2>0. \A d \in Elems(internal') : ~IsExternal(d)
    <3>1. CASE IsExternal(c)
      BY <1>8, <3>1 DEF StreamToolCall, TurnInv
    <3>2. CASE ~IsExternal(c)
      BY <2>1, <3>2 DEF TurnInv
    <3> QED
      BY <3>1, <3>2
  <2>2. /\ pc = "stream" /\ pc' = "stream" /\ c \notin used /\ used' = used \cup {c}
        /\ messages' = messages /\ kind' = kind
    BY <1>8 DEF StreamToolCall
  <2> QED
    BY <1>1, <2>0, <2>1, <2>2 DEF TurnInv
<1>9. CASE FinalAnswer \/ OnlyExternalCalls
  <2>1. /\ messages' = Append(messages, AssistantRow(<<>>, external))
        /\ pc' = "hooks" /\ internal' = internal /\ used' = used
    BY <1>9 DEF FinalAnswer, OnlyExternalCalls, SurfaceExternal
  <2> QED
    BY <1>4, <2>1, ElemsOfEmpty DEF TurnInv
<1>10. CASE ArgumentsRejected \/ DispatchTools
  <2>1. /\ messages' = Append(messages, AssistantRow(internal, external)) /\ pc = "stream"
        /\ pc' \in {"closing", "tools"} /\ internal' = internal /\ used' = used /\ kind' = kind
    BY <1>10 DEF ArgumentsRejected, Raise, DispatchTools
  <2> QED
    BY <1>4, <2>1 DEF TurnInv
<1>11. CASE ApplyResults
  <2>1. /\ messages' = messages \o ResultRows /\ pc = "process" /\ pc' \in {"hooks", "iterate"}
        /\ internal' = internal /\ used' = used
        /\ pc' = "iterate" => kind' = kind
    BY <1>11 DEF ApplyResults, SurfaceExternal
  <2> QED
    BY <1>1, <2>1, CallsOfResults DEF TurnInv
<1>12. ASSUME NEW c \in CallIds, TaskStep(c) PROVE TurnInv'
  BY <1>2, <1>12 DEF TaskStep, ToolStarts, UnknownTool, ToolReturns, ToolRaises
<1>13. CASE Cancel
  BY <1>2, <1>13 DEF Cancel, CancelLoop, CancelTeardown, Raise
<1>14. CASE UNCHANGED vars
  BY <1>2, <1>14 DEF vars
<1> QED
  BY <1>5, <1>6, <1>7, <1>8, <1>9, <1>10, <1>11, <1>12, <1>13, <1>14
     DEF Next, MainStep, Terminated

-----------------------------------------------------------------------------
(* What a stage shows of a result is what its message says. *)

(* Messages h, queued results u and tasks t: a tool message is about a call that is no
   longer run, all its messages say the same, and so does what is queued for its stage. *)
RowsTold(h, u, t) ==
  /\ \A i \in DOMAIN h :
       /\ h[i].role = "tool" <=> h[i].id \in CallIds
       /\ h[i].role = "tool" =>
            u[h[i].id] \in {"none", h[i].content} /\ t[h[i].id] \in {"none", "returned"}
  /\ \A i, j \in DOMAIN h :
       h[i].role = "tool" /\ h[j].id = h[i].id => h[j].content = h[i].content

RowsShown(h, sh) ==
  \A i \in DOMAIN h : h[i].role = "tool" /\ sh[h[i].id] # "none" => sh[h[i].id] = h[i].content

(* Nothing is shown before the stages are flushed; what is queued for a call that has no
   message yet is what its message will say. *)
ResultsQueued ==
  /\ pc \notin {"hooks", "closing", "done"} => \A c \in CallIds : shown[c] = "none"
  /\ pc = "hooks" => \A c \in CallIds : ui[c] = "none"
  /\ \A c \in CallIds :
       /\ task[c] # "returned" => ui[c] = "none"
       /\ c \notin used => task[c] = "none"
       /\ c \notin ToldIn(messages) => ui[c] \in {"none", body[c]}
       /\ c \in Elems(internal) =>
            /\ pc \in {"create", "stream"} => task[c] = "none"
            /\ pc = "process" => task[c] = "returned"
  /\ RowsTold(messages, ui, task)
  /\ RowsShown(messages, shown)

LEMMA AnswerTold ==
  ASSUME NEW h \in Seq(Row), NEW int \in Seq(CallIds), NEW ext \in Seq(CallIds), NEW u, NEW t,
         RowsTold(h, u, t)
  PROVE  RowsTold(Append(h, AssistantRow(int, ext)), u, t)
<1> DEFINE m == AssistantRow(int, ext)
           g == Append(h, m)
<1>1. m.role = "assistant" /\ m.id \notin CallIds
  BY CallAssumption DEF AssistantRow
<1>2. m \in Row
  BY RowTypes
<1> HIDE DEF m
<1>3. /\ DOMAIN g = DOMAIN h \cup {Len(h) + 1}
      /\ g[Len(h) + 1] = m /\ \A i \in DOMAIN h : g[i] = h[i]
  BY <1>2
<1> HIDE DEF g
<1>4. RowsTold(g, u, t)
  BY <1>1, <1>3 DEF RowsTold
<1> QED
  BY <1>4 DEF g, m

LEMMA ResultsTold ==
  ASSUME TypeOK, NEW u, NEW t, RowsTold(messages, u, t),
         Elems(internal) \cap ToldIn(messages) = {},
         \A c \in Elems(internal) : u[c] \in {"none", body[c]} /\ t[c] = "returned"
  PROVE  RowsTold(messages \o ResultRows, u, t)
<1> DEFINE g == messages \o ResultRows
           n == Len(messages)
<1>1. messages \in Seq(Row) /\ internal \in Seq(CallIds)
  BY DEF TypeOK
<1>2. \A i \in 1..Len(internal) :
        LET m == ResultRows[i] IN
        m.role = "tool" /\ m.id = internal[i] /\ m.content = body[internal[i]]
  BY DEF ResultRows, ToolRow
<1>3. /\ \A i \in DOMAIN messages : g[i] = messages[i]
      /\ \A i \in 1..Len(internal) : g[n + i] = ResultRows[i]
      /\ \A j \in DOMAIN g : j \in DOMAIN messages \/ \E i \in 1..Len(internal) : j = n + i
  BY ResultsAppended
<1>4. \A i \in 1..Len(internal) : internal[i] \in Elems(internal) /\ internal[i] \in CallIds
  BY <1>1 DEF Elems
<1> HIDE DEF g, n, ResultRows
<1>5. \A i \in DOMAIN messages, k \in 1..Len(internal) : messages[i].id # internal[k]
  BY <1>4 DEF ToldIn, RowsTold
<1>6. \A j \in DOMAIN g : \/ j \in DOMAIN messages /\ g[j] = messages[j]
                          \/ \E i \in 1..Len(internal) : g[j] = ResultRows[i]
  BY <1>3
<1>7. ASSUME NEW j \in DOMAIN g
      PROVE  /\ g[j].role = "tool" <=> g[j].id \in CallIds
             /\ g[j].role = "tool" =>
                  u[g[j].id] \in {"none", g[j].content} /\ t[g[j].id] \in {"none", "returned"}
  BY <1>2, <1>4, <1>6 DEF RowsTold
<1>8. ASSUME NEW i \in DOMAIN g, NEW j \in DOMAIN g, g[i].role = "tool", g[j].id = g[i].id
      PROVE  g[j].content = g[i].content
  <2>1. CASE g[i] = messages[i] /\ i \in DOMAIN messages
    BY <1>2, <1>5, <1>6, <1>8, <2>1 DEF RowsTold
  <2>2. CASE \E k \in 1..Len(internal) : g[i] = ResultRows[k]
    BY <1>2, <1>5, <1>6, <1>8, <2>2
  <2> QED
    BY <1>6, <2>1, <2>2
<1>9. RowsTold(g, u, t)
  BY <1>7, <1>8 DEF RowsTold
<1> QED
  BY <1>9 DEF g

LEMMA RewrittenTold ==
  ASSUME TypeOK, RowsTold(messages, ui, task), RecoverAndRetry
  PROVE  /\ RowsTold(messages', ui', task)
         /\ \A c \in CallIds : /\ ui[c] = "none" => ui'[c] = "none"
                               /\ c \notin ToldIn(messages) => ui'[c] = ui[c]
<1>1. /\ DOMAIN messages' = DOMAIN messages
      /\ \A i \in DOMAIN messages :
           /\ messages'[i].role = messages[i].role /\ messages'[i].id = messages[i].id
           /\ messages'[i].content =
                IF IsGetContentRow(messages[i]) THEN "rejected" ELSE messages[i].content
  BY CallsRewritten
<1>2. ui' = SyncedUi(messages')
  BY DEF RecoverAndRetry
<1>3. \A i, j \in DOMAIN messages :
        messages'[i].role = "tool" /\ messages'[j].id = messages'[i].id =>
          messages'[j].content = messages'[i].content
  BY <1>1 DEF RowsTold, IsGetContentRow
<1>4. ASSUME NEW i \in DOMAIN messages, messages[i].role = "tool"
      PROVE  /\ messages[i].id \in CallIds
             /\ ui'[messages[i].id] \in {"none", messages'[i].content}
             /\ ui[messages[i].id] = "none" => ui'[messages[i].id] = "none"
  <2> DEFINE c == messages[i].id
             k == CHOOSE j \in DOMAIN messages' : messages'[j].id = c
  <2>1. c \in CallIds
    BY <1>4 DEF RowsTold
  <2>2. k \in DOMAIN messages /\ messages'[k].id = c
    BY <1>1
  <2>3. messages'[k].content = messages'[i].content
    BY <1>1, <1>3, <1>4, <2>2
  <2>4. ui'[c] = IF ui[c] # "none" THEN messages'[k].content ELSE ui[c]
    BY <1>1, <1>2, <2>1 DEF SyncedUi
  <2> QED
    BY <2>1, <2>3, <2>4
<1>5. ASSUME NEW c \in CallIds, c \notin ToldIn(messages) PROVE ui'[c] = ui[c]
  <2>1. \A i \in DOMAIN messages' : messages'[i].id # c
    BY <1>1, <1>5 DEF ToldIn, RowsTold
  <2> QED
    BY <1>2, <2>1 DEF SyncedUi
<1>6. RowsTold(messages', ui', task)
  BY <1>1, <1>3, <1>4 DEF RowsTold
<1> QED
  BY <1>4, <1>5, <1>6 DEF ToldIn

(* A flush shows what is queued, and leaves nothing in the queue. *)
LEMMA FlushTold ==
  ASSUME NEW h, NEW stg, NEW status, Flush(stg, status), RowsTold(h, ui, task),
         \/ \A c \in CallIds : shown[c] = "none"
         \/ RowsShown(h, shown) /\ \A c \in CallIds : ui[c] = "none"
  PROVE  /\ \A c \in CallIds : ui'[c] = "none"
         /\ RowsTold(h, ui', task) /\ RowsShown(h, shown')
<1>1. \A c \in CallIds :
        /\ ui'[c] = "none"
        /\ shown'[c] = IF c \in pending /\ ui[c] # "none" THEN ui[c] ELSE shown[c]
  BY DEF Flush
<1> QED
  BY <1>1 DEF RowsTold, RowsShown

LEMMA InitResultsQueued == Init => ResultsQueued
<1> SUFFICES ASSUME Init PROVE ResultsQueued
  OBVIOUS
<1>1. /\ internal = <<>> /\ Elems(internal) = {} /\ pc = "iterate"
      /\ \A c \in CallIds : ui[c] = "none" /\ shown[c] = "none" /\ task[c] = "none"
  BY ElemsOfEmpty DEF Init
<1>2. RowsTold(messages, ui, task)
  <2>1. PICK head \in {1, 3}, gap \in DOMAIN messages : Started(messages, head, gap)
    BY StartRows
  <2>2. /\ UserRow.role = "user" /\ UserRow.id \notin CallIds
        /\ \A int, ext : /\ AssistantRow(int, ext).role = "assistant"
                        /\ AssistantRow(int, ext).id \notin CallIds
        /\ \A c \in CallIds : \A b : /\ ToolRow(c, b).role = "tool" /\ ToolRow(c, b).id = c
                                      /\ ToolRow(c, b).content = b
    BY CallAssumption DEF UserRow, AssistantRow, ToolRow
  <2>3. PICK own \in SUBSET CallIds, b \in Bodies :
          /\ \A c \in own : ~IsExternal(c)
          /\ \A i \in DOMAIN messages :
               \/ messages[i].role # "tool" /\ messages[i].id \notin CallIds
               \/ \E c \in own : messages[i] = ToolRow(c, b)
               \/ \E c \in CallIds : IsExternal(c) /\ messages[i] = ToolRow(c, "text")
          /\ \A c, d \in own : c = d
    <3>1. CASE head = 1
      <4>1. \A i \in DOMAIN messages :
               \/ messages[i].role # "tool" /\ messages[i].id \notin CallIds
               \/ \E c \in CallIds : IsExternal(c) /\ messages[i] = ToolRow(c, "text")
        BY <2>1, <2>2, <3>1 DEF Started
      <4>2. "ok" \in Bodies
        BY DEF Bodies
      <4>3. /\ {} \in SUBSET CallIds /\ (\A c \in {} : ~IsExternal(c))
            /\ \A c, d \in {} : c = d
        OBVIOUS
      <4> QED
        BY <4>1, <4>2, <4>3, Zenon
    <3>2. CASE head = 3
      <4>1. PICK c \in CallIds, b \in Bodies :
              /\ ~IsExternal(c) /\ messages[2] = AssistantRow(<<c>>, <<>>)
              /\ messages[3] = ToolRow(c, b)
        <5>1. head # 1
          BY <3>2
        <5> QED
          BY <2>1, <5>1, Zenon DEF Started
      <4>2. \A i \in DOMAIN messages :
               \/ messages[i].role # "tool" /\ messages[i].id \notin CallIds
               \/ messages[i] = ToolRow(c, b)
               \/ \E d \in CallIds : IsExternal(d) /\ messages[i] = ToolRow(d, "text")
        BY <2>1, <2>2, <3>2, <4>1 DEF Started
      <4>3. {c} \in SUBSET CallIds
        OBVIOUS
      <4> QED
        BY <4>1, <4>2, <4>3
    <3> QED
      BY <3>1, <3>2
  <2>4. \A i \in DOMAIN messages :
          \/ messages[i].role # "tool" /\ messages[i].id \notin CallIds
          \/ /\ messages[i].role = "tool" /\ messages[i].id \in own
             /\ ~IsExternal(messages[i].id) /\ messages[i].content = b
          \/ /\ messages[i].role = "tool" /\ messages[i].id \in CallIds
             /\ IsExternal(messages[i].id) /\ messages[i].content = "text"
    BY <2>2, <2>3
  <2> QED
    BY <1>1, <2>4 DEF RowsTold
<1> QED
  BY <1>1, <1>2 DEF ResultsQueued, RowsShown, RowsTold

LEMMA NextResultsQueued ==
  TypeOK /\ TasksOwned /\ TurnInv /\ ResultsQueued /\ [Next]_vars => ResultsQueued'
<1> SUFFICES ASSUME TypeOK, TasksOwned, TurnInv, ResultsQueued, [Next]_vars PROVE ResultsQueued'
  OBVIOUS
<1> USE DEF control, model, calls, stages, results, choice, ending
<1>1. /\ messages \in Seq(Row) /\ internal \in Seq(CallIds) /\ external \in Seq(CallIds)
      /\ <<>> \in Seq(CallIds)
  BY DEF TypeOK
<1>0. /\ \A c \in Elems(internal) : ~IsExternal(c)
      /\ pc \in {"stream", "process"} => Elems(internal) \cap ToldIn(messages) = {}
  <2>1. AnsweredCalls = AnsweredIn(messages)
    BY CallsOfMessages
  <2> QED
    BY <2>1 DEF TurnInv, AnsweredIn
<1>2. ASSUME UNCHANGED <<messages, internal, used, task, ui, shown, body>>,
             pc' = pc \/ (pc = "create" /\ pc' = "stream") \/ pc' \in {"closing", "done"}
      PROVE  ResultsQueued'
  BY <1>1, <1>2 DEF ResultsQueued
<1>3. ASSUME NEW stg, NEW status, Flush(stg, status), RowsTold(messages', ui, task),
             messages' = messages \/ pc # "hooks", pc \notin {"closing", "done"},
             pc' \in {"hooks", "closing"}, UNCHANGED <<internal, used, body>>,
             \A c \in CallIds : task'[c] # task[c] => task[c] \in {"created", "running"}
      PROVE  ResultsQueued'
  <2>1. \/ \A c \in CallIds : shown[c] = "none"
        \/ RowsShown(messages', shown) /\ \A c \in CallIds : ui[c] = "none"
    BY <1>3 DEF ResultsQueued
  <2>2. /\ \A c \in CallIds : ui'[c] = "none"
        /\ RowsTold(messages', ui', task) /\ RowsShown(messages', shown')
    BY <1>3, <2>1, FlushTold
  <2>3. RowsTold(messages', ui', task')
    BY <1>3, <2>2 DEF RowsTold
  <2> QED
    BY <1>3, <2>2, <2>3 DEF ResultsQueued
<1>4. ASSUME NEW int \in {<<>>, internal}, messages' = Append(messages, AssistantRow(int, external))
      PROVE  ToldIn(messages') = ToldIn(messages) /\ RowsTold(messages', ui, task)
  BY <1>1, <1>4, CallsOfAnswer, AnswerTold DEF ResultsQueued
<1>5. ASSUME RecoverAndRetry, pc \in {"create", "stream"}, UNCHANGED <<used, task, body>>
      PROVE  ResultsQueued'
  <2>1. internal' = <<>> /\ Elems(internal') = {} /\ pc' = "create" /\ shown' = shown
    BY <1>5, ElemsOfEmpty DEF RecoverAndRetry, BuildRequest
  <2>2. /\ ToldIn(messages') = ToldIn(messages) /\ RowsTold(messages', ui', task)
        /\ \A c \in CallIds : /\ ui[c] = "none" => ui'[c] = "none"
                              /\ c \notin ToldIn(messages) => ui'[c] = ui[c]
    BY <1>1, <1>5, CallsRewritten, RewrittenTold DEF ResultsQueued
  <2>3. \A c \in CallIds : shown'[c] = "none"
    BY <1>5, <2>1 DEF ResultsQueued
  <2>4. RowsShown(messages', shown')
    BY <2>2, <2>3 DEF RowsShown, RowsTold
  <2> QED
    BY <1>5, <2>1, <2>2, <2>3, <2>4 DEF ResultsQueued
<1>6. CASE StartIteration
  <2>1. internal' = <<>> /\ Elems(internal') = {}
    BY <1>6, ElemsOfEmpty DEF StartIteration, BuildRequest
  <2> QED
    BY <1>1, <1>6, <2>1 DEF StartIteration, BuildRequest, ResultsQueued
<1>7. CASE CreateSucceeds \/ RunHook \/ CloseResource \/ PersistState
  BY <1>2, <1>7 DEF CreateSucceeds, RunHook, CloseResource, PersistState
<1>8. CASE ExceedIterations \/ CreateFails \/ StreamFails \/ GatherRaises \/ LeaveLoop
  <2>1. \E stg, status : Flush(stg, status)
    BY <1>8 DEF ExceedIterations, CreateFails, StreamFails, GatherRaises, LeaveLoop, Raise
  <2>2. /\ UNCHANGED <<messages, internal, used, body, task>>
        /\ pc \notin {"closing", "done"} /\ pc' \in {"hooks", "closing"}
    BY <1>8 DEF ExceedIterations, CreateFails, StreamFails, GatherRaises, LeaveLoop, Raise
  <2>3. RowsTold(messages', ui, task)
    BY <2>2 DEF ResultsQueued
  <2> QED
    BY <1>3, <2>1, <2>2, <2>3
<1>9. CASE CreateRejected \/ StreamRejected
  BY <1>5, <1>9 DEF CreateRejected, StreamRejected
<1>10. ASSUME NEW c \in CallIds, StreamToolCall(c) PROVE ResultsQueued'
  <2>1. Elems(internal') \subseteq Elems(internal) \cup {c}
    BY <1>10, ElemsOfAppend DEF StreamToolCall, TypeOK
  <2>2. /\ pc = "stream" /\ pc' = "stream" /\ c \notin used /\ used' = used \cup {c}
        /\ UNCHANGED <<messages, task, ui, shown, body>>
    BY <1>10 DEF StreamToolCall
  <2> QED
    BY <1>1, <2>1, <2>2 DEF ResultsQueued
<1>11. CASE FinalAnswer \/ OnlyExternalCalls
  <2>1. /\ messages' = Append(messages, AssistantRow(<<>>, external)) /\ pc = "stream"
        /\ pc' = "hooks" /\ UNCHANGED <<internal, used, body, task>>
        /\ \E stg, status : Flush(stg, status)
    BY <1>11 DEF FinalAnswer, OnlyExternalCalls, SurfaceExternal
  <2> QED
    BY <1>3, <1>4, <2>1
<1>12. CASE ArgumentsRejected
  <2>1. /\ messages' = Append(messages, AssistantRow(internal, external)) /\ pc = "stream"
        /\ pc' = "closing" /\ UNCHANGED <<internal, used, body, task>>
        /\ Flush(stage, "failed")
    BY <1>12 DEF ArgumentsRejected, Raise
  <2> QED
    BY <1>3, <1>4, <2>1
<1>13. CASE DispatchTools
  <2>1. /\ messages' = Append(messages, AssistantRow(internal, external)) /\ pc = "stream"
        /\ pc' = "tools" /\ UNCHANGED <<internal, used, body, ui, shown>>
        /\ task' = [c \in CallIds |-> IF c \in Elems(internal) THEN "created" ELSE task[c]]
    BY <1>13 DEF DispatchTools
  <2>2. ToldIn(messages') = ToldIn(messages) /\ RowsTold(messages', ui, task)
    BY <1>4, <2>1
  <2>3. Elems(internal) \cap ToldIn(messages') = {}
    BY <1>0, <2>1, <2>2
  <2>4. RowsTold(messages', ui', task')
    BY <2>1, <2>2, <2>3 DEF RowsTold, ToldIn
  <2>5. \A c \in CallIds : shown'[c] = "none"
    BY <2>1 DEF ResultsQueued
  <2>6. RowsShown(messages', shown')
    BY <2>4, <2>5 DEF RowsShown, RowsTold
  <2>7. \A c \in CallIds :
          /\ task'[c] # "returned" => ui'[c] = "none"
          /\ c \notin used' => task'[c] = "none"
          /\ c \notin ToldIn(messages') => ui'[c] \in {"none", body'[c]}
    BY <2>1, <2>2 DEF ResultsQueued, TurnInv
  <2> QED
    BY <2>1, <2>4, <2>5, <2>6, <2>7 DEF ResultsQueued
<1>14. CASE GatherReturns
  BY <1>1, <1>14 DEF GatherReturns, ResultsQueued
<1>15. CASE ApplyResults
  <2>1. /\ messages' = messages \o ResultRows /\ pc = "process"
        /\ UNCHANGED <<internal, used, body, task>>
    BY <1>15 DEF ApplyResults
  <2>2. RowsTold(messages', ui, task)
    <3>1. Elems(internal) \cap ToldIn(messages) = {} /\ Elems(internal) \subseteq CallIds
      BY <1>0, <1>1, <2>1, ElemsType
    <3>2. \A c \in Elems(internal) : ui[c] \in {"none", body[c]} /\ task[c] = "returned"
      BY <1>1, <2>1, <3>1 DEF ResultsQueued
    <3> QED
      BY <2>1, <3>1, <3>2, ResultsTold DEF ResultsQueued
  <2>3. CASE pc' = "hooks" /\ \E stg, status : Flush(stg, status)
    BY <1>3, <2>1, <2>2, <2>3
  <2>4. CASE pc' = "iterate" /\ ui' = ui /\ shown' = shown
    <3>1. ToldIn(messages) \subseteq ToldIn(messages')
      BY <1>0, <2>1, CallsOfResults
    <3>2. RowsShown(messages', shown')
      BY <2>1, <2>2, <2>4 DEF RowsShown, RowsTold, ResultsQueued
    <3> QED
      BY <2>1, <2>2, <2>4, <3>1, <3>2 DEF ResultsQueued
  <2> QED
    BY <1>15, <2>3, <2>4 DEF ApplyResults, SurfaceExternal
<1>16. ASSUME NEW c \in CallIds, TaskStep(c) PROVE ResultsQueued'
  <2>1. /\ UNCHANGED <<pc, messages, internal, used, shown>>
        /\ task[c] \in {"created", "running"}
        /\ \E t : task' = [task EXCEPT ![c] = t]
    BY <1>16 DEF TaskStep, ToolStarts, UnknownTool, ToolReturns, ToolRaises
  <2>2. pc \notin {"create", "stream", "process", "hooks"}
    BY <2>1 DEF TasksOwned, Settled
  <2>3. c \in used /\ c \notin ToldIn(messages) /\ ui[c] = "none"
    BY <1>1, <2>1 DEF ResultsQueued, RowsTold, ToldIn
  <2>4. /\ task'[c] # "returned" => ui'[c] = "none"
        /\ ui'[c] \in {"none", body'[c]}
    BY <1>16, <2>3 DEF TaskStep, ToolStarts, UnknownTool, ToolReturns, ToolRaises, TypeOK
  <2>5. \A d \in CallIds \ {c} : ui'[d] = ui[d] /\ body'[d] = body[d] /\ task'[d] = task[d]
    BY <1>16, <2>1 DEF TaskStep, ToolStarts, UnknownTool, ToolReturns, ToolRaises, TypeOK
  <2>6. RowsTold(messages', ui', task')
    BY <1>1, <2>1, <2>3, <2>5 DEF ResultsQueued, RowsTold, ToldIn
  <2> QED
    BY <1>1, <2>1, <2>2, <2>3, <2>4, <2>5, <2>6 DEF ResultsQueued
<1>17. CASE Cancel
  <2>1. CASE CancelTeardown
    BY <1>2, <1>17, <2>1 DEF Cancel, CancelTeardown
  <2>2. CASE CancelLoop
    <3>1. /\ \E stg : Flush(stg, "failed")
          /\ UNCHANGED <<messages, internal, used, body>>
          /\ pc \notin {"closing", "done"} /\ pc' = "closing"
      BY <1>17, <2>2 DEF Cancel, CancelLoop, Raise
    <3>2. \A c \in CallIds : task'[c] # task[c] => task[c] \in {"created", "running"}
      BY <2>2 DEF CancelLoop
    <3>3. RowsTold(messages', ui, task)
      BY <3>1 DEF ResultsQueued
    <3> QED
      BY <1>3, <3>1, <3>2, <3>3
  <2> QED
    BY <1>17, <2>1, <2>2 DEF Cancel
<1>18. CASE UNCHANGED vars
  BY <1>2, <1>18 DEF vars
<1> QED
  BY <1>6, <1>7, <1>8, <1>9, <1>10, <1>11, <1>12, <1>13, <1>14, <1>15, <1>16, <1>17, <1>18
     DEF Next, MainStep, Terminated

(* A deferred stage shows what the model was given, whatever was rewritten since its
   result was queued (sync_deferred_stage_ui_with_tool_messages). *)
THEOREM StagesShowMessages == Spec => []StageShowsTheMessage
<1> DEFINE Inv == TypeOK /\ TasksOwned /\ TurnInv /\ ResultsQueued
<1>1. Init => Inv
  BY InitTypeOK, InitTasksOwned, InitTurnInv, InitResultsQueued
<1>2. Inv /\ [Next]_vars => Inv'
  BY NextTypeOK, NextTasksOwned, NextTurnInv, NextResultsQueued
<1>3. Inv => StageShowsTheMessage
  BY DEF ResultsQueued, RowsShown, StageShowsTheMessage
<1> QED
  BY <1>1, <1>2, <1>3, PTL DEF Spec

-----------------------------------------------------------------------------
(* The refinement. *)

LEMMA InitRefined == Init => Turn!Init
<1> SUFFICES ASSUME Init PROVE Turn!Init
  OBVIOUS
<1>1. /\ pc = "iterate" /\ ~failed /\ iteration = 0 /\ ~(0 > MaxIterations)
      /\ surfaced = {} /\ persisted = FALSE
  BY BoundAssumption DEF Init
<1>2. OwnCalls \in SUBSET CallIds /\ AnsweredCalls = OwnCalls
  BY <1>1, InitTurnInv DEF TurnInv, OwnCalls
<1>3. TurnPhase = "ready" /\ TurnOutcome = "open"
  BY <1>1 DEF TurnPhase, TurnOutcome
<1> QED
  BY <1>1, <1>2, <1>3 DEF Turn!Init

(* A step that is none of the turn's: of a task, of the stream, of the teardown. *)
LEMMA StepStutters ==
  ASSUME UNCHANGED <<iteration, OwnCalls, AnsweredCalls, surfaced, persisted, failed, kind>>,
         pc \in {"tools", "process"} => external' = external,
         \/ pc' = pc
         \/ pc \in {"create", "stream"} /\ pc' \in {"create", "stream"}
         \/ pc = "tools" /\ pc' = "process"
         \/ pc = "hooks" /\ pc' = "closing"
  PROVE  UNCHANGED Turn!vars
<1>1. TurnPhase' = TurnPhase
  BY DEF TurnPhase
<1>2. TurnOutcome' = TurnOutcome
  BY DEF TurnOutcome
<1>3. pc' \in {"tools", "process"} <=> pc \in {"tools", "process"}
  OBVIOUS
<1> QED
  BY <1>1, <1>2, <1>3 DEF Turn!vars

(* An error, a hard stop or a disconnect before the end. *)
LEMMA StepFails ==
  ASSUME TypeOK, pc \notin {"closing", "done"}, pc' = "closing", failed' = TRUE,
         iteration' = iteration \/ (iteration' = iteration + 1 /\ iteration >= MaxIterations),
         UNCHANGED <<AnsweredCalls, surfaced, persisted>>,
         NEW own \in SUBSET CallIds, OwnCalls' = OwnCalls \cup own
  PROVE  Turn!Next
<1>1. TurnPhase # "over" /\ TurnPhase' = "ending" /\ TurnOutcome' = "failed"
  BY DEF TurnPhase, TurnOutcome, TypeOK
<1>2. (IF iteration > MaxIterations THEN MaxIterations ELSE iteration)' =
        IF iteration > MaxIterations THEN MaxIterations ELSE iteration
  <2>1. iteration \in Nat /\ MaxIterations \in Nat
    BY BoundAssumption DEF TypeOK
  <2>2. CASE iteration' = iteration
    BY <2>2
  <2>3. CASE iteration' = iteration + 1 /\ iteration >= MaxIterations
    BY <2>1, <2>3
  <2> QED
    BY <2>2, <2>3
<1>3. pc' \notin {"tools", "process"}
  OBVIOUS
<1> QED
  BY <1>1, <1>2, <1>3 DEF Turn!Next, Turn!Fail

LEMMA NextRefined ==
  TypeOK /\ TasksOwned /\ TurnInv /\ [Next]_vars => [Turn!Next]_(Turn!vars)
<1> SUFFICES ASSUME TypeOK, TasksOwned, TurnInv, [Next]_vars
             PROVE  Turn!Next \/ UNCHANGED Turn!vars
  OBVIOUS
<1> USE DEF control, model, calls, stages, results, choice, ending
<1>1. /\ OwnCalls = OwnIn(messages) /\ AnsweredCalls = AnsweredIn(messages)
      /\ OwnCalls' = OwnIn(messages') /\ AnsweredCalls' = AnsweredIn(messages')
      /\ messages' = messages => UNCHANGED <<OwnCalls, AnsweredCalls>>
      /\ OwnCalls = OwnCalls \cup {} /\ OwnCalls \subseteq CallIds
  BY DEF OwnCalls, OwnIn, AnsweredCalls, AnsweredIn, ToldIn
<1>2. /\ messages \in Seq(Row) /\ internal \in Seq(CallIds) /\ external \in Seq(CallIds)
      /\ <<>> \in Seq(CallIds) /\ Elems(<<>>) = {}
      /\ Elems(internal) \subseteq CallIds /\ Elems(external) \subseteq CallIds
      /\ iteration \in Nat /\ MaxIterations \in Nat
  BY ElemsType, ElemsOfEmpty, BoundAssumption DEF TypeOK
<1>3. ASSUME NEW q \in {internal, external}, q # <<>> PROVE Elems(q) # {}
  <2>1. q \in Seq(CallIds) /\ 1 \in DOMAIN q
    BY <1>2, <1>3
  <2> QED
    BY <2>1 DEF Elems
<1>4. ASSUME NEW int \in {<<>>, internal}, messages' = Append(messages, AssistantRow(int, external))
      PROVE  OwnCalls' = OwnCalls \cup Elems(int) /\ AnsweredCalls' = AnsweredCalls
  BY <1>1, <1>2, <1>4, CallsOfAnswer
<1>5. ~failed \/ pc \in {"closing", "done"}
  BY DEF TasksOwned
<1>6. CASE StartIteration
  <2>1. /\ pc = "iterate" /\ pc' = "create" /\ iteration < MaxIterations
        /\ iteration' = iteration + 1
        /\ UNCHANGED <<messages, surfaced, persisted, failed, kind>>
    BY <1>6 DEF StartIteration, BuildRequest
  <2>2. TurnPhase = "ready" /\ TurnPhase' = "asked" /\ TurnOutcome' = TurnOutcome
    BY <2>1 DEF TurnPhase, TurnOutcome
  <2>3. /\ ~(iteration > MaxIterations) /\ ~(iteration' > MaxIterations)
        /\ pc \notin {"tools", "process"} /\ pc' \notin {"tools", "process"}
    BY <1>2, <2>1
  <2> QED
    BY <1>1, <2>1, <2>2, <2>3 DEF Turn!Next, Turn!Ask
<1>7. CASE ExceedIterations \/ CreateFails \/ StreamFails \/ GatherRaises
  <2>1. /\ pc \notin {"closing", "done"} /\ pc' = "closing" /\ failed' = TRUE
        /\ iteration' = iteration \/ (iteration' = iteration + 1 /\ iteration >= MaxIterations)
        /\ UNCHANGED <<messages, surfaced, persisted>>
    BY <1>7 DEF ExceedIterations, CreateFails, StreamFails, GatherRaises, Raise
  <2> QED
    BY <1>1, <2>1, StepFails
<1>8. CASE CreateRejected \/ StreamRejected
  <2>1. /\ pc \in {"create", "stream"} /\ pc' = "create" /\ RecoverAndRetry
        /\ UNCHANGED <<iteration, surfaced, persisted, failed, kind>>
    BY <1>8 DEF CreateRejected, StreamRejected, RecoverAndRetry, BuildRequest
  <2>2. UNCHANGED <<OwnCalls, AnsweredCalls>>
    BY <1>1, <2>1, CallsRewritten
  <2> QED
    BY <2>1, <2>2, StepStutters
<1>9. CASE \/ CreateSucceeds \/ GatherReturns \/ RunHook \/ LeaveLoop \/ CloseResource
           \/ \E c \in CallIds : TaskStep(c)
  <2>1. UNCHANGED <<iteration, messages, surfaced, persisted, failed, kind, external>>
    BY <1>9 DEF CreateSucceeds, GatherReturns, RunHook, LeaveLoop, CloseResource,
                TaskStep, ToolStarts, UnknownTool, ToolReturns, ToolRaises
  <2>2. \/ pc' = pc
        \/ pc = "create" /\ pc' = "stream"
        \/ pc = "tools" /\ pc' = "process"
        \/ pc = "hooks" /\ pc' = "closing"
    BY <1>9 DEF CreateSucceeds, GatherReturns, RunHook, LeaveLoop, CloseResource,
                TaskStep, ToolStarts, UnknownTool, ToolReturns, ToolRaises
  <2> QED
    BY <1>1, <2>1, <2>2, StepStutters
<1>10. ASSUME NEW c \in CallIds, StreamToolCall(c) PROVE UNCHANGED Turn!vars
  <2>1. /\ pc = "stream" /\ pc' = "stream"
        /\ UNCHANGED <<iteration, messages, surfaced, persisted, failed, kind>>
    BY <1>10 DEF StreamToolCall
  <2> QED
    BY <1>1, <2>1, StepStutters
<1>11. CASE FinalAnswer
  <2>1. /\ pc = "stream" /\ pc' = "hooks" /\ messages' = Append(messages, AssistantRow(<<>>, external))
        /\ UNCHANGED <<iteration, surfaced, persisted, failed, kind>>
    BY <1>11 DEF FinalAnswer
  <2>2. TurnPhase = "asked" /\ TurnPhase' = "ending" /\ TurnOutcome' = "answered"
    BY <1>5, <2>1 DEF TurnPhase, TurnOutcome, TurnInv
  <2>3. UNCHANGED <<OwnCalls, AnsweredCalls>>
    BY <1>2, <1>4, <2>1
  <2> QED
    BY <2>1, <2>2, <2>3 DEF Turn!Next, Turn!FinalAnswer
<1>12. CASE OnlyExternalCalls
  <2>1. /\ pc = "stream" /\ pc' = "hooks" /\ external # <<>> /\ kind' = "external_tool_calls"
        /\ messages' = Append(messages, AssistantRow(<<>>, external))
        /\ surfaced' = surfaced \cup Elems(external)
        /\ UNCHANGED <<iteration, persisted, failed>>
    BY <1>12 DEF OnlyExternalCalls, SurfaceExternal
  <2>2. TurnPhase = "asked" /\ TurnPhase' = "ending" /\ TurnOutcome' = "handed"
    BY <1>5, <2>1 DEF TurnPhase, TurnOutcome
  <2>3. UNCHANGED <<OwnCalls, AnsweredCalls>>
    BY <1>2, <1>4, <2>1
  <2>4. Elems(external) \in SUBSET CallIds /\ Elems(external) # {}
    BY <1>2, <1>3, <2>1
  <2> QED
    BY <2>1, <2>2, <2>3, <2>4 DEF Turn!Next, Turn!OnlyClientCalls, Turn!HandOver
<1>13. CASE ArgumentsRejected
  <2>1. /\ pc = "stream" /\ pc' = "closing" /\ failed' = TRUE
        /\ messages' = Append(messages, AssistantRow(internal, external))
        /\ UNCHANGED <<iteration, surfaced, persisted>>
    BY <1>13 DEF ArgumentsRejected, Raise
  <2> QED
    BY <1>2, <1>4, <2>1, StepFails
<1>14. CASE DispatchTools
  <2>1. /\ pc = "stream" /\ pc' = "tools" /\ internal # <<>>
        /\ messages' = Append(messages, AssistantRow(internal, external))
        /\ UNCHANGED <<iteration, surfaced, persisted, failed, kind, external>>
    BY <1>14 DEF DispatchTools
  <2>2. TurnPhase = "asked" /\ TurnPhase' = "acting" /\ TurnOutcome' = TurnOutcome
    BY <1>5, <2>1 DEF TurnPhase, TurnOutcome
  <2>3. OwnCalls' = OwnCalls \cup Elems(internal) /\ AnsweredCalls' = AnsweredCalls
    BY <1>4, <2>1
  <2>4. /\ Elems(internal) \in (SUBSET CallIds) \ {{}}
        /\ Elems(internal) \cap OwnCalls = {}
    BY <1>2, <1>3, <2>1 DEF TurnInv
  <2>5. (IF pc' \in {"tools", "process"} THEN Elems(external') ELSE {}) \in SUBSET CallIds
    BY <1>2, <2>1
  <2> QED
    BY <2>1, <2>2, <2>3, <2>4, <2>5 DEF Turn!Next, Turn!Act
<1>15. CASE ApplyResults
  <2>1. /\ pc = "process" /\ messages' = messages \o ResultRows
        /\ UNCHANGED <<iteration, persisted, failed>>
    BY <1>15 DEF ApplyResults
  <2>2. AnsweredCalls' = OwnCalls /\ OwnCalls' = OwnCalls
    BY <1>1, <2>1, CallsOfResults DEF TurnInv
  <2>3. TurnPhase = "acting"
    BY <2>1 DEF TurnPhase
  <2>4. CASE external # <<>>
    <3>1. pc' = "hooks" /\ kind' = "external_tool_calls" /\ surfaced' = surfaced \cup Elems(external)
      BY <1>15, <2>4 DEF ApplyResults, SurfaceExternal
    <3>2. TurnPhase' = "ending" /\ TurnOutcome' = "handed"
      BY <1>5, <2>1, <3>1 DEF TurnPhase, TurnOutcome
    <3>3. Elems(external) # {}
      BY <1>3, <2>4
    <3> QED
      BY <2>1, <2>2, <2>3, <3>1, <3>2, <3>3 DEF Turn!Next, Turn!Results, Turn!HandOver
  <2>5. CASE external = <<>>
    <3>1. pc' = "iterate" /\ kind' = kind /\ surfaced' = surfaced
      BY <1>15, <2>5 DEF ApplyResults
    <3>2. TurnPhase' = "ready" /\ TurnOutcome' = TurnOutcome
      BY <1>5, <2>1, <3>1 DEF TurnPhase, TurnOutcome
    <3>3. Elems(external) = {}
      BY <1>2, <2>5
    <3> QED
      BY <2>1, <2>2, <2>3, <3>1, <3>2, <3>3 DEF Turn!Next, Turn!Results
  <2> QED
    BY <2>4, <2>5
<1>16. CASE PersistState
  <2>1. /\ pc = "closing" /\ pc' = "done" /\ persisted' = TRUE
        /\ UNCHANGED <<iteration, messages, surfaced, failed, kind>>
    BY <1>16 DEF PersistState
  <2>2. TurnPhase = "ending" /\ TurnPhase' = "over" /\ TurnOutcome' = TurnOutcome
    BY <2>1 DEF TurnPhase, TurnOutcome
  <2> QED
    BY <1>1, <2>1, <2>2 DEF Turn!Next, Turn!Save
<1>17. CASE Cancel
  <2>1. UNCHANGED <<iteration, messages, surfaced, persisted>>
    BY <1>17 DEF Cancel
  <2>2. CASE CancelLoop
    BY <1>1, <2>1, <2>2, StepFails DEF CancelLoop, Raise
  <2>3. CASE CancelTeardown
    <3>1. pc = "closing" /\ pc' = "done" /\ failed' = TRUE
      BY <2>3 DEF CancelTeardown
    <3>2. TurnPhase = "ending" /\ TurnPhase' = "over" /\ TurnOutcome' = "failed"
      BY <3>1 DEF TurnPhase, TurnOutcome
    <3> QED
      BY <1>1, <2>1, <3>1, <3>2 DEF Turn!Next, Turn!Abandon
  <2> QED
    BY <1>17, <2>2, <2>3 DEF Cancel
<1>18. CASE UNCHANGED vars
  BY <1>1, <1>18, StepStutters DEF vars
<1> QED
  BY <1>6, <1>7, <1>8, <1>9, <1>10, <1>11, <1>12, <1>13, <1>14, <1>15, <1>16, <1>17, <1>18
     DEF Next, MainStep, Terminated

(* The loop keeps the promise of AgentTurn, whatever the calls and the limits. *)
THEOREM LoopKeepsTurn == Spec => ImplementsAgentTurn
<1> DEFINE Inv == TypeOK /\ TasksOwned /\ TurnInv
<1>1. Init => Inv
  BY InitTypeOK, InitTasksOwned, InitTurnInv
<1>2. Inv /\ [Next]_vars => Inv'
  BY NextTypeOK, NextTasksOwned, NextTurnInv
<1> QED
  BY <1>1, <1>2, InitRefined, NextRefined, PTL DEF Spec, ImplementsAgentTurn, Turn!Spec

-----------------------------------------------------------------------------
(* The stored history replays.  The calls of each assistant message of the turn are answered
   right after it, but for the message whose calls are being run; what the history leaves out
   is the user's message and the answer that ended the turn. *)

AnsweredAt(h, i) ==
  \A k \in DOMAIN h[i].calls :
    i + k \in DOMAIN h /\ h[i + k].role = "tool" /\ h[i + k].id = h[i].calls[k]

AnswersAt(h, j) ==
  \E i \in DOMAIN h :
    /\ h[i].role = "assistant"
    /\ \E k \in DOMAIN h[i].calls : j = i + k /\ h[j].id = h[i].calls[k]

Ended == {"hooks", "closing", "done"}

(* The history has every message after the user's but the one at gap, where the client that
   resumes a turn repeats its own calls (the first, when it does not), and the last answer. *)
SetAside(h, gap, p) ==
  ~Kept(h[gap]) /\ \A i \in 2..Len(h) : i = gap \/ Kept(h[i]) \/ (i = Len(h) /\ p \in Ended)

(* Messages h at the place p of the loop, running the calls int unless it failed (f). *)
InOrder(h, p, int, f) ==
  /\ h # <<>> /\ h[1].role = "user"
  /\ \E gap \in DOMAIN h : SetAside(h, gap, p)
  /\ \A j \in DOMAIN h : h[j].role = "tool" => AnswersAt(h, j) \/ IsExternal(h[j].id)
  /\ \A i \in DOMAIN h :
       h[i].role = "assistant" =>
         AnsweredAt(h, i) \/ f \/ (i = Len(h) /\ p \in {"tools", "process"})
  /\ p \in {"tools", "process"} => h[Len(h)].role = "assistant" /\ h[Len(h)].calls = int

HistoryInv ==
  /\ InOrder(messages, pc, internal, failed)
  /\ pc \in Ended /\ ~failed /\ kind = "completed" => Terminal
  /\ failed => pc \in Ended
  /\ persisted => pc = "done"

(* The messages stay as they are: a failure, or a step between answers. *)
LEMMA StaysInOrder ==
  ASSUME NEW h, NEW p, NEW q, NEW int, NEW next, NEW f, NEW g,
         InOrder(h, p, int, f),
         p \in Ended => q \in Ended,
         f => g,
         p \in {"tools", "process"} => q \in {"tools", "process"} \/ g,
         q \in {"tools", "process"} => p \in {"tools", "process"} /\ next = int
  PROVE  InOrder(h, q, next, g)
<1>1. ASSUME NEW gap \in DOMAIN h, SetAside(h, gap, p) PROVE SetAside(h, gap, q)
  BY <1>1 DEF SetAside
<1>2. ASSUME NEW i \in DOMAIN h, h[i].role = "assistant"
      PROVE  AnsweredAt(h, i) \/ g \/ (i = Len(h) /\ q \in {"tools", "process"})
  BY <1>2 DEF InOrder
<1> QED
  BY <1>1, <1>2 DEF InOrder

(* A recovery changes no role, id or call. *)
LEMMA RewrittenInOrder ==
  ASSUME NEW h \in Seq(Row), NEW r \in Seq(Row), NEW p, NEW int, NEW f,
         InOrder(h, p, int, f), p \notin Ended \cup {"tools", "process"},
         DOMAIN r = DOMAIN h,
         \A i \in DOMAIN h : r[i].role = h[i].role /\ r[i].id = h[i].id /\ r[i].calls = h[i].calls
  PROVE  \A q : q \notin {"tools", "process"} => \A next : InOrder(r, q, next, f)
<1>1. /\ h # <<>> /\ Len(h) \in Nat /\ DOMAIN h = 1..Len(h)
      /\ Len(r) \in Nat /\ DOMAIN r = 1..Len(r)
  BY DEF InOrder
<1>2. Len(r) = Len(h) /\ r # <<>> /\ 1 \in DOMAIN h
  BY <1>1
<1>3. \A i \in DOMAIN h : Kept(r[i]) <=> Kept(h[i])
  BY DEF Kept
<1>4. \A i \in DOMAIN h : AnsweredAt(h, i) => AnsweredAt(r, i)
  <2> SUFFICES ASSUME NEW i \in DOMAIN h, AnsweredAt(h, i), NEW k \in DOMAIN r[i].calls
               PROVE  i + k \in DOMAIN r /\ r[i + k].role = "tool" /\ r[i + k].id = r[i].calls[k]
    BY DEF AnsweredAt
  <2>1. k \in DOMAIN h[i].calls /\ r[i].calls = h[i].calls
    OBVIOUS
  <2>2. i + k \in DOMAIN h /\ h[i + k].role = "tool" /\ h[i + k].id = h[i].calls[k]
    BY <2>1 DEF AnsweredAt
  <2> QED
    BY <2>1, <2>2
<1>5. \A j \in DOMAIN h : AnswersAt(h, j) => AnswersAt(r, j)
  BY DEF AnswersAt
<1>6. \A i \in 2..Len(r) : i \in DOMAIN h
  BY <1>1, <1>2
<1> SUFFICES ASSUME NEW q, q \notin {"tools", "process"}, NEW next PROVE InOrder(r, q, next, f)
  OBVIOUS
<1>7. r[1].role = "user"
  BY <1>2 DEF InOrder
<1>8. \E gap \in DOMAIN r : SetAside(r, gap, q)
  <2>1. PICK gap \in DOMAIN h : SetAside(h, gap, p)
    BY DEF InOrder
  <2>2. ~Kept(r[gap])
    BY <1>3, <2>1 DEF SetAside
  <2>3. \A i \in 2..Len(r) : i = gap \/ Kept(r[i])
    BY <1>2, <1>3, <1>6, <2>1 DEF SetAside
  <2>4. SetAside(r, gap, q)
    BY <2>2, <2>3 DEF SetAside
  <2> QED
    BY <2>4
<1>9. \A j \in DOMAIN r : r[j].role = "tool" => AnswersAt(r, j) \/ IsExternal(r[j].id)
  BY <1>5 DEF InOrder
<1>10. \A i \in DOMAIN r : r[i].role = "assistant" => AnsweredAt(r, i) \/ f
  BY <1>4 DEF InOrder
<1> QED
  BY <1>2, <1>7, <1>8, <1>9, <1>10 DEF InOrder

(* An answer of the model comes last. *)
LEMMA AnswerInOrder ==
  ASSUME NEW h \in Seq(Row), NEW int \in Seq(CallIds), NEW ext \in Seq(CallIds), NEW old,
         InOrder(h, "stream", old, FALSE)
  PROVE  \A q, f :
           /\ int # <<>> \/ q \in Ended
           /\ int = <<>> \/ f \/ q \in {"tools", "process"}
           => InOrder(Append(h, AssistantRow(int, ext)), q, int, f)
<1> DEFINE m == AssistantRow(int, ext)
           g == Append(h, m)
           n == Len(h)
<1>1. m.role = "assistant" /\ m.calls = int
  BY DEF AssistantRow
<1>2. m \in Row
  BY RowTypes
<1> HIDE DEF m
<1>3. /\ DOMAIN g = 1..(n + 1) /\ Len(g) = n + 1
      /\ g[n + 1] = m /\ \A i \in DOMAIN h : g[i] = h[i]
      /\ n \in Nat /\ DOMAIN h = 1..n /\ n >= 1
  BY <1>2 DEF InOrder
<1> HIDE DEF g, n
<1>4. g # <<>> /\ g[1].role = "user"
  BY <1>3 DEF InOrder
<1>5. \A i \in DOMAIN h : i \in DOMAIN g
  BY <1>3
<1>6. \A i \in DOMAIN h : h[i].role = "assistant" => AnsweredAt(g, i)
  <2> SUFFICES ASSUME NEW i \in DOMAIN h, h[i].role = "assistant", NEW k \in DOMAIN g[i].calls
               PROVE  i + k \in DOMAIN g /\ g[i + k].role = "tool" /\ g[i + k].id = g[i].calls[k]
    BY DEF AnsweredAt
  <2>1. AnsweredAt(h, i) /\ g[i] = h[i]
    BY <1>3 DEF InOrder, Ended
  <2>2. i + k \in DOMAIN h /\ h[i + k].role = "tool" /\ h[i + k].id = h[i].calls[k]
    BY <2>1 DEF AnsweredAt
  <2> QED
    BY <1>3, <1>5, <2>1, <2>2
<1>7. \A j \in DOMAIN h : h[j].role = "tool" => AnswersAt(g, j) \/ IsExternal(g[j].id)
  <2> SUFFICES ASSUME NEW j \in DOMAIN h, h[j].role = "tool", ~IsExternal(h[j].id)
               PROVE  AnswersAt(g, j)
    BY <1>3
  <2>1. AnswersAt(h, j)
    BY DEF InOrder
  <2> QED
    BY <1>3, <1>5, <2>1 DEF AnswersAt
<1>8. \A j \in DOMAIN g : j \in DOMAIN h \/ j = n + 1
  BY <1>3
<1>9. int = <<>> => AnsweredAt(g, n + 1)
  BY <1>1, <1>3 DEF AnsweredAt
<1>10. PICK gap \in DOMAIN h : SetAside(h, gap, "stream")
  BY DEF InOrder
<1>11. int # <<>> => Kept(m)
  BY <1>1 DEF Kept
<1> SUFFICES ASSUME NEW q, NEW f, int # <<>> \/ q \in Ended,
                    int = <<>> \/ f \/ q \in {"tools", "process"}
             PROVE  InOrder(g, q, int, f)
  BY DEF g, m
<1>12. \E a \in DOMAIN g : SetAside(g, a, q)
  <2>1. gap \in DOMAIN g /\ ~Kept(g[gap])
    BY <1>3, <1>5, <1>10 DEF SetAside
  <2>2. ASSUME NEW i \in 2..Len(g) PROVE i = gap \/ Kept(g[i]) \/ (i = Len(g) /\ q \in Ended)
    <3>1. CASE i = n + 1
      BY <1>3, <1>11, <3>1
    <3>2. CASE i # n + 1
      <4>1. i \in 2..Len(h) /\ i \in DOMAIN h
        BY <1>3, <3>2 DEF n
      <4>2. i = gap \/ Kept(h[i])
        BY <1>10, <4>1 DEF SetAside, Ended
      <4> QED
        BY <1>3, <4>1, <4>2
    <3> QED
      BY <3>1, <3>2
  <2>3. SetAside(g, gap, q)
    BY <2>1, <2>2 DEF SetAside
  <2> QED
    BY <2>1, <2>3
<1>13. \A j \in DOMAIN g : g[j].role = "tool" => AnswersAt(g, j) \/ IsExternal(g[j].id)
  BY <1>1, <1>3, <1>7, <1>8
<1>14. \A i \in DOMAIN g : g[i].role = "assistant" =>
          AnsweredAt(g, i) \/ f \/ (i = Len(g) /\ q \in {"tools", "process"})
  BY <1>3, <1>6, <1>8, <1>9
<1> QED
  BY <1>1, <1>3, <1>4, <1>12, <1>13, <1>14 DEF InOrder

(* The results follow the answer they are for. *)
LEMMA ResultsInOrder ==
  ASSUME TypeOK, InOrder(messages, "process", internal, FALSE)
  PROVE  \A q, next : q \notin {"tools", "process"} =>
           InOrder(messages \o ResultRows, q, next, FALSE)
<1> DEFINE g == messages \o ResultRows
           n == Len(messages)
<1>1. messages \in Seq(Row) /\ internal \in Seq(CallIds) /\ body \in [CallIds -> Bodies]
  BY DEF TypeOK
<1>2. \A i \in 1..Len(internal) : ResultRows[i].role = "tool" /\ ResultRows[i].id = internal[i]
  BY DEF ResultRows, ToolRow
<1>3. /\ \A i \in DOMAIN messages : i \in DOMAIN g /\ g[i] = messages[i]
      /\ \A i \in 1..Len(internal) : n + i \in DOMAIN g /\ g[n + i] = ResultRows[i]
      /\ \A j \in DOMAIN g : j \in DOMAIN messages \/ \E i \in 1..Len(internal) : j = n + i
  BY ResultsAppended
<1> DEFINE S == Row \cup {ResultRows[i] : i \in DOMAIN ResultRows}
<1>4. g \in Seq(S)
  <2>1. messages \in Seq(S)
    BY <1>1
  <2>2. ResultRows \in Seq(S)
    BY <1>1 DEF ResultRows
  <2> QED
    BY <2>1, <2>2
<1>5. /\ DOMAIN messages = 1..n /\ n \in Nat /\ n >= 1 /\ DOMAIN internal = 1..Len(internal)
      /\ DOMAIN g = 1..Len(g) /\ Len(g) \in Nat
  <2>1. messages # <<>>
    BY DEF InOrder
  <2>2. DOMAIN messages = 1..n /\ n \in Nat /\ n >= 1 /\ DOMAIN internal = 1..Len(internal)
    BY <1>1, <2>1
  <2> HIDE DEF g
  <2>3. DOMAIN g = 1..Len(g) /\ Len(g) \in Nat
    BY <1>4
  <2> QED
    BY <2>2, <2>3
<1>6. /\ messages[n].role = "assistant" /\ messages[n].calls = internal /\ messages[1].role = "user"
      /\ n \in DOMAIN messages /\ 1 \in DOMAIN messages
  <2>1. /\ messages[Len(messages)].role = "assistant" /\ messages[Len(messages)].calls = internal
        /\ messages[1].role = "user"
    BY DEF InOrder
  <2> HIDE DEF g
  <2> QED
    BY <1>5, <2>1
<1> HIDE DEF g, ResultRows, n
<1>7. g # <<>> /\ g[1].role = "user"
  BY <1>3, <1>6
<1>8. \A i \in DOMAIN messages : messages[i].role = "assistant" => AnsweredAt(g, i)
  <2> SUFFICES ASSUME NEW i \in DOMAIN messages, messages[i].role = "assistant",
                      NEW k \in DOMAIN g[i].calls
               PROVE  i + k \in DOMAIN g /\ g[i + k].role = "tool" /\ g[i + k].id = g[i].calls[k]
    BY DEF AnsweredAt
  <2>1. CASE i = n
    <3>1. g[i] = messages[i]
      BY <1>3
    <3>2. g[i].calls = internal
      BY <1>6, <2>1, <3>1
    <3>3. k \in 1..Len(internal)
      BY <1>5, <3>2
    <3>4. i + k \in DOMAIN g /\ g[i + k] = ResultRows[k]
      BY <1>3, <2>1, <3>3
    <3>5. ResultRows[k].role = "tool" /\ ResultRows[k].id = internal[k]
      BY <1>2, <3>3
    <3> QED
      BY <3>2, <3>4, <3>5
  <2>2. CASE AnsweredAt(messages, i)
    <3>1. g[i] = messages[i]
      BY <1>3
    <3>2. /\ i + k \in DOMAIN messages /\ messages[i + k].role = "tool"
          /\ messages[i + k].id = messages[i].calls[k]
      BY <2>2, <3>1 DEF AnsweredAt
    <3> QED
      BY <1>3, <3>1, <3>2
  <2> QED
    BY <2>1, <2>2 DEF InOrder, n
<1>9. \A j \in DOMAIN messages :
        messages[j].role = "tool" => AnswersAt(g, j) \/ IsExternal(g[j].id)
  <2> SUFFICES ASSUME NEW j \in DOMAIN messages, messages[j].role = "tool",
                      ~IsExternal(messages[j].id)
               PROVE  AnswersAt(g, j)
    BY <1>3
  <2>1. AnswersAt(messages, j)
    BY DEF InOrder
  <2> QED
    BY <1>3, <2>1 DEF AnswersAt
<1>10. \A k \in 1..Len(internal) : AnswersAt(g, n + k)
  <2> SUFFICES ASSUME NEW k \in 1..Len(internal) PROVE AnswersAt(g, n + k)
    OBVIOUS
  <2>1. n \in DOMAIN g /\ g[n].role = "assistant" /\ g[n].calls = internal
    BY <1>3, <1>6
  <2>2. k \in DOMAIN g[n].calls /\ g[n + k].id = g[n].calls[k]
    BY <1>2, <1>3, <1>5, <2>1
  <2> QED
    BY <2>1, <2>2 DEF AnswersAt
<1>11. \A j \in DOMAIN g : j \in DOMAIN messages \/ (g[j].role = "tool" /\ AnswersAt(g, j))
  BY <1>2, <1>3, <1>10
<1>12. \A i \in 2..Len(g) : i \in DOMAIN g /\ (i \in DOMAIN messages => i \in 2..Len(messages))
  BY <1>5 DEF n
<1>13. PICK gap \in DOMAIN messages : SetAside(messages, gap, "process")
  BY DEF InOrder
<1>14. ASSUME NEW q PROVE gap \in DOMAIN g /\ SetAside(g, gap, q)
  <2>1. gap \in DOMAIN g /\ ~Kept(g[gap])
    BY <1>3, <1>13 DEF SetAside
  <2>2. \A i \in 2..Len(messages) : i = gap \/ Kept(messages[i])
    BY <1>13 DEF SetAside, Ended
  <2>3. \A i \in 2..Len(g) : i = gap \/ Kept(g[i])
    BY <1>3, <1>11, <1>12, <2>2 DEF Kept
  <2> QED
    BY <2>1, <2>3 DEF SetAside
<1>15. \A j \in DOMAIN g : g[j].role = "tool" => AnswersAt(g, j) \/ IsExternal(g[j].id)
  BY <1>3, <1>9, <1>11
<1>16. \A i \in DOMAIN g : g[i].role = "assistant" => AnsweredAt(g, i)
  BY <1>3, <1>8, <1>11
<1> QED
  BY <1>7, <1>14, <1>15, <1>16 DEF InOrder, g

LEMMA InitHistory == Init => HistoryInv
<1> SUFFICES ASSUME Init PROVE HistoryInv
  OBVIOUS
<1>1. pc = "iterate" /\ failed = FALSE /\ persisted = FALSE
  BY DEF Init
<1>2. PICK head \in {1, 3}, gap \in DOMAIN messages : Started(messages, head, gap)
  BY StartRows
<1>3. /\ UserRow.role = "user"
      /\ \A int, ext : AssistantRow(int, ext).role = "assistant" /\ AssistantRow(int, ext).calls = int
      /\ \A c, b : ToolRow(c, b).role = "tool" /\ ToolRow(c, b).id = c
      /\ \A c : DOMAIN <<c>> = {1} /\ <<c>>[1] = c /\ <<c>> # <<>>
      /\ \A k : k \notin DOMAIN <<>>
  BY DEF UserRow, AssistantRow, ToolRow
<1>4. /\ messages \in Seq(Row) /\ DOMAIN messages = 1..Len(messages) /\ Len(messages) \in Nat
      /\ messages # <<>> /\ messages[1] = UserRow
  <2>1. messages \in Seq(Row) /\ gap \in DOMAIN messages
    BY StartRows
  <2> QED
    BY <1>2, <2>1 DEF Started
<1>5. ASSUME head = 3
      PROVE  /\ AnsweredAt(messages, 2) /\ AnswersAt(messages, 3)
             /\ Kept(messages[2]) /\ Kept(messages[3])
  <2>1. PICK c \in CallIds, b \in Bodies :
          ~IsExternal(c) /\ messages[2] = AssistantRow(<<c>>, <<>>) /\ messages[3] = ToolRow(c, b)
    <3>1. head # 1
      BY <1>5
    <3> QED
      BY <1>2, <3>1, Zenon DEF Started
  <2>2. 3 \in DOMAIN messages /\ 2 \in DOMAIN messages
    <3>1. 3 \in DOMAIN messages
      BY <1>2, <1>5 DEF Started
    <3> QED
      BY <1>4, <3>1
  <2>3. /\ messages[2].role = "assistant" /\ messages[2].calls = <<c>>
        /\ messages[3].role = "tool" /\ messages[3].id = c
    BY <1>3, <2>1
  <2>4. AnsweredAt(messages, 2)
    BY <1>3, <2>2, <2>3 DEF AnsweredAt
  <2>5. AnswersAt(messages, 3)
    BY <1>3, <2>2, <2>3 DEF AnswersAt
  <2>6. Kept(messages[2]) /\ Kept(messages[3])
    BY <1>3, <2>3 DEF Kept
  <2> QED
    BY <2>4, <2>5, <2>6
<1>6. /\ head = 3 => AnsweredAt(messages, 2) /\ AnswersAt(messages, 3)
      /\ head = 3 => Kept(messages[2]) /\ Kept(messages[3])
  BY <1>5
<1>7. gap = 1 \/ (gap = head + 1 /\ messages[gap].role = "assistant" /\ messages[gap].calls = <<>>)
  BY <1>2, <1>3 DEF Started
<1>8. (~Kept(messages[gap]) /\ AnsweredAt(messages, gap)) \/ gap = 1
  BY <1>3, <1>7 DEF Kept, AnsweredAt
<1>9. ~Kept(messages[1]) /\ messages[1].role = "user"
  BY <1>3, <1>4 DEF Kept
<1>10. ASSUME NEW i \in DOMAIN messages
       PROVE  \/ i = 1
              \/ i = 2 /\ head = 3
              \/ i = 3 /\ head = 3
              \/ i = gap
              \/ messages[i].role = "tool" /\ IsExternal(messages[i].id)
  <2>1. CASE i \in 1..head
    BY <2>1
  <2>2. CASE \E c \in CallIds : IsExternal(c) /\ messages[i] = ToolRow(c, "text")
    BY <1>3, <2>2
  <2> QED
    BY <1>2, <2>1, <2>2 DEF Started
<1>11. SetAside(messages, gap, "iterate")
  <2>1. ~Kept(messages[gap])
    BY <1>8, <1>9
  <2>2. ASSUME NEW i \in 2..Len(messages) PROVE i = gap \/ Kept(messages[i])
    <3>1. i \in DOMAIN messages /\ i # 1
      BY <1>4
    <3> QED
      BY <1>6, <1>10, <3>1 DEF Kept
  <2> QED
    BY <2>1, <2>2 DEF SetAside
<1>12. ASSUME NEW i \in DOMAIN messages
       PROVE  /\ messages[i].role = "tool" => AnswersAt(messages, i) \/ IsExternal(messages[i].id)
              /\ messages[i].role = "assistant" => AnsweredAt(messages, i)
  <2>1. CASE i = 1
    BY <1>9, <2>1
  <2>2. CASE head = 3 /\ i \in {2, 3}
    <3>1. messages[2].role = "assistant" /\ messages[3].role = "tool"
      <4>1. head # 1
        BY <2>2
      <4>2. \E c, b : messages[2] = AssistantRow(<<c>>, <<>>) /\ messages[3] = ToolRow(c, b)
        BY <1>2, <4>1, Zenon DEF Started
      <4> QED
        BY <1>3, <4>2
    <3> QED
      BY <1>6, <2>2, <3>1
  <2>3. CASE i = gap /\ i # 1
    BY <1>7, <1>8, <2>3
  <2>4. CASE messages[i].role = "tool" /\ IsExternal(messages[i].id)
    BY <2>4
  <2> QED
    BY <1>10, <2>1, <2>2, <2>3, <2>4
<1>13. InOrder(messages, pc, internal, failed)
  BY <1>1, <1>4, <1>9, <1>11, <1>12 DEF InOrder
<1> QED
  BY <1>1, <1>13 DEF HistoryInv, Ended

LEMMA NextHistory == TypeOK /\ HistoryInv /\ [Next]_vars => HistoryInv'
<1> SUFFICES ASSUME TypeOK, HistoryInv, [Next]_vars PROVE HistoryInv'
  OBVIOUS
<1> USE DEF control, model, calls, stages, results, choice, ending
<1>1. messages \in Seq(Row) /\ internal \in Seq(CallIds) /\ external \in Seq(CallIds)
  BY DEF TypeOK
<1>2. ASSUME messages' = messages, kind' = kind, failed => failed',
             failed' => pc' \in Ended, persisted' => pc' = "done",
             pc \in Ended => pc' \in Ended,
             pc \in {"tools", "process"} => pc' \in {"tools", "process"} \/ failed',
             pc' \in {"tools", "process"} =>
               pc \in {"tools", "process"} /\ internal' = internal,
             pc' \in Ended /\ ~failed' => pc \in Ended
      PROVE  HistoryInv'
  <2>1. InOrder(messages, pc, internal, failed)
    BY DEF HistoryInv
  <2>2. InOrder(messages, pc', internal', failed')
    BY <1>2, <2>1, StaysInOrder
  <2>3. InOrder(messages, pc, internal, failed)'
    BY <1>2, <2>2
  <2>4. Terminal' <=> Terminal
    BY <1>2 DEF Terminal, LastMessage
  <2> QED
    BY <1>2, <2>3, <2>4 DEF HistoryInv
<1>3. ASSUME RecoverAndRetry, pc \in {"create", "stream"}, failed' = failed,
             persisted' = persisted
      PROVE  HistoryInv'
  <2>1. /\ DOMAIN messages' = DOMAIN messages
        /\ \A i \in DOMAIN messages :
             /\ messages'[i].role = messages[i].role /\ messages'[i].id = messages[i].id
             /\ messages'[i].calls = messages[i].calls
    BY <1>3, CallsRewritten
  <2>2. messages' \in Seq(Row)
    BY <1>3, RecoverType
  <2>3. pc' = "create" /\ pc \notin Ended \cup {"tools", "process"}
    BY <1>3 DEF RecoverAndRetry, BuildRequest, Ended
  <2>4. InOrder(messages, pc, internal, failed)
    BY DEF HistoryInv
  <2>5. InOrder(messages', pc', internal', failed')
    BY <1>1, <1>3, <2>1, <2>2, <2>3, <2>4, RewrittenInOrder
  <2>6. InOrder(messages, pc, internal, failed)'
    BY <2>5
  <2> QED
    BY <1>3, <2>3, <2>6 DEF HistoryInv, Ended
<1>4. ASSUME NEW int \in Seq(CallIds), NEW ext \in Seq(CallIds), pc = "stream",
             messages' = Append(messages, AssistantRow(int, ext)),
             int # <<>> \/ pc' \in Ended,
             int = <<>> \/ failed' \/ pc' \in {"tools", "process"},
             pc' \in {"tools", "process"} => internal' = int,
             failed' => pc' \in Ended,
             pc' \in Ended /\ ~failed' /\ kind' = "completed" => int = <<>> /\ ext = <<>>,
             persisted' = persisted
      PROVE  HistoryInv'
  <2>1. failed = FALSE /\ persisted = FALSE
    BY <1>4 DEF HistoryInv, Ended, TypeOK
  <2>2. InOrder(messages, "stream", internal, FALSE)
    BY <1>4, <2>1 DEF HistoryInv
  <2>3. InOrder(messages', pc', int, failed')
    BY <1>1, <1>4, <2>2, AnswerInOrder
  <2>4. InOrder(messages', pc', internal', failed')
    BY <1>4, <2>3 DEF InOrder
  <2>5. InOrder(messages, pc, internal, failed)'
    BY <2>4
  <2>6. LastMessage' = AssistantRow(int, ext)
    BY <1>1, <1>4, RowTypes DEF LastMessage
  <2>7. int = <<>> /\ ext = <<>> => Terminal'
    BY <2>6 DEF Terminal, AssistantRow
  <2> QED
    BY <1>4, <2>1, <2>5, <2>7 DEF HistoryInv
<1>5. CASE StartIteration \/ ExceedIterations \/ CreateSucceeds \/ CreateFails \/ StreamFails
           \/ GatherReturns \/ GatherRaises \/ RunHook \/ LeaveLoop \/ CloseResource \/ PersistState
  BY <1>2, <1>5 DEF StartIteration, BuildRequest, ExceedIterations, CreateSucceeds, CreateFails,
                    StreamFails, GatherReturns, GatherRaises, RunHook, LeaveLoop, CloseResource,
                    PersistState, Raise, HistoryInv, Ended
<1>6. CASE CreateRejected \/ StreamRejected
  BY <1>3, <1>6 DEF CreateRejected, StreamRejected
<1>7. CASE \E c \in CallIds : StreamToolCall(c)
  BY <1>2, <1>7 DEF StreamToolCall, HistoryInv, Ended
<1>8. <<>> \in Seq(CallIds)
  OBVIOUS
<1>9. CASE FinalAnswer
  BY <1>4, <1>8, <1>9 DEF FinalAnswer, HistoryInv, Ended
<1>10. CASE OnlyExternalCalls
  BY <1>1, <1>4, <1>8, <1>10 DEF OnlyExternalCalls, SurfaceExternal, HistoryInv, Ended
<1>11. CASE ArgumentsRejected
  <2>1. internal # <<>>
    BY <1>11, ElemsOfEmpty DEF ArgumentsRejected, Runs
  <2> QED
    BY <1>1, <1>4, <1>11, <2>1 DEF ArgumentsRejected, Raise, Ended
<1>12. CASE DispatchTools
  BY <1>1, <1>4, <1>12 DEF DispatchTools, HistoryInv, Ended
<1>13. CASE ApplyResults
  <2>1. /\ messages' = messages \o ResultRows /\ pc = "process" /\ pc' \in {"hooks", "iterate"}
        /\ failed' = failed /\ persisted' = persisted
        /\ pc' = "hooks" => kind' = "external_tool_calls"
    BY <1>13 DEF ApplyResults, SurfaceExternal
  <2>2. failed = FALSE /\ persisted = FALSE
    BY <2>1 DEF HistoryInv, Ended, TypeOK
  <2>3. InOrder(messages, "process", internal, FALSE)
    BY <2>1, <2>2 DEF HistoryInv
  <2>4. InOrder(messages', pc', internal', failed')
    BY <2>1, <2>2, <2>3, ResultsInOrder
  <2>5. InOrder(messages, pc, internal, failed)'
    BY <2>4
  <2> QED
    BY <2>1, <2>2, <2>5 DEF HistoryInv, Ended
<1>14. ASSUME NEW c \in CallIds, TaskStep(c) PROVE HistoryInv'
  BY <1>2, <1>14 DEF TaskStep, ToolStarts, UnknownTool, ToolReturns, ToolRaises, HistoryInv
<1>15. CASE Cancel
  <2>1. /\ messages' = messages /\ kind' = kind /\ internal' = internal /\ persisted' = persisted
        /\ failed' = TRUE /\ pc' \in Ended
        /\ pc # "done" \/ pc' = "done"
    BY <1>15 DEF Cancel, CancelLoop, CancelTeardown, Raise, Ended
  <2> QED
    BY <1>2, <2>1 DEF HistoryInv, Ended
<1>16. CASE UNCHANGED vars
  BY <1>2, <1>16 DEF vars, HistoryInv
<1> QED
  BY <1>5, <1>6, <1>7, <1>9, <1>10, <1>11, <1>12, <1>13, <1>14, <1>15, <1>16
     DEF Next, MainStep, Terminated

(* The positions from the second to m but for gap: how many there are and which is the n-th. *)
Size(m, gap) == IF gap <= m THEN m - 2 ELSE m - 1

At(n, gap) == IF n + 1 < gap THEN n + 1 ELSE n + 2

LEMMA NthOfGapped ==
  ASSUME NEW m \in Nat, m >= 1, NEW gap \in Nat, gap >= 2
  PROVE  /\ Cardinality((2..m) \ {gap}) = Size(m, gap)
         /\ \A n \in 1..Size(m, gap) : Nth((2..m) \ {gap}, n) = At(n, gap)
<1> DEFINE kept == (2..m) \ {gap}
<1>1. \A k \in 1..m : Cardinality((2..k) \ {gap}) = Size(k, gap)
  <2> SUFFICES ASSUME NEW k \in 1..m PROVE Cardinality((2..k) \ {gap}) = Size(k, gap)
    OBVIOUS
  <2>1. IsFiniteSet(2..k) /\ Cardinality(2..k) = k - 1
    BY FS_Interval
  <2>2. CASE gap <= k
    <3>1. gap \in 2..k
      BY <2>2
    <3>2. Cardinality((2..k) \ {gap}) = Cardinality(2..k) - 1
      BY <2>1, <3>1, FS_RemoveElement
    <3> QED
      BY <2>1, <2>2, <3>2 DEF Size
  <2>3. CASE ~(gap <= k)
    <3>1. (2..k) \ {gap} = 2..k
      BY <2>3
    <3> QED
      BY <2>1, <2>3, <3>1 DEF Size
  <2> QED
    BY <2>2, <2>3
<1>2. \A k \in kept : Cardinality({j \in kept : j <= k}) = Size(k, gap)
  <2> SUFFICES ASSUME NEW k \in kept PROVE Cardinality({j \in kept : j <= k}) = Size(k, gap)
    OBVIOUS
  <2>1. {j \in kept : j <= k} = (2..k) \ {gap}
    OBVIOUS
  <2>2. k \in 1..m
    OBVIOUS
  <2> QED
    BY <1>1, <2>1, <2>2
<1>3. ASSUME NEW n \in 1..Size(m, gap) PROVE Nth(kept, n) = At(n, gap)
  <2> DEFINE Placed(k) == Cardinality({j \in kept : j <= k}) = n
  <2>1. At(n, gap) \in kept /\ Size(At(n, gap), gap) = n
    BY DEF At, Size
  <2>2. \A k \in kept : Size(k, gap) = n => k = At(n, gap)
    BY DEF At, Size
  <2>3. Placed(At(n, gap)) /\ \A k \in kept : Placed(k) => k = At(n, gap)
    BY <1>2, <2>1, <2>2
  <2> HIDE DEF Placed, kept
  <2>4. (CHOOSE k \in kept : Placed(k)) = At(n, gap)
    BY <2>1, <2>3
  <2> QED
    BY <2>4 DEF Nth, Placed
<1>4. m \in 1..m
  OBVIOUS
<1> QED
  BY <1>1, <1>3, <1>4

(* Positions that follow each other without the gap between them still do in the history. *)
LEMMA GapShift ==
  ASSUME NEW m \in Nat, NEW gap \in Nat, gap >= 2, NEW i \in 1..Size(m, gap), NEW k \in Nat,
         At(i, gap) + k <= m, gap < At(i, gap) \/ gap > At(i, gap) + k
  PROVE  i + k \in 1..Size(m, gap) /\ At(i + k, gap) = At(i, gap) + k
BY DEF At, Size

(* Each position but the gap has its place, and two places are two positions. *)
LEMMA GapPlace ==
  ASSUME NEW m \in Nat, NEW gap \in Nat, gap >= 2
  PROVE  /\ \A n \in 1..Size(m, gap) : At(n, gap) \in (2..m) \ {gap}
         /\ \A i \in (2..m) \ {gap} : \E n \in 1..Size(m, gap) : At(n, gap) = i
         /\ \A a, b \in Nat : At(a, gap) = At(b, gap) => a = b
<1>1. ASSUME NEW i \in (2..m) \ {gap} PROVE \E n \in 1..Size(m, gap) : At(n, gap) = i
  <2>1. CASE i < gap
    <3>1. i - 1 \in 1..Size(m, gap) /\ At(i - 1, gap) = i
      BY <2>1 DEF At, Size
    <3> QED
      BY <3>1
  <2>2. CASE i > gap
    <3>1. i - 2 \in 1..Size(m, gap) /\ At(i - 2, gap) = i
      BY <2>2 DEF At, Size
    <3> QED
      BY <3>1
  <2> QED
    BY <2>1, <2>2
<1>2. \A n \in 1..Size(m, gap) : At(n, gap) \in (2..m) \ {gap}
  BY DEF At, Size
<1>3. \A a, b \in Nat : At(a, gap) = At(b, gap) => a = b
  BY DEF At
<1> QED
  BY <1>1, <1>2, <1>3

(* What a turn that did not fail stores: its messages from the second on, the client's calls
   taken away, but for those it repeated at gap and for an answer without a call of ours at
   the end. *)
LEMMA HistoryStored ==
  ASSUME TypeOK, HistoryInv, pc \in Ended
  PROVE  \E m \in Nat, gap \in Nat :
           /\ m >= 1 /\ m <= Len(messages) /\ gap >= 2
           /\ \A i \in DOMAIN messages : Kept(messages[i]) <=> i \in (2..m) \ {gap}
           /\ TurnHistory = [n \in 1..Size(m, gap) |->
                               [messages[At(n, gap)] EXCEPT !.ext = <<>>]]
<1> DEFINE kept == {i \in DOMAIN messages : Kept(messages[i])}
           l == Len(messages)
<1>1. l \in Nat /\ DOMAIN messages = 1..l /\ messages # <<>>
  BY DEF TypeOK, HistoryInv, InOrder
<1>2. l >= 1
  BY <1>1, TypeOK DEF TypeOK
<1>3. PICK aside \in DOMAIN messages : SetAside(messages, aside, pc)
  BY DEF HistoryInv, InOrder
<1>4. ~Kept(messages[1])
  BY DEF Kept, HistoryInv, InOrder
<1>5. /\ ~Kept(messages[aside]) /\ aside \in 1..l
      /\ \A i \in 2..l : i = aside \/ Kept(messages[i]) \/ i = l
  BY <1>1, <1>3 DEF SetAside
<1> HIDE DEF l
<1>6. PICK m \in {l, l - 1} :
        /\ m \in Nat /\ m >= 1 /\ m <= l
        /\ \A i \in 1..l : Kept(messages[i]) <=> i \in (2..m) \ {aside}
  <2>1. CASE Kept(messages[l]) \/ l = 1
    <3>1. \A i \in 1..l : Kept(messages[i]) <=> i \in (2..l) \ {aside}
      BY <1>1, <1>2, <1>4, <1>5, <2>1
    <3> QED
      BY <1>1, <1>2, <3>1
  <2>2. CASE ~Kept(messages[l]) /\ l # 1
    <3>1. \A i \in 1..l : Kept(messages[i]) <=> i \in (2..(l - 1)) \ {aside}
      <4> SUFFICES ASSUME NEW i \in 1..l
                   PROVE  Kept(messages[i]) <=> i \in (2..(l - 1)) \ {aside}
        OBVIOUS
      <4>1. CASE i = 1 \/ i = l \/ i = aside
        <5>1. ~Kept(messages[i])
          BY <1>4, <1>5, <2>2, <4>1
        <5>2. i \notin (2..(l - 1)) \ {aside}
          BY <1>1, <4>1
        <5> QED
          BY <5>1, <5>2
      <4>2. CASE i # 1 /\ i # l /\ i # aside
        <5>1. i \in 2..l /\ i \in (2..(l - 1)) \ {aside}
          BY <1>1, <4>2
        <5> QED
          BY <1>5, <4>2, <5>1
      <4> QED
        BY <4>1, <4>2
    <3>2. l - 1 \in Nat /\ l - 1 >= 1 /\ l - 1 <= l
      BY <1>1, <1>2, <2>2
    <3> QED
      BY <3>1, <3>2
  <2> QED
    BY <2>1, <2>2
<1> DEFINE gap == IF aside = 1 THEN m + 1 ELSE aside
<1>7. gap \in Nat /\ gap >= 2 /\ (2..m) \ {gap} = (2..m) \ {aside}
  BY <1>1, <1>5, <1>6
<1> HIDE DEF gap
<1>8. \A i \in DOMAIN messages : Kept(messages[i]) <=> i \in (2..m) \ {gap}
  BY <1>1, <1>6, <1>7
<1>9. kept = (2..m) \ {gap}
  <2>1. (2..m) \ {gap} \subseteq DOMAIN messages
    BY <1>1, <1>6
  <2> QED
    BY <1>8, <2>1
<1>10. TurnHistory = [n \in 1..Cardinality(kept) |-> [messages[Nth(kept, n)] EXCEPT !.ext = <<>>]]
  BY DEF TurnHistory
<1> HIDE DEF kept
<1>11. TurnHistory = [n \in 1..Size(m, gap) |-> [messages[At(n, gap)] EXCEPT !.ext = <<>>]]
  BY <1>6, <1>7, <1>9, <1>10, NthOfGapped
<1> QED
  BY <1>6, <1>7, <1>8, <1>11 DEF l

(* It is well paired, has no call of the client's and, after an answer, no file. *)
LEMMA HistoryReplays == TypeOK /\ HistoryInv => ReplayableHistory
<1> SUFFICES ASSUME TypeOK, HistoryInv, persisted, ~failed
             PROVE  /\ WellPaired(SavedHistory)
                    /\ \A i \in DOMAIN SavedHistory :
                         /\ SavedHistory[i].ext = <<>>
                         /\ kind = "completed" => ~SavedHistory[i].bytes
  BY DEF ReplayableHistory
<1> DEFINE H == SavedHistory
<1>1. pc \in Ended
  BY DEF HistoryInv, Ended
<1>2. PICK m \in Nat, gap \in Nat :
           /\ m >= 1 /\ m <= Len(messages) /\ gap >= 2
           /\ \A i \in DOMAIN messages : Kept(messages[i]) <=> i \in (2..m) \ {gap}
           /\ TurnHistory = [n \in 1..Size(m, gap) |->
                               [messages[At(n, gap)] EXCEPT !.ext = <<>>]]
  BY <1>1, HistoryStored
<1> DEFINE sz == Size(m, gap)
           at(n) == At(n, gap)
<1>3. DOMAIN messages = 1..Len(messages) /\ Len(messages) \in Nat
  BY DEF TypeOK
<1>4. \A i \in DOMAIN messages : messages[i] \in Row
  BY DEF TypeOK
<1>5. /\ \A n \in 1..sz : at(n) \in (2..m) \ {gap} /\ at(n) \in DOMAIN messages
      /\ sz \in Int
  <2>1. \A n \in 1..sz : at(n) \in (2..m) \ {gap}
    BY <1>2, GapPlace
  <2>2. (2..m) \ {gap} \subseteq DOMAIN messages
    BY <1>2, <1>3
  <2> QED
    BY <2>1, <2>2 DEF Size
<1> HIDE DEF sz, at
<1>6. /\ DOMAIN TurnHistory = 1..sz
      /\ \A n \in 1..sz :
           /\ TurnHistory[n] = [messages[at(n)] EXCEPT !.ext = <<>>]
           /\ messages[at(n)] \in Row
  BY <1>2, <1>4, <1>5 DEF sz, at
<1>7. ASSUME NEW n \in 1..sz
      PROVE  /\ TurnHistory[n] \in Row
             /\ TurnHistory[n].role = messages[at(n)].role
             /\ TurnHistory[n].calls = messages[at(n)].calls
             /\ TurnHistory[n].id = messages[at(n)].id /\ TurnHistory[n].ext = <<>>
  <2> DEFINE r == messages[at(n)]
             s == [r EXCEPT !.ext = <<>>]
  <2>1. r \in Row /\ TurnHistory[n] = s /\ <<>> \in Seq(CallIds)
    BY <1>6
  <2> HIDE DEF r
  <2>2. s \in Row /\ s.role = r.role /\ s.calls = r.calls /\ s.id = r.id /\ s.ext = <<>>
    BY <2>1 DEF Row
  <2> QED
    BY <2>1, <2>2 DEF r
<1>8. kind = "completed" => Terminal
  BY <1>1 DEF HistoryInv
<1>9. /\ DOMAIN H = 1..sz
      /\ \A n \in 1..sz :
           /\ H[n].role = messages[at(n)].role /\ H[n].calls = messages[at(n)].calls
           /\ H[n].id = messages[at(n)].id /\ H[n].ext = <<>>
           /\ kind = "completed" => ~H[n].bytes
  <2>1. CASE Terminal
    <3>1. H = [i \in DOMAIN TurnHistory |-> [TurnHistory[i] EXCEPT !.bytes = FALSE]]
      BY <2>1 DEF SavedHistory
    <3>2. \A n \in 1..sz : H[n] = [TurnHistory[n] EXCEPT !.bytes = FALSE]
      BY <1>6, <3>1
    <3> HIDE DEF H
    <3> QED
      BY <1>6, <1>7, <3>1, <3>2 DEF Row
  <2>2. CASE ~Terminal
    <3>1. H = TurnHistory
      BY <2>2 DEF SavedHistory
    <3> QED
      BY <1>6, <1>7, <1>8, <2>2, <3>1
  <2> QED
    BY <2>1, <2>2
<1> HIDE DEF H
(* A call of ours has its results right after it in the messages, hence in the history. *)
<1>10. ASSUME NEW i \in 1..sz, messages[at(i)].role = "assistant",
              NEW k \in DOMAIN messages[at(i)].calls
       PROVE  /\ i + k \in 1..sz /\ at(i + k) = at(i) + k
              /\ messages[at(i) + k].role = "tool"
              /\ messages[at(i) + k].id = messages[at(i)].calls[k]
  <2> DEFINE a == at(i)
  <2>1. a \in DOMAIN messages /\ a \in Nat /\ a # gap
    BY <1>3, <1>5
  <2>2. AnsweredAt(messages, a)
    BY <1>1, <1>10, <2>1 DEF HistoryInv, InOrder, Ended
  <2> HIDE DEF a
  <2>3. messages[a] \in Row /\ k \in DOMAIN messages[a].calls
    BY <1>4, <1>10, <2>1 DEF a
  <2>4. k \in Nat /\ k >= 1 /\ \A j \in 1..k : j \in DOMAIN messages[a].calls
    <3>1. messages[a].calls \in Seq(CallIds)
      BY <2>3 DEF Row
    <3> QED
      BY <2>3, <3>1
  <2>5. \A j \in 1..k :
          /\ a + j \in DOMAIN messages /\ messages[a + j].role = "tool"
          /\ messages[a + j].id = messages[a].calls[j]
    BY <2>2, <2>4 DEF AnsweredAt
  <2>6. \A j \in 1..k : a + j \in (2..m) \ {gap}
    BY <1>2, <2>5 DEF Kept
  <2>7. k \in 1..k /\ a + k \in 2..m
    BY <2>4, <2>6
  <2>8. gap < a \/ gap > a + k
    <3>1. gap > a /\ gap <= a + k => gap - a \in 1..k /\ a + (gap - a) = gap
      BY <2>1, <2>4
    <3> QED
      BY <2>1, <2>4, <2>6, <3>1
  <2>9. i + k \in 1..sz /\ at(i + k) = a + k
    <3>1. i \in 1..Size(m, gap) /\ At(i, gap) = a
      BY DEF sz, at, a
    <3>2. At(i, gap) + k <= m /\ (gap < At(i, gap) \/ gap > At(i, gap) + k)
      BY <2>1, <2>4, <2>7, <2>8, <3>1
    <3> QED
      BY <1>2, <2>4, <3>1, <3>2, GapShift DEF sz, at
  <2> QED
    BY <2>5, <2>7, <2>9 DEF a
<1>11. ASSUME NEW i \in DOMAIN H, H[i].role = "assistant", NEW k \in DOMAIN H[i].calls
       PROVE  i + k \in DOMAIN H /\ H[i + k].role = "tool" /\ H[i + k].id = H[i].calls[k]
  BY <1>9, <1>10, <1>11
<1>12. ASSUME NEW j \in DOMAIN H, H[j].role = "tool", ~IsExternal(H[j].id)
       PROVE  \E i \in DOMAIN H :
                /\ H[i].role = "assistant"
                /\ \E k \in DOMAIN H[i].calls : j = i + k /\ H[j].id = H[i].calls[k]
  <2>1. /\ j \in 1..sz /\ at(j) \in DOMAIN messages /\ messages[at(j)].role = "tool"
        /\ messages[at(j)].id = H[j].id
    BY <1>5, <1>9, <1>12
  <2>2. AnswersAt(messages, at(j))
    BY <1>12, <2>1 DEF HistoryInv, InOrder
  <2>3. PICK a \in DOMAIN messages :
          /\ messages[a].role = "assistant"
          /\ \E k \in DOMAIN messages[a].calls :
               at(j) = a + k /\ messages[at(j)].id = messages[a].calls[k]
    BY <2>2 DEF AnswersAt
  <2>4. PICK k \in DOMAIN messages[a].calls :
               at(j) = a + k /\ messages[at(j)].id = messages[a].calls[k]
    BY <2>3
  <2>5. k \in Nat /\ messages[a].calls # <<>>
    BY <1>4, <2>3 DEF Row
  <2>6. a \in (2..m) \ {gap}
    BY <1>2, <2>3, <2>5 DEF Kept
  <2>7. PICK i \in 1..sz : at(i) = a
    BY <1>2, <2>6, GapPlace DEF sz, at
  <2>8. i + k \in 1..sz /\ at(i + k) = a + k
    BY <1>10, <2>3, <2>4, <2>7
  <2>9. j = i + k
    <3>1. j \in Nat /\ i + k \in Nat /\ at(j) = at(i + k)
      BY <1>5, <2>1, <2>4, <2>8
    <3> QED
      BY <1>2, <3>1, GapPlace DEF at
  <2>10. H[i].role = "assistant" /\ H[i].calls = messages[a].calls /\ i \in DOMAIN H
    BY <1>9, <2>3, <2>7
  <2> QED
    BY <2>1, <2>4, <2>9, <2>10
<1>13. WellPaired(H)
  BY <1>11, <1>12 DEF WellPaired
<1> QED
  BY <1>9, <1>13 DEF H

(* The history stored by a turn that did not fail replays: each call is answered right after
   its message, each result answers one unless it is the client's, there is no call of the
   client's and, after an answer, no file (orchestrator.py _persisting_state,
   _build_tool_execution_history). *)
THEOREM HistoryIsReplayable == Spec => []ReplayableHistory
<1>1. Init => TypeOK /\ HistoryInv
  BY InitTypeOK, InitHistory
<1>2. TypeOK /\ HistoryInv /\ [Next]_vars => (TypeOK /\ HistoryInv)'
  BY NextTypeOK, NextHistory
<1> QED
  BY <1>1, <1>2, HistoryReplays, PTL DEF Spec

=============================================================================
