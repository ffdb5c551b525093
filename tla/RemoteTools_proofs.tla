-------------------------- MODULE RemoteTools_proofs --------------------------
(***************************************************************************)
(* Proofs about RemoteTools for every request, set of urls and number of   *)
(* sessions: what code finds in its session, and whose HTTP client a call  *)
(* of the interpreter works with.                                          *)
(***************************************************************************)
EXTENDS RemoteTools, TLAPS, FiniteSetTheorems, WellFoundedInduction

-----------------------------------------------------------------------------
(* The inductive invariant. *)

(* The awaits of the interpreter's tool. *)
InterpreterPlaces == {"check", "open", "list", "transfer", "execute", "publish"}

PlacesInv == \A c \in Calls : at[c] \in InterpreterPlaces => c \in Pythons

(* A client is of a call that began; calls that work together are all known to overlap, so
   the client of one that does not is the one that is there, and is open. *)
ClientInv ==
  /\ \A c \in current \cup closed : at[c] # "start"
  /\ \A c, d \in Working \cap Calls : c # d => c \in overlapped
  /\ \A c \in (Working \cap Calls) \ overlapped : current = {c} /\ c \notin closed
  /\ AloneKeepsItsClient

Opened(s) == s \in 1..MaxSessions /\ service[s].is # "unused"

(* A session that is remembered or worked in was opened once. *)
SessionInv ==
  /\ saved # 0 => Opened(saved)
  /\ script.session # 0 => Opened(script.session)
  /\ \A c \in Calls : at[c] \in {"check", "list", "transfer", "execute"} => Opened(session[c])

(* The session of call c is gone, or has file f. *)
Present(c, f) ==
  service[session[c]].is = "gone" \/ Name(f) \in service[session[c]].files

(* What is in transfer[c] is of a call that began; a file without a task, or one that was
   put, is in the session. *)
TransferInv ==
  /\ \A c \in Calls, f \in Attachments :
       /\ transfer[c][f] # "none" => at[c] # "start"
       /\ transfer[c][f] # "none" => c \in Pythons
       /\ transfer[c][f] = "promote" => f \in Urls /\ link[c][f] # "none"
       /\ /\ c \in Pythons /\ at[c] = "transfer" /\ f \in ToSet(Job(c).inputs)
          /\ transfer[c][f] \in {"none", "in"}
          => Present(c, f)
  /\ \A c \in Pythons \cap Calls : at[c] = "execute" =>
       \A f \in ToSet(Job(c).inputs) : Present(c, f)

LinkStates == {"none", "waiting", "done"} \cup Broken

(* TypeOK without what the promotions keep of their fetches, which no call reads. *)
Typed ==
  /\ script \in Scripts
  /\ TaskTypeOK
  /\ link \in [Calls -> [Urls -> LinkStates]]
  /\ InterpreterTypeOK

IInv == Typed /\ PlacesInv /\ ClientInv /\ SessionInv /\ TransferInv

-----------------------------------------------------------------------------
(* Calls and their tasks. *)

Outcomes == {"ok", "cancelled", "invalid", "error", "timeout"}

(* The task of call c goes on to a place, or ends: the others stay where they are. *)
Goes(c, place) ==
  /\ TaskTypeOK'
  /\ at'[c] = place
  /\ \A d \in Calls : d # c => at'[d] = at[d]

LEMMA PythonsAreCalls ==
  ASSUME Typed
  PROVE  /\ Requested \subseteq Calls /\ Pythons \subseteq Calls
         /\ \A c \in Requested : Job(c).inputs \in Seq(Attachments)
         /\ \A f \in Attachments : Name(f) \in STRING
BY InterpreterAssumption DEF Typed, Pythons, Requested, Job, Attachments, Name

LEMMA SameJobs ==
  ASSUME script' = script
  PROVE  /\ Pythons' = Pythons /\ Requested' = Requested
         /\ \A c : Job(c)' = Job(c)
BY DEF Pythons, Requested, Job

(* A tool that ends has an answer, whatever its strategies are (process_fallback). *)
LEMMA AnswerType ==
  ASSUME NEW c, NEW outcome \in Outcomes
  PROVE  Answer(c, outcome) \in Answers \ {"none"}
<1>1. CASE outcome \in {"ok", "cancelled", "invalid"}
  BY <1>1 DEF Answer, Answers
<1>2. CASE outcome \in {"error", "timeout"}
  BY <1>2 DEF Answer, Answers, Fallback
<1> QED
  BY <1>1, <1>2 DEF Outcomes

LEMMA SettleGoes ==
  ASSUME TaskTypeOK, NEW c \in Calls, NEW outcome \in Outcomes, Settle(c, outcome)
  PROVE  Goes(c, "done")
BY AnswerType DEF Settle, Goes, TaskTypeOK

Places == InterpreterPlaces \cup {"history", "promote", "expired", "model", "auth", "request", "attach"}

LEMMA MoveGoes ==
  ASSUME TaskTypeOK, NEW c \in Calls, NEW place \in Places, at[c] # "done", MoveTo(c, place)
  PROVE  Goes(c, place)
BY DEF MoveTo, Goes, TaskTypeOK, Places, InterpreterPlaces

-----------------------------------------------------------------------------
(* What disturbs no call of the interpreter. *)

(* Tasks of other tools, and promotions. *)
LEMMA OthersKeepIInv ==
  ASSUME IInv, UNCHANGED <<script, interpreter>>, TaskTypeOK',
         link' \in [Calls -> [Urls -> LinkStates]],
         \A d \in Pythons : at'[d] = at[d],
         \A d \in Calls \ Pythons :
           at'[d] \notin InterpreterPlaces /\ (at'[d] = "start" => at[d] = "start"),
         \A d \in Pythons, x \in Urls : link[d][x] # "none" => link'[d][x] # "none"
  PROVE  IInv'
<1>1. /\ Pythons' = Pythons /\ Requested' = Requested /\ \A c : Job(c)' = Job(c)
      /\ Pythons \subseteq Calls
  BY SameJobs, PythonsAreCalls DEF IInv
<1>2. Typed'
  BY DEF IInv, Typed, InterpreterTypeOK, interpreter, LinkStates
<1>3. PlacesInv'
  BY <1>1 DEF IInv, PlacesInv
<1>4. ClientInv'
  <2>1. Working' = Working
    BY <1>1 DEF Working
  <2>2. \A c \in current' \cup closed' : at'[c] # "start"
    BY <1>1 DEF IInv, ClientInv, interpreter, Typed, InterpreterTypeOK
  <2> QED
    BY <2>1, <2>2 DEF IInv, ClientInv, AloneKeepsItsClient, interpreter
<1>5. SessionInv'
  BY <1>1 DEF IInv, SessionInv, PlacesInv, InterpreterPlaces, Opened, interpreter
<1>6. TransferInv'
  <2>1. \A c, f : Present(c, f)' = Present(c, f)
    BY DEF Present, Name, interpreter
  <2>2. ASSUME NEW c \in Calls, NEW f \in Attachments, transfer[c][f] = "promote"
        PROVE  link'[c][f] # "none"
    <3>1. c \in Pythons /\ f \in Urls /\ link[c][f] # "none"
      BY <2>2 DEF IInv, TransferInv
    <3> QED
      BY <3>1
  <2>3. transfer' = transfer
    BY DEF interpreter
  <2> QED
    BY <1>1, <2>1, <2>2, <2>3 DEF IInv, TransferInv, PlacesInv, InterpreterPlaces
<1> QED
  BY <1>2, <1>3, <1>4, <1>5, <1>6 DEF IInv

-----------------------------------------------------------------------------
(* The tools that share only the promotions. *)

LEMMA ToldType ==
  ASSUME NEW x
  PROVE  Told(promo[x]) \in LinkStates \ {"none"}
BY DEF Told, LinkStates, Broken

(* A promotion that ends tells those who wait for it. *)
LEMMA PromotionsEndTell ==
  ASSUME IInv, NEW xs, NEW how \in LinkStates \ {"none"}, PromotionsEnd(xs, how)
  PROVE  /\ link' \in [Calls -> [Urls -> LinkStates]]
         /\ \A d \in Calls, x \in Urls : link[d][x] # "none" => link'[d][x] # "none"
BY DEF IInv, Typed, PromotionsEnd, LinkStates

LEMMA PromotionStepKeepsIInv ==
  ASSUME IInv, NEW x \in Urls, Promoting(x)
  PROVE  IInv'
<1>1. /\ UNCHANGED <<script, interpreter>> /\ task' = task
      /\ PromotionStep(x)
  BY DEF Promoting, PromotionStep, UrlFetched, UploadStored, UploadReturns, PromotionDropped
<1>2. /\ link' \in [Calls -> [Urls -> LinkStates]]
      /\ \A d \in Calls, y \in Urls : link[d][y] # "none" => link'[d][y] # "none"
  <2>1. CASE \E how \in {"invalid", "done", "error"} : PromotionsEnd({x}, how)
    <3>1. PICK how \in {"invalid", "done", "error"} : PromotionsEnd({x}, how)
      BY <2>1
    <3> QED
      BY <3>1, PromotionsEndTell DEF LinkStates, Broken
  <2>2. CASE link' = link
    BY <2>2 DEF IInv, Typed
  <2> QED
    BY <1>1, <2>1, <2>2
    DEF PromotionStep, UrlFetched, UploadStored, UploadReturns, PromotionDropped
<1>3. TaskTypeOK'
  BY <1>1 DEF IInv, Typed, TaskTypeOK, task
<1>4. Pythons \subseteq Calls
  BY PythonsAreCalls DEF IInv
<1> QED
  BY <1>1, <1>2, <1>3, <1>4, OthersKeepIInv DEF IInv, PlacesInv, task

(* A call of another tool went on. *)
LEMMA OtherCallGoesOn ==
  ASSUME IInv, NEW c \in Calls, c \notin Pythons, UNCHANGED <<script, interpreter>>,
         NEW place, place \notin InterpreterPlaces \cup {"start"}, Goes(c, place),
         link' \in [Calls -> [Urls -> LinkStates]],
         \A d \in Pythons, x \in Urls : link[d][x] # "none" => link'[d][x] # "none"
  PROVE  IInv'
<1>1. Pythons \subseteq Calls
  BY PythonsAreCalls DEF IInv
<1>2. \A d \in Calls \ Pythons :
        at'[d] \notin InterpreterPlaces /\ (at'[d] = "start" => at[d] = "start")
  BY DEF Goes, IInv, PlacesInv
<1> QED
  BY <1>1, <1>2, OthersKeepIInv DEF Goes

LEMMA RestStepKeepsIInv ==
  ASSUME IInv, NEW c \in Calls, Requesting(c)
  PROVE  IInv'
<1>1. c \notin Pythons /\ TaskTypeOK /\ link \in [Calls -> [Urls -> LinkStates]]
  BY DEF Requesting, RestStep, Rest, Pythons, IInv, Typed
<1>2. \E place \in {"auth", "request", "attach", "done"} : Goes(c, place)
  <2>1. ASSUME NEW place \in {"auth", "request", "attach"}, MoveTo(c, place),
               at[c] \in {"start", "auth", "request"}
        PROVE  Goes(c, place)
    BY <1>1, <2>1, MoveGoes DEF Places
  <2>2. ASSUME NEW outcome \in {"ok", "error", "timeout"}, Settle(c, outcome)
        PROVE  Goes(c, "done")
    BY <1>1, <2>2, SettleGoes DEF Outcomes
  <2>3. CASE BeginRest(c)
    BY <2>1, <2>2, <2>3 DEF BeginRest
  <2>4. CASE TokenFetched(c)
    BY <2>1, <2>2, <2>4 DEF TokenFetched
  <2>5. CASE Responds(c)
    BY <2>1, <2>2, <2>5 DEF Responds
  <2>6. CASE ResponseStored(c)
    BY <2>2, <2>6 DEF ResponseStored
  <2> QED
    BY <2>3, <2>4, <2>5, <2>6 DEF Requesting, RestStep
<1>3. UNCHANGED <<script, interpreter>> /\ link' = link
  BY DEF Requesting, promotions
<1> QED
  BY <1>1, <1>2, <1>3, OtherCallGoesOn DEF InterpreterPlaces

LEMMA AskStepKeepsIInv ==
  ASSUME IInv, NEW c \in Calls, Asking(c)
  PROVE  IInv'
<1>1. /\ c \notin Pythons /\ TaskTypeOK /\ link \in [Calls -> [Urls -> LinkStates]]
      /\ UNCHANGED interpreter /\ AskStep(c) /\ Pythons \subseteq Calls
  BY PythonsAreCalls DEF Asking, AskStep, Pythons, IInv, Typed
<1>2. ASSUME NEW outcome \in Outcomes, Settle(c, outcome), UNCHANGED <<script, promotions>>
      PROVE  IInv'
  BY <1>1, <1>2, SettleGoes, OtherCallGoesOn DEF InterpreterPlaces, promotions
<1>3. ASSUME NEW i, Gather(c, i), at[c] # "done"
      PROVE  IInv'
  <2>1. \E place \in {"history", "model", "promote"} : MoveTo(c, place)
    BY <1>3 DEF Gather
  <2>2. \E place \in {"history", "model", "promote"} : Goes(c, place)
    BY <1>1, <1>3, <2>1, MoveGoes DEF Places
  <2>3. PICK links : link' = [link EXCEPT ![c] =
                          [x \in Urls |-> IF x \in links THEN Told(promo[x]) ELSE "none"]]
    BY <1>3 DEF Gather
  <2>4. \A x \in Urls : Told(promo[x]) \in LinkStates
    BY ToldType
  <2>5. link' \in [Calls -> [Urls -> LinkStates]]
    <3>1. [x \in Urls |-> IF x \in links THEN Told(promo[x]) ELSE "none"] \in [Urls -> LinkStates]
      BY <2>4 DEF LinkStates
    <3> QED
      BY <1>1, <2>3, <3>1
  <2>6. \A d \in Pythons, x \in Urls : link[d][x] # "none" => link'[d][x] # "none"
    BY <1>1, <2>3
  <2>7. script' = script
    BY <1>3 DEF Gather
  <2> QED
    BY <1>1, <2>2, <2>5, <2>6, <2>7, OtherCallGoesOn DEF InterpreterPlaces
<1>4. CASE BeginAsk(c)
  BY <1>3, <1>4 DEF BeginAsk
<1>5. CASE LinksResolved(c)
  <2>1. ASSUME NEW x \in Links(c), link[c][x] \in Broken, Settle(c, link[c][x]),
               UNCHANGED <<script, promotions>>
        PROVE  IInv'
    BY <1>2, <2>1 DEF Broken, Outcomes
  <2>2. ASSUME MoveTo(c, "model"), UNCHANGED <<script, promotions>>, at[c] # "done"
        PROVE  IInv'
    <3>1. Goes(c, "model")
      BY <1>1, <2>2, MoveGoes DEF Places
    <3> QED
      BY <1>1, <2>2, <3>1, OtherCallGoesOn DEF InterpreterPlaces, promotions
  <2> QED
    BY <1>3, <1>5, <2>1, <2>2 DEF LinksResolved
<1>6. CASE AskTimesOut(c)
  <2>1. Goes(c, "expired") /\ UNCHANGED <<script, interpreter>>
    BY <1>1, <1>6, MoveGoes DEF AskTimesOut, Places
  <2>2. /\ link' \in [Calls -> [Urls -> LinkStates]]
        /\ \A d \in Calls, x \in Urls : link[d][x] # "none" => link'[d][x] # "none"
    BY <1>6, PromotionsEndTell DEF AskTimesOut, LinkStates, Broken
  <2> QED
    BY <1>1, <2>1, <2>2, OtherCallGoesOn DEF InterpreterPlaces
<1>7. CASE AskExpired(c)
  BY <1>2, <1>7 DEF AskExpired, Outcomes
<1>8. CASE ModelAnswers(c)
  BY <1>2, <1>8 DEF ModelAnswers, Outcomes
<1> QED
  BY <1>1, <1>4, <1>5, <1>6, <1>7, <1>8 DEF AskStep

-----------------------------------------------------------------------------
(* The interpreter's tool: its client. *)

(* A call that was there went on, or ended and closed the client there was. *)
LEMMA ClientGoesOn ==
  ASSUME IInv, NEW c \in Pythons, at[c] \in InterpreterPlaces, UNCHANGED <<script, entries>>,
         NEW place \in InterpreterPlaces \cup {"done"}, Goes(c, place),
         closed' = closed \/ (place = "done" /\ closed' = closed \cup current),
         stranded' = stranded \/ (stranded' = stranded \cup {c} /\ current \subseteq closed)
  PROVE  /\ PlacesInv' /\ ClientInv'
         /\ current' \subseteq Calls /\ overlapped' \subseteq Calls
         /\ closed' \subseteq Calls /\ stranded' \subseteq Calls
<1>1. /\ Pythons' = Pythons /\ Pythons \subseteq Calls
      /\ current \subseteq Calls /\ closed \subseteq Calls /\ stranded \subseteq Calls
      /\ overlapped \subseteq Calls /\ current' = current /\ overlapped' = overlapped
  BY SameJobs, PythonsAreCalls DEF IInv, Typed, InterpreterTypeOK, entries
<1>2. PlacesInv'
  BY <1>1 DEF IInv, PlacesInv, Goes
<1>3. c \in Working /\ Working' \subseteq Working /\ (place = "done" => c \notin Working')
  BY <1>1 DEF Working, Goes, InterpreterPlaces
<1>4. \A d \in current' \cup closed' : at'[d] # "start"
  BY <1>1 DEF IInv, ClientInv, Goes, InterpreterPlaces
<1>5. \A d \in (Working' \cap Calls) \ overlapped' : current' = {d} /\ d \notin closed'
  <2>1. ASSUME NEW d \in (Working' \cap Calls) \ overlapped
        PROVE  current = {d} /\ d \notin closed'
    <3>1. current = {d} /\ d \notin closed
      BY <1>3, <2>1 DEF IInv, ClientInv
    <3>2. d = c
      BY <1>1, <1>3, <2>1 DEF IInv, ClientInv
    <3> QED
      BY <1>3, <2>1, <3>1, <3>2
  <2> QED
    BY <1>1, <2>1
<1>6. AloneKeepsItsClient'
  <2>1. ASSUME current \subseteq closed PROVE c \in overlapped
    BY <1>1, <1>3, <2>1 DEF IInv, ClientInv
  <2> QED
    BY <1>1, <2>1 DEF IInv, ClientInv, AloneKeepsItsClient
<1>7. ClientInv'
  BY <1>1, <1>3, <1>4, <1>5, <1>6 DEF IInv, ClientInv
<1> QED
  BY <1>1, <1>2, <1>7

(* A call begins with a client of its own. *)
LEMMA ClientBegins ==
  ASSUME IInv, NEW c \in Pythons, at[c] = "start", script' = script,
         NEW place \in InterpreterPlaces, Goes(c, place),
         current' = {c}, closed' = closed, stranded' = stranded,
         overlapped' = IF Working = {} THEN overlapped ELSE overlapped \cup Working \cup {c}
  PROVE  PlacesInv' /\ ClientInv' /\ overlapped' \subseteq Calls
<1>1. /\ Pythons' = Pythons /\ Pythons \subseteq Calls
      /\ closed \subseteq Calls /\ overlapped \subseteq Calls /\ Working \subseteq Pythons
  BY SameJobs, PythonsAreCalls DEF IInv, Typed, InterpreterTypeOK, Working
<1>2. PlacesInv'
  BY <1>1 DEF IInv, PlacesInv, Goes
<1>3. Working' = Working \cup {c}
  BY <1>1 DEF Working, Goes, InterpreterPlaces
<1>4. c \notin closed
  BY DEF IInv, ClientInv
<1>5. \A d \in current' \cup closed' : at'[d] # "start"
  BY <1>1 DEF IInv, ClientInv, Goes, InterpreterPlaces
<1>6. ClientInv'
  BY <1>1, <1>3, <1>4, <1>5 DEF IInv, ClientInv, AloneKeepsItsClient
<1> QED
  BY <1>1, <1>2, <1>6

-----------------------------------------------------------------------------
(* The interpreter's tool: sessions and their files. *)

(* A session of the service keeps its files until it is gone. *)
Grown ==
  \A s \in 1..MaxSessions : Opened(s) =>
    /\ Opened(s)'
    /\ \/ service'[s].is = "gone"
       \/ service'[s].is = service[s].is /\ service[s].files \subseteq service'[s].files

LEMMA PresentKept ==
  ASSUME Grown, script' = script, NEW c, NEW f, session'[c] = session[c], Opened(session[c]),
         Present(c, f)
  PROVE  Present(c, f)' /\ Opened(session[c])'
BY DEF Grown, Present, Opened, Name

(* A step of call c that leaves the sessions and transfers of the others alone. *)
LEMMA SessionGoesOn ==
  ASSUME IInv, NEW c \in Pythons, UNCHANGED <<script, link>>, Grown,
         NEW place, Goes(c, place), place # "start",
         \A d \in Calls : d # c => session'[d] = session[d] /\ transfer'[d] = transfer[d],
         saved' # 0 => Opened(saved)',
         place \in {"check", "list", "transfer", "execute"} => Opened(session[c])',
         \A f \in Attachments : transfer'[c][f] # "promote" \/ transfer'[c][f] = transfer[c][f],
         ASSUME NEW f \in ToSet(Job(c).inputs), f \in Attachments, place = "transfer",
                transfer'[c][f] \in {"none", "in"}
         PROVE  Present(c, f)',
         ASSUME NEW f \in ToSet(Job(c).inputs), f \in Attachments, place = "execute"
         PROVE  Present(c, f)'
  PROVE  SessionInv' /\ TransferInv'
<1>1. /\ Pythons' = Pythons /\ Pythons \subseteq Calls /\ \A d : Job(d)' = Job(d)
      /\ \A d \in Pythons : ToSet(Job(d).inputs) \subseteq Attachments
  <2>1. \A d \in Pythons : Job(d).inputs \in Seq(Attachments)
    BY PythonsAreCalls DEF IInv, Pythons
  <2> QED
    BY <2>1, SameJobs, PythonsAreCalls DEF IInv, ToSet
<1>2. SessionInv'
  <2>1. script.session # 0 => Opened(script.session)'
    BY DEF IInv, SessionInv, Grown, Opened
  <2>2. ASSUME NEW d \in Calls, d # c, at'[d] \in {"check", "list", "transfer", "execute"}
        PROVE  Opened(session[d])'
    <3>1. Opened(session[d]) /\ session'[d] = session[d]
      BY <2>2 DEF Goes, IInv, SessionInv
    <3> QED
      BY <3>1 DEF Grown, Opened
  <2> QED
    BY <1>1, <2>1, <2>2 DEF SessionInv, Goes
<1>3. ASSUME NEW d \in Calls, NEW f \in Attachments, d # c
      PROVE  /\ transfer'[d][f] # "none" => at'[d] # "start"
             /\ transfer'[d][f] # "none" => d \in Pythons'
             /\ transfer'[d][f] = "promote" => f \in Urls /\ link'[d][f] # "none"
             /\ /\ d \in Pythons' /\ at'[d] = "transfer" /\ f \in ToSet(Job(d).inputs)'
                /\ transfer'[d][f] \in {"none", "in"}
                => Present(d, f)'
  <2>1. /\ transfer[d][f] # "none" => at[d] # "start"
        /\ transfer[d][f] # "none" => d \in Pythons
        /\ transfer[d][f] = "promote" => f \in Urls /\ link[d][f] # "none"
        /\ /\ d \in Pythons /\ at[d] = "transfer" /\ f \in ToSet(Job(d).inputs)
           /\ transfer[d][f] \in {"none", "in"}
           => Present(d, f)
    BY DEF IInv, TransferInv
  <2>2. /\ at'[d] = at[d] /\ session'[d] = session[d] /\ transfer'[d] = transfer[d]
        /\ link' = link
        /\ at[d] = "transfer" => Opened(session[d])
    BY <1>3 DEF Goes, IInv, SessionInv
  <2> QED
    BY <1>1, <2>1, <2>2, PresentKept
<1>4. ASSUME NEW f \in Attachments
      PROVE  /\ transfer'[c][f] # "none" => at'[c] # "start"
             /\ transfer'[c][f] # "none" => c \in Pythons'
             /\ transfer'[c][f] = "promote" => f \in Urls /\ link'[c][f] # "none"
             /\ /\ c \in Pythons' /\ at'[c] = "transfer" /\ f \in ToSet(Job(c).inputs)'
                /\ transfer'[c][f] \in {"none", "in"}
                => Present(c, f)'
  <2>1. transfer[c][f] = "promote" => f \in Urls /\ link[c][f] # "none"
    BY <1>1 DEF IInv, TransferInv
  <2> QED
    BY <1>1, <2>1 DEF Goes
<1>5. ASSUME NEW d \in Pythons \cap Calls, at'[d] = "execute", NEW f \in ToSet(Job(d).inputs)
      PROVE  Present(d, f)'
  <2>1. CASE d = c
    BY <1>1, <1>5, <2>1 DEF Goes
  <2>2. CASE d # c
    <3>1. /\ at[d] = "execute" /\ session'[d] = session[d]
          /\ Opened(session[d]) /\ Present(d, f)
      BY <1>5, <2>2 DEF Goes, IInv, SessionInv, TransferInv
    <3> QED
      BY <3>1, PresentKept
  <2> QED
    BY <2>1, <2>2
<1>6. TransferInv'
  <2>1. \A d : ToSet(Job(d).inputs)' = ToSet(Job(d).inputs)
    BY <1>1 DEF ToSet
  <2> QED
    BY <1>1, <1>3, <1>4, <1>5, <2>1 DEF TransferInv
<1> QED
  BY <1>2, <1>6

-----------------------------------------------------------------------------
(* The steps of the interpreter's tool. *)

LEMMA EndGoes ==
  ASSUME IInv, NEW c \in Calls, NEW outcome \in Outcomes, End(c, outcome)
  PROVE  Goes(c, "done") /\ closed' = closed \cup current
BY SettleGoes DEF IInv, Typed, End

(* A request is sent, or the call ends because its client is closed. *)
LEMMA SendGoes ==
  ASSUME IInv, NEW c \in Calls, NEW place \in InterpreterPlaces, NEW client,
         at[c] # "done", Send(c, place, client)
  PROVE  /\ closed' = closed
         /\ \/ Goes(c, place) /\ stranded' = stranded /\ ~(client \subseteq closed)
            \/ /\ Goes(c, "done") /\ client \subseteq closed
               /\ stranded' = stranded \cup {c}
<1>1. TaskTypeOK
  BY DEF IInv, Typed
<1>2. CASE client \subseteq closed
  BY <1>1, <1>2, SettleGoes DEF Send, Outcomes
<1>3. CASE ~(client \subseteq closed)
  BY <1>1, <1>3, MoveGoes DEF Send, Places
<1> QED
  BY <1>2, <1>3

(* A step of a call that is under way, and leaves the sessions and transfers of the others
   alone. *)
LEMMA PythonGoesOn ==
  ASSUME IInv, NEW c \in Pythons, at[c] \in InterpreterPlaces, UNCHANGED <<script, entries, link>>,
         NEW place \in InterpreterPlaces \cup {"done"}, Goes(c, place),
         closed' = closed \/ (place = "done" /\ closed' = closed \cup current),
         stranded' = stranded \/ (stranded' = stranded \cup {c} /\ current \subseteq closed),
         Grown, InterpreterTypeOK',
         \A d \in Calls : d # c => session'[d] = session[d] /\ transfer'[d] = transfer[d],
         saved' # 0 => Opened(saved)',
         place \in {"check", "list", "transfer", "execute"} => Opened(session[c])',
         \A f \in Attachments : transfer'[c][f] # "promote" \/ transfer'[c][f] = transfer[c][f],
         ASSUME NEW f \in ToSet(Job(c).inputs), f \in Attachments, place = "transfer",
                transfer'[c][f] \in {"none", "in"}
         PROVE  Present(c, f)',
         ASSUME NEW f \in ToSet(Job(c).inputs), f \in Attachments, place = "execute"
         PROVE  Present(c, f)'
  PROVE  IInv'
<1>1. PlacesInv' /\ ClientInv'
  BY ClientGoesOn
<1>2. SessionInv' /\ TransferInv'
  BY SessionGoesOn DEF InterpreterPlaces
<1>3. Typed'
  BY DEF Typed, IInv, Goes
<1> QED
  BY <1>1, <1>2, <1>3 DEF IInv

LEMMA ServiceStays ==
  ASSUME UNCHANGED <<script, service>>
  PROVE  Grown /\ \A s : Opened(s)' = Opened(s)
BY DEF Grown, Opened

(* A step that changes the place of a call and the clients only. *)
LEMMA PlaceGoesOn ==
  ASSUME IInv, NEW c \in Pythons, at[c] \in InterpreterPlaces, UNCHANGED <<script, entries, link>>,
         UNCHANGED <<session, sessions, service, transfer>>,
         NEW place \in {"open", "publish", "execute", "done"}, Goes(c, place),
         closed' = closed \/ (place = "done" /\ closed' = closed \cup current),
         stranded' = stranded \/ (stranded' = stranded \cup {c} /\ current \subseteq closed),
         place = "execute" => /\ Opened(session[c])
                              /\ \A f \in ToSet(Job(c).inputs) : Present(c, f)
  PROVE  IInv'
<1>1. Pythons \subseteq Calls
  BY PythonsAreCalls DEF IInv
<1>2. Grown /\ \A s : Opened(s)' = Opened(s)
  BY ServiceStays
<1>3. \A f : Present(c, f)' = Present(c, f)
  BY DEF Present, Name
<1>4. InterpreterTypeOK'
  <2>1. closed' \subseteq Calls /\ stranded' \subseteq Calls
    BY <1>1 DEF IInv, Typed, InterpreterTypeOK
  <2> QED
    BY <2>1 DEF IInv, Typed, InterpreterTypeOK, sessions, entries
<1>5. saved' # 0 => Opened(saved)'
  BY <1>2 DEF IInv, SessionInv, sessions, Opened
<1>6. place \in {"check", "list", "transfer", "execute"} => Opened(session[c])'
  BY DEF Opened
<1>7. place \in InterpreterPlaces \cup {"done"} /\ place # "transfer"
  BY DEF InterpreterPlaces
<1>8. \A d \in Calls : d # c => session'[d] = session[d] /\ transfer'[d] = transfer[d]
  OBVIOUS
<1>9. \A f \in Attachments : transfer'[c][f] # "promote" \/ transfer'[c][f] = transfer[c][f]
  OBVIOUS
<1>10. ASSUME NEW f \in ToSet(Job(c).inputs), place = "execute" PROVE Present(c, f)'
  BY <1>3, <1>10
<1> QED
  BY <1>2, <1>4, <1>5, <1>6, <1>7, <1>8, <1>9, <1>10, PythonGoesOn

LEMMA BeginPythonKeepsIInv ==
  ASSUME IInv, NEW c \in Calls, c \in Requested, BeginPython(c)
  PROVE  IInv'
<1>1. /\ c \in Pythons /\ Pythons \subseteq Calls /\ at[c] = "start"
      /\ UNCHANGED <<script, promotions, sessions, service, transfer>>
  BY PythonsAreCalls DEF IInv, BeginPython, Pythons
<1>2. Known \in 0..MaxSessions /\ (Known # 0 => Opened(Known))
  BY InterpreterAssumption DEF Known, IInv, Typed, InterpreterTypeOK, SessionInv
<1>3. PICK place \in {"open", "check", "execute", "list"} :
        /\ Send(c, place, {c})
        /\ place # "open" => Known # 0
        /\ place = "execute" => Job(c).inputs = <<>>
  BY DEF BeginPython, NextPlace, Entered, IInv, Typed, InterpreterTypeOK
<1>4. Goes(c, place) /\ closed' = closed /\ stranded' = stranded
  <2>1. c \notin closed
    BY <1>1 DEF IInv, ClientInv
  <2> QED
    BY <1>1, <1>3, <2>1, SendGoes DEF InterpreterPlaces
<1>5. PlacesInv' /\ ClientInv' /\ overlapped' \subseteq Calls
  BY <1>1, <1>4, ClientBegins DEF BeginPython, Entered, InterpreterPlaces
<1>6. Grown /\ \A s : Opened(s)' = Opened(s)
  BY <1>1, ServiceStays
<1>7. session' = [session EXCEPT ![c] = Known] /\ session \in [Calls -> 0..MaxSessions]
  BY DEF BeginPython, IInv, Typed, InterpreterTypeOK
<1>8. Typed'
  <2>1. current' = {c} /\ session' \in [Calls -> 0..MaxSessions]
    BY <1>2, <1>7 DEF BeginPython, Entered
  <2> QED
    BY <1>1, <1>4, <1>5, <2>1
    DEF IInv, Typed, Goes, InterpreterTypeOK, promotions, sessions
<1>9. SessionInv' /\ TransferInv'
  <2>1. place \in {"check", "list", "transfer", "execute"} => Opened(session[c])'
    BY <1>1, <1>2, <1>3, <1>6, <1>7 DEF Opened
  <2>2. saved' # 0 => Opened(saved)'
    BY <1>1, <1>6 DEF IInv, SessionInv, sessions, Opened
  <2>3. link' = link /\ place # "transfer" /\ place # "start"
    BY <1>1, <1>3 DEF promotions
  <2>4. \A d \in Calls : d # c => session'[d] = session[d] /\ transfer'[d] = transfer[d]
    BY <1>1, <1>7
  <2>5. ASSUME NEW f \in ToSet(Job(c).inputs), place = "execute" PROVE Present(c, f)'
    BY <1>3, <2>5 DEF ToSet
  <2> QED
    BY <1>1, <1>4, <1>6, <2>1, <2>2, <2>3, <2>4, <2>5, SessionGoesOn
<1> QED
  BY <1>5, <1>8, <1>9 DEF IInv

LEMMA BadArgumentsKeepIInv ==
  ASSUME IInv, NEW c \in Calls, c \in Requested, BadArguments(c)
  PROVE  IInv'
<1>1. /\ c \in Pythons /\ Pythons \subseteq Calls /\ at[c] = "start"
      /\ UNCHANGED <<script, promotions, interpreter>> /\ Goes(c, "done")
      /\ Pythons' = Pythons
  BY PythonsAreCalls, SettleGoes, SameJobs DEF IInv, BadArguments, Pythons, Typed, Outcomes
<1>2. Typed'
  BY <1>1 DEF IInv, Typed, Goes, InterpreterTypeOK, interpreter, promotions
<1>3. PlacesInv'
  BY <1>1 DEF IInv, PlacesInv, Goes, InterpreterPlaces
<1>4. ClientInv'
  <2>1. Working' = Working
    BY <1>1 DEF Working, Goes
  <2>2. UNCHANGED <<current, closed, overlapped, stranded>> /\ current \cup closed \subseteq Calls
    BY <1>1 DEF interpreter, IInv, Typed, InterpreterTypeOK
  <2>3. \A d \in current \cup closed : at'[d] # "start"
    BY <1>1, <2>2 DEF IInv, ClientInv, Goes
  <2> QED
    BY <2>1, <2>2, <2>3 DEF IInv, ClientInv, AloneKeepsItsClient
<1>5. SessionInv' /\ TransferInv'
  <2>1. Grown /\ \A s : Opened(s)' = Opened(s)
    BY <1>1, ServiceStays DEF interpreter
  <2>2. saved' # 0 => Opened(saved)'
    BY <1>1, <2>1 DEF IInv, SessionInv, interpreter, Opened
  <2>3. UNCHANGED <<script, link, session, transfer>>
    BY <1>1 DEF interpreter, promotions
  <2> QED
    BY <1>1, <2>1, <2>2, <2>3, SessionGoesOn
<1> QED
  BY <1>2, <1>3, <1>4, <1>5 DEF IInv

(* A call that ends, whatever it awaited. *)
LEMMA EndKeepsIInv ==
  ASSUME IInv, NEW c \in Calls, at[c] \in InterpreterPlaces, NEW outcome \in Outcomes,
         End(c, outcome), UNCHANGED stranded,
         UNCHANGED <<script, promotions, session, sessions, service, transfer, entries>>
  PROVE  IInv'
<1>1. c \in Pythons /\ Goes(c, "done") /\ closed' = closed \cup current /\ link' = link
  BY EndGoes DEF IInv, PlacesInv, promotions
<1> QED
  BY <1>1, PlaceGoesOn

LEMMA InputsReadyKeepsIInv ==
  ASSUME IInv, NEW c \in Calls, InputsReady(c)
  PROVE  IInv'
<1> DEFINE inputs == Job(c).inputs
           Ended(i) == transfer[c][inputs[i]] \in {"none", "in", "failed"}
<1>1. /\ at[c] = "transfer" /\ at[c] \in InterpreterPlaces
      /\ UNCHANGED <<script, promotions, session, sessions, service, transfer, entries>>
      /\ link' = link
  BY DEF InputsReady, InterpreterPlaces, promotions
<1>2. c \in Pythons /\ c \in Requested /\ inputs \in Seq(Attachments)
  BY <1>1, PythonsAreCalls DEF IInv, PlacesInv, Pythons
<1>3. CASE \E outcome \in {"ok", "cancelled"} : End(c, outcome) /\ UNCHANGED stranded
  BY <1>1, <1>3, EndKeepsIInv DEF Outcomes
<1>4. CASE /\ \A i \in DOMAIN inputs : Ended(i)
           /\ ~Failed(c, inputs)
           /\ Send(c, "execute", current)
  <2>1. Opened(session[c])
    BY <1>1 DEF IInv, SessionInv
  <2>2. ASSUME NEW f \in ToSet(inputs) PROVE Present(c, f)
    <3>1. PICK i \in DOMAIN inputs : f = inputs[i]
      BY <1>2 DEF ToSet
    <3>2. f \in Attachments /\ transfer[c][f] \in {"none", "in"}
      BY <1>2, <1>4, <3>1 DEF Failed
    <3> QED
      BY <1>1, <1>2, <3>2 DEF IInv, TransferInv
  <2>3. PICK place \in {"execute", "done"} :
          /\ Goes(c, place) /\ closed' = closed
          /\ stranded' = stranded \/ (stranded' = stranded \cup {c} /\ current \subseteq closed)
    BY <1>1, <1>4, SendGoes DEF InterpreterPlaces
  <2> QED
    BY <1>1, <1>2, <2>1, <2>2, <2>3, PlaceGoesOn
<1> QED
  BY <1>3, <1>4 DEF InputsReady

LEMMA FilesListedKeepsIInv ==
  ASSUME IInv, NEW c \in Calls, FilesListed(c)
  PROVE  IInv'
<1> DEFINE tasks == [f \in Attachments |->
                       IF f \in {g \in Missing(c) : Matched(g)} THEN "ready"
                       ELSE IF f \in Missing(c) THEN "failed" ELSE "none"]
<1>1. /\ at[c] = "list" /\ at[c] \in InterpreterPlaces
      /\ UNCHANGED <<script, promotions, session, sessions, service, entries, closed, stranded>>
      /\ transfer' = [transfer EXCEPT ![c] = tasks]
      /\ transfer \in [Calls -> [Attachments ->
           {"none", "ready", "promote", "copy", "put", "in", "failed", "cancelled"}]]
      /\ Goes(c, "transfer") /\ link' = link
  BY MoveGoes DEF FilesListed, InterpreterPlaces, promotions, IInv, Typed, InterpreterTypeOK, Places
<1>2. c \in Pythons /\ Pythons \subseteq Calls
  BY <1>1, PythonsAreCalls DEF IInv, PlacesInv
<1>3. Grown /\ \A s : Opened(s)' = Opened(s)
  BY <1>1, ServiceStays
<1>4. InterpreterTypeOK'
  <2>1. tasks \in [Attachments -> {"none", "ready", "promote", "copy", "put", "in", "failed", "cancelled"}]
    OBVIOUS
  <2>2. transfer' \in [Calls -> [Attachments ->
           {"none", "ready", "promote", "copy", "put", "in", "failed", "cancelled"}]]
    BY <1>1, <2>1
  <2> QED
    BY <1>1, <2>2 DEF IInv, Typed, InterpreterTypeOK, sessions, entries
<1>5. \A d \in Calls : d # c => session'[d] = session[d] /\ transfer'[d] = transfer[d]
  BY <1>1
<1>6. (saved' # 0 => Opened(saved)') /\ Opened(session[c])'
  BY <1>1, <1>3 DEF IInv, SessionInv, sessions, Opened
<1>7. \A f \in Attachments : transfer'[c][f] = tasks[f] /\ transfer'[c][f] # "promote"
  BY <1>1
<1>8. ASSUME NEW f \in ToSet(Job(c).inputs), f \in Attachments, transfer'[c][f] \in {"none", "in"}
      PROVE  Present(c, f)'
  <2>1. f \notin Missing(c)
    BY <1>7, <1>8
  <2>2. Name(f) \in service[session[c]].files
    BY <1>8, <2>1 DEF Missing
  <2> QED
    BY <1>1, <2>2 DEF Present, Name
<1>9. "transfer" \in InterpreterPlaces \cup {"done"}
  BY DEF InterpreterPlaces
<1> HIDE DEF tasks
<1> QED
  BY <1>1, <1>2, <1>3, <1>4, <1>5, <1>6, <1>7, <1>8, <1>9, PythonGoesOn

(* The id of a session is stored, and the call goes on to its files or its code. *)
LEMMA EnterKeepsIInv ==
  ASSUME IInv, NEW c \in Calls, at[c] \in {"check", "open"}, NEW s \in 1..MaxSessions,
         Enter(c, s), UNCHANGED <<script, promotions, transfer, entries>>,
         Grown, Opened(s)',
         service' \in [1..MaxSessions -> [is : {"unused", "open", "gone"}, files : SUBSET STRING]]
  PROVE  IInv'
<1>1. /\ c \in Pythons /\ Pythons \subseteq Calls /\ at[c] \in InterpreterPlaces
      /\ link' = link /\ at[c] # "done"
  BY PythonsAreCalls DEF IInv, PlacesInv, InterpreterPlaces, promotions
<1>2. PICK place \in {"list", "execute"} :
        Send(c, place, current) /\ (place = "execute" => Job(c).inputs = <<>>)
  BY DEF Enter, NextPlace
<1>3. PICK next \in {place, "done"} :
        /\ Goes(c, next) /\ closed' = closed
        /\ stranded' = stranded \/ (stranded' = stranded \cup {c} /\ current \subseteq closed)
  BY <1>1, <1>2, SendGoes DEF InterpreterPlaces
<1>4. /\ session' = [session EXCEPT ![c] = s] /\ saved' = s /\ validated' = s
      /\ session \in [Calls -> 0..MaxSessions] /\ s \in 0..MaxSessions
  BY InterpreterAssumption DEF Enter, IInv, Typed, InterpreterTypeOK
<1>5. InterpreterTypeOK'
  <2>1. closed' \subseteq Calls /\ stranded' \subseteq Calls
    BY <1>1, <1>3 DEF IInv, Typed, InterpreterTypeOK
  <2> QED
    BY <1>4, <2>1 DEF IInv, Typed, InterpreterTypeOK, entries
<1>6. Opened(saved)' /\ Opened(session[c])'
  BY <1>1, <1>4 DEF Opened
<1>7. \A d \in Calls : d # c => session'[d] = session[d] /\ transfer'[d] = transfer[d]
  BY <1>4
<1>8. next \in InterpreterPlaces \cup {"done"} /\ next # "transfer"
  BY DEF InterpreterPlaces
<1>9. ASSUME NEW f \in ToSet(Job(c).inputs), next = "execute" PROVE Present(c, f)'
  BY <1>2, <1>9 DEF ToSet
<1> QED
  BY <1>1, <1>3, <1>5, <1>6, <1>7, <1>8, <1>9, PythonGoesOn

LEMMA SessionCheckedKeepsIInv ==
  ASSUME IInv, NEW c \in Calls, SessionChecked(c)
  PROVE  IInv'
<1>1. /\ at[c] = "check" /\ at[c] \in InterpreterPlaces /\ at[c] # "done" /\ Opened(session[c])
      /\ UNCHANGED <<script, promotions, service, transfer, entries>>
  BY DEF SessionChecked, InterpreterPlaces, IInv, SessionInv
<1>2. CASE Enter(c, session[c])
  <2>1. Grown /\ \A s : Opened(s)' = Opened(s)
    BY <1>1, ServiceStays
  <2>2. PICK s \in 1..MaxSessions : s = session[c]
    BY <1>1 DEF Opened
  <2>3. Enter(c, s) /\ Opened(s)'
    BY <1>1, <1>2, <2>1, <2>2
  <2>4. service' \in [1..MaxSessions -> [is : {"unused", "open", "gone"}, files : SUBSET STRING]]
    BY <1>1 DEF IInv, Typed, InterpreterTypeOK
  <2> QED
    BY <1>1, <2>1, <2>3, <2>4, EnterKeepsIInv
<1>3. CASE Send(c, "open", current) /\ UNCHANGED <<session, sessions>>
  <2>1. c \in Pythons /\ link' = link
    BY <1>1 DEF IInv, PlacesInv, promotions
  <2>2. PICK place \in {"open", "done"} :
          /\ Goes(c, place) /\ closed' = closed
          /\ stranded' = stranded \/ (stranded' = stranded \cup {c} /\ current \subseteq closed)
    BY <1>1, <1>3, SendGoes DEF InterpreterPlaces
  <2> QED
    BY <1>1, <1>3, <2>1, <2>2, PlaceGoesOn
<1> QED
  BY <1>2, <1>3 DEF SessionChecked

LEMMA SessionOpenedKeepsIInv ==
  ASSUME IInv, NEW c \in Calls, SessionOpened(c)
  PROVE  IInv'
<1>1. PICK s \in 1..MaxSessions :
        /\ service[s].is = "unused"
        /\ service' = [service EXCEPT ![s] = [is |-> "open", files |-> {}]]
        /\ Enter(c, s)
  BY DEF SessionOpened
<1>2. service \in [1..MaxSessions -> [is : {"unused", "open", "gone"}, files : SUBSET STRING]]
  BY DEF IInv, Typed, InterpreterTypeOK
<1>3. Grown
  BY <1>1, <1>2 DEF Grown, Opened
<1>4. Opened(s)'
  BY <1>1, <1>2 DEF Opened
<1>5. service' \in [1..MaxSessions -> [is : {"unused", "open", "gone"}, files : SUBSET STRING]]
  <2>1. [is |-> "open", files |-> {}] \in [is : {"unused", "open", "gone"}, files : SUBSET STRING]
    OBVIOUS
  <2> QED
    BY <1>1, <1>2, <2>1
<1>6. at[c] \in {"check", "open"} /\ UNCHANGED <<script, promotions, transfer, entries>>
  BY DEF SessionOpened
<1> QED
  BY <1>1, <1>3, <1>4, <1>5, <1>6, EnterKeepsIInv

LEMMA CodingKeepsIInv ==
  ASSUME IInv, NEW c \in Calls, Coding(c)
  PROVE  IInv'
<1>1. c \in Requested /\ PythonStep(c)
  BY DEF Coding, Called
<1>2. CASE RequestFails(c)
  BY <1>2, EndKeepsIInv DEF RequestFails, InterpreterPlaces, Outcomes
<1>3. CASE CodeExecuted(c)
  <2>1. /\ at[c] = "execute" /\ at[c] \in InterpreterPlaces /\ c \in Pythons /\ at[c] # "done"
        /\ UNCHANGED <<script, promotions, session, sessions, service, transfer, entries, stranded>>
        /\ UNCHANGED link
    BY <1>3 DEF CodeExecuted, InterpreterPlaces, IInv, PlacesInv, promotions
  <2>2. CASE End(c, "ok")
    BY <2>1, <2>2, EndKeepsIInv DEF Outcomes
  <2>3. CASE MoveTo(c, "publish") /\ UNCHANGED closed
    <3>1. Goes(c, "publish")
      BY <2>1, <2>3, MoveGoes DEF IInv, Typed, Places, InterpreterPlaces
    <3> QED
      BY <2>1, <2>3, <3>1, PlaceGoesOn
  <2> QED
    BY <1>3, <2>2, <2>3 DEF CodeExecuted
<1>4. CASE DisplayPublished(c)
  BY <1>4, EndKeepsIInv DEF DisplayPublished, InterpreterPlaces, Outcomes
<1> QED
  BY <1>1, <1>2, <1>3, <1>4, BeginPythonKeepsIInv, BadArgumentsKeepIInv, SessionCheckedKeepsIInv,
     SessionOpenedKeepsIInv, FilesListedKeepsIInv, InputsReadyKeepsIInv DEF PythonStep

-----------------------------------------------------------------------------
(* The transfers of input files, and the end of a session. *)

(* No call of the model moves: each transfer stays as it is, or goes on. *)
LEMMA TransfersGoOn ==
  ASSUME IInv, UNCHANGED <<script, task, session, sessions, entries, closed, stranded>>,
         Grown, InterpreterTypeOK', link' \in [Calls -> [Urls -> LinkStates]],
         \A d \in Calls, x \in Urls : link[d][x] # "none" => link'[d][x] # "none",
         \A d \in Calls, g \in Attachments :
           \/ transfer'[d][g] = transfer[d][g]
           \/ /\ transfer[d][g] # "none"
              /\ transfer'[d][g] = "promote" => g \in Urls /\ link'[d][g] # "none"
              /\ transfer'[d][g] # "none"
              /\ transfer'[d][g] = "in" /\ at[d] = "transfer" => Present(d, g)'
  PROVE  IInv'
<1>1. /\ Pythons' = Pythons /\ Pythons \subseteq Calls /\ \A d : Job(d)' = Job(d)
      /\ \A d : ToSet(Job(d).inputs)' = ToSet(Job(d).inputs)
      /\ at' = at /\ session' = session
  BY SameJobs, PythonsAreCalls DEF IInv, ToSet, task
<1>2. Typed'
  BY DEF IInv, Typed, TaskTypeOK, task
<1>3. PlacesInv' /\ ClientInv'
  <2>1. Working' = Working
    BY <1>1 DEF Working
  <2> QED
    BY <1>1, <2>1 DEF IInv, PlacesInv, ClientInv, AloneKeepsItsClient, entries
<1>4. SessionInv'
  BY <1>1 DEF IInv, SessionInv, Grown, Opened, sessions
<1>5. ASSUME NEW d \in Calls, NEW g \in Attachments
      PROVE  /\ transfer'[d][g] # "none" => at'[d] # "start"
             /\ transfer'[d][g] # "none" => d \in Pythons'
             /\ transfer'[d][g] = "promote" => g \in Urls /\ link'[d][g] # "none"
             /\ /\ d \in Pythons' /\ at'[d] = "transfer" /\ g \in ToSet(Job(d).inputs)'
                /\ transfer'[d][g] \in {"none", "in"}
                => Present(d, g)'
  <2>1. /\ transfer[d][g] # "none" => at[d] # "start"
        /\ transfer[d][g] # "none" => d \in Pythons
        /\ transfer[d][g] = "promote" => g \in Urls /\ link[d][g] # "none"
        /\ /\ d \in Pythons /\ at[d] = "transfer" /\ g \in ToSet(Job(d).inputs)
           /\ transfer[d][g] \in {"none", "in"}
           => Present(d, g)
        /\ at[d] = "transfer" => Opened(session[d])
    BY DEF IInv, TransferInv, SessionInv
  <2>2. at[d] = "transfer" /\ Present(d, g) => Present(d, g)'
    BY <1>1, <2>1, PresentKept
  <2>3. CASE transfer'[d][g] = transfer[d][g]
    BY <1>1, <2>1, <2>2, <2>3
  <2>4. CASE /\ transfer[d][g] # "none"
             /\ transfer'[d][g] = "promote" => g \in Urls /\ link'[d][g] # "none"
             /\ transfer'[d][g] # "none"
             /\ transfer'[d][g] = "in" /\ at[d] = "transfer" => Present(d, g)'
    BY <1>1, <2>1, <2>4
  <2> QED
    BY <2>3, <2>4
<1>6. ASSUME NEW d \in Pythons \cap Calls, at[d] = "execute", NEW g \in ToSet(Job(d).inputs)
      PROVE  Present(d, g)'
  <2>1. Present(d, g) /\ Opened(session[d])
    BY <1>6 DEF IInv, TransferInv, SessionInv
  <2> QED
    BY <1>1, <2>1, PresentKept
<1>7. TransferInv'
  BY <1>1, <1>5, <1>6 DEF TransferInv
<1> QED
  BY <1>2, <1>3, <1>4, <1>7 DEF IInv

LEMMA SessionExpiresKeepsIInv ==
  ASSUME IInv, NEW s \in 1..MaxSessions, SessionExpires(s)
  PROVE  IInv'
<1>1. service \in [1..MaxSessions -> [is : {"unused", "open", "gone"}, files : SUBSET STRING]]
  BY DEF IInv, Typed, InterpreterTypeOK
<1>2. /\ service' = [service EXCEPT ![s] = [is |-> "gone", files |-> {}]]
      /\ UNCHANGED <<script, task, promotions, session, sessions, transfer, entries, closed, stranded>>
  BY DEF SessionExpires
<1>3. Grown
  BY <1>1, <1>2 DEF Grown, Opened
<1>4. InterpreterTypeOK'
  <2>1. [is |-> "gone", files |-> {}] \in [is : {"unused", "open", "gone"}, files : SUBSET STRING]
    OBVIOUS
  <2>2. service' \in [1..MaxSessions -> [is : {"unused", "open", "gone"}, files : SUBSET STRING]]
    BY <1>1, <1>2, <2>1
  <2> QED
    BY <1>2, <2>2 DEF IInv, Typed, InterpreterTypeOK, sessions, entries
<1>5. link' = link /\ link \in [Calls -> [Urls -> LinkStates]]
  BY <1>2 DEF IInv, Typed, promotions
<1> QED
  BY <1>2, <1>3, <1>4, <1>5, TransfersGoOn

TransferStates == {"none", "ready", "promote", "copy", "put", "in", "failed", "cancelled"}

(* One transfer goes on, and the service stays as it is. *)
LEMMA TransferGoesOn ==
  ASSUME IInv, NEW c \in Calls, NEW f \in Attachments, transfer[c][f] # "none",
         UNCHANGED <<script, task, session, sessions, service, entries, closed, stranded>>,
         NEW next \in TransferStates \ {"none", "in"}, transfer' = [transfer EXCEPT ![c][f] = next],
         link' \in [Calls -> [Urls -> LinkStates]],
         \A d \in Calls, x \in Urls : link[d][x] # "none" => link'[d][x] # "none",
         next = "promote" => f \in Urls /\ link'[c][f] # "none"
  PROVE  IInv'
<1>1. transfer \in [Calls -> [Attachments -> TransferStates]]
  BY DEF IInv, Typed, InterpreterTypeOK, TransferStates
<1>2. /\ transfer' \in [Calls -> [Attachments -> TransferStates]]
      /\ \A d \in Calls, g \in Attachments :
           transfer'[d][g] = IF d = c /\ g = f THEN next ELSE transfer[d][g]
  BY <1>1
<1>3. InterpreterTypeOK'
  BY <1>2 DEF IInv, Typed, InterpreterTypeOK, sessions, entries, TransferStates
<1>4. Grown
  BY ServiceStays
<1>5. \A d \in Calls, g \in Attachments :
        \/ transfer'[d][g] = transfer[d][g]
        \/ /\ transfer[d][g] # "none"
           /\ transfer'[d][g] = "promote" => g \in Urls /\ link'[d][g] # "none"
           /\ transfer'[d][g] # "none"
           /\ transfer'[d][g] = "in" /\ at[d] = "transfer" => Present(d, g)'
  BY <1>2
<1> QED
  BY <1>3, <1>4, <1>5, TransfersGoOn

LEMMA SendableType == Sendable \in {"copy", "failed", "put"}
BY DEF Sendable

LEMMA TransferEndsKeepsIInv ==
  ASSUME IInv, NEW c \in Calls, NEW f \in Attachments, TransferEnds(c, f)
  PROVE  IInv'
<1> DEFINE s == session[c]
<1>1. /\ transfer[c][f] = "put"
      /\ UNCHANGED <<script, task, promotions, session, sessions, entries, closed, stranded>>
      /\ transfer \in [Calls -> [Attachments -> TransferStates]]
      /\ service \in [1..MaxSessions -> [is : {"unused", "open", "gone"}, files : SUBSET STRING]]
      /\ link' = link /\ link \in [Calls -> [Urls -> LinkStates]]
      /\ Name(f) \in STRING
  BY PythonsAreCalls
  DEF TransferEnds, IInv, Typed, InterpreterTypeOK, promotions, TransferStates
<1>2. CASE /\ service[s].is = "open"
           /\ service' = [service EXCEPT ![s].files = @ \cup {Name(f)}]
           /\ transfer' = [transfer EXCEPT ![c][f] = "in"]
  <2>1. /\ transfer' \in [Calls -> [Attachments -> TransferStates]]
        /\ \A d \in Calls, g \in Attachments :
             transfer'[d][g] = IF d = c /\ g = f THEN "in" ELSE transfer[d][g]
    BY <1>1, <1>2 DEF TransferStates
  <2>2. \A t \in 1..MaxSessions :
          /\ service'[t].is = service[t].is
          /\ service'[t].files = IF t = s THEN service[t].files \cup {Name(f)} ELSE service[t].files
    BY <1>1, <1>2
  <2>3. service' \in [1..MaxSessions -> [is : {"unused", "open", "gone"}, files : SUBSET STRING]]
    <3>1. CASE s \in 1..MaxSessions
      <4>1. PICK e : e = [service[s] EXCEPT !.files = @ \cup {Name(f)}]
        OBVIOUS
      <4>2. e = [is |-> service[s].is, files |-> service[s].files \cup {Name(f)}]
        BY <1>1, <3>1, <4>1
      <4>3. e \in [is : {"unused", "open", "gone"}, files : SUBSET STRING]
        BY <1>1, <3>1, <4>2
      <4>4. service' = [service EXCEPT ![s] = e]
        BY <1>2, <4>1
      <4> QED
        BY <1>1, <4>3, <4>4
    <3>2. CASE s \notin 1..MaxSessions
      BY <1>1, <1>2, <3>2
    <3> QED
      BY <3>1, <3>2
  <2>4. InterpreterTypeOK'
    BY <1>1, <2>1, <2>3 DEF IInv, Typed, InterpreterTypeOK, sessions, entries, TransferStates
  <2>5. Grown
    BY <2>2 DEF Grown, Opened
  <2>6. at[c] = "transfer" => Present(c, f)'
    <3>1. at[c] = "transfer" => s \in 1..MaxSessions
      BY DEF IInv, SessionInv, Opened
    <3>2. session' = session /\ Name(f)' = Name(f)
      BY <1>1 DEF Name
    <3> QED
      BY <2>2, <3>1, <3>2 DEF Present
  <2> QED
    BY <1>1, <2>1, <2>4, <2>5, <2>6, TransfersGoOn
<1>3. CASE transfer' = [transfer EXCEPT ![c][f] = "failed"] /\ UNCHANGED service
  BY <1>1, <1>3, TransferGoesOn DEF TransferStates
<1> QED
  BY <1>2, <1>3 DEF TransferEnds

LEMMA TransferringKeepsIInv ==
  ASSUME IInv, NEW c \in Calls, NEW f \in Attachments, Transferring(c, f)
  PROVE  IInv'
<1>1. link \in [Calls -> [Urls -> LinkStates]] /\ Sendable \in {"copy", "failed", "put"}
  BY SendableType DEF IInv, Typed
<1>2. CASE TransferBegins(c, f)
  <2>1. /\ transfer[c][f] = "ready"
        /\ UNCHANGED <<script, task, session, sessions, service, entries, closed, stranded>>
    BY <1>2 DEF TransferBegins
  <2>2. CASE f \in Urls
    <3>1. /\ link' = [link EXCEPT ![c][f] = Told(promo[f])]
          /\ transfer' = [transfer EXCEPT ![c][f] = "promote"]
      BY <1>2, <2>2 DEF TransferBegins
    <3>2. Told(promo[f]) \in LinkStates \ {"none"}
      BY ToldType
    <3>3. /\ link' \in [Calls -> [Urls -> LinkStates]]
          /\ link'[c][f] # "none"
          /\ \A d \in Calls, x \in Urls : link[d][x] # "none" => link'[d][x] # "none"
      BY <1>1, <2>2, <3>1, <3>2
    <3> QED
      BY <2>1, <2>2, <3>1, <3>3, TransferGoesOn DEF TransferStates
  <2>3. CASE f \notin Urls
    <3>1. transfer' = [transfer EXCEPT ![c][f] = Sendable] /\ link' = link
      BY <1>2, <2>3 DEF TransferBegins
    <3> QED
      BY <1>1, <2>1, <3>1, TransferGoesOn DEF TransferStates
  <2> QED
    BY <2>2, <2>3
<1>3. CASE TransferPromoted(c, f)
  <2>1. /\ transfer[c][f] = "promote" /\ link' = link
        /\ UNCHANGED <<script, task, session, sessions, service, entries, closed, stranded>>
    BY <1>3 DEF TransferPromoted, promotions
  <2>2. link[c][f] \in {"done", "invalid", "error", "cancelled"}
    <3>1. f \in Urls /\ link[c][f] # "none"
      BY <2>1 DEF IInv, TransferInv
    <3> QED
      BY <1>1, <1>3, <3>1 DEF TransferPromoted, LinkStates, Broken
  <2>3. \E next \in {"cancelled", "failed", "copy", "put"} :
          transfer' = [transfer EXCEPT ![c][f] = next]
    BY <1>1, <1>3, <2>2 DEF TransferPromoted
  <2> QED
    BY <1>1, <2>1, <2>3, TransferGoesOn DEF TransferStates
<1>4. CASE TransferCopied(c, f)
  <2>1. /\ transfer[c][f] = "copy" /\ link' = link
        /\ UNCHANGED <<script, task, session, sessions, service, entries, closed, stranded>>
    BY <1>4 DEF TransferCopied, promotions
  <2>2. \E next \in {"failed", "put"} : transfer' = [transfer EXCEPT ![c][f] = next]
    BY <1>4 DEF TransferCopied
  <2> QED
    BY <1>1, <2>1, <2>2, TransferGoesOn DEF TransferStates
<1> QED
  BY <1>2, <1>3, <1>4, TransferEndsKeepsIInv DEF Transferring, TransferStep

-----------------------------------------------------------------------------
(* The theorems. *)

LEMMA InitIInv ==
  ASSUME Init
  PROVE  IInv
<1>1. /\ script \in Scripts /\ \A c \in Calls : at[c] \in {"start", "absent"}
      /\ at \in [Calls -> {"start", "absent"}]
  BY DEF Init, TaskInit
<1>2. TaskTypeOK
  BY <1>1 DEF Init, TaskInit, TaskTypeOK, Answers
<1>3. link \in [Calls -> [Urls -> LinkStates]]
  BY DEF Init, PromotionsInit, LinkStates
<1>4. InterpreterTypeOK
  <2>1. script.session \in 0..MaxSessions /\ script.stored \subseteq STRING
    BY <1>1, InterpreterAssumption
  <2>2. 0 \in 0..MaxSessions
    BY InterpreterAssumption
  <2>3. \A s \in 1..MaxSessions :
          [is |-> IF s = script.session THEN "open" ELSE "unused", files |-> script.stored]
            \in [is : {"unused", "open", "gone"}, files : SUBSET STRING]
    BY <2>1
  <2> QED
    BY <2>1, <2>2, <2>3 DEF Init, InterpreterInit, InterpreterTypeOK, Nobody
<1>5. PlacesInv
  BY <1>1 DEF PlacesInv, InterpreterPlaces
<1>6. ClientInv
  <2>1. \A c \in Working \cap Calls : FALSE
    BY DEF Working, Pythons, Init, TaskInit
  <2> QED
    BY <2>1 DEF ClientInv, AloneKeepsItsClient, Init, InterpreterInit, Nobody
<1>7. SessionInv
  <2>1. script.session \in 0..MaxSessions
    BY <1>1, InterpreterAssumption
  <2>2. ASSUME script.session # 0 PROVE Opened(script.session)
    <3>1. script.session \in 1..MaxSessions
      BY <2>1, <2>2, InterpreterAssumption
    <3>2. service[script.session].is = "open"
      BY <3>1 DEF Init, InterpreterInit
    <3> QED
      BY <3>1, <3>2 DEF Opened
  <2>3. saved = 0
    BY DEF Init, InterpreterInit
  <2> QED
    BY <1>1, <2>2, <2>3 DEF SessionInv
<1>8. TransferInv
  BY <1>1 DEF TransferInv, Init, InterpreterInit
<1> QED
  BY <1>1, <1>2, <1>3, <1>4, <1>5, <1>6, <1>7, <1>8 DEF IInv, Typed

LEMMA NextKeepsIInv ==
  ASSUME IInv, [Next]_vars
  PROVE  IInv'
<1>1. CASE UNCHANGED vars
  <2>1. /\ UNCHANGED <<script, task, session, sessions, service, transfer, entries, closed, stranded>>
        /\ link' = link
    BY <1>1 DEF vars, interpreter, promotions, sessions, entries
  <2>2. Grown
    BY <2>1, ServiceStays
  <2>3. InterpreterTypeOK'
    BY <2>1 DEF IInv, Typed, InterpreterTypeOK, sessions, entries
  <2> QED
    BY <2>1, <2>2, <2>3, TransfersGoOn DEF IInv, Typed
<1>2. CASE Next
  BY <1>1, <1>2, AskStepKeepsIInv, CodingKeepsIInv, RestStepKeepsIInv, TransferringKeepsIInv,
     PromotionStepKeepsIInv, SessionExpiresKeepsIInv DEF Next, Terminated
<1> QED
  BY <1>1, <1>2

LEMMA Invariant == Spec => []IInv
<1>1. Init => IInv
  BY InitIInv
<1>2. IInv /\ [Next]_vars => IInv'
  BY NextKeepsIInv
<1> QED
  BY <1>1, <1>2, PTL DEF Spec

(* The tasks of the calls, their sessions, transfers and clients keep their types, for any
   requests (StagedBaseTool.arun, SessionManager, _PyInterpreterClient). *)
THEOREM RemoteTyped == Spec => [](TaskTypeOK /\ InterpreterTypeOK)
<1>1. IInv => TaskTypeOK /\ InterpreterTypeOK
  BY DEF IInv, Typed
<1> QED
  BY <1>1, Invariant, PTL

(* The interpreter runs the code of a call only in a session that is gone, or has each
   file that the call names: whichever call transferred it, and whatever other calls and
   promotions did meanwhile (_prepare_input_files). *)
THEOREM InputsSeen == Spec => []CodeSeesItsInputs
<1>1. IInv => CodeSeesItsInputs
  <2>1. ASSUME IInv, NEW c \in Pythons, at[c] = "execute"
        PROVE  \A f \in ToSet(Job(c).inputs) : Present(c, f)
    BY <2>1, PythonsAreCalls DEF IInv, TransferInv
  <2> QED
    BY <2>1 DEF CodeSeesItsInputs, Present
<1> QED
  BY <1>1, Invariant, PTL

(* Only a call that ran beside another can find that the HTTP client it works with is
   closed, although the calls share one _PyInterpreterClient. *)
THEOREM OwnClient == Spec => []AloneKeepsItsClient
<1>1. IInv => AloneKeepsItsClient
  BY DEF IInv, ClientInv
<1> QED
  BY <1>1, Invariant, PTL

-----------------------------------------------------------------------------
(* Sequences, position by position. *)

IsList(s) == s \in Seq(ToSet(s))

LEMMA ListFrom ==
  ASSUME NEW n \in Nat, NEW s, s = [i \in 1..n |-> s[i]]
  PROVE  IsList(s) /\ Len(s) = n
<1>1. DOMAIN s = 1..n
  OBVIOUS
<1>2. ToSet(s) = {s[i] : i \in 1..n}
  BY <1>1 DEF ToSet
<1>3. s \in [1..n -> ToSet(s)]
  BY <1>2
<1> HIDE DEF ToSet
<1>4. s \in Seq(ToSet(s))
  BY <1>3
<1> QED
  BY <1>1, <1>4 DEF IsList

LEMMA ListIs ==
  ASSUME NEW s, IsList(s)
  PROVE  Len(s) \in Nat /\ DOMAIN s = 1..Len(s) /\ s = [i \in 1..Len(s) |-> s[i]]
BY DEF IsList

LEMMA SeqIs ==
  ASSUME NEW E, NEW s \in Seq(E)
  PROVE  Len(s) \in Nat /\ s = [i \in 1..Len(s) |-> s[i]]
OBVIOUS

LEMMA SeqWidens ==
  ASSUME NEW D, NEW E, D \subseteq E, NEW s \in Seq(D)
  PROVE  s \in Seq(E)
<1>1. Len(s) \in Nat /\ s \in [1..Len(s) -> D]
  OBVIOUS
<1>2. s \in [1..Len(s) -> E]
  BY <1>1
<1> QED
  BY <1>1, <1>2

LEMMA Appended ==
  ASSUME NEW s, IsList(s), NEW t, IsList(t)
  PROVE  /\ IsList(s \o t) /\ Len(s \o t) = Len(s) + Len(t)
         /\ \A i \in 1..Len(s) : (s \o t)[i] = s[i]
         /\ \A i \in 1..Len(t) : (s \o t)[Len(s) + i] = t[i]
<1> DEFINE E == ToSet(s) \cup ToSet(t)
           u == s \o t
<1>1. s \in Seq(E) /\ t \in Seq(E)
  <2>1. s \in Seq(ToSet(s)) /\ ToSet(s) \subseteq E /\ t \in Seq(ToSet(t)) /\ ToSet(t) \subseteq E
    BY DEF IsList
  <2> HIDE DEF E
  <2> QED
    BY <2>1, SeqWidens
<1> HIDE DEF E
<1>2. u \in Seq(E) /\ Len(u) = Len(s) + Len(t) /\ Len(s) \in Nat /\ Len(t) \in Nat
  BY <1>1
<1>3. \A i \in 1..Len(s) : u[i] = s[i]
  BY <1>1
<1>4. \A i \in 1..Len(t) : u[Len(s) + i] = t[i]
  BY <1>1
<1> HIDE DEF u
<1>5. u = [i \in 1..Len(u) |-> u[i]] /\ Len(u) \in Nat
  BY <1>2, SeqIs
<1>6. IsList(u)
  BY <1>5, ListFrom
<1> QED
  BY <1>2, <1>3, <1>4, <1>6 DEF u

(* A set of numbers has a least member. *)
LEMMA LeastNat ==
  ASSUME NEW I, I \subseteq Nat, I # {}
  PROVE  \E m \in I : \A n \in I : m <= n
<1> DEFINE R == OpToRel(<, Nat)
<1>1. \E m \in I : \A n \in I : ~(<<n, m>> \in R)
  <2>1. IsWellFoundedOn(R, Nat)
    BY NatLessThanWellFounded
  <2> HIDE DEF R
  <2> QED BY <2>1, WFMin
<1>2. \A n, m \in Nat : n < m => <<n, m>> \in R
  BY DEF OpToRel
<1>3. PICK m \in I : \A n \in I : ~(<<n, m>> \in R)
  BY <1>1
<1> HIDE DEF R
<1>4. \A n \in I : ~(n < m)
  BY <1>2, <1>3
<1> QED
  BY <1>4

LEMMA NthIs ==
  ASSUME NEW n \in Nat, NEW S, S \subseteq 1..n
  PROVE  /\ Cardinality(S) \in Nat
         /\ \A j \in 1..Cardinality(S) : Nth(S, j) \in S
         /\ \A j \in 1..Cardinality(S) : Cardinality({i \in S : i <= Nth(S, j)}) = j
         /\ \A k \in S : /\ Cardinality({i \in S : i <= k}) \in 1..Cardinality(S)
                        /\ Nth(S, Cardinality({i \in S : i <= k})) = k
<1> DEFINE Upto(k) == {j \in S : j <= k}
           place == [k \in S |-> Cardinality(Upto(k))]
           c == Cardinality(S)
<1>1. IsFiniteSet(S) /\ S \subseteq Nat /\ c \in Nat
  <2>1. IsFiniteSet(1..n)
    BY FS_Interval
  <2>2. IsFiniteSet(S)
    BY <2>1, FS_Subset
  <2> QED
    BY <2>2, FS_CardinalityType
<1>2. \A k \in S : IsFiniteSet(Upto(k)) /\ Cardinality(Upto(k)) \in 1..c
  <2> SUFFICES ASSUME NEW k \in S PROVE IsFiniteSet(Upto(k)) /\ Cardinality(Upto(k)) \in 1..c
    OBVIOUS
  <2>1. Upto(k) \in SUBSET S /\ k \in Upto(k)
    BY <1>1
  <2> HIDE DEF Upto
  <2>2. IsFiniteSet(Upto(k)) /\ Cardinality(Upto(k)) <= c
    BY <1>1, <2>1, FS_Subset
  <2>3. Cardinality(Upto(k)) \in Nat /\ Cardinality(Upto(k)) # 0
    BY <2>1, <2>2, FS_CardinalityType, FS_EmptySet
  <2> QED
    BY <1>1, <2>2, <2>3
<1>3. \A k, l \in S : k < l => Cardinality(Upto(k)) # Cardinality(Upto(l))
  <2> SUFFICES ASSUME NEW k \in S, NEW l \in S, k < l, Cardinality(Upto(k)) = Cardinality(Upto(l))
               PROVE  FALSE
    OBVIOUS
  <2>0. k \in Nat /\ l \in Nat /\ S \subseteq Nat
    BY <1>1
  <2>1. Upto(k) \subseteq Upto(l) /\ l \in Upto(l) /\ l \notin Upto(k)
    <3>1. \A j \in S : j <= k => j <= l
      BY <2>0
    <3>2. Upto(k) \subseteq Upto(l)
      BY <3>1
    <3> QED
      BY <2>0, <3>2
  <2>2. IsFiniteSet(Upto(l))
    BY <1>2
  <2> HIDE DEF Upto
  <2>3. Upto(l) = Upto(k)
    BY <2>1, <2>2, FS_Subset
  <2> QED
    BY <2>1, <2>3
<1> HIDE DEF c
<1>4. \A k, l \in S : place[k] = place[l] => k = l
  <2> SUFFICES ASSUME NEW k \in S, NEW l \in S, place[k] = place[l] PROVE k = l
    OBVIOUS
  <2>1. Cardinality(Upto(k)) = Cardinality(Upto(l))
    OBVIOUS
  <2>2. ~(k < l) /\ ~(l < k)
    BY <1>3, <2>1
  <2> QED
    BY <1>1, <2>2
<1>5. place \in [S -> 1..c]
  BY <1>2
<1>6. place \in Surjection(S, 1..c)
  <2>1. place \in Injection(S, 1..c)
    BY <1>4, <1>5 DEF Injection, IsInjective
  <2>2. IsFiniteSet(1..c) /\ Cardinality(1..c) = c
    BY <1>1, FS_Interval
  <2> HIDE DEF place
  <2> QED
    BY <2>1, <2>2, FS_Injection DEF c
<1>7. \A j \in 1..c : \E k \in S : place[k] = j
  BY <1>6 DEF Surjection
<1>8. \A j \in 1..c : \E k \in S : Cardinality(Upto(k)) = j
  BY <1>7
<1>9. \A j \in 1..c : Nth(S, j) \in S /\ Cardinality(Upto(Nth(S, j))) = j
  BY <1>8 DEF Nth
<1>10. \A k \in S : Nth(S, Cardinality(Upto(k))) = k
  <2> SUFFICES ASSUME NEW k \in S PROVE Nth(S, Cardinality(Upto(k))) = k
    OBVIOUS
  <2> DEFINE j == Cardinality(Upto(k))
  <2>1. j \in 1..c
    BY <1>2
  <2>2. Nth(S, j) \in S /\ Cardinality(Upto(Nth(S, j))) = j
    BY <1>9, <2>1
  <2>3. place[Nth(S, j)] = place[k]
    BY <2>2
  <2> HIDE DEF place
  <2> QED
    BY <1>4, <2>2, <2>3
<1> QED
  BY <1>1, <1>2, <1>9, <1>10 DEF c

Within(S, n) == n \in Nat /\ S \subseteq 1..n

NoLater(S, m) == {i \in S : i <= m}

(* The first members of a set have the same numbers in it. *)
LEMMA NthStable ==
  ASSUME NEW n, NEW S, Within(S, n), NEW m \in Nat
  PROVE  /\ Cardinality(NoLater(S, m)) \in Nat
         /\ Cardinality(NoLater(S, m)) <= Cardinality(S)
         /\ \A j \in 1..Cardinality(NoLater(S, m)) : Nth(NoLater(S, m), j) = Nth(S, j)
<1> DEFINE T == NoLater(S, m)
<1>0. n \in Nat /\ S \subseteq 1..n /\ T = NoLater(S, m)
  BY DEF Within
<1> HIDE DEF T
<1>1. T \subseteq S /\ T \subseteq 1..n /\ IsFiniteSet(S)
  <2>1. IsFiniteSet(1..n)
    BY <1>0, FS_Interval
  <2> QED
    BY <1>0, <2>1, FS_Subset DEF NoLater
<1>2. Cardinality(T) \in Nat /\ Cardinality(T) <= Cardinality(S)
  BY <1>1, FS_Subset, FS_CardinalityType
<1>3. ASSUME NEW j \in 1..Cardinality(T) PROVE Nth(T, j) = Nth(S, j)
  <2> DEFINE x == Nth(T, j)
  <2>1. x \in T /\ Cardinality({i \in T : i <= x}) = j
    BY <1>0, <1>1, NthIs
  <2> HIDE DEF x
  <2>2. {i \in T : i <= x} = {i \in S : i <= x}
    <3>1. x \in Nat /\ x <= m /\ S \subseteq Nat
      BY <1>0, <1>1, <2>1 DEF NoLater
    <3>2. \A i \in S : i <= x => i \in T
      BY <1>0, <3>1 DEF NoLater
    <3> QED
      BY <1>1, <3>2
  <2>3. Nth(S, Cardinality({i \in S : i <= x})) = x
    BY <1>0, <1>1, <2>1, NthIs
  <2>4. Nth(S, j) = x
    BY <2>1, <2>2, <2>3
  <2> QED
    BY <2>4 DEF x
<1> QED
  BY <1>2, <1>3 DEF T


LEMMA SameLists ==
  ASSUME NEW s, IsList(s), NEW t, IsList(t), Len(s) = Len(t), \A i \in 1..Len(s) : s[i] = t[i]
  PROVE  s = t
<1>1. s = [i \in 1..Len(s) |-> s[i]] /\ t = [i \in 1..Len(t) |-> t[i]]
  BY ListIs
<1>2. [i \in 1..Len(s) |-> s[i]] = [i \in 1..Len(s) |-> t[i]]
  OBVIOUS
<1> QED
  BY <1>1, <1>2

LEMMA OneIsList ==
  ASSUME NEW x
  PROVE  IsList(<<x>>) /\ Len(<<x>>) = 1 /\ <<x>>[1] = x
<1>1. <<x>> = [i \in 1..1 |-> <<x>>[i]]
  OBVIOUS
<1>2. IsList(<<x>>)
  BY <1>1, ListFrom
<1> QED
  BY <1>2

LEMMA Regrouped ==
  ASSUME NEW s, IsList(s), NEW t, IsList(t), NEW u, IsList(u)
  PROVE  s \o (t \o u) = (s \o t) \o u
<1> DEFINE a == Len(s)
           b == Len(t)
           c == Len(u)
           l == s \o (t \o u)
           r == (s \o t) \o u
<1>1. a \in Nat /\ b \in Nat /\ c \in Nat
  BY ListIs
<1>2. /\ IsList(t \o u) /\ Len(t \o u) = b + c
      /\ \A i \in 1..b : (t \o u)[i] = t[i]
      /\ \A i \in 1..c : (t \o u)[b + i] = u[i]
  BY Appended
<1>3. /\ IsList(s \o t) /\ Len(s \o t) = a + b
      /\ \A i \in 1..a : (s \o t)[i] = s[i]
      /\ \A i \in 1..b : (s \o t)[a + i] = t[i]
  BY Appended
<1>4. /\ IsList(l) /\ Len(l) = a + (b + c)
      /\ \A i \in 1..a : l[i] = s[i]
      /\ \A i \in 1..(b + c) : l[a + i] = (t \o u)[i]
  BY <1>2, Appended
<1>5. /\ IsList(r) /\ Len(r) = (a + b) + c
      /\ \A i \in 1..(a + b) : r[i] = (s \o t)[i]
      /\ \A i \in 1..c : r[(a + b) + i] = u[i]
  BY <1>3, Appended
<1> HIDE DEF a, b, c, l, r
<1>6. ASSUME NEW i \in 1..Len(l) PROVE l[i] = r[i]
  <2>1. CASE i \in 1..a
    <3>1. l[i] = s[i]
      BY <1>4, <2>1
    <3>2. i \in 1..(a + b) /\ (s \o t)[i] = s[i]
      BY <1>1, <1>3, <2>1
    <3> QED
      BY <1>5, <3>1, <3>2
  <2>2. CASE i \in (a + 1)..(a + b)
    <3>1. i - a \in 1..b /\ i - a \in 1..(b + c) /\ a + (i - a) = i
      BY <1>1, <2>2
    <3>2. l[a + (i - a)] = (t \o u)[i - a] /\ (t \o u)[i - a] = t[i - a]
      BY <1>2, <1>4, <3>1
    <3>3. i \in 1..(a + b) /\ (s \o t)[a + (i - a)] = t[i - a]
      BY <1>1, <1>3, <2>2, <3>1
    <3> QED
      BY <1>5, <3>1, <3>2, <3>3
  <2>3. CASE i \in (a + b + 1)..(a + b + c)
    <3>1. /\ i - (a + b) \in 1..c /\ (a + b) + (i - (a + b)) = i
          /\ i - a \in 1..(b + c) /\ a + (i - a) = i /\ b + (i - (a + b)) = i - a
      BY <1>1, <2>3
    <3>2. l[a + (i - a)] = (t \o u)[i - a]
      BY <1>4, <3>1
    <3>3. (t \o u)[b + (i - (a + b))] = u[i - (a + b)]
      BY <1>2, <3>1
    <3>4. r[(a + b) + (i - (a + b))] = u[i - (a + b)]
      BY <1>5, <3>1
    <3> QED
      BY <3>1, <3>2, <3>3, <3>4
  <2> QED
    BY <1>1, <1>4, <2>1, <2>2, <2>3
<1>7. Len(l) = Len(r)
  BY <1>1, <1>4, <1>5
<1>8. l = r
  BY <1>4, <1>5, <1>6, <1>7, SameLists
<1> QED
  BY <1>8 DEF l, r

-----------------------------------------------------------------------------
(* Sequences of sequences, joined (FlattenSeq). *)

(* f joins the first k of s, one after the other. *)
Flat(s, k, f) == f = [i \in 1..k |-> IF i = 1 THEN s[i] ELSE f[i - 1] \o s[i]]

LEMMA FlatAt ==
  ASSUME NEW s, NEW k \in Nat, NEW f, Flat(s, k, f)
  PROVE  \A i \in 1..k : f[i] = IF i = 1 THEN s[i] ELSE f[i - 1] \o s[i]
<1> DEFINE g == [i \in 1..k |-> IF i = 1 THEN s[i] ELSE f[i - 1] \o s[i]]
<1>1. f = g
  BY DEF Flat
<1>2. \A i \in 1..k : g[i] = IF i = 1 THEN s[i] ELSE f[i - 1] \o s[i]
  OBVIOUS
<1> QED
  BY <1>1, <1>2

(* The first k of s are those of t. *)
Agree(s, t, k) == \A i \in 1..k : s[i] = t[i]

(* There is one way to join them. *)
LEMMA FlatUnique ==
  ASSUME NEW s, NEW t, NEW k \in Nat, NEW m \in Nat, k <= m, Agree(s, t, k),
         NEW f, Flat(s, k, f), NEW g, Flat(t, m, g)
  PROVE  Agree(f, g, k)
<1>0. \A i \in 1..k : s[i] = t[i]
  BY DEF Agree
<1> SUFFICES \A i \in 1..k : f[i] = g[i]
  BY DEF Agree
<1> DEFINE D == {i \in 1..k : f[i] # g[i]}
<1>1. SUFFICES ASSUME D # {} PROVE FALSE
  OBVIOUS
<1>2. PICK i \in D : \A j \in D : i <= j
  <2>1. D \subseteq Nat
    OBVIOUS
  <2> HIDE DEF D
  <2> QED
    BY <1>1, <2>1, LeastNat
<1>3. i \in 1..k /\ i \in 1..m /\ f[i] # g[i] /\ s[i] = t[i]
  BY <1>0
<1>4. /\ f[i] = IF i = 1 THEN s[i] ELSE f[i - 1] \o s[i]
      /\ g[i] = IF i = 1 THEN t[i] ELSE g[i - 1] \o t[i]
  BY <1>3, FlatAt
<1>5. i # 1 => f[i - 1] = g[i - 1]
  <2> SUFFICES ASSUME i # 1 PROVE f[i - 1] = g[i - 1]
    OBVIOUS
  <2>1. i - 1 \in 1..k /\ ~(i <= i - 1)
    BY <1>3
  <2>2. i - 1 \notin D
    BY <1>2, <2>1
  <2> QED
    BY <2>1, <2>2
<1> QED
  BY <1>3, <1>4, <1>5

LEMMA FlatExists ==
  ASSUME NEW s, NEW n \in Nat
  PROVE  \E f : Flat(s, n, f)
<1> DEFINE D == {k \in Nat : ~\E f : Flat(s, k, f)}
<1>1. SUFFICES ASSUME D # {} PROVE FALSE
  OBVIOUS
<1>2. PICK k \in D : \A j \in D : k <= j
  <2>1. D \subseteq Nat
    OBVIOUS
  <2> HIDE DEF D
  <2> QED
    BY <1>1, <2>1, LeastNat
<1>3. k \in Nat /\ ~\E f : Flat(s, k, f)
  OBVIOUS
<1>4. k # 0
  <2> SUFFICES ASSUME k = 0 PROVE FALSE
    OBVIOUS
  <2> DEFINE f == [i \in 1..0 |-> s[i]]
  <2>1. f = [i \in 1..0 |-> IF i = 1 THEN s[i] ELSE f[i - 1] \o s[i]]
    OBVIOUS
  <2> HIDE DEF f
  <2>2. Flat(s, k, f)
    BY <2>1 DEF Flat
  <2> QED
    BY <1>3, <2>2
<1>5. k - 1 \in Nat /\ ~(k <= k - 1)
  BY <1>3, <1>4
<1>6. PICK f : Flat(s, k - 1, f)
  BY <1>2, <1>5
<1> DEFINE x == IF k = 1 THEN s[k] ELSE f[k - 1] \o s[k]
           g == [i \in 1..k |-> IF i = k THEN x ELSE f[i]]
<1>7. \A i \in 1..k : g[i] = IF i = 1 THEN s[i] ELSE g[i - 1] \o s[i]
  <2> SUFFICES ASSUME NEW i \in 1..k PROVE g[i] = IF i = 1 THEN s[i] ELSE g[i - 1] \o s[i]
    OBVIOUS
  <2>1. g[i] = IF i = k THEN x ELSE f[i]
    OBVIOUS
  <2>2. i # 1 => g[i - 1] = f[i - 1]
    <3> SUFFICES ASSUME i # 1 PROVE g[i - 1] = f[i - 1]
      OBVIOUS
    <3>1. i - 1 \in 1..k /\ i - 1 # k
      BY <1>3
    <3> QED
      BY <3>1
  <2> HIDE DEF g
  <2>3. CASE i = k
    BY <2>1, <2>2, <2>3
  <2>4. CASE i # k
    <3>1. i \in 1..(k - 1)
      BY <1>3, <2>4
    <3>2. f[i] = IF i = 1 THEN s[i] ELSE f[i - 1] \o s[i]
      BY <1>5, <1>6, <3>1, FlatAt
    <3> QED
      BY <2>1, <2>2, <2>4, <3>2
  <2> QED
    BY <2>3, <2>4
<1>8. g = [i \in 1..k |-> g[i]]
  OBVIOUS
<1> HIDE DEF g
<1>9. Flat(s, k, g)
  BY <1>7, <1>8 DEF Flat
<1> QED
  BY <1>3, <1>9

LEMMA FlattenIs ==
  ASSUME NEW s, NEW n \in Nat, Len(s) = n, n # 0
  PROVE  \E f : Flat(s, n, f) /\ FlattenSeq(s) = f[n]
<1> DEFINE g == CHOOSE f : f = [i \in 1..Len(s) |-> IF i = 1 THEN s[i] ELSE f[i - 1] \o s[i]]
<1>1. FlattenSeq(s) = g[Len(s)]
  BY DEF FlattenSeq
<1>2. Flat(s, n, g)
  BY FlatExists DEF Flat
<1> QED
  BY <1>1, <1>2

(* One more sequence is joined at the end. *)
LEMMA FlattenGrows ==
  ASSUME NEW s, NEW t, NEW n \in Nat, Len(s) = n, Len(t) = n + 1, Agree(s, t, n),
         IsList(s), \A i \in 1..(n + 1) : IsList(t[i])
  PROVE  FlattenSeq(t) = FlattenSeq(s) \o t[n + 1]
<1>1. PICK g : Flat(t, n + 1, g) /\ FlattenSeq(t) = g[n + 1]
  BY FlattenIs
<1>2. \A i \in 1..(n + 1) : g[i] = IF i = 1 THEN t[i] ELSE g[i - 1] \o t[i]
  BY <1>1, FlatAt
<1>3. CASE n = 0
  <2>1. FlattenSeq(s) = s /\ s = <<>>
    BY <1>3 DEF FlattenSeq, IsList
  <2>2. g[1] = t[1]
    BY <1>2, <1>3
  <2>3. IsList(t[1])
    BY <1>3
  <2>4. <<>> \o t[1] = t[1]
    BY <2>3 DEF IsList
  <2> QED
    BY <1>1, <1>3, <2>1, <2>2, <2>4
<1>4. CASE n # 0
  <2>1. PICK f : Flat(s, n, f) /\ FlattenSeq(s) = f[n]
    BY <1>4, FlattenIs
  <2>2. \A i \in 1..n : f[i] = g[i]
    <3> DEFINE m == n + 1
    <3>1. m \in Nat /\ n <= m
      OBVIOUS
    <3>2. Flat(s, n, f) /\ Flat(t, m, g)
      BY <1>1, <2>1
    <3> HIDE DEF m
    <3>3. Agree(f, g, n)
      BY <3>1, <3>2, FlatUnique
    <3> QED
      BY <3>3 DEF Agree
  <2>3. n \in 1..n /\ n + 1 \in 1..(n + 1) /\ n + 1 # 1 /\ (n + 1) - 1 = n
    BY <1>4
  <2>4. g[n + 1] = g[(n + 1) - 1] \o t[n + 1]
    BY <1>2, <2>3
  <2> QED
    BY <1>1, <2>1, <2>2, <2>3, <2>4
<1> QED
  BY <1>3, <1>4

(* Appended sequences are a sequence. *)
LEMMA FlattenList ==
  ASSUME NEW s, IsList(s), \A i \in 1..Len(s) : IsList(s[i])
  PROVE  IsList(FlattenSeq(s))
<1> DEFINE n == Len(s)
<1>1. n \in Nat
  BY ListIs
<1>2. CASE n = 0
  BY <1>2 DEF FlattenSeq
<1>3. CASE n # 0
  <2>1. PICK f : Flat(s, n, f) /\ FlattenSeq(s) = f[n]
    BY <1>1, <1>3, FlattenIs
  <2>2. \A i \in 1..n : f[i] = IF i = 1 THEN s[i] ELSE f[i - 1] \o s[i]
    BY <1>1, <2>1, FlatAt
  <2> DEFINE D == {i \in 1..n : ~IsList(f[i])}
  <2>3. D = {}
    <3> SUFFICES ASSUME D # {} PROVE FALSE
      OBVIOUS
    <3>1. PICK i \in D : \A j \in D : i <= j
      <4>1. D \subseteq Nat
        BY <1>1
      <4> HIDE DEF D
      <4> QED
        BY <4>1, LeastNat
    <3>2. i \in 1..n /\ ~IsList(f[i]) /\ IsList(s[i])
      OBVIOUS
    <3>3. i # 1
      <4>1. i = 1 => f[i] = s[i]
        BY <2>2, <3>2
      <4> QED
        BY <3>2, <4>1
    <3>4. i - 1 \in 1..n /\ ~(i <= i - 1)
      BY <1>1, <3>2, <3>3
    <3>5. IsList(f[i - 1])
      BY <3>1, <3>4
    <3>6. f[i] = f[i - 1] \o s[i]
      BY <2>2, <3>2, <3>3
    <3> QED
      BY <3>2, <3>5, <3>6, Appended
  <2>4. n \in 1..n
    BY <1>1, <1>3
  <2> QED
    BY <2>1, <2>3, <2>4
<1> QED
  BY <1>2, <1>3

LEMMA PickList ==
  ASSUME NEW n \in Nat, NEW S, S \subseteq 1..n, NEW s
  PROVE  /\ IsList(Pick(s, S)) /\ Len(Pick(s, S)) = Cardinality(S) /\ Cardinality(S) \in Nat
         /\ \A j \in 1..Cardinality(S) : Nth(S, j) \in S /\ Pick(s, S)[j] = s[Nth(S, j)]
<1> DEFINE t == Pick(s, S)
           c == Cardinality(S)
<1>1. c \in Nat /\ \A j \in 1..c : Nth(S, j) \in S
  BY NthIs
<1>2. t = [j \in 1..c |-> s[Nth(S, j)]]
  BY DEF Pick
<1> HIDE DEF t, c
<1>3. t = [j \in 1..c |-> t[j]] /\ \A j \in 1..c : t[j] = s[Nth(S, j)]
  BY <1>2
<1>4. IsList(t) /\ Len(t) = c
  BY <1>1, <1>3, ListFrom
<1> QED
  BY <1>1, <1>3, <1>4 DEF t, c

After(p, n) == p \in Nat /\ n < p

OneMore(s, t, x) == t = s \o <<x>>

(* One more position, after the others. *)
LEMMA PickGrows ==
  ASSUME NEW n, NEW S, Within(S, n), NEW p, After(p, n), NEW s, NEW u, Agree(s, u, n)
  PROVE  OneMore(Pick(s, S), Pick(u, S \cup {p}), u[p])
<1> DEFINE T == S \cup {p}
           c == Cardinality(S)
<1>1. T \subseteq 1..p /\ p \in T /\ p \notin S /\ S \subseteq 1..n /\ p \in Nat /\ n < p
      /\ n \in Nat
  BY DEF Within, After
<1>2. NoLater(T, n) = S
  <2>1. \A i \in S : i \in Nat /\ i <= n
    BY <1>1
  <2>2. ~(p <= n)
    BY <1>1
  <2> QED
    BY <2>1, <2>2 DEF NoLater
<1>3. NoLater(T, p) = T
  <2>1. \A i \in T : i <= p
    BY <1>1
  <2> HIDE DEF T
  <2> QED
    BY <2>1 DEF NoLater
<1>4. IsFiniteSet(S) /\ c \in Nat /\ Cardinality(T) = c + 1
  <2>1. IsFiniteSet(1..n)
    BY <1>1, FS_Interval
  <2>2. IsFiniteSet(S)
    BY <1>1, <2>1, FS_Subset
  <2> QED
    BY <1>1, <2>2, FS_AddElement, FS_CardinalityType
<1>5. Nth(T, c + 1) = p
  <2>1. \A k \in T : Nth(T, Cardinality({i \in T : i <= k})) = k
    BY <1>1, NthIs
  <2>2. {i \in T : i <= p} = T
    BY <1>3 DEF NoLater
  <2> QED
    BY <1>1, <1>4, <2>1, <2>2
<1>6. \A j \in 1..c : Nth(S, j) = Nth(T, j)
  <2>1. Within(T, p)
    BY <1>1 DEF Within
  <2> HIDE DEF T
  <2>2. \A j \in 1..Cardinality(NoLater(T, n)) : Nth(NoLater(T, n), j) = Nth(T, j)
    BY <1>1, <2>1, NthStable
  <2> QED
    BY <1>2, <2>2
<1> DEFINE l == Pick(u, T)
           r == Pick(s, S) \o <<u[p]>>
<1>7. IsList(l) /\ Len(l) = c + 1 /\ \A j \in 1..(c + 1) : l[j] = u[Nth(T, j)]
  <2> HIDE DEF T
  <2> QED
    BY <1>1, <1>4, PickList
<1>8. /\ IsList(Pick(s, S)) /\ Len(Pick(s, S)) = c
      /\ \A j \in 1..c : Nth(S, j) \in S /\ Pick(s, S)[j] = s[Nth(S, j)]
  BY <1>1, PickList
<1>9. /\ IsList(r) /\ Len(r) = c + 1
      /\ \A j \in 1..c : r[j] = Pick(s, S)[j]
      /\ r[c + 1] = u[p]
  <2>1. IsList(<<u[p]>>) /\ Len(<<u[p]>>) = 1 /\ <<u[p]>>[1] = u[p]
    BY OneIsList
  <2>2. /\ IsList(r) /\ Len(r) = Len(Pick(s, S)) + Len(<<u[p]>>)
        /\ \A j \in 1..Len(Pick(s, S)) : r[j] = Pick(s, S)[j]
        /\ \A j \in 1..Len(<<u[p]>>) : r[Len(Pick(s, S)) + j] = <<u[p]>>[j]
    BY <1>8, <2>1, Appended
  <2>3. r[c + 1] = u[p]
    BY <1>8, <2>1, <2>2
  <2> HIDE DEF r
  <2> QED
    BY <1>4, <1>8, <2>1, <2>2, <2>3
<1> HIDE DEF l, r, T
<1>10. ASSUME NEW j \in 1..(c + 1) PROVE l[j] = r[j]
  <2>1. CASE j = c + 1
    BY <1>5, <1>7, <1>9, <2>1
  <2>2. CASE j # c + 1
    <3>1. j \in 1..c
      BY <1>4, <2>2
    <3>2. Nth(S, j) \in 1..n
      BY <1>1, <1>8, <3>1
    <3>3. s[Nth(S, j)] = u[Nth(S, j)]
      BY <3>2 DEF Agree
    <3> QED
      BY <1>6, <1>7, <1>8, <1>9, <3>1, <3>3
  <2> QED
    BY <2>1, <2>2
<1>11. l = Pick(s, S) \o <<u[p]>>
  <2>1. l = r
    BY <1>7, <1>9, <1>10, SameLists
  <2> QED
    BY <2>1 DEF r
<1> QED
  BY <1>11 DEF l, T, OneMore

-----------------------------------------------------------------------------
(* What a call sees of the request. *)

(* What an answer of the model adds to the messages. *)
Round(i) == [j \in DOMAIN script.plan[i] |-> Entry(script.plan[i][j])]

Rounds(n) == [i \in 1..n |-> Round(i)]

LEMMA PlanIs ==
  ASSUME script \in Scripts
  PROVE  /\ Len(script.plan) \in Nat /\ DOMAIN script.plan = 1..Len(script.plan)
         /\ Requested \subseteq Calls /\ IsList(script.past)
         /\ \A i \in DOMAIN script.plan :
              /\ script.plan[i] \in Seq(Requested)
              /\ IsList(Round(i)) /\ DOMAIN Round(i) = DOMAIN script.plan[i]
              /\ Len(Round(i)) \in Nat /\ DOMAIN Round(i) = 1..Len(Round(i))
              /\ \A j \in DOMAIN script.plan[i] :
                   script.plan[i][j] \in Requested /\ Round(i)[j] = Entry(script.plan[i][j])
<1>1. /\ script.plan \in Seq(Seq(Requested)) /\ Requested \subseteq Calls
      /\ script.past \in Seq(ToSet(script.past))
  BY PlanAssumption, InterpreterAssumption DEF Requested
<1>2. IsList(script.past)
  BY <1>1 DEF IsList
<1>3. Len(script.plan) \in Nat /\ DOMAIN script.plan = 1..Len(script.plan)
  BY <1>1
<1>4. ASSUME NEW i \in DOMAIN script.plan
      PROVE  /\ script.plan[i] \in Seq(Requested)
             /\ IsList(Round(i)) /\ DOMAIN Round(i) = DOMAIN script.plan[i]
             /\ Len(Round(i)) \in Nat /\ DOMAIN Round(i) = 1..Len(Round(i))
             /\ \A j \in DOMAIN script.plan[i] :
                  script.plan[i][j] \in Requested /\ Round(i)[j] = Entry(script.plan[i][j])
  <2>1. script.plan[i] \in Seq(Requested)
    BY <1>1, <1>4
  <2> DEFINE s == script.plan[i]
             r == Round(i)
             n == Len(s)
  <2>2. n \in Nat /\ DOMAIN s = 1..n /\ \A j \in 1..n : s[j] \in Requested
    BY <2>1
  <2>3. r = [j \in 1..n |-> Entry(s[j])]
    BY <2>2 DEF Round
  <2> HIDE DEF s, r, n
  <2>4. r = [j \in 1..n |-> r[j]] /\ DOMAIN r = 1..n /\ \A j \in 1..n : r[j] = Entry(s[j])
    BY <2>3
  <2>5. IsList(r) /\ Len(r) = n
    BY <2>2, <2>4, ListFrom
  <2> QED
    BY <2>1, <2>2, <2>4, <2>5 DEF s, r
<1> QED
  BY <1>1, <1>2, <1>3, <1>4

(* A call is of one answer. *)
LEMMA AnsweredIs ==
  ASSUME script \in Scripts, NEW c \in Requested
  PROVE  /\ Answered(c) \in DOMAIN script.plan
         /\ \E j \in DOMAIN script.plan[Answered(c)] : script.plan[Answered(c)][j] = c
         /\ \A i \in DOMAIN script.plan : \A j \in DOMAIN script.plan[i] :
              script.plan[i][j] = c => i = Answered(c)
<1>1. \E i \in DOMAIN script.plan : c \in ToSet(script.plan[i])
  BY PlanAssumption DEF Requested
<1>2. \E i \in DOMAIN script.plan : \E j \in DOMAIN script.plan[i] : script.plan[i][j] = c
  BY <1>1 DEF ToSet
<1>3. /\ Answered(c) \in DOMAIN script.plan
      /\ \E j \in DOMAIN script.plan[Answered(c)] : script.plan[Answered(c)][j] = c
  BY <1>2 DEF Answered
<1>4. \A i, k \in DOMAIN script.plan : \A j \in DOMAIN script.plan[i], l \in DOMAIN script.plan[k] :
        script.plan[i][j] = script.plan[k][l] => i = k
  BY PlanAssumption
<1> QED
  BY <1>3, <1>4

(* The calls of an answer come after the messages that its own calls see. *)
LEMMA MessagesGrow ==
  ASSUME script \in Scripts, NEW c \in Requested, NEW d \in Requested,
         Answered(d) = Answered(c) + 1
  PROVE  /\ IsList(Messages(c)) /\ IsList(Messages(d))
         /\ Messages(d) = Messages(c) \o Round(Answered(c))
<1> DEFINE a == Answered(c)
           k == a - 1
           f == FlattenSeq(Rounds(k))
           g == FlattenSeq(Rounds(a))
<1>1. a \in DOMAIN script.plan /\ a \in Nat /\ k \in Nat /\ k + 1 = a
  <2>1. a \in DOMAIN script.plan
    BY AnsweredIs
  <2>2. Len(script.plan) \in Nat /\ DOMAIN script.plan = 1..Len(script.plan)
    BY PlanIs
  <2> HIDE DEF a
  <2> QED
    BY <2>1, <2>2
<1>2. IsList(script.past) /\ IsList(Round(a)) /\ \A i \in 1..a : IsList(Round(i))
  BY <1>1, PlanIs
<1>3. ASSUME NEW n \in Nat
      PROVE  IsList(Rounds(n)) /\ Len(Rounds(n)) = n /\ \A i \in 1..n : Rounds(n)[i] = Round(i)
  <2>1. Rounds(n) = [i \in 1..n |-> Rounds(n)[i]] /\ \A i \in 1..n : Rounds(n)[i] = Round(i)
    BY DEF Rounds
  <2> QED
    BY <2>1, ListFrom
<1>4. Messages(c) = script.past \o f
  BY DEF Messages, Rounds, Round
<1>5. Messages(d) = script.past \o g
  <2>1. Answered(d) - 1 = a
    BY <1>1
  <2> QED
    BY <2>1 DEF Messages, Rounds, Round
<1> HIDE DEF a, k
<1>6. g = f \o Round(a)
  <2>1. Agree(Rounds(k), Rounds(a), k)
    BY <1>1, <1>3 DEF Agree
  <2>2. \A i \in 1..(k + 1) : IsList(Rounds(a)[i])
    BY <1>1, <1>2, <1>3
  <2>3. IsList(Rounds(k)) /\ Len(Rounds(k)) = k /\ Len(Rounds(a)) = k + 1
    BY <1>1, <1>3
  <2>4. FlattenSeq(Rounds(a)) = FlattenSeq(Rounds(k)) \o Rounds(a)[k + 1]
    BY <1>1, <2>1, <2>2, <2>3, FlattenGrows
  <2>5. Rounds(a)[k + 1] = Round(a)
    BY <1>1, <1>3
  <2> QED
    BY <2>4, <2>5
<1>7. IsList(f)
  <2>1. \A i \in 1..Len(Rounds(k)) : IsList(Rounds(k)[i])
    BY <1>1, <1>2, <1>3
  <2> QED
    BY <1>1, <1>3, <2>1, FlattenList
<1> HIDE DEF f, g
<1>8. IsList(script.past \o f)
  BY <1>2, <1>7, Appended
<1>9. IsList((script.past \o f) \o Round(a))
  BY <1>2, <1>8, Appended
<1>10. script.past \o (f \o Round(a)) = (script.past \o f) \o Round(a)
  <2> DEFINE past == script.past
             last == Round(a)
  <2>1. IsList(past) /\ IsList(f) /\ IsList(last)
    BY <1>2, <1>7
  <2> HIDE DEF past, last
  <2>2. past \o (f \o last) = (past \o f) \o last
    BY <2>1, Regrouped
  <2> QED
    BY <2>2 DEF past, last
<1> QED
  BY <1>4, <1>5, <1>6, <1>8, <1>9, <1>10 DEF a

-----------------------------------------------------------------------------
(* The thread of a call that follows another one in it. *)

(* What belongs to the thread of c in a sequence of entries. *)
Ours(c, s) ==
  {i \in DOMAIN s : OfThread(s[i], Job(c).name, Session(c)) /\ s[i].result # "none"}

(* Of the answer with c only c itself is of its thread. *)
Alone(c) ==
  \A e \in Requested \ {c} : InOneThread(c, e) \/ e = Session(c) => Answered(e) # Answered(c)

LEMMA OnlyItself ==
  ASSUME script \in Scripts, NEW c \in Requested, NEW d \in Requested, InOneThread(c, d), Alone(c)
  PROVE  \E l \in 1..Len(Round(Answered(c))) :
           Round(Answered(c))[l] = Entry(c) /\ Ours(c, Round(Answered(c))) = {l}
<1> DEFINE a == Answered(c)
           r == Round(a)
           plan == script.plan[a]
<1>1. /\ a \in DOMAIN script.plan
      /\ \E l \in DOMAIN plan : plan[l] = c
  BY AnsweredIs
<1>2. /\ DOMAIN r = DOMAIN plan /\ DOMAIN r = 1..Len(r)
      /\ \A j \in DOMAIN plan : plan[j] \in Requested /\ r[j] = Entry(plan[j])
  BY <1>1, PlanIs
<1>3. \A j, l \in DOMAIN plan : plan[j] = plan[l] => j = l
  BY <1>1, PlanAssumption
<1>4. \A j \in DOMAIN plan : Answered(plan[j]) = a
  BY <1>1, <1>2, AnsweredIs
<1>5. PICK l \in DOMAIN plan : plan[l] = c
  BY <1>1
<1> HIDE DEF a, r, plan
<1>6. /\ Job(c).tool = "ask" /\ Job(c).mode = "resumable"
      /\ Session(c) # NoSession
      /\ Session(c) = c \/ (Job(c).session = Session(c))
  <2>1. c \in Calls /\ NoSession \notin Calls
    BY PlanIs, PlanAssumption
  <2> QED
    BY <2>1 DEF InOneThread, Session
<1>7. OfThread(Entry(c), Job(c).name, Session(c)) /\ Entry(c).result # "none"
  BY <1>6 DEF OfThread, Entry
<1>8. ASSUME NEW e \in Requested, e # c, Answered(e) = a,
             OfThread(Entry(e), Job(c).name, Session(c))
      PROVE  FALSE
  <2>1. Job(e).name = Job(c).name
    BY <1>8 DEF OfThread, Entry
  <2>2. Job(e).tool = "ask" /\ Job(e).mode = "resumable"
    <3>1. \A x, y \in Requested : Job(x).name = Job(y).name =>
                                    Job(x).tool = Job(y).tool /\ Job(x).mode = Job(y).mode
      BY PlanAssumption DEF Requested, Job
    <3> QED
      BY <1>6, <2>1, <3>1
  <2>3. e = Session(c) \/ Job(e).session = Session(c)
    BY <1>6, <1>8 DEF OfThread, Entry
  <2>4. Job(e).session = Session(c) => Session(e) = Session(c)
    BY <1>6 DEF Session
  <2>5. InOneThread(c, e) \/ e = Session(c)
    BY <1>6, <2>1, <2>2, <2>3, <2>4 DEF InOneThread
  <2> QED
    BY <1>8, <2>5 DEF Alone, a
<1>9. l \in 1..Len(r) /\ r[l] = Entry(c)
  BY <1>2, <1>5
<1>10. Ours(c, r) = {l}
  <2>1. ASSUME NEW j \in DOMAIN r, OfThread(r[j], Job(c).name, Session(c)) PROVE j = l
    <3>1. r[j] = Entry(plan[j]) /\ plan[j] \in Requested /\ Answered(plan[j]) = a /\ j \in DOMAIN plan
      BY <1>2, <1>4
    <3>2. plan[j] = c
      BY <1>8, <2>1, <3>1
    <3> QED
      BY <1>3, <1>5, <3>1, <3>2
  <2>2. l \in DOMAIN r
    BY <1>2, <1>5
  <2> QED
    BY <1>7, <1>9, <2>1, <2>2 DEF Ours
<1> QED
  BY <1>9, <1>10 DEF r, a

Only(c, t, l) == l \in 1..Len(t) /\ Ours(c, t) = {l}

(* What belongs to a thread in two sequences, one after the other. *)
LEMMA OursAppended ==
  ASSUME NEW c, NEW s, IsList(s), NEW t, IsList(t), NEW l, Only(c, t, l)
  PROVE  Ours(c, s \o t) = Ours(c, s) \cup {Len(s) + l}
<1> DEFINE u == s \o t
           n == Len(s)
           Is(e) == OfThread(e, Job(c).name, Session(c)) /\ e.result # "none"
<1>1. /\ IsList(u) /\ Len(u) = n + Len(t)
      /\ \A i \in 1..n : u[i] = s[i]
      /\ \A i \in 1..Len(t) : u[n + i] = t[i]
  BY Appended
<1>2. /\ n \in Nat /\ Len(t) \in Nat /\ DOMAIN s = 1..n /\ DOMAIN t = 1..Len(t)
      /\ l \in 1..Len(t) /\ Ours(c, t) = {l}
  BY ListIs DEF Only
<1>3. DOMAIN u = 1..(n + Len(t))
  BY <1>1, ListIs
<1>4. \A i \in 1..Len(t) : Is(t[i]) <=> i = l
  BY <1>2 DEF Ours
<1>5. Ours(c, s) = {i \in 1..n : Is(s[i])} /\ Ours(c, u) = {i \in 1..(n + Len(t)) : Is(u[i])}
  BY <1>2, <1>3 DEF Ours
<1> HIDE DEF Is, u, n
<1>6. ASSUME NEW i \in 1..(n + Len(t))
      PROVE  Is(u[i]) <=> (i \in 1..n /\ Is(s[i])) \/ i = n + l
  <2>1. CASE i \in 1..n
    <3>1. u[i] = s[i] /\ i # n + l
      BY <1>1, <1>2, <2>1
    <3> QED
      BY <2>1, <3>1
  <2>2. CASE i \notin 1..n
    <3>1. i - n \in 1..Len(t) /\ n + (i - n) = i
      BY <1>2, <2>2
    <3>2. u[i] = t[i - n]
      BY <1>1, <3>1
    <3>3. Is(u[i]) <=> i - n = l
      BY <1>4, <3>1, <3>2
    <3>4. i - n = l <=> i = n + l
      BY <1>2, <3>1
    <3> QED
      BY <2>2, <3>3, <3>4
  <2> QED
    BY <2>1, <2>2
<1>7. 1..n \subseteq 1..(n + Len(t)) /\ n + l \in 1..(n + Len(t))
  BY <1>2
<1> QED
  BY <1>5, <1>6, <1>7 DEF u, n

LEMMA PairIs ==
  ASSUME NEW x, NEW y
  PROVE  <<x>> \o <<y>> = <<x, y>>
<1> DEFINE s == <<x>> \o <<y>>
           t == <<x, y>>
<1>1. IsList(<<x>>) /\ Len(<<x>>) = 1 /\ <<x>>[1] = x /\ IsList(<<y>>) /\ Len(<<y>>) = 1 /\ <<y>>[1] = y
  BY OneIsList
<1>2. IsList(s) /\ Len(s) = 2 /\ s[1] = x /\ s[2] = y
  <2> DEFINE p == <<x>>
             q == <<y>>
  <2>1. IsList(p) /\ IsList(q)
    BY <1>1
  <2>2. Len(p) = 1 /\ p[1] = x /\ Len(q) = 1 /\ q[1] = y
    BY <1>1
  <2> HIDE DEF p, q
  <2>3. /\ IsList(p \o q) /\ Len(p \o q) = Len(p) + Len(q)
        /\ \A i \in 1..Len(p) : (p \o q)[i] = p[i]
        /\ \A i \in 1..Len(q) : (p \o q)[Len(p) + i] = q[i]
    BY <2>1, Appended
  <2>4. IsList(p \o q) /\ Len(p \o q) = 2 /\ (p \o q)[1] = x /\ (p \o q)[2] = y
    BY <2>2, <2>3
  <2> QED
    BY <2>4 DEF p, q
<1>3. IsList(t) /\ Len(t) = 2 /\ t[1] = x /\ t[2] = y
  <2>1. t = [i \in 1..2 |-> t[i]]
    OBVIOUS
  <2>2. t[1] = x /\ t[2] = y
    OBVIOUS
  <2> HIDE DEF t
  <2> QED
    BY <2>1, <2>2, ListFrom
<1> HIDE DEF s, t
<1>4. \A i \in 1..Len(s) : s[i] = t[i]
  BY <1>2, <1>3
<1> QED
  BY <1>2, <1>3, <1>4, SameLists DEF s, t

LEMMA HistoryGrows ==
  ASSUME script \in Scripts, NEW c \in Requested, NEW d \in Requested,
         InOneThread(c, d), Alone(c), Answered(d) = Answered(c) + 1
  PROVE  IsList(History(c)) /\ History(d) = History(c) \o <<Entry(c)>>
<1> DEFINE s == Messages(c)
           t == Round(Answered(c))
           u == Messages(d)
<1>1. IsList(s) /\ IsList(u) /\ u = s \o t
  BY MessagesGrow
<1>2. IsList(t)
  BY AnsweredIs, PlanIs
<1>3. PICK l \in 1..Len(t) : t[l] = Entry(c) /\ Ours(c, t) = {l}
  BY OnlyItself
<1>4. /\ Job(c).mode # "single" /\ Job(d).mode # "single"
      /\ Job(d).name = Job(c).name /\ Session(d) = Session(c)
  BY DEF InOneThread
<1>5. History(c) = Pick(s, Ours(c, s))
  BY <1>4 DEF History, Ours
<1>6. History(d) = Pick(u, Ours(c, u))
  BY <1>4 DEF History, Ours
<1> DEFINE n == Len(s)
           p == n + l
<1> HIDE DEF s, t, u
<1>7. /\ n \in Nat /\ p \in Nat /\ p > n
      /\ u[p] = Entry(c) /\ \A i \in 1..n : u[i] = s[i]
  <2>1. /\ Len(s \o t) = Len(s) + Len(t)
        /\ \A i \in 1..Len(s) : (s \o t)[i] = s[i]
        /\ \A i \in 1..Len(t) : (s \o t)[Len(s) + i] = t[i]
    BY <1>1, <1>2, Appended
  <2>2. n \in Nat /\ Len(t) \in Nat
    BY <1>1, <1>2, ListIs
  <2>3. u[p] = Entry(c) /\ \A i \in 1..n : u[i] = s[i]
    BY <1>1, <1>3, <2>1
  <2> QED
    BY <1>3, <2>2, <2>3
<1>8. Ours(c, u) = Ours(c, s) \cup {p}
  <2>1. Ours(c, s \o t) = Ours(c, s) \cup {Len(s) + l}
    <3>1. IsList(s) /\ IsList(t)
      BY <1>1, <1>2
    <3>2. Only(c, t, l)
      BY <1>3 DEF Only
    <3> QED
      BY <3>1, <3>2, OursAppended
  <2> QED
    BY <1>1, <2>1
<1>9. Ours(c, s) \subseteq 1..n
  BY <1>1, ListIs DEF Ours
<1>10. Agree(s, u, n)
  BY <1>7 DEF Agree
<1> DEFINE S == Ours(c, s)
<1> HIDE DEF n, p, S
<1>11. Pick(u, S \cup {p}) = Pick(s, S) \o <<u[p]>> /\ IsList(Pick(s, S))
  <2>1. n \in Nat /\ S \subseteq 1..n /\ Within(S, n)
    BY <1>7, <1>9 DEF S, Within
  <2>2. Pick(u, S \cup {p}) = Pick(s, S) \o <<u[p]>>
    <3>1. n \in Nat /\ Within(S, n) /\ After(p, n)
      BY <1>7, <2>1 DEF After
    <3>2. OneMore(Pick(s, S), Pick(u, S \cup {p}), u[p])
      BY <1>10, <3>1, PickGrows
    <3> QED
      BY <3>2 DEF OneMore
  <2>3. IsList(Pick(s, S))
    BY <2>1, PickList
  <2> QED
    BY <2>2, <2>3
<1>12. Pick(u, Ours(c, u)) = Pick(u, S \cup {p})
  BY <1>8 DEF S
<1>13. Pick(u, S \cup {p}) = Pick(s, S) \o <<Entry(c)>>
  BY <1>7, <1>11
<1> QED
  BY <1>5, <1>6, <1>11, <1>12, <1>13 DEF S

(* The messages of the exchanges of a history. *)
Exchanges(h) == [i \in DOMAIN h |-> Exchange(h[i])]

LEMMA ExchangesAre ==
  ASSUME NEW h, IsList(h)
  PROVE  /\ IsList(Exchanges(h)) /\ Len(Exchanges(h)) = Len(h)
         /\ \A i \in 1..Len(h) : Exchanges(h)[i] = Exchange(h[i]) /\ IsList(Exchange(h[i]))
<1> DEFINE x == Exchanges(h)
           n == Len(h)
<1>1. n \in Nat /\ DOMAIN h = 1..n
  BY ListIs
<1>2. x = [i \in 1..n |-> Exchange(h[i])]
  BY <1>1 DEF Exchanges
<1> HIDE DEF x, n
<1>3. x = [i \in 1..n |-> x[i]] /\ \A i \in 1..n : x[i] = Exchange(h[i])
  BY <1>2
<1>4. IsList(x) /\ Len(x) = n
  BY <1>1, <1>3, ListFrom
<1>5. ASSUME NEW e PROVE IsList(Exchange(e))
  <2> DEFINE q == IF Retold(e) THEN <<[role |-> "user", of |-> e.id]>> ELSE <<>>
             r == IF e.result = "empty" THEN <<>> ELSE <<[role |-> "assistant", of |-> e.id]>>
  <2>1. IsList(<<>>)
    BY DEF IsList
  <2>2. IsList(q) /\ IsList(r)
    BY <2>1, OneIsList
  <2>3. Exchange(e) = q \o r
    BY DEF Exchange
  <2> HIDE DEF q, r
  <2> QED
    BY <2>2, <2>3, Appended
<1> QED
  BY <1>3, <1>4, <1>5 DEF x, n

LEMMA NothingAppended ==
  ASSUME NEW s, IsList(s)
  PROVE  s \o <<>> = s
<1> DEFINE e == <<>>
<1>1. IsList(e) /\ Len(e) = 0
  BY DEF IsList
<1> HIDE DEF e
<1>2. /\ IsList(s \o e) /\ Len(s \o e) = Len(s) + Len(e)
      /\ \A i \in 1..Len(s) : (s \o e)[i] = s[i]
  BY <1>1, Appended
<1>3. Len(s \o e) = Len(s)
  BY <1>1, <1>2, ListIs
<1>4. s \o e = s
  BY <1>2, <1>3, SameLists
<1> QED
  BY <1>4 DEF e

LEMMA DialogueGrows ==
  ASSUME script \in Scripts, NEW c \in Requested, NEW d \in Requested,
         InOneThread(c, d), Alone(c), Answered(d) = Answered(c) + 1
  PROVE  Dialogue(d) =
           (IF Unsaid(c) THEN Earlier(c) ELSE Dialogue(c))
             \o <<[role |-> "assistant", of |-> c], [role |-> "user", of |-> d]>>
<1> DEFINE h == History(c)
           k == History(d)
           n == Len(h)
           f == FlattenSeq(Exchanges(h))
           asked == <<[role |-> "user", of |-> c]>>
           told == <<[role |-> "assistant", of |-> c]>>
           asks == <<[role |-> "user", of |-> d]>>
           kept == IF Unsaid(c) THEN <<>> ELSE asked
<1>1. IsList(h) /\ k = h \o <<Entry(c)>>
  BY HistoryGrows
<1>2. /\ Earlier(c) = f /\ Dialogue(c) = f \o asked
      /\ Dialogue(d) = FlattenSeq(Exchanges(k)) \o asks
  BY DEF Dialogue, Earlier, Exchanges
<1>3. Exchange(Entry(c)) = kept \o told
  <2>1. Retold(Entry(c)) <=> ~Unsaid(c)
    BY DEF Retold, Unsaid, Entry
  <2>2. Entry(c).result # "empty" /\ Entry(c).id = c
    BY DEF Entry
  <2> QED
    BY <2>1, <2>2 DEF Exchange
<1>4. IsList(kept) /\ IsList(asked) /\ IsList(told) /\ IsList(asks)
  <2>1. IsList(<<>>)
    BY DEF IsList
  <2> QED
    BY <2>1, OneIsList
<1>5. told \o asks = <<[role |-> "assistant", of |-> c], [role |-> "user", of |-> d]>>
  BY PairIs
<1> HIDE DEF h, k, f, asked, told, asks, kept
<1>6. /\ n \in Nat /\ IsList(k) /\ Len(k) = n + 1 /\ k[n + 1] = Entry(c)
      /\ \A i \in 1..n : k[i] = h[i]
  <2> DEFINE x == <<Entry(c)>>
  <2>1. IsList(x) /\ Len(x) = 1 /\ x[1] = Entry(c)
    BY OneIsList
  <2> HIDE DEF x
  <2>2. /\ IsList(h \o x) /\ Len(h \o x) = Len(h) + Len(x)
        /\ \A i \in 1..Len(h) : (h \o x)[i] = h[i]
        /\ \A i \in 1..Len(x) : (h \o x)[Len(h) + i] = x[i]
    <3>1. IsList(h)
      BY <1>1
    <3>2. IsList(x)
      BY <2>1
    <3> QED
      BY <3>1, <3>2, Appended
  <2>3. k = h \o x
    BY <1>1 DEF x
  <2>4. n \in Nat
    BY <1>1, ListIs
  <2> QED
    BY <2>1, <2>2, <2>3, <2>4
<1>7. /\ IsList(Exchanges(h)) /\ Len(Exchanges(h)) = n
      /\ \A i \in 1..n : Exchanges(h)[i] = Exchange(h[i]) /\ IsList(Exchange(h[i]))
  BY <1>1, ExchangesAre
<1>8. /\ Len(Exchanges(k)) = n + 1
      /\ \A i \in 1..(n + 1) : Exchanges(k)[i] = Exchange(k[i]) /\ IsList(Exchange(k[i]))
  BY <1>6, ExchangesAre
<1>9. FlattenSeq(Exchanges(k)) = f \o (kept \o told)
  <2>1. Agree(Exchanges(h), Exchanges(k), n)
    BY <1>6, <1>7, <1>8 DEF Agree
  <2>2. \A i \in 1..(n + 1) : IsList(Exchanges(k)[i])
    BY <1>8
  <2>3. FlattenSeq(Exchanges(k)) = FlattenSeq(Exchanges(h)) \o Exchanges(k)[n + 1]
    BY <1>6, <1>7, <1>8, <2>1, <2>2, FlattenGrows
  <2>4. Exchanges(k)[n + 1] = Exchange(Entry(c))
    BY <1>6, <1>8
  <2> QED
    BY <1>3, <2>3, <2>4 DEF f
<1>10. IsList(f)
  BY <1>7, FlattenList DEF f
<1>11. f \o (kept \o told) = (f \o kept) \o told
  BY <1>4, <1>10, Regrouped
<1>12. ((f \o kept) \o told) \o asks = (f \o kept) \o (told \o asks)
  <2> DEFINE g == f \o kept
  <2>1. IsList(g)
    BY <1>4, <1>10, Appended
  <2> HIDE DEF g
  <2>2. g \o (told \o asks) = (g \o told) \o asks
    BY <1>4, <2>1, Regrouped
  <2> QED
    BY <2>2 DEF g
<1>13. f \o kept = IF Unsaid(c) THEN f ELSE f \o asked
  BY <1>10, NothingAppended DEF kept
<1> QED
  BY <1>2, <1>5, <1>9, <1>11, <1>12, <1>13

(* A deployment that is called again in a thread is shown what it was shown before, its own
   answer and the new message, whatever other tools and threads the request and the earlier
   ones have (_extract_tool_history); of what it was shown before, an empty query without
   attachments is left out.  The answer that began or continued the thread must have no
   second call of it. *)
THEOREM ThreadGrows == Spec => []ThreadContinues
<1>1. IInv => ThreadContinues
  <2> SUFFICES ASSUME IInv, NEW c \in Requested, NEW d \in Requested, InOneThread(c, d),
                      Answered(d) = Answered(c) + 1, Alone(c)
               PROVE  Dialogue(d) = (IF Unsaid(c) THEN Earlier(c) ELSE Dialogue(c))
                                      \o <<[role |-> "assistant", of |-> c],
                                           [role |-> "user", of |-> d]>>
    BY DEF ThreadContinues, Alone
  <2>1. script \in Scripts
    BY DEF IInv, Typed
  <2> QED
    BY <2>1, DialogueGrows
<1> QED
  BY <1>1, Invariant, PTL

=============================================================================
