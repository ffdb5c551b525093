------------------------- MODULE RequestErrors_proofs -------------------------
(***************************************************************************)
(* Proofs about RequestErrors for every set of calls and errors: which     *)
(* failure a reference leads to, and when a retry is advised.              *)
(***************************************************************************)
EXTENDS RequestErrors, TLAPS

-----------------------------------------------------------------------------
(* The rules: what resolve_exception says of any error. *)

(* The first of the rules that has an answer, written out. *)
LEMMA LadderOrder ==
  ASSUME NEW e
  PROVE  LET d == Details(e) IN
         Resolved(e) = IF ByDisplay(d) # Unresolved THEN ByDisplay(d)
                       ELSE IF ByCode(d) # Unresolved THEN ByCode(d)
                       ELSE IF ByMessage(d) # Unresolved THEN ByMessage(d)
                       ELSE IF ByStatusOrType(e, d) # Unresolved THEN ByStatusOrType(e, d)
                       ELSE IF ByStream(e) # Unresolved THEN ByStream(e)
                       ELSE IF ByOrigin(e) # Unresolved THEN ByOrigin(e)
                       ELSE Final("fallback")
<1> DEFINE d == Details(e)
           rules == Ladder(e, d)
           First(i) == rules[i] # Unresolved /\ \A j \in 1..(i - 1) : rules[j] = Unresolved
           first == CHOOSE i \in DOMAIN rules : First(i)
<1>1. /\ DOMAIN rules = 1..7
      /\ rules[1] = ByDisplay(d) /\ rules[2] = ByCode(d) /\ rules[3] = ByMessage(d)
      /\ rules[4] = ByStatusOrType(e, d) /\ rules[5] = ByStream(e) /\ rules[6] = ByOrigin(e)
      /\ rules[7] = Final("fallback")
  BY DEF Ladder
<1>2. Final("fallback") # Unresolved
  BY DEF Final, Unresolved
<1> HIDE DEF rules
<1>3. \E i \in 1..7 : First(i)
  <2>1. rules[7] # Unresolved
    BY <1>1, <1>2
  <2>2. CASE rules[1] # Unresolved
    BY <2>2
  <2>3. CASE rules[1] = Unresolved /\ rules[2] # Unresolved
    BY <2>3
  <2>4. CASE rules[1] = Unresolved /\ rules[2] = Unresolved /\ rules[3] # Unresolved
    BY <2>4
  <2>5. CASE /\ rules[1] = Unresolved /\ rules[2] = Unresolved /\ rules[3] = Unresolved
             /\ rules[4] # Unresolved
    BY <2>5
  <2>6. CASE /\ rules[1] = Unresolved /\ rules[2] = Unresolved /\ rules[3] = Unresolved
             /\ rules[4] = Unresolved /\ rules[5] # Unresolved
    BY <2>6
  <2>7. CASE /\ rules[1] = Unresolved /\ rules[2] = Unresolved /\ rules[3] = Unresolved
             /\ rules[4] = Unresolved /\ rules[5] = Unresolved /\ rules[6] # Unresolved
    BY <2>7
  <2>8. CASE /\ rules[1] = Unresolved /\ rules[2] = Unresolved /\ rules[3] = Unresolved
             /\ rules[4] = Unresolved /\ rules[5] = Unresolved /\ rules[6] = Unresolved
    BY <2>1, <2>8
  <2> QED
    BY <2>2, <2>3, <2>4, <2>5, <2>6, <2>7, <2>8
<1>4. first \in 1..7 /\ First(first)
  BY <1>1, <1>3
<1>5. Resolved(e) = rules[first]
  BY DEF Resolved, rules
<1> HIDE DEF first
<1>6. ASSUME NEW i \in 1..7, first = i
      PROVE  Resolved(e) = rules[i] /\ rules[i] # Unresolved /\ \A j \in 1..(i - 1) : rules[j] = Unresolved
  BY <1>4, <1>5, <1>6
<1> HIDE DEF d
<1>7. Resolved(e) = IF ByDisplay(d) # Unresolved THEN ByDisplay(d)
                    ELSE IF ByCode(d) # Unresolved THEN ByCode(d)
                    ELSE IF ByMessage(d) # Unresolved THEN ByMessage(d)
                    ELSE IF ByStatusOrType(e, d) # Unresolved THEN ByStatusOrType(e, d)
                    ELSE IF ByStream(e) # Unresolved THEN ByStream(e)
                    ELSE IF ByOrigin(e) # Unresolved THEN ByOrigin(e)
                    ELSE Final("fallback")
  <2>1. CASE first = 1
    BY <1>1, <1>6, <2>1
  <2>2. CASE first = 2
    BY <1>1, <1>6, <2>2
  <2>3. CASE first = 3
    BY <1>1, <1>6, <2>3
  <2>4. CASE first = 4
    BY <1>1, <1>6, <2>4
  <2>5. CASE first = 5
    BY <1>1, <1>6, <2>5
  <2>6. CASE first = 6
    BY <1>1, <1>6, <2>6
  <2>7. CASE first = 7
    BY <1>1, <1>6, <2>7
  <2> QED
    BY <1>4, <2>1, <2>2, <2>3, <2>4, <2>5, <2>6, <2>7
<1> QED
  BY <1>7 DEF d

(* When a retry is advised, and no upstream explained itself. *)
Right(e, r) ==
  /\ r.message # "display" /\ r.retry => MayPass(e)
  /\ r.message # "display" /\ MayPass(e) => r.retry

Bodies == {"status", "stream", "core", "service"}

(* The status of the details is the error's own, or that of its code. *)
LEMMA DetailsStatus ==
  ASSUME NEW e, IsError(e), ~e.odd, e.kind \in Bodies
  PROVE  /\ Details(e) = [status |-> Backfilled(e), code |-> e.code, text |-> e.text,
                          display |-> e.display]
         /\ Backfilled(e) = IF e.kind = "stream" THEN e.number ELSE e.status
         /\ Backfilled(e) \in Nat
BY DEF IsError, Details, Backfilled, Bodies

LEMMA FinalAnswer ==
  ASSUME NEW m, m # "unresolved"
  PROVE  Final(m) # Unresolved /\ ~Final(m).retry
BY DEF Final, Unresolved

LEMMA TransientAnswer ==
  ASSUME NEW m
  PROVE  Transient(m) # Unresolved /\ Transient(m).retry
BY DEF Transient, Unresolved

(* What a service's status means. *)
LEMMA ServiceAnswer ==
  ASSUME NEW s \in Nat
  PROVE  /\ ServiceStatus(s) # Unresolved
         /\ ServiceStatus(s).retry <=> s = 429 \/ s >= 500
<1>1. CASE s = 401
  <2>1. ServiceStatus(s) = Final("service auth")
    BY <1>1 DEF ServiceStatus
  <2>2. Final("service auth") # Unresolved /\ ~Final("service auth").retry
    BY FinalAnswer
  <2>3. ~(s = 429 \/ s >= 500)
    BY <1>1
  <2> QED
    BY <2>1, <2>2, <2>3
<1>2. CASE s = 403
  <2>1. ServiceStatus(s) = Final("service permission")
    BY <1>2 DEF ServiceStatus
  <2>2. Final("service permission") # Unresolved /\ ~Final("service permission").retry
    BY FinalAnswer
  <2>3. ~(s = 429 \/ s >= 500)
    BY <1>2
  <2> QED
    BY <2>1, <2>2, <2>3
<1>3. CASE s = 404
  <2>1. ServiceStatus(s) = Final("service not found")
    BY <1>3 DEF ServiceStatus
  <2>2. Final("service not found") # Unresolved /\ ~Final("service not found").retry
    BY FinalAnswer
  <2>3. ~(s = 429 \/ s >= 500)
    BY <1>3
  <2> QED
    BY <2>1, <2>2, <2>3
<1>4. CASE s = 429
  <2>1. ServiceStatus(s) = Transient("service rate limit")
    BY <1>4 DEF ServiceStatus
  <2>2. Transient("service rate limit") # Unresolved /\ Transient("service rate limit").retry
    BY TransientAnswer
  <2>3. s = 429 \/ s >= 500
    BY <1>4
  <2> QED
    BY <2>1, <2>2, <2>3
<1>5. CASE s # 401 /\ s # 403 /\ s # 404 /\ s # 429 /\ s >= 500
  <2>1. ServiceStatus(s) = Transient("service internal")
    BY <1>5 DEF ServiceStatus
  <2>2. Transient("service internal") # Unresolved /\ Transient("service internal").retry
    BY TransientAnswer
  <2>3. s = 429 \/ s >= 500
    BY <1>5
  <2> QED
    BY <2>1, <2>2, <2>3
<1>6. CASE s # 401 /\ s # 403 /\ s # 404 /\ s # 429 /\ ~(s >= 500)
  <2>1. ServiceStatus(s) = Final("unexpected")
    BY <1>6 DEF ServiceStatus
  <2>2. Final("unexpected") # Unresolved /\ ~Final("unexpected").retry
    BY FinalAnswer
  <2>3. ~(s = 429 \/ s >= 500)
    BY <1>6
  <2> QED
    BY <2>1, <2>2, <2>3
<1> QED
  BY <1>1, <1>2, <1>3, <1>4, <1>5, <1>6

(* The statuses a model's error may have, and what they mean. *)
Refusal(s) == s = 400 \/ s = 401 \/ s = 403 \/ s = 404 \/ s = 413 \/ s = 422
Passing(s) == s = 409 \/ s = 429 \/ s >= 500

LEMMA ModelAnswer ==
  ASSUME NEW s \in Nat
  PROVE  /\ Refusal(s) => ModelStatus(s) # Unresolved /\ ~ModelStatus(s).retry
         /\ Passing(s) => ModelStatus(s) # Unresolved /\ ModelStatus(s).retry
         /\ ~Refusal(s) /\ ~Passing(s) => ModelStatus(s) = Unresolved
         /\ ~(Refusal(s) /\ Passing(s))
<1>1. CASE s = 401
  <2>1. ModelStatus(s) = Final("model auth")
    BY <1>1 DEF ModelStatus
  <2>2. Final("model auth") # Unresolved /\ ~Final("model auth").retry
    BY FinalAnswer
  <2>3. Refusal(s) /\ ~Passing(s)
    BY <1>1 DEF Passing, Refusal
  <2> QED
    BY <2>1, <2>2, <2>3
<1>2. CASE s = 403
  <2>1. ModelStatus(s) = Final("model permission")
    BY <1>2 DEF ModelStatus
  <2>2. Final("model permission") # Unresolved /\ ~Final("model permission").retry
    BY FinalAnswer
  <2>3. Refusal(s) /\ ~Passing(s)
    BY <1>2 DEF Passing, Refusal
  <2> QED
    BY <2>1, <2>2, <2>3
<1>3. CASE s = 404
  <2>1. ModelStatus(s) = Final("model not found")
    BY <1>3 DEF ModelStatus
  <2>2. Final("model not found") # Unresolved /\ ~Final("model not found").retry
    BY FinalAnswer
  <2>3. Refusal(s) /\ ~Passing(s)
    BY <1>3 DEF Passing, Refusal
  <2> QED
    BY <2>1, <2>2, <2>3
<1>4. CASE s = 413
  <2>1. ModelStatus(s) = Final("payload")
    BY <1>4 DEF ModelStatus
  <2>2. Final("payload") # Unresolved /\ ~Final("payload").retry
    BY FinalAnswer
  <2>3. Refusal(s) /\ ~Passing(s)
    BY <1>4 DEF Passing, Refusal
  <2> QED
    BY <2>1, <2>2, <2>3
<1>5. CASE s = 400
  <2>1. ModelStatus(s) = Final("invalid request")
    BY <1>5 DEF ModelStatus
  <2>2. Final("invalid request") # Unresolved /\ ~Final("invalid request").retry
    BY FinalAnswer
  <2>3. Refusal(s) /\ ~Passing(s)
    BY <1>5 DEF Passing, Refusal
  <2> QED
    BY <2>1, <2>2, <2>3
<1>6. CASE s = 422
  <2>1. ModelStatus(s) = Final("invalid request")
    BY <1>6 DEF ModelStatus
  <2>2. Final("invalid request") # Unresolved /\ ~Final("invalid request").retry
    BY FinalAnswer
  <2>3. Refusal(s) /\ ~Passing(s)
    BY <1>6 DEF Passing, Refusal
  <2> QED
    BY <2>1, <2>2, <2>3
<1>7. CASE s = 409
  <2>1. ModelStatus(s) = Transient("conflict")
    BY <1>7 DEF ModelStatus
  <2>2. Transient("conflict") # Unresolved /\ Transient("conflict").retry
    BY TransientAnswer
  <2>3. Passing(s) /\ ~Refusal(s)
    BY <1>7 DEF Passing, Refusal
  <2> QED
    BY <2>1, <2>2, <2>3
<1>8. CASE s = 429
  <2>1. ModelStatus(s) = Transient("rate limit")
    BY <1>8 DEF ModelStatus
  <2>2. Transient("rate limit") # Unresolved /\ Transient("rate limit").retry
    BY TransientAnswer
  <2>3. Passing(s) /\ ~Refusal(s)
    BY <1>8 DEF Passing, Refusal
  <2> QED
    BY <2>1, <2>2, <2>3
<1>9. CASE /\ s # 401 /\ s # 403 /\ s # 404 /\ s # 413 /\ s # 400 /\ s # 422
          /\ s # 409 /\ s # 429 /\ s >= 500
  <2>1. s \notin {400, 422}
    BY <1>9
  <2>2. ModelStatus(s) = Transient("model internal")
    BY <1>9, <2>1 DEF ModelStatus
  <2>3. Transient("model internal") # Unresolved /\ Transient("model internal").retry
    BY TransientAnswer
  <2>4. Passing(s) /\ ~Refusal(s)
    BY <1>9 DEF Passing, Refusal
  <2> QED
    BY <2>2, <2>3, <2>4
<1>10. CASE /\ s # 401 /\ s # 403 /\ s # 404 /\ s # 413 /\ s # 400 /\ s # 422
           /\ s # 409 /\ s # 429 /\ ~(s >= 500)
  <2>1. s \notin {400, 422}
    BY <1>10
  <2>2. ModelStatus(s) = Unresolved
    BY <1>10, <2>1 DEF ModelStatus
  <2>3. ~Passing(s) /\ ~Refusal(s)
    BY <1>10 DEF Passing, Refusal
  <2> QED
    BY <2>2, <2>3
<1> QED
  BY <1>1, <1>2, <1>3, <1>4, <1>5, <1>6, <1>7, <1>8, <1>9, <1>10

(* Of an error with a body that has no known code, MayPass asks for the status only. *)
LEMMA MayPassOfBody ==
  ASSUME NEW e, IsError(e), e.kind \in Bodies, e.code \notin Codes,
         NEW s \in Nat, s = IF e.kind = "stream" THEN e.number ELSE e.status
  PROVE  /\ e.kind = "service" => (MayPass(e) <=> s = 429 \/ s >= 500)
         /\ e.kind # "service" =>
              (MayPass(e) <=> Passing(s) \/ (e.kind = "stream" /\ ~Refusal(s)))
<1>1. e.kind \notin {"timeout", "service timeout", "network"}
  BY DEF Bodies
<1>2. s \notin {400, 401, 403, 404, 413, 422} <=> ~Refusal(s)
  BY DEF Refusal
<1>3. MayPass(e) <=> \/ s >= 500 \/ s = 429
                     \/ s = 409 /\ e.kind # "service"
                     \/ e.kind = "stream" /\ s \notin {400, 401, 403, 404, 413, 422}
  <2>1. CASE e.kind = "stream"
    <3>1. s = e.number
      BY <2>1
    <3> QED
      BY <2>1, <3>1 DEF MayPass
  <2>2. CASE e.kind # "stream"
    <3>1. s = e.status
      BY <2>2
    <3>2. e.kind \in {"status", "core", "service", "stream"}
      BY DEF Bodies
    <3> QED
      BY <1>1, <2>2, <3>1, <3>2, ZenonT(30) DEF MayPass
  <2> QED
    BY <2>1, <2>2
<1> QED
  BY <1>2, <1>3 DEF Passing

LEMMA AdviceRight ==
  ASSUME NEW e, IsError(e), ~e.odd
  PROVE  Right(e, Resolved(e))
<1> DEFINE d == Details(e)
           s == Backfilled(e)
<1>1. CASE e.kind \in Bodies
  <2>1. /\ d.status = s /\ d.code = e.code /\ d.text = e.text /\ d.display = e.display
        /\ s = (IF e.kind = "stream" THEN e.number ELSE e.status) /\ s \in Nat
    BY <1>1, DetailsStatus
  <2> HIDE DEF d, s
  <2>2. CASE d.display = "text"
    <3>1. ByDisplay(d) # Unresolved /\ ByDisplay(d).message = "display"
      BY <2>2 DEF ByDisplay, Unresolved
    <3>2. Resolved(e) = ByDisplay(d)
      BY <3>1, LadderOrder DEF d
    <3> QED
      BY <3>1, <3>2 DEF Right
  <2>3. CASE d.display # "text" /\ e.code \in Codes
    <3>1. ByDisplay(d) = Unresolved /\ ByCode(d) = Final(e.code)
      BY <2>1, <2>3 DEF ByDisplay, ByCode
    <3>2. Final(e.code) # Unresolved /\ ~Final(e.code).retry
      BY <2>3 DEF Final, Unresolved, Codes
    <3>3. Resolved(e) = Final(e.code)
      BY <3>1, <3>2, LadderOrder DEF d
    <3>4. ~MayPass(e)
      BY <1>1, <2>3 DEF MayPass, Bodies
    <3> QED
      BY <3>2, <3>3, <3>4 DEF Right
  <2>4. CASE d.display # "text" /\ e.code \notin Codes /\ s = 400 /\ e.text = "too long"
    <3>1. ByDisplay(d) = Unresolved /\ ByCode(d) = Unresolved /\ ByMessage(d) = Final("length")
      BY <2>1, <2>4 DEF ByDisplay, ByCode, ByMessage
    <3>2. Final("length") # Unresolved /\ ~Final("length").retry
      BY DEF Final, Unresolved
    <3>3. Resolved(e) = Final("length")
      BY <3>1, <3>2, LadderOrder DEF d
    <3>4. Refusal(s) /\ ~Passing(s) /\ s # 429 /\ ~(s >= 500)
      <4>1. s = 400
        BY <2>4
      <4> QED
        BY <4>1 DEF Refusal, Passing
    <3>5. ~MayPass(e)
      <4>1. CASE e.kind = "service"
        <5>1. MayPass(e) <=> s = 429 \/ s >= 500
          BY <1>1, <2>1, <2>4, <4>1, MayPassOfBody
        <5> QED
          BY <3>4, <5>1
      <4>2. CASE e.kind # "service"
        <5>1. MayPass(e) <=> Passing(s) \/ (e.kind = "stream" /\ ~Refusal(s))
          BY <1>1, <2>1, <2>4, <4>2, MayPassOfBody, ZenonT(30)
        <5> QED
          BY <3>4, <5>1
      <4> QED
        BY <4>1, <4>2
    <3> QED
      BY <3>2, <3>3, <3>5 DEF Right
  <2>5. CASE d.display # "text" /\ e.code \notin Codes /\ ~(s = 400 /\ e.text = "too long")
    <3>1. ByDisplay(d) = Unresolved /\ ByCode(d) = Unresolved /\ ByMessage(d) = Unresolved
      BY <2>1, <2>5 DEF ByDisplay, ByCode, ByMessage
    <3>2. CASE e.kind = "service"
      <4>1. ByStatusOrType(e, d) = ServiceStatus(s)
        BY <2>1, <3>2 DEF ByStatusOrType
      <4>2. Resolved(e) = ServiceStatus(s)
        BY <2>1, <3>1, <4>1, ServiceAnswer, LadderOrder DEF d
      <4>3. MayPass(e) <=> s = 429 \/ s >= 500
        BY <1>1, <2>1, <2>5, <3>2, MayPassOfBody
      <4> QED
        BY <2>1, <4>2, <4>3, ServiceAnswer DEF Right
    <3>3. CASE e.kind # "service"
      <4>1. ByStatusOrType(e, d) = ModelStatus(s)
        BY <1>1, <2>1, <3>3 DEF ByStatusOrType, Bodies
      <4>2. MayPass(e) <=> Passing(s) \/ (e.kind = "stream" /\ ~Refusal(s))
        BY <1>1, <2>1, <2>5, <3>3, MayPassOfBody
      <4>3. CASE Refusal(s) \/ Passing(s)
        <5>1. Resolved(e) = ModelStatus(s)
          BY <2>1, <3>1, <4>1, <4>3, ModelAnswer, LadderOrder DEF d
        <5> QED
          BY <2>1, <4>2, <4>3, <5>1, ModelAnswer DEF Right
      <4>4. CASE ~Refusal(s) /\ ~Passing(s)
        <5>1. ModelStatus(s) = Unresolved
          BY <2>1, <4>4, ModelAnswer
        <5>2. CASE e.kind = "stream"
          <6>1. ByStream(e) # Unresolved /\ ByStream(e).retry
            BY <5>2 DEF ByStream, Transient, Unresolved
          <6>2. Resolved(e) = ByStream(e)
            BY <3>1, <4>1, <5>1, <6>1, LadderOrder DEF d
          <6> QED
            BY <4>2, <4>4, <5>2, <6>1, <6>2 DEF Right
        <5>3. CASE e.kind # "stream"
          <6>1. ByStream(e) = Unresolved /\ ByOrigin(e) = Unresolved
            BY <1>1, <5>3 DEF ByStream, ByOrigin, Bodies
          <6>2. Resolved(e) = Final("fallback")
            BY <3>1, <4>1, <5>1, <6>1, LadderOrder DEF d
          <6> QED
            BY <4>2, <4>4, <5>3, <6>2 DEF Right, Final
        <5> QED
          BY <5>2, <5>3
      <4> QED
        BY <4>3, <4>4
    <3> QED
      BY <3>2, <3>3
  <2> QED
    BY <2>2, <2>3, <2>4, <2>5
<1>2. CASE e.kind \notin Bodies
  <2>1. ByDisplay(d) = Unresolved /\ ByCode(d) = Unresolved /\ ByMessage(d) = Unresolved
    BY <1>2 DEF Details, None, ByDisplay, ByCode, ByMessage, Codes, Bodies
  <2> HIDE DEF d
  <2>2. CASE e.kind \in {"timeout", "service timeout", "network"}
    <3>1. ByStatusOrType(e, d) # Unresolved /\ ByStatusOrType(e, d).retry
      BY <2>2 DEF ByStatusOrType, Transient, Unresolved
    <3>2. Resolved(e) = ByStatusOrType(e, d)
      BY <2>1, <3>1, LadderOrder DEF d
    <3>3. MayPass(e)
      BY <2>2 DEF MayPass
    <3> QED
      BY <3>1, <3>2, <3>3 DEF Right
  <2>3. CASE e.kind = "connection"
    <3>1. ByStatusOrType(e, d) = Final("no connectivity") /\ Final("no connectivity") # Unresolved
      BY <2>3 DEF ByStatusOrType, Final, Unresolved
    <3>2. Resolved(e) = Final("no connectivity")
      BY <2>1, <3>1, LadderOrder DEF d
    <3>3. ~MayPass(e)
      BY <1>2, <2>3 DEF MayPass
    <3>4. ~Final("no connectivity").retry
      BY FinalAnswer
    <3> QED
      BY <3>2, <3>3, <3>4 DEF Right
  <2>4. CASE e.kind \notin {"timeout", "service timeout", "network", "connection"}
    <3>1. ByStatusOrType(e, d) = Unresolved /\ ByStream(e) = Unresolved
      BY <1>2, <2>4 DEF ByStatusOrType, ByStream, Bodies
    <3>2. ~Resolved(e).retry
      <4>1. Resolved(e) = IF ByOrigin(e) # Unresolved THEN ByOrigin(e) ELSE Final("fallback")
        BY <2>1, <3>1, LadderOrder DEF d
      <4>2. CASE ByOrigin(e) = Unresolved
        BY <4>1, <4>2, FinalAnswer
      <4>3. CASE ByOrigin(e) # Unresolved
        <5>1. ByOrigin(e) = Final(e.kind)
          BY <4>3 DEF ByOrigin
        <5> QED
          BY <4>1, <4>3, <5>1 DEF Final
      <4> QED
        BY <4>2, <4>3
    <3>3. ~MayPass(e)
      BY <1>2, <2>4 DEF MayPass, Bodies
    <3> QED
      BY <3>2, <3>3 DEF Right
  <2> QED
    BY <2>2, <2>3, <2>4
<1> QED
  BY <1>1, <1>2

-----------------------------------------------------------------------------
(* The inductive invariant. *)

Phases == {"setup", "model", "tools", "failing", "failed", "completed"}

Texts == {"none", "generic", "display", "rate limit", "error"}

TypeOK ==
  /\ phase \in Phases
  /\ tool \in [Calls -> {"idle", "running", "told", "stopped", "raised"}]
  /\ stage \in [Calls -> [text : Texts, ref : Nat]]
  /\ given \in [Calls -> Nat]
  /\ refs \in Nat

(* The reference of a failed call was handed out once and is in the log with that call; a
   stage that may show it does. *)
GivenInv ==
  /\ \A c \in Calls : given[c] # 0 => given[c] <= refs /\ <<given[c], c>> \in logged
  /\ \A c, d \in Calls : c # d /\ given[c] # 0 => given[d] # given[c]
  /\ \A c \in Calls : stage[c].ref = (IF display.level = "none" THEN 0 ELSE given[c])

(* The call that ended the request has failed, so its stage stays as it is. *)
StopInv ==
  stoppedBy # NoOne =>
    /\ stoppedBy \in Calls /\ phase \in {"failing", "failed"}
    /\ tool[stoppedBy] = "stopped"
    /\ given[stoppedBy] # 0

WireInv ==
  phase = "failed" => /\ wire.ref \in Nat /\ wire.ref <= refs
                      /\ ReferenceFindsFailure

AdviceInv ==
  /\ phase \in {"failing", "failed"} => IsError(raised)
  /\ AdviceMayHelp

IInv == TypeOK /\ GivenInv /\ StopInv /\ WireInv /\ AdviceInv

LEMMA KnownIsError ==
  ASSUME NEW k
  PROVE  IsError(Known(k))
BY DEF IsError, Known

(* The numbers of the state. *)
LEMMA RefsTyped ==
  ASSUME IInv
  PROVE  /\ refs \in Nat
         /\ \A c \in Calls : given[c] \in Nat /\ given[c] <= refs
<1>1. refs \in Nat /\ \A c \in Calls : given[c] \in Nat
  BY DEF IInv, TypeOK
<1>2. ASSUME NEW c \in Calls
      PROVE  given[c] <= refs
  <2>1. CASE given[c] = 0
    BY <1>1, <2>1
  <2>2. CASE given[c] # 0
    BY <2>2 DEF IInv, GivenInv
  <2> QED
    BY <2>1, <2>2
<1> QED
  BY <1>1, <1>2

LEMMA TextOfStage ==
  ASSUME NEW e
  PROVE  StageText(e) \in Texts
<1> DEFINE d == Details(e)
<1>1. CASE d.status = 429 /\ d.display = "text"
  <2>1. StageText(e) = "display"
    BY <1>1 DEF StageText
  <2> QED
    BY <2>1 DEF Texts
<1>2. CASE d.status = 429 /\ d.display # "text"
  <2>1. StageText(e) = "rate limit"
    BY <1>2 DEF StageText
  <2> QED
    BY <2>1 DEF Texts
<1>3. CASE d.status # 429
  <2>1. StageText(e) = "error"
    BY <1>3 DEF StageText
  <2> QED
    BY <2>1 DEF Texts
<1> QED
  BY <1>1, <1>2, <1>3

LEMMA InitOK == Init => IInv
<1> SUFFICES ASSUME Init
             PROVE  IInv
  OBVIOUS
<1> USE DEF Init
<1>1. TypeOK
  <2>1. [text |-> "none", ref |-> 0] \in [text : Texts, ref : Nat]
    BY DEF Texts
  <2> QED
    BY <2>1 DEF TypeOK, Phases
<1>2. GivenInv
  BY DEF GivenInv
<1>3. StopInv /\ WireInv /\ AdviceInv
  BY DEF StopInv, WireInv, AdviceInv, AdviceMayHelp
<1> QED
  BY <1>1, <1>2, <1>3 DEF IInv

(* A step that hands out no reference and writes no stage, before the error is delivered. *)
LEMMA PlainStep ==
  ASSUME IInv, UNCHANGED <<display, stage, given, refs, logged, wire>>,
         tool' \in [Calls -> {"idle", "running", "told", "stopped", "raised"}],
         phase' \in Phases, StopInv', phase' # "failed",
         phase' = "failing" => IsError(raised')
  PROVE  IInv'
<1>1. TypeOK' /\ GivenInv'
  BY DEF IInv, TypeOK, GivenInv
<1>2. WireInv' /\ AdviceInv'
  BY DEF WireInv, AdviceInv, AdviceMayHelp
<1> QED
  BY <1>1, <1>2 DEF IInv

LEMMA SetupFailsOK ==
  ASSUME IInv, SetupFails
  PROVE  IInv'
<1>1. PICK e \in {f \in Errors : f.kind \in {"core", "service", "service timeout", "network"}} \cup
                 {Known(k) : k \in {"model missing", "toolset missing", "toolset forbidden", "bug"}} :
        Raise(e, NoOne)
  BY DEF SetupFails
<1>2. IsError(e)
  BY ErrorsAssumption, KnownIsError
<1>3. phase' = "failing" /\ raised' = e /\ stoppedBy' = NoOne
  BY <1>1 DEF Raise
<1>4. UNCHANGED <<display, tool, stage, given, refs, logged, wire>>
  BY DEF SetupFails
<1>5. StopInv' /\ phase' \in Phases /\ phase' # "failed" /\ IsError(raised')
  BY <1>2, <1>3 DEF StopInv, Phases
<1> QED
  BY <1>4, <1>5, PlainStep DEF IInv, TypeOK

LEMMA ModelFailsOK ==
  ASSUME IInv, ModelFails
  PROVE  IInv'
<1>1. PICK e \in {f \in Errors : f.kind \in {"status", "stream", "timeout", "connection"}} \cup
                 {Known("iterations")} :
        Raise(e, NoOne)
  BY DEF ModelFails
<1>2. IsError(e)
  BY ErrorsAssumption, KnownIsError
<1>3. phase' = "failing" /\ raised' = e /\ stoppedBy' = NoOne
  BY <1>1 DEF Raise
<1>4. UNCHANGED <<display, tool, stage, given, refs, logged, wire>>
  BY DEF ModelFails
<1>5. StopInv' /\ phase' \in Phases /\ phase' # "failed" /\ IsError(raised')
  BY <1>2, <1>3 DEF StopInv, Phases
<1> QED
  BY <1>4, <1>5, PlainStep DEF IInv, TypeOK

(* No call has ended the request while it goes on. *)
LEMMA GoesOn ==
  ASSUME IInv, phase \in {"setup", "model", "tools"}
  PROVE  stoppedBy = NoOne
BY DEF IInv, StopInv

LEMMA SetUpOK ==
  ASSUME IInv, SetUp
  PROVE  IInv'
<1>1. stoppedBy' = NoOne
  BY GoesOn DEF SetUp
<1>2. StopInv' /\ phase' \in Phases /\ phase' # "failed" /\ phase' # "failing"
  BY <1>1 DEF SetUp, StopInv, Phases
<1> QED
  BY <1>2, PlainStep DEF SetUp, IInv, TypeOK

LEMMA ModelAnswersOK ==
  ASSUME IInv, ModelAnswers
  PROVE  IInv'
<1>1. stoppedBy' = NoOne
  BY GoesOn DEF ModelAnswers
<1>2. StopInv' /\ phase' \in Phases /\ phase' # "failed" /\ phase' # "failing"
  BY <1>1 DEF ModelAnswers, StopInv, Phases
<1> QED
  BY <1>2, PlainStep DEF ModelAnswers

LEMMA BatchEndsOK ==
  ASSUME IInv, BatchEnds
  PROVE  IInv'
<1>1. stoppedBy' = NoOne
  BY GoesOn DEF BatchEnds
<1>2. StopInv' /\ phase' \in Phases /\ phase' # "failed" /\ phase' # "failing"
  BY <1>1 DEF BatchEnds, StopInv, Phases
<1> QED
  BY <1>2, PlainStep DEF BatchEnds, IInv, TypeOK

LEMMA ToolReturnsOK ==
  ASSUME IInv, NEW c \in Calls, ToolReturns(c)
  PROVE  IInv'
<1> USE DEF ToolReturns
<1>1. tool' \in [Calls -> {"idle", "running", "told", "stopped", "raised"}]
  BY DEF IInv, TypeOK
<1>2. \A d \in Calls : tool[d] = "stopped" => tool'[d] = "stopped"
  BY DEF IInv, TypeOK
<1>3. TypeOK' /\ GivenInv'
  BY <1>1 DEF IInv, TypeOK, GivenInv
<1>4. StopInv'
  BY <1>2 DEF IInv, StopInv
<1>5. WireInv' /\ AdviceInv'
  BY DEF IInv, WireInv, ReferenceFindsFailure, AdviceInv, AdviceMayHelp
<1> QED
  BY <1>3, <1>4, <1>5 DEF IInv

(* What a failing call leaves in the stages. *)
LEMMA Reported ==
  ASSUME IInv, NEW c \in Calls, NEW e, Report(c, e)
  PROVE  /\ stage' \in [Calls -> [text : Texts, ref : Nat]]
         /\ \A d \in Calls \ {c} : stage'[d] = stage[d]
         /\ stage'[c].ref = IF display.level = "none" THEN stage[c].ref ELSE refs + 1
<1>1. CASE display.level = "none"
  BY <1>1 DEF Report, IInv, TypeOK
<1>2. CASE display.level # "none"
  <2> DEFINE text == IF display.error \/ e.kind = "tool timeout" THEN StageText(e)
                     ELSE "generic"
  <2>1. stage' = [stage EXCEPT ![c] = [text |-> text, ref |-> refs + 1]]
    BY <1>2 DEF Report
  <2>2. text \in Texts
    BY TextOfStage DEF Texts
  <2>3. refs + 1 \in Nat
    BY RefsTyped
  <2> HIDE DEF text
  <2> QED
    BY <1>2, <2>1, <2>2, <2>3 DEF IInv, TypeOK
<1> QED
  BY <1>1, <1>2

(* What a failing call leaves: its stage and how far it got, and perhaps the end of the
   request. *)
LEMMA ToolFailure ==
  ASSUME IInv, NEW c \in Calls, ToolFails(c)
  PROVE  /\ stage' \in [Calls -> [text : Texts, ref : Nat]]
         /\ \A d \in Calls \ {c} : stage'[d] = stage[d]
         /\ stage'[c].ref = IF display.level = "none" THEN stage[c].ref ELSE refs + 1
         /\ tool' \in [Calls -> {"idle", "running", "told", "stopped", "raised"}]
         /\ \A d \in Calls \ {c} : tool'[d] = tool[d]
         /\ \/ UNCHANGED <<phase, raised, stoppedBy>>
            \/ /\ phase = "tools" /\ phase' = "failing" /\ IsError(raised')
               /\ \/ stoppedBy' = NoOne
                  \/ stoppedBy' = c /\ tool'[c] = "stopped"
<1>1. PICK e \in Errors \cup {Known("tool error"), Known("tool timeout")} :
        /\ Report(c, e)
        /\ \/ tool' = [tool EXCEPT ![c] = "told"] /\ UNCHANGED <<phase, raised, stoppedBy>>
           \/ /\ tool' = [tool EXCEPT ![c] = "stopped"]
              /\ IF phase = "tools" THEN Raise(Known("stop"), c)
                 ELSE UNCHANGED <<phase, raised, stoppedBy>>
           \/ /\ tool' = [tool EXCEPT ![c] = "raised"]
              /\ IF phase = "tools" THEN Raise(e, NoOne)
                 ELSE UNCHANGED <<phase, raised, stoppedBy>>
  BY DEF ToolFails
<1>2. /\ stage' \in [Calls -> [text : Texts, ref : Nat]]
      /\ \A d \in Calls \ {c} : stage'[d] = stage[d]
      /\ stage'[c].ref = IF display.level = "none" THEN stage[c].ref ELSE refs + 1
  BY <1>1, Reported
<1>3. /\ tool' \in [Calls -> {"idle", "running", "told", "stopped", "raised"}]
      /\ \A d \in Calls \ {c} : tool'[d] = tool[d]
  BY <1>1 DEF IInv, TypeOK
<1>4. IsError(e) /\ IsError(Known("stop"))
  BY ErrorsAssumption, KnownIsError
<1>5. \/ UNCHANGED <<phase, raised, stoppedBy>>
      \/ /\ phase = "tools" /\ phase' = "failing" /\ IsError(raised')
         /\ \/ stoppedBy' = NoOne
            \/ stoppedBy' = c /\ tool'[c] = "stopped"
  <2>1. CASE tool' = [tool EXCEPT ![c] = "told"] /\ UNCHANGED <<phase, raised, stoppedBy>>
    BY <2>1
  <2>2. CASE /\ tool' = [tool EXCEPT ![c] = "stopped"]
             /\ IF phase = "tools" THEN Raise(Known("stop"), c)
                ELSE UNCHANGED <<phase, raised, stoppedBy>>
    BY <1>4, <2>2 DEF Raise, IInv, TypeOK
  <2>3. CASE /\ tool' = [tool EXCEPT ![c] = "raised"]
             /\ IF phase = "tools" THEN Raise(e, NoOne)
                ELSE UNCHANGED <<phase, raised, stoppedBy>>
    BY <1>4, <2>3 DEF Raise
  <2> QED
    BY <1>1, <2>1, <2>2, <2>3
<1> QED
  BY <1>2, <1>3, <1>5

LEMMA ToolFailsOK ==
  ASSUME IInv, NEW c \in Calls, ToolFails(c)
  PROVE  IInv'
<1>1. tool[c] = "running" /\ refs' = refs + 1 /\ UNCHANGED <<display, wire>>
  BY DEF ToolFails
<1>2. logged \subseteq logged' /\ <<refs', c>> \in logged'
  BY DEF ToolFails
<1>3. /\ stage' \in [Calls -> [text : Texts, ref : Nat]]
      /\ \A d \in Calls \ {c} : stage'[d] = stage[d]
      /\ stage'[c].ref = IF display.level = "none" THEN stage[c].ref ELSE refs + 1
  BY ToolFailure
<1>4. /\ tool' \in [Calls -> {"idle", "running", "told", "stopped", "raised"}]
      /\ \A d \in Calls \ {c} : tool'[d] = tool[d]
  BY ToolFailure
<1>5. \/ UNCHANGED <<phase, raised, stoppedBy>>
      \/ /\ phase = "tools" /\ phase' = "failing" /\ IsError(raised')
         /\ \/ stoppedBy' = NoOne
            \/ stoppedBy' = c /\ tool'[c] = "stopped"
  BY ToolFailure
<1>6. refs \in Nat /\ refs + 1 \in Nat /\ refs' \in Nat /\ refs <= refs'
  BY <1>1, RefsTyped
<1>7. /\ given' \in [Calls -> Nat] /\ given'[c] = refs + 1
      /\ \A d \in Calls \ {c} : given'[d] = given[d]
  BY <1>6 DEF ToolFails, IInv, TypeOK
<1>8. TypeOK'
  <2>1. phase' \in Phases
    BY <1>5 DEF IInv, TypeOK, Phases
  <2> QED
    BY <1>3, <1>4, <1>6, <1>7, <2>1 DEF TypeOK
<1>9. GivenInv'
  <2>1. ASSUME NEW d \in Calls, given'[d] # 0
        PROVE  given'[d] <= refs' /\ <<given'[d], d>> \in logged'
    <3>1. CASE d # c
      <4>1. given'[d] = given[d] /\ given[d] <= refs /\ <<given[d], d>> \in logged /\ given[d] \in Nat
        BY <1>7, <2>1, <3>1, RefsTyped DEF IInv, GivenInv
      <4> QED
        BY <1>6, <1>2, <4>1
    <3>2. CASE d = c
      BY <1>1, <1>6, <1>2, <1>7, <3>2
    <3> QED
      BY <3>1, <3>2
  <2>2. ASSUME NEW d \in Calls, NEW f \in Calls, d # f, given'[d] # 0
        PROVE  given'[f] # given'[d]
    <3>1. /\ given[d] \in Nat /\ given[f] \in Nat
          /\ given[d] <= refs /\ given[f] <= refs
      BY RefsTyped
    <3>2. CASE d # c /\ f # c
      BY <1>7, <2>2, <3>2 DEF IInv, GivenInv
    <3>3. CASE d = c
      BY <1>6, <1>7, <2>2, <3>1, <3>3
    <3>4. CASE f = c
      BY <1>6, <1>7, <2>2, <3>1, <3>4
    <3> QED
      BY <3>2, <3>3, <3>4
  <2>3. ASSUME NEW d \in Calls
        PROVE  stage'[d].ref = (IF display.level = "none" THEN 0 ELSE given'[d])
    <3>1. stage[d].ref = (IF display.level = "none" THEN 0 ELSE given[d])
      BY DEF IInv, GivenInv
    <3>2. CASE d = c
      BY <1>3, <1>7, <3>1, <3>2
    <3>3. CASE d # c
      BY <1>3, <1>7, <3>1, <3>3
    <3> QED
      BY <3>2, <3>3
  <2> QED
    BY <1>1, <2>1, <2>2, <2>3 DEF GivenInv
<1>10. ASSUME stoppedBy # NoOne
       PROVE  /\ stoppedBy \in Calls \ {c} /\ phase \in {"failing", "failed"}
              /\ UNCHANGED <<phase, raised, stoppedBy>>
              /\ stage'[stoppedBy] = stage[stoppedBy] /\ tool'[stoppedBy] = tool[stoppedBy]
              /\ given'[stoppedBy] = given[stoppedBy]
  <2>1. /\ stoppedBy \in Calls /\ phase \in {"failing", "failed"}
        /\ tool[stoppedBy] = "stopped"
    BY <1>10 DEF IInv, StopInv
  <2>2. stoppedBy # c
    BY <1>1, <2>1
  <2> QED
    BY <1>3, <1>4, <1>5, <1>7, <2>1, <2>2
<1>11. StopInv'
  <2>1. CASE stoppedBy # NoOne
    BY <1>10, <2>1 DEF IInv, StopInv
  <2>2. CASE stoppedBy = NoOne
    <3>1. CASE stoppedBy' = NoOne
      BY <3>1 DEF StopInv
    <3>2. CASE /\ stoppedBy' # NoOne /\ stoppedBy' = c
               /\ phase' = "failing" /\ tool'[c] = "stopped"
      <4>1. given'[c] # 0
        BY <1>6, <1>7
      <4> QED
        BY <3>2, <4>1 DEF StopInv
    <3> QED
      BY <1>5, <2>2, <3>1, <3>2
  <2> QED
    BY <2>1, <2>2
<1>12. WireInv'
  <2> SUFFICES ASSUME phase' = "failed"
               PROVE  wire.ref \in Nat /\ wire.ref <= refs' /\ ReferenceFindsFailure'
    BY <1>1 DEF WireInv
  <2>1. phase = "failed" /\ UNCHANGED <<phase, raised, stoppedBy>>
    BY <1>5
  <2>2. /\ wire.ref \in Nat /\ wire.ref <= refs
        /\ <<wire.ref, "request">> \in logged
        /\ \A d \in Calls \ {stoppedBy} : stage[d].ref # wire.ref
        /\ stoppedBy # NoOne =>
             /\ <<wire.ref, stoppedBy>> \in logged
             /\ stage[stoppedBy].ref = (IF display.level = "none" THEN 0 ELSE wire.ref)
    BY <2>1 DEF IInv, WireInv, ReferenceFindsFailure
  <2>3. ASSUME NEW d \in Calls \ {stoppedBy}
        PROVE  stage'[d].ref # wire.ref
    <3>1. CASE stage'[d].ref = stage[d].ref
      BY <2>2, <3>1
    <3>2. CASE stage'[d].ref = refs + 1
      BY <1>6, <2>2, <3>2
    <3> QED
      BY <1>3, <3>1, <3>2
  <2>4. stoppedBy # NoOne => stage'[stoppedBy] = stage[stoppedBy]
    BY <1>10
  <2>5. ReferenceFindsFailure'
    BY <1>1, <1>2, <2>1, <2>2, <2>3, <2>4 DEF ReferenceFindsFailure
  <2> QED
    BY <1>1, <1>6, <2>2, <2>5
<1>13. AdviceInv'
  BY <1>1, <1>5 DEF IInv, AdviceInv, AdviceMayHelp
<1> QED
  BY <1>8, <1>9, <1>11, <1>12, <1>13 DEF IInv

LEMMA DeliverOK ==
  ASSUME IInv, Deliver
  PROVE  IInv'
<1> DEFINE ref == Reference(refs)
           said == Resolved(raised)
<1>1. /\ phase = "failing" /\ phase' = "failed"
      /\ logged' = logged \cup {<<ref, "request">>}
      /\ refs' = IF ref > refs THEN ref ELSE refs
      /\ UNCHANGED <<display, tool, stage, raised, stoppedBy, given>>
  BY DEF Deliver
<1>2. wire' = [status |-> Outgoing(Details(raised).status), message |-> said.message,
               advice |-> said.retry /\ said.message # "display",
               code |-> Details(raised).code, ref |-> ref]
  BY DEF Deliver
<1>3. wire'.ref = ref /\ wire'.message = said.message
      /\ (wire'.advice <=> said.retry /\ said.message # "display")
  BY <1>2, Zenon
<1>4. refs \in Nat /\ \A c \in Calls : given[c] \in Nat /\ given[c] <= refs
  BY RefsTyped
<1>5. \/ stoppedBy # NoOne /\ ref = given[stoppedBy]
      \/ stoppedBy = NoOne /\ ref = refs + 1
  BY DEF Reference
<1> HIDE DEF ref, said
<1>6. ref \in Nat /\ refs' \in Nat /\ ref <= refs' /\ refs <= refs' /\ ref # 0
  BY <1>1, <1>4, <1>5 DEF IInv, StopInv
<1>7. TypeOK' /\ StopInv'
  BY <1>1, <1>6 DEF IInv, TypeOK, StopInv, Phases
<1>8. GivenInv'
  BY <1>1, <1>4, <1>6 DEF IInv, GivenInv
<1>9. \A c \in Calls \ {stoppedBy} : stage[c].ref # ref
  <2> SUFFICES ASSUME NEW c \in Calls \ {stoppedBy}
               PROVE  stage[c].ref # ref
    OBVIOUS
  <2>1. stage[c].ref = 0 \/ stage[c].ref = given[c]
    BY DEF IInv, GivenInv
  <2>2. given[c] # ref
    <3>1. CASE stoppedBy # NoOne /\ ref = given[stoppedBy]
      BY <3>1 DEF IInv, StopInv, GivenInv
    <3>2. CASE ref = refs + 1
      BY <1>4, <3>2
    <3> QED
      BY <1>5, <3>1, <3>2
  <2> QED
    BY <1>6, <2>1, <2>2
<1>10. stoppedBy # NoOne =>
         /\ <<ref, stoppedBy>> \in logged
         /\ stage[stoppedBy].ref = (IF display.level = "none" THEN 0 ELSE ref)
  BY <1>5 DEF IInv, StopInv, GivenInv
<1>11. WireInv'
  BY <1>1, <1>3, <1>6, <1>9, <1>10 DEF WireInv, ReferenceFindsFailure
<1>12. AdviceInv'
  <2>1. IsError(raised)
    BY <1>1 DEF IInv, AdviceInv
  <2>2. ~raised.odd => Right(raised, said)
    BY <2>1, AdviceRight DEF said
  <2> QED
    BY <1>1, <1>3, <2>1, <2>2 DEF AdviceInv, AdviceMayHelp, Right
<1> QED
  BY <1>7, <1>8, <1>11, <1>12 DEF IInv

LEMMA NextOK == IInv /\ [Next]_vars => IInv'
<1> SUFFICES ASSUME IInv, [Next]_vars
             PROVE  IInv'
  OBVIOUS
<1>1. CASE SetupFails
  BY <1>1, SetupFailsOK
<1>2. CASE SetUp
  BY <1>2, SetUpOK
<1>3. CASE ModelFails
  BY <1>3, ModelFailsOK
<1>4. CASE ModelAnswers
  BY <1>4, ModelAnswersOK
<1>5. CASE \E c \in Calls : ToolFails(c) \/ ToolReturns(c)
  BY <1>5, ToolFailsOK, ToolReturnsOK
<1>6. CASE BatchEnds
  BY <1>6, BatchEndsOK
<1>7. CASE Deliver
  BY <1>7, DeliverOK
<1>8. CASE UNCHANGED vars
  BY <1>8 DEF vars, IInv, TypeOK, GivenInv, StopInv, WireInv, ReferenceFindsFailure,
              AdviceInv, AdviceMayHelp
<1>9. CASE Terminated
  BY <1>8, <1>9 DEF Terminated
<1> QED
  BY <1>1, <1>2, <1>3, <1>4, <1>5, <1>6, <1>7, <1>8, <1>9 DEF Next

LEMMA Invariance == Spec => []IInv
<1>1. Init => IInv
  BY InitOK
<1>2. IInv /\ [Next]_vars => IInv'
  BY NextOK
<1> QED
  BY <1>1, <1>2, PTL DEF Spec

-----------------------------------------------------------------------------
(* The reference on the wire is logged for the request, no other call's stage shows it, and
   after a stop fallback it is the logged one of the call that failed, at every level of
   display, and the one in its stage unless stages are off (_error_reference_for,
   __process_fallback, _report_error_to_stage). *)
THEOREM ReferenceFinds == Spec => []ReferenceFindsFailure
<1>1. IInv => ReferenceFindsFailure
  BY DEF IInv, WireInv, ReferenceFindsFailure
<1> QED
  BY <1>1, Invariance, PTL

(* A retry is advised only when it may help, and always then unless the upstream explained
   itself or its body was malformed, whatever the errors are (resolve_exception,
   _is_retryable_from_details). *)
THEOREM AdviceHelps == Spec => []AdviceMayHelp
<1>1. IInv => AdviceMayHelp
  BY DEF IInv, AdviceInv
<1> QED
  BY <1>1, Invariance, PTL

=============================================================================
