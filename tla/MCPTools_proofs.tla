-------------------------- MODULE MCPTools_proofs --------------------------
(***************************************************************************)
(* Proofs about MCPSessions and MCPTools for every set of calls, toolsets  *)
(* and urls.  Of the sessions: one that is live per toolset, none left     *)
(* open, none handed out dead.  Of the tools: when a server may carry a    *)
(* call out twice, what it is sent, and which answer the loop is told.     *)
(***************************************************************************)
EXTENDS MCPTools, TLAPS, FiniteSetTheorems, WellFoundedInduction

-----------------------------------------------------------------------------
(* The inductive invariant of the sessions. *)

(* A lock is held by the call that waits for the session it opens. *)
LockOfOpener ==
  /\ \A c \in Calls : pc[c] = "opening" => holder[ToolsetOf[c]] = c
  /\ \A k \in Toolsets :
       holder[k] # NoCall => pc[holder[k]] = "opening" /\ ToolsetOf[holder[k]] = k

(* An attempt opens one handle at most, and none before it has the lock. *)
HandlesFresh ==
  \A c \in Calls :
    /\ pc[c] \in {"idle", "waiting"} => owner[<<c, attempt[c]>>] = "none"
    /\ pc[c] = "opening" => owner[<<c, attempt[c]>>] # "none"
    /\ pc[c] \in {"idle", "signin"} => attempt[c] = 1
    /\ attempt[c] = 1 => owner[<<c, 2>>] = "none"

(* A call in flight, and nobody else, has a session: one that was opened for its
   toolset. *)
Borrowed ==
  /\ \A c \in Calls :
       /\ using[c] # NoHandle <=> pc[c] = "calling"
       /\ pc[c] = "calling" =>
            owner[using[c]] \in {"parked", "exited", "failed"} /\ Key(using[c]) = ToolsetOf[c]
  /\ \A k \in Toolsets : current[k] # NoHandle => Key(current[k]) = k

(* While the request runs nobody is told to exit, and the dictionary has the handle
   that is being opened and the one that live calls use. *)
CurrentWhileRunning ==
  phase = "running" =>
    /\ closing = {} /\ ~outlived
    /\ \A h \in Handles : owner[h] # "exited"
    /\ \A c \in Calls :
         /\ pc[c] = "opening" => current[ToolsetOf[c]] = <<c, attempt[c]>>
         /\ pc[c] = "calling" /\ owner[using[c]] = "parked" => using[c] = current[ToolsetOf[c]]

(* Unless a call was abandoned while its session opened, every owner that is alive
   is known: to the call that waits for it, to the dictionary, then to aclose_all. *)
OwnersKnown ==
  /\ ~abandoned =>
       /\ \A h \in Handles : owner[h] = "opening" => pc[h[1]] = "opening" /\ h[2] = attempt[h[1]]
       /\ phase = "running" => \A h \in Handles : Live(h) => current[Key(h)] = h
  /\ ~outlived /\ phase # "running" =>
       /\ \A c \in Calls : pc[c] \in {"idle", "done"}
       /\ ~abandoned => \A h \in Handles : Live(h) => h \in closing
  /\ phase = "closed" => \A h \in closing : Ended(h)

IInv ==
  TypeOK /\ LockOfOpener /\ HandlesFresh /\ Borrowed /\ CurrentWhileRunning /\ OwnersKnown

-----------------------------------------------------------------------------
(* Lemmas about data. *)

(* A set of numbers that is not empty has a least one. *)
LEMMA LeastNat ==
  ASSUME NEW I, I \subseteq Nat, I # {}
  PROVE  \E m \in I : \A n \in I : m <= n
<1> DEFINE R == OpToRel(<, Nat)
<1>1. \E m \in I : \A n \in I : ~(<<n, m>> \in R)
  <2>1. IsWellFoundedOn(R, Nat)
    BY NatLessThanWellFounded
  <2> HIDE DEF R
  <2> QED BY <2>1, WFMin
<1>2. \A n, m \in Nat : n < m => <<n, m>> \in R
  BY DEF OpToRel
<1>3. PICK m \in I : \A n \in I : ~(<<n, m>> \in R)
  BY <1>1
<1> HIDE DEF R
<1>4. \A n \in I : ~(n < m)
  BY <1>2, <1>3
<1> QED
  BY <1>4

(* A queue without one of its members is a queue (asyncio.Lock gives up the place of a
   waiter that was cancelled). *)
LEMMA RemoveFirstType ==
  ASSUME NEW S, NEW q \in Seq(S), NEW x
  PROVE  RemoveFirst(q, x) \in Seq(S)
<1> DEFINE I == {i \in 1..Len(q) : q[i] = x}
           k == SelectInSeq(q, LAMBDA v : v = x)
<1>1. k = IF I # {} THEN Min(I) ELSE 0
  BY DEF SelectInSeq
<1>2. RemoveFirst(q, x) = IF I # {} THEN SubSeq(q, 1, k - 1) \o SubSeq(q, k + 1, Len(q)) ELSE q
  BY DEF RemoveFirst, RemoveAt
<1>3. I # {} => k \in 1..Len(q)
  <2>1. I \subseteq Nat
    OBVIOUS
  <2>2. I # {} => Min(I) \in I
    <3> HIDE DEF I
    <3> QED
      BY <2>1, LeastNat DEF Min
  <2> QED
    BY <1>1, <2>2
<1> HIDE DEF k
<1> QED
  BY <1>2, <1>3

-----------------------------------------------------------------------------
(* The invariant holds at first. *)

LEMMA InitIInv == Init => IInv
<1> SUFFICES ASSUME Init PROVE IInv
  OBVIOUS
<1> USE CallsAssumption DEF Init
<1>1. TypeOK
  <2>1. <<>> \in Seq(Calls)
    OBVIOUS
  <2> QED
    BY <2>1 DEF TypeOK
<1>2. LockOfOpener /\ Borrowed /\ CurrentWhileRunning
  BY DEF LockOfOpener, Borrowed, CurrentWhileRunning
<1>3. HandlesFresh
  BY DEF HandlesFresh, Handles
<1>4. OwnersKnown
  BY DEF OwnersKnown, Live
<1> QED
  BY <1>1, <1>2, <1>3, <1>4 DEF IInv

-----------------------------------------------------------------------------
(* What the steps of a call share. *)

(* A call that ends, or asks for a sign-in, without the lock. *)
LEMMA ParkKeepsIInv ==
  ASSUME IInv, NEW c \in Calls, NEW at \in {"signin", "done"}, Park(c, at),
         pc[c] \in {"calling", "signin"}, at = "signin" => attempt[c] = 1,
         UNCHANGED <<attempt, lock, current, handles, request, abandoned>>
  PROVE  IInv'
<1> USE DEF IInv, lock, handles, request
<1>1. TypeOK'
  BY DEF TypeOK, Park
<1>2. LockOfOpener'
  BY CallsAssumption DEF LockOfOpener, Park, TypeOK
<1>3. HandlesFresh'
  BY DEF HandlesFresh, Park, TypeOK
<1>4. Borrowed'
  BY DEF Borrowed, Park, TypeOK, Key
<1>5. CurrentWhileRunning'
  BY DEF CurrentWhileRunning, Park, TypeOK
<1>6. OwnersKnown'
  BY DEF OwnersKnown, Park, TypeOK, Live, Ended, Handles
<1> QED
  BY <1>1, <1>2, <1>3, <1>4, <1>5, <1>6

(* get_session once the lock is held, for attempt n of call c. *)
LEMMA EnterKeepsIInv ==
  ASSUME IInv, NEW c \in Calls, NEW n \in {1, 2}, Enter(c, n),
         pc[c] \in {"idle", "waiting", "signin"}, holder[ToolsetOf[c]] = NoCall,
         owner[<<c, n>>] = "none", phase = "running" \/ outlived,
         attempt' = [attempt EXCEPT ![c] = n], n = 1 => attempt[c] = 1,
         waiters' \in [Toolsets -> Seq(Calls)],
         UNCHANGED <<error, request, abandoned>>
  PROVE  IInv'
<1> DEFINE k == ToolsetOf[c]
           h == <<c, n>>
<1> USE DEF IInv, borrowed, request
<1>0. k \in Toolsets /\ h \in Handles /\ h # NoHandle /\ c # NoCall
  BY CallsAssumption DEF Handles
<1>1. CASE Reusable(current[k])
  <2>1. /\ pc' = [pc EXCEPT ![c] = "calling"]
        /\ using' = [using EXCEPT ![c] = current[k]]
        /\ watching' = [watching EXCEPT ![c] = current[k]]
        /\ UNCHANGED <<holder, current, owner>>
    BY <1>1 DEF Enter
  <2>2. current[k] \in Handles /\ owner[current[k]] \in {"parked", "exited"}
    BY <1>0, <1>1 DEF Reusable, HasSession, TypeOK
  <2>3. TypeOK'
    BY <2>1, <2>2 DEF TypeOK
  <2>4. LockOfOpener'
    BY <2>1, <1>0 DEF LockOfOpener, TypeOK
  <2>5. HandlesFresh'
    BY <2>1 DEF HandlesFresh, TypeOK
  <2>6. Borrowed'
    BY <2>1, <2>2, <1>0, CallsAssumption DEF Borrowed, TypeOK, Key, Handles
  <2>7. CurrentWhileRunning'
    BY <2>1, <2>2 DEF CurrentWhileRunning, TypeOK
  <2>8. OwnersKnown'
    BY <2>1 DEF OwnersKnown, TypeOK, Live, Ended, Handles, CurrentWhileRunning
  <2> QED
    BY <2>3, <2>4, <2>5, <2>6, <2>7, <2>8
<1>2. CASE ~Reusable(current[k])
  <2>1. /\ pc' = [pc EXCEPT ![c] = "opening"]
        /\ holder' = [holder EXCEPT ![k] = c]
        /\ current' = [current EXCEPT ![k] = h]
        /\ owner' = [owner EXCEPT ![h] = "opening"]
        /\ UNCHANGED <<using, watching>>
    BY <1>2 DEF Enter
  <2>2. current[k] \in Handles => owner[current[k]] \notin {"parked", "exited"}
    BY <1>0, <1>2, CallsAssumption DEF Reusable, HasSession, Handles
  <2>3. TypeOK'
    BY <2>1, <1>0 DEF TypeOK
  <2>4. LockOfOpener'
    BY <2>1, <1>0, CallsAssumption DEF LockOfOpener, TypeOK
  <2>9. \A g \in Handles : g # h => owner'[g] = owner[g]
    BY <2>1, <1>0 DEF TypeOK
  <2>10. owner'[h] = "opening" /\ attempt'[c] = n /\ pc'[c] = "opening"
    BY <2>1, <1>0 DEF TypeOK
  <2>11. \A d \in Calls : d # c => pc'[d] = pc[d] /\ attempt'[d] = attempt[d]
    BY <2>1 DEF TypeOK
  <2>5. HandlesFresh'
    <3>1. ASSUME NEW d \in Calls, d # c
          PROVE  \A m \in {1, 2} : owner'[<<d, m>>] = owner[<<d, m>>]
      BY <3>1, <2>9 DEF Handles
    <3>2. n = 1 => owner'[<<c, 2>>] = "none"
      BY <2>9 DEF Handles, HandlesFresh
    <3>3. ASSUME NEW d \in Calls, d # c
          PROVE  /\ pc'[d] \in {"idle", "waiting"} => owner'[<<d, attempt'[d]>>] = "none"
                 /\ pc'[d] = "opening" => owner'[<<d, attempt'[d]>>] # "none"
                 /\ pc'[d] \in {"idle", "signin"} => attempt'[d] = 1
                 /\ attempt'[d] = 1 => owner'[<<d, 2>>] = "none"
      <4>1. attempt[d] \in {1, 2} /\ pc'[d] = pc[d] /\ attempt'[d] = attempt[d]
        BY <3>3, <2>11 DEF TypeOK
      <4>2. owner'[<<d, attempt[d]>>] = owner[<<d, attempt[d]>>] /\ owner'[<<d, 2>>] = owner[<<d, 2>>]
        BY <3>1, <3>3, <4>1
      <4>3. /\ pc[d] \in {"idle", "waiting"} => owner[<<d, attempt[d]>>] = "none"
            /\ pc[d] = "opening" => owner[<<d, attempt[d]>>] # "none"
            /\ pc[d] \in {"idle", "signin"} => attempt[d] = 1
            /\ attempt[d] = 1 => owner[<<d, 2>>] = "none"
        BY DEF HandlesFresh
      <4> QED
        BY <4>1, <4>2, <4>3
    <3>4. /\ pc'[c] = "opening"
          /\ owner'[<<c, attempt'[c]>>] # "none"
          /\ attempt'[c] = 1 => owner'[<<c, 2>>] = "none"
      BY <3>2, <2>10
    <3> QED
      BY <3>3, <3>4 DEF HandlesFresh
  <2>6. Borrowed'
    <3>1. ASSUME NEW d \in Calls, pc'[d] = "calling"
          PROVE  /\ using[d] \in Handles /\ using[d] # h
                 /\ owner[using[d]] \in {"parked", "exited", "failed"}
                 /\ Key(using[d]) = ToolsetOf[d]
      <4>1. d # c /\ pc[d] = "calling"
        BY <3>1, <2>10, <2>11
      <4>2. using[d] \in Handles
        BY <4>1 DEF Borrowed, TypeOK
      <4> QED
        BY <4>1, <4>2 DEF Borrowed
    <3>2. Key(h) = k
      BY DEF Key
    <3>3. \A t \in Toolsets : current'[t] = IF t = k THEN h ELSE current[t]
      BY <2>1, <1>0 DEF TypeOK
    <3>4. \A d \in Calls : using'[d] # NoHandle <=> pc'[d] = "calling"
      BY <2>1, <2>10, <2>11 DEF Borrowed
    <3>5. \A d \in Calls : pc'[d] = "calling" =>
            owner'[using'[d]] \in {"parked", "exited", "failed"} /\ Key(using'[d]) = ToolsetOf[d]
      BY <2>1, <2>9, <3>1
    <3>6. ASSUME NEW t \in Toolsets, current'[t] # NoHandle
          PROVE  Key(current'[t]) = t
      <4>1. CASE t = k
        BY <4>1, <3>2, <3>3
      <4>2. CASE t # k
        BY <4>2, <3>3, <3>6 DEF Borrowed
      <4> QED
        BY <4>1, <4>2
    <3> QED
      BY <3>4, <3>5, <3>6 DEF Borrowed, Key
  <2>7. CurrentWhileRunning'
    <3> SUFFICES ASSUME phase = "running" PROVE CurrentWhileRunning'
      BY DEF CurrentWhileRunning
    <3>1. ASSUME NEW d \in Calls, pc'[d] = "opening"
          PROVE  current'[ToolsetOf[d]] = <<d, attempt'[d]>>
      <4>1. CASE d = c
        BY <4>1, <2>1, <2>10, <1>0 DEF TypeOK
      <4>2. CASE d # c
        <5>1. holder[ToolsetOf[d]] = d /\ d # NoCall /\ ToolsetOf[d] \in Toolsets
          BY <3>1, <4>2, <2>11, CallsAssumption DEF LockOfOpener
        <5>2. ToolsetOf[d] # k
          BY <5>1
        <5> QED
          BY <3>1, <4>2, <5>1, <5>2, <2>1, <2>11 DEF CurrentWhileRunning, TypeOK
      <4> QED
        BY <4>1, <4>2
    <3>2. ASSUME NEW d \in Calls, pc'[d] = "calling", owner'[using[d]] = "parked"
          PROVE  using[d] = current'[ToolsetOf[d]]
      <4>1. d # c /\ pc[d] = "calling" /\ using[d] \in Handles
        BY <3>2, <2>10, <2>11 DEF Borrowed, TypeOK
      <4>2. owner[using[d]] = "parked"
        BY <3>2, <4>1, <2>9, <2>10
      <4>3. using[d] = current[ToolsetOf[d]]
        BY <4>1, <4>2 DEF CurrentWhileRunning
      <4>4. ToolsetOf[d] # k
        BY <4>1, <4>2, <4>3, <2>2
      <4> QED
        BY <4>3, <4>4, <2>1, CallsAssumption DEF TypeOK
    <3> QED
      BY <3>1, <3>2, <2>1, <2>9, <2>10 DEF CurrentWhileRunning
  <2>8. OwnersKnown'
    <3>1. \A g \in Handles : g # h => owner'[g] = owner[g]
      BY <2>1, <1>0 DEF TypeOK
    <3>2. ~abandoned => \A g \in Handles : Key(g) = k => owner[g] # "opening"
      BY <1>0, CallsAssumption, ZenonT(30) DEF OwnersKnown, LockOfOpener, Key, Handles
    <3>3. ~abandoned => \A g \in Handles :
            owner'[g] = "opening" => pc'[g[1]] = "opening" /\ g[2] = attempt'[g[1]]
      BY <2>1, <3>1, <3>2, <1>0 DEF OwnersKnown, Handles, TypeOK, Key
    <3>4. ~abandoned /\ phase = "running" =>
            \A g \in Handles : Live(g)' => current'[Key(g)] = g
      BY <2>1, <2>2, <3>1, <3>2, <1>0, CallsAssumption
         DEF OwnersKnown, Live, TypeOK, Key, Handles
    <3>5. phase = "closed" => \A g \in closing : Ended(g)'
      BY <3>1, <1>0 DEF OwnersKnown, Ended, TypeOK
    <3>6. ~outlived => phase = "running"
      OBVIOUS
    <3> QED
      BY <3>3, <3>4, <3>5, <3>6 DEF OwnersKnown, Key
  <2> QED
    BY <2>3, <2>4, <2>5, <2>6, <2>7, <2>8
<1> QED
  BY <1>1, <1>2

(* get_session: the lock is free, or its queue is one longer. *)
LEMMA GetSessionKeepsIInv ==
  ASSUME IInv, NEW c \in Calls, NEW n \in {1, 2}, GetSession(c, n),
         pc[c] \in {"idle", "signin"}, owner[<<c, n>>] = "none", phase = "running" \/ outlived,
         attempt' = [attempt EXCEPT ![c] = n], n = 1 => attempt[c] = 1,
         UNCHANGED <<error, request, abandoned>>
  PROVE  IInv'
<1> DEFINE k == ToolsetOf[c]
<1>1. CASE holder[k] = NoCall /\ waiters[k] = <<>>
  <2>1. Enter(c, n) /\ UNCHANGED waiters
    BY <1>1 DEF GetSession
  <2> QED
    BY <2>1, <1>1, EnterKeepsIInv DEF IInv, TypeOK
<1>2. CASE holder[k] # NoCall \/ waiters[k] # <<>>
  <2> USE DEF IInv, borrowed, request
  <2>1. /\ pc' = [pc EXCEPT ![c] = "waiting"]
        /\ waiters' = [waiters EXCEPT ![k] = Append(@, c)]
        /\ UNCHANGED <<holder, current, owner, using, watching>>
    BY <1>2 DEF GetSession
  <2>0. waiters' \in [Toolsets -> Seq(Calls)]
    <3> DEFINE longer == Append(waiters[k], c)
    <3>1. k \in Toolsets /\ longer \in Seq(Calls)
      <4>1. k \in Toolsets
        BY CallsAssumption
      <4>2. waiters[k] \in Seq(Calls)
        BY <4>1 DEF TypeOK
      <4> QED
        BY <4>1, <4>2
    <3>2. waiters' = [waiters EXCEPT ![k] = longer]
      BY <2>1
    <3> HIDE DEF longer
    <3> QED
      BY <3>1, <3>2 DEF TypeOK
  <2>2. TypeOK'
    BY <2>0, <2>1, CallsAssumption DEF TypeOK
  <2>3. LockOfOpener'
    BY <2>1, CallsAssumption DEF LockOfOpener, TypeOK
  <2>4. HandlesFresh'
    BY <2>1 DEF HandlesFresh, TypeOK
  <2>5. Borrowed'
    BY <2>1 DEF Borrowed, TypeOK, Key
  <2>6. CurrentWhileRunning'
    BY <2>1 DEF CurrentWhileRunning, TypeOK
  <2>7. OwnersKnown'
    BY <2>1 DEF OwnersKnown, TypeOK, Live, Ended, Handles, CurrentWhileRunning
  <2> QED
    BY <2>2, <2>3, <2>4, <2>5, <2>6, <2>7
<1> QED
  BY <1>1, <1>2

-----------------------------------------------------------------------------
(* Every step keeps the invariant. *)

LEMMA StartCallKeepsIInv ==
  ASSUME IInv, NEW c \in Calls, StartCall(c)
  PROVE  IInv'
<1>1. pc[c] = "idle" /\ attempt[c] = 1
  BY DEF StartCall, IInv, HandlesFresh
<1>2. owner[<<c, 1>>] = "none"
  BY <1>1 DEF IInv, HandlesFresh
<1>3. attempt' = [attempt EXCEPT ![c] = 1]
  BY <1>1 DEF StartCall, IInv, TypeOK
<1>4. GetSession(c, 1) /\ (phase = "running" \/ outlived) /\ UNCHANGED <<error, request, abandoned>>
  BY DEF StartCall
<1> QED
  BY <1>1, <1>2, <1>3, <1>4, GetSessionKeepsIInv

LEMMA TakeLockKeepsIInv ==
  ASSUME IInv, NEW c \in Calls, TakeLock(c)
  PROVE  IInv'
<1> DEFINE k == ToolsetOf[c]
<1>1. attempt[c] \in {1, 2} /\ owner[<<c, attempt[c]>>] = "none"
  BY DEF TakeLock, IInv, TypeOK, HandlesFresh
<1>2. waiters' \in [Toolsets -> Seq(Calls)]
  <2>1. k \in Toolsets
    BY CallsAssumption
  <2>2. waiters[k] \in Seq(Calls)
    BY <2>1 DEF IInv, TypeOK
  <2> DEFINE rest == Tail(waiters[k])
  <2>3. rest \in Seq(Calls)
    <3>1. CASE waiters[k] = <<>>
      BY <3>1
    <3>2. CASE waiters[k] # <<>>
      BY <2>2, <3>2
    <3> QED
      BY <3>1, <3>2
  <2>4. waiters' = [waiters EXCEPT ![k] = rest]
    BY DEF TakeLock
  <2> HIDE DEF rest
  <2> QED
    BY <2>1, <2>3, <2>4 DEF IInv, TypeOK
<1>3. attempt' = [attempt EXCEPT ![c] = attempt[c]]
  BY DEF TakeLock, IInv, TypeOK
<1>4. phase = "running" \/ outlived
  BY DEF TakeLock, IInv, OwnersKnown
<1> QED
  BY <1>1, <1>2, <1>3, <1>4, EnterKeepsIInv DEF TakeLock

(* The new session, or the error of its owner. *)
LEMMA OpenedKeepsIInv ==
  ASSUME IInv, NEW c \in Calls, Opened(c)
  PROVE  IInv'
<1> DEFINE k == ToolsetOf[c]
           h == <<c, attempt[c]>>
<1> USE DEF IInv, handles, request
<1>a. pc[c] = "opening" /\ k \in Toolsets /\ attempt[c] \in {1, 2}
  BY CallsAssumption DEF Opened, TypeOK
<1>b. h \in Handles /\ h # NoHandle /\ c # NoCall /\ Key(h) = k
  BY <1>a, CallsAssumption DEF Handles, Key
<1>c. holder[k] = c /\ owner[h] \in {"parked", "exited", "failed"}
  BY <1>a, <1>b, ZenonT(30) DEF Opened, LockOfOpener, HandlesFresh, TypeOK
<1>d. (phase = "running" => current[k] = h) /\ (phase = "running" \/ outlived)
  BY <1>a DEF CurrentWhileRunning, OwnersKnown
<1>0. /\ k \in Toolsets /\ h \in Handles /\ h # NoHandle /\ c # NoCall
      /\ pc[c] = "opening" /\ holder[k] = c /\ Key(h) = k
      /\ owner[h] \in {"parked", "exited", "failed"}
      /\ phase = "running" => current[k] = h
      /\ phase = "running" \/ outlived
  BY <1>a, <1>b, <1>c, <1>d
<1>1. /\ holder' = [holder EXCEPT ![k] = NoCall]
      /\ UNCHANGED <<attempt, waiters, owner, error, phase, closing, outlived, abandoned>>
  BY DEF Opened
<1>2. /\ pc'[c] \in {"signin", "done", "calling"} /\ pc' = [pc EXCEPT ![c] = pc'[c]]
      /\ pc'[c] = "signin" => attempt[c] = 1
      /\ pc'[c] = "calling" =>
           /\ owner[h] # "failed" /\ using' = [using EXCEPT ![c] = h]
           /\ watching' = [watching EXCEPT ![c] = current[k]] /\ current' = current
      /\ pc'[c] # "calling" =>
           /\ owner[h] = "failed" /\ using' = [using EXCEPT ![c] = NoHandle]
           /\ watching' = [watching EXCEPT ![c] = NoHandle]
           /\ current' = [current EXCEPT ![k] = NoHandle]
  BY DEF Opened, Raise, Park, TypeOK
<1>3. \A d \in Calls : d # c => pc'[d] = pc[d] /\ using'[d] = using[d]
  BY <1>2 DEF TypeOK
<1>4. TypeOK'
  <2>1. pc' \in [Calls -> {"idle", "waiting", "opening", "calling", "signin", "done"}]
    BY <1>2 DEF TypeOK
  <2>2. holder' \in [Toolsets -> Calls \cup {NoCall}]
    BY <1>1 DEF TypeOK
  <2>3. current' \in [Toolsets -> Handles \cup {NoHandle}]
    BY <1>2 DEF TypeOK
  <2>4. /\ using' \in [Calls -> Handles \cup {NoHandle}]
        /\ watching' \in [Calls -> Handles \cup {NoHandle}]
    <3>1. current[k] \in Handles \cup {NoHandle}
      BY <1>0 DEF TypeOK
    <3>2. \E u, w \in Handles \cup {NoHandle} :
            using' = [using EXCEPT ![c] = u] /\ watching' = [watching EXCEPT ![c] = w]
      <4> HIDE DEF k, h
      <4> QED
        BY <3>1, <1>0, <1>2
    <3> QED
      BY <3>2 DEF TypeOK
  <2> QED
    BY <1>1, <2>1, <2>2, <2>3, <2>4 DEF TypeOK
<1>5. LockOfOpener'
  <2>1. \A d \in Calls : d # c /\ pc[d] = "opening" => ToolsetOf[d] # k
    BY <1>0 DEF LockOfOpener
  <2>2. \A t \in Toolsets : t # k /\ holder[t] # NoCall => holder[t] # c
    BY <1>0 DEF LockOfOpener
  <2> QED
    BY <1>0, <1>1, <1>2, <1>3, <2>1, <2>2 DEF LockOfOpener, TypeOK
<1>6. HandlesFresh'
  BY <1>1, <1>2, <1>3 DEF HandlesFresh
<1>7. Borrowed'
  <2>1. ASSUME NEW d \in Calls
        PROVE  /\ using'[d] # NoHandle <=> pc'[d] = "calling"
               /\ pc'[d] = "calling" =>
                    owner[using'[d]] \in {"parked", "exited", "failed"} /\ Key(using'[d]) = ToolsetOf[d]
    <3>1. CASE d = c
      <4>1. pc'[c] = "calling" => using'[c] = h
        BY <1>2 DEF TypeOK
      <4>2. pc'[c] # "calling" => using'[c] = NoHandle
        BY <1>2 DEF TypeOK
      <4> QED
        BY <3>1, <4>1, <4>2, <1>0
    <3>2. CASE d # c
      BY <3>2, <1>3 DEF Borrowed
    <3> QED
      BY <3>1, <3>2
  <2>2. ASSUME NEW t \in Toolsets, current'[t] # NoHandle
        PROVE  Key(current'[t]) = t
    <3>1. current'[t] = current[t]
      BY <2>2, <1>2 DEF TypeOK
    <3> QED
      BY <2>2, <3>1 DEF Borrowed
  <2> QED
    BY <2>1, <2>2, <1>1 DEF Borrowed, Key
<1>8. CurrentWhileRunning'
  <2> SUFFICES ASSUME phase = "running" PROVE CurrentWhileRunning'
    BY <1>1 DEF CurrentWhileRunning
  <2>1. \A t \in Toolsets : t # k => current'[t] = current[t]
    BY <1>2 DEF TypeOK
  <2>2. ASSUME NEW d \in Calls, pc'[d] = "opening"
        PROVE  current'[ToolsetOf[d]] = <<d, attempt[d]>>
    <3>1. d # c /\ pc[d] = "opening" /\ ToolsetOf[d] # k /\ ToolsetOf[d] \in Toolsets
      BY <2>2, <1>0, <1>2, <1>3, CallsAssumption DEF LockOfOpener
    <3> QED
      BY <3>1, <2>1 DEF CurrentWhileRunning
  <2>3. ASSUME NEW d \in Calls, pc'[d] = "calling", owner[using'[d]] = "parked"
        PROVE  using'[d] = current'[ToolsetOf[d]]
    <3>1. CASE d = c
      BY <3>1, <2>3, <1>0, <1>2 DEF TypeOK
    <3>2. CASE d # c
      <4>1. pc[d] = "calling" /\ using'[d] = using[d] /\ using[d] = current[ToolsetOf[d]]
        BY <3>2, <2>3, <1>3 DEF CurrentWhileRunning
      <4>2. current' = current \/ (owner[h] = "failed" /\ ToolsetOf[d] # k)
        BY <4>1, <2>3, <1>0, <1>2
      <4> QED
        BY <4>1, <4>2, <2>1, CallsAssumption
    <3> QED
      BY <3>1, <3>2
  <2> QED
    BY <2>2, <2>3, <1>1 DEF CurrentWhileRunning
<1>9. OwnersKnown'
  <2>1. ~abandoned => \A g \in Handles : owner[g] = "opening" => g[1] # c
    BY <1>0 DEF OwnersKnown, Handles
  <2>2. ~abandoned => \A g \in Handles :
          owner[g] = "opening" => pc'[g[1]] = "opening" /\ g[2] = attempt[g[1]]
    BY <2>1, <1>3 DEF OwnersKnown, Handles
  <2>3. ASSUME NEW g \in Handles, ~abandoned, phase = "running", Live(g)
        PROVE  current'[Key(g)] = g
    <3>1. current[Key(g)] = g
      BY <2>3 DEF OwnersKnown
    <3>2. current' = current \/ (owner[h] = "failed" /\ Key(g) # k)
      BY <2>3, <3>1, <1>0, <1>2 DEF Live
    <3>3. Key(g) \in Toolsets
      BY CallsAssumption DEF Key, Handles
    <3> QED
      BY <3>1, <3>2, <3>3, <1>2 DEF TypeOK
  <2> QED
    BY <1>0, <1>1, <2>2, <2>3 DEF OwnersKnown, Live, Ended
<1> QED
  BY <1>4, <1>5, <1>6, <1>7, <1>8, <1>9

(* The tool timeout: a lock that is held is let go, and a session that was opening has
   nobody left that waits for it. *)
LEMMA TimeOutKeepsIInv ==
  ASSUME IInv, NEW c \in Calls, TimeOut(c)
  PROVE  IInv'
<1> DEFINE k == ToolsetOf[c]
<1> USE DEF IInv, handles, request
<1>0. k \in Toolsets /\ c # NoCall
  BY CallsAssumption
<1>1. /\ pc' = [pc EXCEPT ![c] = "done"]
      /\ using' = [using EXCEPT ![c] = NoHandle]
      /\ watching' = [watching EXCEPT ![c] = NoHandle]
      /\ holder' = [holder EXCEPT ![k] = IF holder[k] = c THEN NoCall ELSE holder[k]]
      /\ abandoned' = (abandoned \/ (pc[c] = "opening" /\ owner[<<c, attempt[c]>>] = "opening"))
      /\ UNCHANGED <<attempt, current, owner, error, phase, closing, outlived>>
  BY DEF TimeOut, Park
<1>2. waiters' \in [Toolsets -> Seq(Calls)]
  <2>1. waiters[k] \in Seq(Calls)
    BY <1>0 DEF TypeOK
  <2>2. RemoveFirst(waiters[k], c) \in Seq(Calls)
    BY <2>1, RemoveFirstType
  <2> QED
    BY <1>0, <2>2 DEF TimeOut, TypeOK
<1>3. \A d \in Calls : d # c => pc'[d] = pc[d] /\ using'[d] = using[d]
  BY <1>1 DEF TypeOK
<1>4. TypeOK'
  BY <1>1, <1>2 DEF TypeOK
<1>5. LockOfOpener'
  BY <1>0, <1>1, <1>3 DEF LockOfOpener, TypeOK
<1>6. HandlesFresh'
  BY <1>1, <1>3 DEF HandlesFresh, TypeOK
<1>7. Borrowed'
  BY <1>1, <1>3 DEF Borrowed, TypeOK, Key
<1>8. CurrentWhileRunning'
  BY <1>1, <1>3 DEF CurrentWhileRunning, TypeOK
<1>9. OwnersKnown'
  <2>1. ASSUME NEW g \in Handles, ~abandoned', owner[g] = "opening"
        PROVE  pc'[g[1]] = "opening" /\ g[2] = attempt[g[1]]
    <3>0. ~abandoned /\ ~(pc[c] = "opening" /\ owner[<<c, attempt[c]>>] = "opening")
      BY <2>1, <1>1
    <3>1. pc[g[1]] = "opening" /\ g[2] = attempt[g[1]]
      BY <2>1, <3>0 DEF OwnersKnown
    <3>3. g[1] \in Calls /\ g = <<g[1], g[2]>>
      BY DEF Handles
    <3>4. owner[<<g[1], attempt[g[1]]>>] = "opening"
      BY <2>1, <3>1, <3>3
    <3>2. g[1] # c
      BY <3>0, <3>1, <3>4
    <3> QED
      BY <3>1, <3>2, <3>3, <1>3
  <2> QED
    BY <2>1, <1>1, <1>3 DEF OwnersKnown, Live, Ended, TypeOK
<1> QED
  BY <1>4, <1>5, <1>6, <1>7, <1>8, <1>9

(* A call is answered, interrupted or broken, or a sign-in fails. *)
LEMMA CallEndsKeepsIInv ==
  ASSUME IInv, NEW c \in Calls, Answer(c) \/ Interrupted(c) \/ CallBreaks(c) \/ SigninFails(c)
  PROVE  IInv'
<1>1. /\ pc[c] \in {"calling", "signin"}
      /\ UNCHANGED <<attempt, lock, current, handles, request, abandoned>>
  BY DEF Answer, Interrupted, CallBreaks, SigninFails
<1>2. \E at \in {"signin", "done"} : Park(c, at) /\ (at = "signin" => attempt[c] = 1)
  BY DEF Answer, Interrupted, CallBreaks, SigninFails, Raise
<1> QED
  BY <1>1, <1>2, ParkKeepsIInv

LEMMA SigninSucceedsKeepsIInv ==
  ASSUME IInv, NEW c \in Calls, SigninSucceeds(c)
  PROVE  IInv'
<1>1. attempt[c] = 1 /\ owner[<<c, 2>>] = "none" /\ pc[c] = "signin"
  BY DEF SigninSucceeds, IInv, HandlesFresh
<1>2. GetSession(c, 2) /\ attempt' = [attempt EXCEPT ![c] = 2]
  BY <1>1 DEF SigninSucceeds
<1>3. phase = "running" \/ outlived
  BY <1>1 DEF IInv, OwnersKnown
<1> QED
  BY <1>1, <1>2, <1>3, GetSessionKeepsIInv DEF SigninSucceeds

(* A step of the owner of handle h. *)
LEMMA OwnerKeepsIInv ==
  ASSUME IInv, NEW h \in Handles, OwnerOpens(h) \/ OwnerFails(h) \/ OwnerExits(h)
  PROVE  IInv'
<1> USE DEF IInv, calls, lock, borrowed, request
<1>1. /\ UNCHANGED <<pc, attempt, holder, waiters, current, using, watching, phase, closing, outlived,
                     abandoned>>
      /\ error' \in [Handles -> {"none", "error", "unauthorized"}]
      /\ owner[h] \in {"opening", "parked"}
      /\ owner'[h] \in {"parked", "failed", "exited"}
      /\ owner' = [owner EXCEPT ![h] = owner'[h]]
      /\ owner'[h] = "parked" => owner[h] = "opening"
      /\ owner'[h] = "exited" => h \in closing
  BY ZenonT(30) DEF OwnerOpens, OwnerFails, OwnerExits, TypeOK
<1>2. \A g \in Handles : g # h => owner'[g] = owner[g]
  BY <1>1 DEF TypeOK
<1>3. TypeOK'
  BY <1>1 DEF TypeOK
<1>4. LockOfOpener'
  BY <1>1 DEF LockOfOpener
<1>5. HandlesFresh'
  <2>1. \A d \in Calls, m \in {1, 2} : owner'[<<d, m>>] = "none" <=> owner[<<d, m>>] = "none"
    BY <1>1, <1>2 DEF Handles
  <2>2. ASSUME NEW d \in Calls
        PROVE  /\ owner'[<<d, attempt[d]>>] = "none" <=> owner[<<d, attempt[d]>>] = "none"
               /\ owner'[<<d, 2>>] = "none" <=> owner[<<d, 2>>] = "none"
    <3>1. attempt[d] \in {1, 2}
      BY DEF TypeOK
    <3> QED
      BY <3>1, <2>1
  <2> QED
    BY <1>1, <2>2 DEF HandlesFresh
<1>6. Borrowed'
  <2>1. \A d \in Calls : pc[d] = "calling" => using[d] \in Handles
    BY DEF Borrowed, TypeOK
  <2>2. \A d \in Calls : pc[d] = "calling" => owner'[using[d]] \in {"parked", "exited", "failed"}
    BY <1>1, <1>2, <2>1 DEF Borrowed
  <2> QED
    BY <1>1, <2>2 DEF Borrowed, Key
<1>7. CurrentWhileRunning'
  <2>1. \A d \in Calls : pc[d] = "calling" =>
          using[d] \in Handles /\ owner[using[d]] # "opening"
    BY ZenonT(30) DEF Borrowed, TypeOK
  <2>2. \A d \in Calls : pc[d] = "calling" /\ owner'[using[d]] = "parked" => owner[using[d]] = "parked"
    BY <1>1, <1>2, <2>1
  <2> QED
    BY <1>1, <1>2, <2>2 DEF CurrentWhileRunning
<1>8. OwnersKnown'
  BY <1>1, <1>2 DEF OwnersKnown, Live, Ended, TypeOK
<1> QED
  BY <1>3, <1>4, <1>5, <1>6, <1>7, <1>8

LEMMA CloseKeepsIInv ==
  ASSUME IInv, BeginClose \/ EndClose
  PROVE  IInv'
<1> USE DEF IInv, calls, lock, handles, borrowed
<1>1. UNCHANGED <<pc, attempt, holder, waiters, owner, error, using, watching, abandoned>>
  BY DEF BeginClose, EndClose
<1>2. LockOfOpener' /\ HandlesFresh'
  BY <1>1 DEF LockOfOpener, HandlesFresh
<1>3. CASE BeginClose
  <2>1. TypeOK'
    <3>1. closing' \subseteq Handles
      BY <1>3 DEF BeginClose, TypeOK
    <3>2. current' \in [Toolsets -> Handles \cup {NoHandle}]
      BY <1>3 DEF BeginClose
    <3>3. phase' = "closing" /\ outlived' \in BOOLEAN
      BY <1>3 DEF BeginClose, TypeOK
    <3> QED
      BY <1>1, <3>1, <3>2, <3>3 DEF TypeOK
  <2>2. Borrowed'
    BY <1>1, <1>3 DEF BeginClose, Borrowed, Key
  <2>3. CurrentWhileRunning'
    BY <1>3 DEF BeginClose, CurrentWhileRunning
  <2>4. OwnersKnown'
    <3>1. ~abandoned => \A g \in Handles : Live(g) => g \in closing'
      <4> SUFFICES ASSUME ~abandoned, NEW g \in Handles, Live(g) PROVE g \in closing'
        OBVIOUS
      <4>1. current[Key(g)] = g /\ Key(g) \in Toolsets
        BY <1>3, CallsAssumption DEF BeginClose, OwnersKnown, Key, Handles
      <4>2. g # NoHandle
        BY CallsAssumption DEF Handles
      <4> QED
        BY <4>1, <4>2, <1>3 DEF BeginClose
    <3>2. ~outlived' => \A c \in Calls : pc[c] \in {"idle", "done"}
      BY <1>3 DEF BeginClose, TypeOK
    <3>3. phase' = "closing"
      BY <1>3 DEF BeginClose
    <3> QED
      BY <1>1, <3>1, <3>2, <3>3 DEF OwnersKnown, Live
  <2> QED
    BY <1>2, <2>1, <2>2, <2>3, <2>4
<1>4. CASE EndClose
  <2>1. TypeOK' /\ Borrowed'
    BY <1>1, <1>4 DEF EndClose, TypeOK, Borrowed, Key
  <2>2. CurrentWhileRunning'
    BY <1>4 DEF EndClose, CurrentWhileRunning
  <2>3. OwnersKnown'
    BY <1>1, <1>4 DEF EndClose, OwnersKnown, Live, Ended
  <2> QED
    BY <1>2, <2>1, <2>2, <2>3
<1> QED
  BY <1>3, <1>4

LEMMA NextIInv == IInv /\ [Next]_vars => IInv'
<1> SUFFICES ASSUME IInv, [Next]_vars PROVE IInv'
  OBVIOUS
<1>1. CASE UNCHANGED vars
  BY <1>1 DEF vars, calls, lock, handles, borrowed, request, IInv, TypeOK, LockOfOpener, HandlesFresh,
              Borrowed, CurrentWhileRunning, OwnersKnown, Key, Live, Ended
<1>2. CASE Next
  BY <1>1, <1>2, StartCallKeepsIInv, TakeLockKeepsIInv, OpenedKeepsIInv, TimeOutKeepsIInv,
     CallEndsKeepsIInv, SigninSucceedsKeepsIInv, OwnerKeepsIInv, CloseKeepsIInv
     DEF Next, CallStep, OwnerStep, Terminated
<1> QED
  BY <1>1, <1>2

LEMMA SpecIInv == Spec => []IInv
BY InitIInv, NextIInv, PTL DEF Spec

-----------------------------------------------------------------------------
(* The theorems about the sessions. *)

(* Every variable of the session manager always holds a value of its type. *)
THEOREM SessionsTyped == Spec => []TypeOK
<1>1. IInv => TypeOK
  BY DEF IInv
<1> QED
  BY SpecIInv, <1>1, PTL

(* Whatever calls there are and wherever they are cancelled, the calls of a toolset that
   have a live session all have the same one (get_session under the toolset's lock). *)
THEOREM OneSession == Spec => []SessionShared
<1>1. IInv => SessionShared
  BY DEF IInv, CurrentWhileRunning, SessionShared
<1> QED
  BY SpecIInv, <1>1, PTL

(* aclose_all closes every session, unless one has lost the call that opened it or the
   request ended under its calls. *)
THEOREM SessionsClosed == Spec => []ClosedUnlessAbandoned
<1>1. IInv => ClosedUnlessAbandoned
  BY DEF IInv, OwnersKnown, ClosedUnlessAbandoned, Live, Ended
<1> QED
  BY SpecIInv, <1>1, PTL

(* No call is handed a session that is gone, and every call is watched by the owner of
   the session it has (get_session, await_while_session_alive). *)
THEOREM LiveSessionGiven == Spec => GivenLiveSession
<1> DEFINE Given == \A c \in Calls :
             pc[c] # "calling" /\ pc'[c] = "calling" /\ phase = "running" =>
               owner'[using'[c]] = "parked" /\ watching'[c] = using'[c]
<1>1. IInv /\ [Next]_vars => [Given]_vars
  <2> SUFFICES ASSUME IInv, Next, phase = "running",
                      NEW c \in Calls, pc[c] # "calling", pc'[c] = "calling"
               PROVE  owner'[using'[c]] = "parked" /\ watching'[c] = using'[c]
    BY DEF vars
  <2> USE DEF IInv
  <2>1. \E d \in Calls : StartCall(d) \/ TakeLock(d) \/ Opened(d) \/ SigninSucceeds(d)
    BY DEF Next, CallStep, OwnerStep, Terminated, vars, calls, TimeOut, Answer, Interrupted,
           CallBreaks, SigninFails, Raise, Park, OwnerOpens, OwnerExits, OwnerFails, BeginClose,
           EndClose, TypeOK
  <2>2. PICK d \in Calls : StartCall(d) \/ TakeLock(d) \/ Opened(d) \/ SigninSucceeds(d)
    BY <2>1
  <2>3. CASE \E n \in {1, 2} : Enter(d, n)
    <3>1. PICK n \in {1, 2} : Enter(d, n)
      BY <2>3
    <3>2. d = c /\ Reusable(current[ToolsetOf[c]])
      BY <3>1 DEF Enter, TypeOK
    <3>3. /\ using' = [using EXCEPT ![c] = current[ToolsetOf[c]]]
          /\ watching' = [watching EXCEPT ![c] = current[ToolsetOf[c]]]
          /\ owner' = owner
      BY <3>1, <3>2 DEF Enter
    <3>4. current[ToolsetOf[c]] \in Handles
      BY <3>2, CallsAssumption DEF Reusable, TypeOK
    <3> QED
      BY <3>2, <3>3, <3>4 DEF Reusable, HasSession, CurrentWhileRunning, TypeOK
  <2>4. CASE Opened(d)
    <3>1. d = c /\ owner[<<c, attempt[c]>>] # "failed"
      BY <2>4 DEF Opened, Raise, Park, TypeOK
    <3>2. /\ using' = [using EXCEPT ![c] = <<c, attempt[c]>>]
          /\ watching' = [watching EXCEPT ![c] = current[ToolsetOf[c]]]
          /\ owner' = owner /\ pc[c] = "opening" /\ owner[<<c, attempt[c]>>] # "opening"
      BY <2>4, <3>1 DEF Opened, handles, Raise, Park, TypeOK
    <3>3. current[ToolsetOf[c]] = <<c, attempt[c]>> /\ <<c, attempt[c]>> \in Handles
      BY <3>2 DEF CurrentWhileRunning, TypeOK, Handles
    <3> QED
      BY <3>1, <3>2, <3>3 DEF CurrentWhileRunning, HandlesFresh, TypeOK
  <2>5. CASE ~Opened(d) /\ ~ \E n \in {1, 2} : Enter(d, n)
    <3>1. attempt[d] \in {1, 2} /\ (pc[d] = "signin" => attempt[d] = 1)
      BY DEF TypeOK, HandlesFresh
    <3>2. pc' = [pc EXCEPT ![d] = "waiting"]
      BY <2>2, <2>5, <3>1 DEF StartCall, TakeLock, SigninSucceeds, GetSession
    <3> QED
      BY <3>2 DEF TypeOK
  <2> QED
    BY <2>3, <2>4, <2>5
<1>2. QED
  BY SpecIInv, <1>1, PTL DEF Spec, GivenLiveSession

-----------------------------------------------------------------------------
(* The inductive invariant of the tools. *)

InFlight == {"waiting", "opening", "calling", "signin"}

(* Only an owner that failed has an error, and it keeps it. *)
ErrorOfFailed == \A h \in Handles : error[h] # "none" => owner[h] = "failed"

(* A call is watched by an owner of its own toolset. *)
WatchedOwn == \A c \in Calls : watching[c] # NoHandle => Key(watching[c]) = ToolsetOf[c]

(* Where the tool call is, and where its run of call_mcp_tool is. *)
InStep(c) ==
  /\ step[c] \in {"new", "granting", "ready"} \cup Loading => pc[c] = "idle"
  /\ step[c] = "calling" <=> pc[c] \in InFlight
  /\ step[c] = "publishing" => pc[c] = "done"
  /\ outcome[c] # "none" => step[c] = "ended"

(* A server has carried out none but the attempts of the call; what led to the second
   one is known. *)
Rerun(c) ==
  /\ ran[c] \subseteq 1..attempt[c]
  /\ pc[c] = "idle" => ran[c] = {} /\ reply[c] = "none"
  /\ pc[c] \in {"idle", "waiting", "opening", "calling"} /\ attempt[c] = 1 => again[c] = "no"
  /\ attempt[c] = 2 \/ pc[c] = "signin" => again[c] # "no" /\ c \notin Reads
  /\ again[c] = "cut" =>
       /\ ToolsetOf[c] \in DialToolsets
       /\ \E h \in Handles : Key(h) = ToolsetOf[c] /\ error[h] = "unauthorized"

(* What is published, or told as a result, is the answer to the last attempt. *)
LastReply(c) ==
  /\ pc[c] = "signin" /\ again[c] = "challenge" => reply[c] = "challenge"
  /\ step[c] = "publishing" /\ c \in Reads => reply[c] = "ok"
  /\ (step[c] = "publishing" /\ reply[c] = "ok") \/ outcome[c] = "result" =>
       reply[c] = "ok" /\ attempt[c] \in ran[c] /\ (attempt[c] = 1 => again[c] = "no")

(* A flagged argument is granted between its check and the call. *)
GrantedFirst(c) ==
  c \notin Reads =>
    /\ step[c] \in {"new"} \cup Loading => sent[c] = "none"
    /\ step[c] = "granting" => Scheme(sent[c]) = "dial"
    /\ step[c] \in {"ready", "calling", "publishing"} \/ ran[c] # {} =>
         (Flagged(c) /\ sent[c] # "none" =>
            Scheme(sent[c]) = "dial" /\ <<sent[c], ToolsetOf[c]>> \in granted)

CallInv(c) ==
  /\ step[c] = "granting" => sent[c] \in Urls
  /\ InStep(c) /\ Rerun(c) /\ LastReply(c) /\ GrantedFirst(c)

ToolsIInv ==
  /\ IInv /\ ToolsTypeOK /\ ran \in [Calls -> SUBSET {1, 2}]
  /\ ErrorOfFailed /\ WatchedOwn
  /\ \A c \in Calls : CallInv(c)

-----------------------------------------------------------------------------
(* What the tools' steps are to the sessions. *)

LEMMA ToolsStepIsSessionsStep == [ToolsNext]_<<vars, tools>> => [Next]_vars
<1> SUFFICES ASSUME ToolsNext, ~UNCHANGED vars PROVE Next
  BY DEF tools
<1>1. CASE \E c \in Calls : Prepare(c) \/ Look(c) \/ ToolStep(c) \/ TimedOut(c)
  <2>1. PICK c \in Calls : Prepare(c) \/ Look(c) \/ ToolStep(c) \/ TimedOut(c)
    BY <1>1
  <2>2. StartCall(c) \/ CallStep(c) \/ CallBreaks(c) \/ TimeOut(c)
    BY <2>1 DEF Prepare, Look, ToolStep, TimedOut, Transformed, Granted, Call, ServerRuns,
                Answered, Raised, SignedIn, NotSignedIn, Upload, Publish, ReadEnds, CallStep
  <2> QED
    BY <2>2 DEF Next
<1>2. CASE SessionStep
  BY <1>2 DEF SessionStep, Next
<1>3. CASE Over
  BY <1>3 DEF Over, Terminated
<1> QED
  BY <1>1, <1>2, <1>3 DEF ToolsNext

(* get_session changes no more of a call than its place and what it borrows. *)
LEMMA GetSessionOfCall ==
  ASSUME TypeOK, NEW c \in Calls, NEW n \in {1, 2}, Enter(c, n) \/ GetSession(c, n)
  PROVE  /\ \E at \in {"calling", "opening", "waiting"} : pc' = [pc EXCEPT ![c] = at]
         /\ \/ watching' = watching
            \/ watching' = [watching EXCEPT ![c] = current[ToolsetOf[c]]]
         /\ \A h \in Handles : h # <<c, n>> => owner'[h] = owner[h]
<1>1. CASE Enter(c, n)
  BY <1>1 DEF Enter, borrowed, TypeOK, Handles
<1>2. CASE GetSession(c, n)
  BY <1>1, <1>2 DEF GetSession, borrowed
<1> QED
  BY <1>1, <1>2

(* Steps of a call leave the other calls where they are, and no handle's error changes. *)
LEMMA CallStepFrame ==
  ASSUME TypeOK, NEW c \in Calls, StartCall(c) \/ CallStep(c) \/ CallBreaks(c) \/ TimeOut(c)
  PROVE  /\ error' = error
         /\ \E at \in InFlight \cup {"done"} : pc' = [pc EXCEPT ![c] = at]
         /\ IF SigninSucceeds(c) THEN attempt' = [attempt EXCEPT ![c] = @ + 1]
            ELSE attempt' = attempt
<1> USE DEF InFlight
<1>1. CASE StartCall(c)
  BY <1>1, GetSessionOfCall DEF StartCall, SigninSucceeds
<1>2. CASE TakeLock(c)
  <2>1. attempt[c] \in {1, 2}
    BY DEF TypeOK
  <2> QED
    BY <1>2, <2>1, GetSessionOfCall DEF TakeLock, SigninSucceeds
<1>3. CASE SigninSucceeds(c)
  <2>1. GetSession(c, attempt[c] + 1) => \E at \in InFlight : pc' = [pc EXCEPT ![c] = at]
    BY DEF GetSession, Enter
  <2> QED
    BY <1>3, <2>1 DEF SigninSucceeds
<1>4. CASE Opened(c) \/ Answer(c) \/ Interrupted(c) \/ CallBreaks(c) \/ SigninFails(c) \/ TimeOut(c)
  <2>1. \E at \in InFlight \cup {"done"} : pc' = [pc EXCEPT ![c] = at]
    BY <1>4 DEF Opened, Answer, Interrupted, CallBreaks, SigninFails, TimeOut, Raise, Park
  <2>2. error' = error /\ attempt' = attempt
    BY <1>4 DEF Opened, Answer, Interrupted, CallBreaks, SigninFails, TimeOut, handles
  <2>3. SigninSucceeds(c) => attempt' # attempt
    BY DEF SigninSucceeds, TypeOK
  <2> QED
    BY <2>1, <2>2, <2>3
<1> QED
  BY <1>1, <1>2, <1>3, <1>4 DEF CallStep

LEMMA ErrorsKept ==
  ASSUME IInv, ErrorOfFailed, [Next]_vars
  PROVE  /\ ErrorOfFailed'
         /\ \A h \in Handles : error[h] # "none" => error'[h] = error[h]
<1> USE DEF IInv, ErrorOfFailed
<1>1. CASE UNCHANGED vars
  BY <1>1 DEF vars, handles
<1>2. CASE \E c \in Calls, n \in {1, 2} :
             /\ Enter(c, n) \/ GetSession(c, n)
             /\ owner[<<c, n>>] = "none"
             /\ error' = error
  BY <1>2, GetSessionOfCall
<1>3. CASE owner' = owner /\ error' = error
  BY <1>3
<1>4. CASE \E h \in Handles : OwnerStep(h) \/ OwnerFails(h)
  BY <1>4 DEF OwnerStep, OwnerOpens, OwnerExits, OwnerFails, TypeOK
<1>5. ASSUME NEW c \in Calls, StartCall(c) \/ TakeLock(c) \/ SigninSucceeds(c)
      PROVE  <1>2!1
  <2>1. /\ pc[c] \in {"idle", "waiting"} => owner[<<c, attempt[c]>>] = "none"
        /\ pc[c] \in {"idle", "signin"} => attempt[c] = 1
        /\ attempt[c] = 1 => owner[<<c, 2>>] = "none"
        /\ attempt[c] \in {1, 2}
    BY DEF HandlesFresh, TypeOK
  <2> QED
    BY <1>5, <2>1 DEF StartCall, TakeLock, SigninSucceeds
<1>6. ASSUME NEW c \in Calls, Opened(c) \/ Answer(c) \/ Interrupted(c) \/ CallBreaks(c)
                              \/ SigninFails(c) \/ TimeOut(c)
      PROVE  owner' = owner /\ error' = error
  BY <1>6 DEF Opened, Answer, Interrupted, CallBreaks, SigninFails, TimeOut, handles
<1>7. CASE BeginClose \/ EndClose \/ Terminated
  BY <1>7, <1>1, <1>3 DEF BeginClose, EndClose, Terminated, handles
<1> QED
  BY <1>1, <1>2, <1>3, <1>4, <1>5, <1>6, <1>7 DEF Next, CallStep

LEMMA WatchedOwnKept ==
  ASSUME IInv, WatchedOwn, [Next]_vars
  PROVE  WatchedOwn'
<1> USE DEF IInv, WatchedOwn
<1>1. CASE watching' = watching
  BY <1>1 DEF Key
<1>2. CASE \E c \in Calls : watching' = [watching EXCEPT ![c] = current[ToolsetOf[c]]]
  <2>1. \A c \in Calls : LET h == current[ToolsetOf[c]] IN h # NoHandle => Key(h) = ToolsetOf[c]
    BY CallsAssumption DEF Borrowed
  <2> QED
    BY <1>2, <2>1 DEF TypeOK, Key
<1>3. CASE \E c \in Calls : watching' = [watching EXCEPT ![c] = NoHandle]
  BY <1>3 DEF TypeOK, Key
<1>4. ASSUME NEW c \in Calls, StartCall(c) \/ TakeLock(c) \/ SigninSucceeds(c)
      PROVE  <1>1!1 \/ <1>2!1
  <2>1. attempt[c] \in {1, 2} /\ (pc[c] = "signin" => attempt[c] = 1)
    BY DEF HandlesFresh, TypeOK
  <2>2. \E n \in {1, 2} : Enter(c, n) \/ GetSession(c, n)
    BY <1>4, <2>1 DEF StartCall, TakeLock, SigninSucceeds
  <2> QED
    BY <2>2, GetSessionOfCall
<1>5. ASSUME NEW c \in Calls, Answer(c) \/ Interrupted(c) \/ CallBreaks(c) \/ SigninFails(c)
                              \/ TimeOut(c)
      PROVE  <1>3!1
  BY <1>5 DEF Answer, Interrupted, CallBreaks, SigninFails, TimeOut, Raise, Park
<1>6. ASSUME NEW c \in Calls, Opened(c) PROVE WatchedOwn'
  <2>1. CASE owner[<<c, attempt[c]>>] = "failed"
    BY <1>6, <2>1, <1>3 DEF Opened, Raise, Park
  <2>2. CASE owner[<<c, attempt[c]>>] # "failed"
    BY <1>6, <2>2, <1>2 DEF Opened
  <2> QED
    BY <2>1, <2>2
<1>7. CASE \/ BeginClose \/ EndClose \/ Terminated \/ UNCHANGED vars
           \/ \E h \in Handles : OwnerStep(h) \/ OwnerFails(h)
  BY <1>1, <1>7 DEF BeginClose, EndClose, Terminated, OwnerStep, OwnerOpens, OwnerExits,
                    OwnerFails, vars, borrowed
<1> QED
  BY <1>1, <1>2, <1>3, <1>4, <1>5, <1>6, <1>7 DEF Next, CallStep

-----------------------------------------------------------------------------
(* A step that is none of c's. *)

(* Nothing of c changes, unless it is granted more or an error stays. *)
LEMMA CallKept ==
  ASSUME NEW c \in Calls, CallInv(c), registry' = registry,
         pc'[c] = pc[c], attempt'[c] = attempt[c], step'[c] = step[c], sent'[c] = sent[c],
         ran'[c] = ran[c], reply'[c] = reply[c], again'[c] = again[c], outcome'[c] = outcome[c],
         granted \subseteq granted',
         \A h \in Handles : error[h] # "none" => error'[h] = error[h]
  PROVE  CallInv(c)'
<1>1. InStep(c)' /\ LastReply(c)'
  BY DEF CallInv, InStep, LastReply
<1>2. Rerun(c)'
  BY DEF CallInv, Rerun, Key
<1>3. GrantedFirst(c)'
  BY DEF CallInv, GrantedFirst, Flagged, Scheme
<1> QED
  BY <1>1, <1>2, <1>3 DEF CallInv

(* From f to g nothing but the value of c changes. *)
OnlyAt(c, f, g, S) == g \in [Calls -> S] /\ \A d \in Calls \ {c} : g[d] = f[d]

Steps == {"new", "granting", "ready", "calling", "publishing", "ended"} \cup Loading

Outcomes == {"none", "invalid", "failed", "told", "refused", "result"}

(* A step of c that leaves the other calls alone. *)
LEMMA OthersKept ==
  ASSUME ToolsIInv, [Next]_vars, NEW c \in Calls, registry' = registry,
         granted \subseteq granted', granted' \subseteq Urls \X Toolsets,
         \A d \in Calls \ {c} : pc'[d] = pc[d] /\ attempt'[d] = attempt[d],
         OnlyAt(c, step, step', Steps), OnlyAt(c, sent, sent', {"none"} \cup Urls \cup Uris),
         OnlyAt(c, ran, ran', SUBSET {1, 2}),
         OnlyAt(c, reply, reply', {"none", "ok", "error", "challenge"}),
         OnlyAt(c, again, again', {"no", "cut", "challenge"}),
         OnlyAt(c, blocks, blocks', 0..MaxBlocks), OnlyAt(c, outcome, outcome', Outcomes),
         CallInv(c)'
  PROVE  ToolsIInv'
<1> USE DEF ToolsIInv
<1>1. IInv'
  BY NextIInv
<1>2. ErrorOfFailed' /\ \A h \in Handles : error[h] # "none" => error'[h] = error[h]
  BY ErrorsKept
<1>3. WatchedOwn'
  BY WatchedOwnKept
<1>4. ASSUME NEW d \in Calls PROVE CallInv(d)'
  BY <1>2, CallKept DEF OnlyAt
<1>5. ToolsTypeOK'
  <2>1. \A d \in Calls : ran'[d] \subseteq 1..attempt'[d]
    BY <1>4 DEF CallInv, Rerun
  <2> QED
    BY <2>1 DEF ToolsTypeOK, OnlyAt, Steps, Outcomes
<1> QED
  BY <1>1, <1>2, <1>3, <1>4, <1>5 DEF OnlyAt

-----------------------------------------------------------------------------
(* Before the call. *)

(* The tool call c goes to the place at, before its session is asked for anything. *)
LEMMA IdleStepKeeps ==
  ASSUME ToolsIInv, NEW c \in Calls, step[c] \in {"new", "granting"} \cup Loading,
         NEW at \in {"ready", "granting", "ended"} \cup Loading, NEW o \in Outcomes,
         step' = [step EXCEPT ![c] = at], outcome' = [outcome EXCEPT ![c] = o],
         o # "result", o # "none" => at = "ended",
         UNCHANGED <<vars, registry, ran, results>>,
         granted \subseteq granted', granted' \subseteq Urls \X Toolsets,
         OnlyAt(c, sent, sent', {"none"} \cup Urls \cup Uris),
         at = "granting" => sent'[c] \in Urls /\ Scheme(sent'[c]) = "dial",
         c \notin Reads =>
           /\ at \in Loading => sent'[c] = "none"
           /\ at = "ready" /\ Flagged(c) /\ sent'[c] # "none" =>
                Scheme(sent'[c]) = "dial" /\ <<sent'[c], ToolsetOf[c]>> \in granted'
  PROVE  ToolsIInv'
<1> USE DEF ToolsIInv, ToolsTypeOK, Loading
<1>1. /\ pc[c] = "idle" /\ ran[c] = {}
      /\ pc' = pc /\ attempt' = attempt /\ ran' = ran
      /\ registry' = registry /\ reply' = reply /\ again' = again /\ blocks' = blocks
      /\ error' = error
  BY DEF CallInv, InStep, Rerun, vars, calls, handles, results
<1>2. OnlyAt(c, step, step', Steps) /\ OnlyAt(c, outcome, outcome', Outcomes)
  BY DEF OnlyAt, Steps, Outcomes
<1>3. /\ OnlyAt(c, ran, ran', SUBSET {1, 2})
      /\ OnlyAt(c, reply, reply', {"none", "ok", "error", "challenge"})
      /\ OnlyAt(c, again, again', {"no", "cut", "challenge"})
      /\ OnlyAt(c, blocks, blocks', 0..MaxBlocks)
  BY <1>1 DEF OnlyAt
<1>4. step'[c] = at /\ outcome'[c] = o
  OBVIOUS
<1>5. InStep(c)' /\ LastReply(c)'
  BY <1>1, <1>4 DEF CallInv, InStep, LastReply, InFlight
<1>6. Rerun(c)'
  BY <1>1 DEF CallInv, Rerun, Key
<1>7. GrantedFirst(c)'
  BY <1>1, <1>4 DEF GrantedFirst, Flagged, Scheme
<1>8. CallInv(c)'
  BY <1>4, <1>5, <1>6, <1>7 DEF CallInv
<1> QED
  BY <1>1, <1>2, <1>3, <1>8, OthersKept

LEMMA CheckedKeeps ==
  ASSUME ToolsIInv, NEW c \in Calls, NEW u \in Urls, Checked(c, u),
         step[c] \in {"new"} \cup Loading,
         UNCHANGED <<vars, registry, granted, ran, results>>
  PROVE  ToolsIInv'
<1>1. \E at \in {"ready", "granting", "ended"}, o \in {"none", "invalid"} :
        /\ step' = [step EXCEPT ![c] = at]
        /\ outcome' = [outcome EXCEPT ![c] = o]
        /\ o # "none" => at = "ended"
        /\ at = "granting" => Scheme(u) = "dial"
        /\ at = "ready" => ~Flagged(c)
  <2>1. outcome[c] = "none" /\ outcome = [outcome EXCEPT ![c] = outcome[c]]
    BY DEF ToolsIInv, ToolsTypeOK, CallInv, InStep, Loading
  <2> QED
    BY <2>1 DEF Checked, MoveOn, End, ToShare
<1>2. OnlyAt(c, sent, sent', {"none"} \cup Urls \cup Uris) /\ sent'[c] = u
  BY DEF ToolsIInv, ToolsTypeOK, Checked, OnlyAt
<1>3. PICK at \in {"ready", "granting", "ended"}, o \in {"none", "invalid"} : <1>1!(at, o)
  BY <1>1
<1>4. granted \subseteq granted' /\ granted' \subseteq Urls \X Toolsets
  BY DEF ToolsIInv, ToolsTypeOK
<1>5. at \in {"ready", "granting", "ended"} \cup Loading /\ at \notin Loading /\ o \in Outcomes
  BY DEF Outcomes, Loading
<1> QED
  BY <1>2, <1>3, <1>4, <1>5, IdleStepKeeps

LEMMA PrepareKeeps ==
  ASSUME ToolsIInv, NEW c \in Calls, Prepare(c)
  PROVE  ToolsIInv'
<1> USE DEF ToolsIInv, ToolsTypeOK
<1>1. /\ step[c] = "new" /\ c \notin Reads /\ sent[c] = "none" /\ outcome[c] = "none"
      /\ outcome = [outcome EXCEPT ![c] = outcome[c]]
      /\ UNCHANGED <<vars, registry, granted, ran, results>>
  BY DEF Prepare, CallInv, InStep, GrantedFirst
<1>2. CASE /\ sent' = sent
           /\ \E at \in {"ready"} \cup Loading : MoveOn(c, at)
  <2>1. OnlyAt(c, sent, sent', {"none"} \cup Urls \cup Uris) /\ sent'[c] = "none"
    BY <1>1, <1>2 DEF OnlyAt
  <2>2. PICK at \in {"ready"} \cup Loading : MoveOn(c, at)
    BY <1>2
  <2> QED
    BY <1>1, <2>1, <2>2, IdleStepKeeps DEF MoveOn, Outcomes, Loading
<1>3. CASE sent' = sent /\ End(c, "invalid")
  <2>1. OnlyAt(c, sent, sent', {"none"} \cup Urls \cup Uris)
    BY <1>3 DEF OnlyAt
  <2> QED
    BY <1>1, <1>3, <2>1, IdleStepKeeps DEF End, Outcomes, Loading
<1>4. ASSUME NEW given \in References, Checked(c, Merged(c, given).url) PROVE ToolsIInv'
  <2>1. Merged(c, given).url \in Urls
    BY RegistriesAssumption DEF Merged, References
  <2> QED
    BY <1>1, <1>4, <2>1, CheckedKeeps
<1> QED
  BY <1>2, <1>3, <1>4 DEF Prepare

LEMMA TransformedKeeps ==
  ASSUME ToolsIInv, NEW c \in Calls, Transformed(c)
  PROVE  ToolsIInv'
<1> USE DEF ToolsIInv, ToolsTypeOK
<1>1. step[c] \in Loading /\ UNCHANGED <<vars, registry, granted, ran, results>>
  BY DEF Transformed
<1>2. CASE \E u \in Inlined(step[c]) : Checked(c, u)
  BY <1>1, <1>2, CheckedKeeps DEF Inlined
<1>3. CASE sent' = sent /\ \E told \in {"invalid", "failed"} : End(c, told)
  <2>1. OnlyAt(c, sent, sent', {"none"} \cup Urls \cup Uris)
    BY <1>3 DEF OnlyAt
  <2> QED
    BY <1>1, <1>3, <2>1, IdleStepKeeps DEF End, Outcomes, Loading
<1> QED
  BY <1>2, <1>3 DEF Transformed

LEMMA GrantedKeeps ==
  ASSUME ToolsIInv, NEW c \in Calls, Granted(c)
  PROVE  ToolsIInv'
<1> USE DEF ToolsIInv, ToolsTypeOK
<1>1. /\ step[c] = "granting" /\ sent[c] \in Urls /\ outcome[c] = "none"
      /\ c \notin Reads => Scheme(sent[c]) = "dial"
      /\ outcome = [outcome EXCEPT ![c] = outcome[c]]
      /\ sent' = sent /\ UNCHANGED <<vars, registry, ran, results>>
      /\ ToolsetOf[c] \in Toolsets
  BY CallsAssumption DEF Granted, CallInv, InStep, GrantedFirst
<1>2. OnlyAt(c, sent, sent', {"none"} \cup Urls \cup Uris)
  BY <1>1 DEF OnlyAt
<1>3. CASE MoveOn(c, "ready") /\ granted' = granted \cup {<<sent[c], ToolsetOf[c]>>}
  <2>1. <<sent'[c], ToolsetOf[c]>> \in granted' /\ granted' \subseteq Urls \X Toolsets
    BY <1>1, <1>3
  <2> QED
    BY <1>1, <1>2, <1>3, <2>1, IdleStepKeeps DEF MoveOn, Outcomes, Loading
<1>4. CASE End(c, "failed") /\ granted' = granted
  BY <1>1, <1>2, <1>4, IdleStepKeeps DEF End, Outcomes, Loading
<1> QED
  BY <1>3, <1>4 DEF Granted

LEMMA LookKeeps ==
  ASSUME ToolsIInv, NEW c \in Calls, Look(c)
  PROVE  ToolsIInv'
<1> USE DEF ToolsIInv, ToolsTypeOK
<1>1. /\ step[c] = "new" /\ c \in Reads /\ outcome[c] = "none"
      /\ outcome = [outcome EXCEPT ![c] = outcome[c]]
      /\ UNCHANGED <<vars, registry, granted, ran, results>>
  BY DEF Look, CallInv, InStep
<1>2. CASE End(c, "told") /\ sent' = sent
  <2>1. OnlyAt(c, sent, sent', {"none"} \cup Urls \cup Uris)
    BY <1>2 DEF OnlyAt
  <2> QED
    BY <1>1, <1>2, <2>1, IdleStepKeeps DEF End, Outcomes, Loading
<1>3. CASE MoveOn(c, "ready") /\ \E uri \in Uris : sent' = [sent EXCEPT ![c] = uri]
  <2>1. OnlyAt(c, sent, sent', {"none"} \cup Urls \cup Uris)
    BY <1>3 DEF OnlyAt
  <2> QED
    BY <1>1, <1>3, <2>1, IdleStepKeeps DEF MoveOn, Outcomes, Loading
<1> QED
  BY <1>2, <1>3 DEF Look

-----------------------------------------------------------------------------
(* The call, its answer and what is done with it. *)

LEMMA BegunStepKeeps ==
  ASSUME ToolsIInv, [Next]_vars, NEW c \in Calls, registry' = registry, UNCHANGED grants,
         \A d \in Calls \ {c} : pc'[d] = pc[d] /\ attempt'[d] = attempt[d],
         OnlyAt(c, step, step', Steps), OnlyAt(c, ran, ran', SUBSET {1, 2}),
         OnlyAt(c, reply, reply', {"none", "ok", "error", "challenge"}),
         OnlyAt(c, again, again', {"no", "cut", "challenge"}),
         OnlyAt(c, blocks, blocks', 0..MaxBlocks), OnlyAt(c, outcome, outcome', Outcomes),
         step[c] \in {"ready", "calling", "publishing"},
         step'[c] \in {"calling", "publishing", "ended"},
         InStep(c)', Rerun(c)', LastReply(c)'
  PROVE  ToolsIInv'
<1>1. sent' = sent /\ granted' = granted /\ granted' \subseteq Urls \X Toolsets
  BY DEF grants, ToolsIInv, ToolsTypeOK
<1>2. OnlyAt(c, sent, sent', {"none"} \cup Urls \cup Uris)
  BY <1>1 DEF OnlyAt, ToolsIInv, ToolsTypeOK
<1>3. step'[c] \notin {"new", "granting", "ready"} \cup Loading
  BY DEF Loading
<1>4. GrantedFirst(c)'
  BY <1>1, <1>3 DEF ToolsIInv, CallInv, GrantedFirst, Flagged, Scheme
<1>5. CallInv(c)'
  BY <1>3, <1>4 DEF CallInv
<1> QED
  BY <1>1, <1>2, <1>5, OthersKept

(* Functions that a step leaves alone. *)
LEMMA Unchanged ==
  ASSUME ToolsIInv, NEW c \in Calls
  PROVE  /\ OnlyAt(c, step, step, Steps) /\ OnlyAt(c, ran, ran, SUBSET {1, 2})
         /\ OnlyAt(c, reply, reply, {"none", "ok", "error", "challenge"})
         /\ OnlyAt(c, again, again, {"no", "cut", "challenge"})
         /\ OnlyAt(c, blocks, blocks, 0..MaxBlocks) /\ OnlyAt(c, outcome, outcome, Outcomes)
BY DEF ToolsIInv, ToolsTypeOK, OnlyAt, Steps, Outcomes

LEMMA CallKeeps ==
  ASSUME ToolsIInv, NEW c \in Calls, Call(c)
  PROVE  ToolsIInv'
<1>1. /\ step[c] = "ready" /\ StartCall(c) /\ pc[c] = "idle" /\ outcome[c] = "none"
      /\ step' = [step EXCEPT ![c] = "calling"]
      /\ registry' = registry /\ UNCHANGED grants
      /\ ran' = ran /\ reply' = reply /\ again' = again /\ blocks' = blocks /\ outcome' = outcome
  BY DEF Call, MoveOn, ToolsIInv, CallInv, InStep, results
<1>2. [Next]_vars
  BY <1>1 DEF Next
<1>3. TypeOK /\ attempt[c] = 1
  BY <1>1 DEF ToolsIInv, IInv, HandlesFresh
<1>4. PICK at \in {"calling", "opening", "waiting"} :
        pc' = [pc EXCEPT ![c] = at] /\ attempt' = attempt /\ error' = error
  BY <1>1, <1>3, GetSessionOfCall DEF StartCall
<1>5. /\ pc'[c] = at /\ attempt'[c] = 1
      /\ \A d \in Calls \ {c} : pc'[d] = pc[d] /\ attempt'[d] = attempt[d]
  BY <1>3, <1>4 DEF TypeOK
<1>6. step'[c] = "calling" /\ OnlyAt(c, step, step', Steps)
  BY <1>1 DEF OnlyAt, Steps, ToolsIInv, ToolsTypeOK
<1>7. InStep(c)' /\ LastReply(c)'
  BY <1>1, <1>5, <1>6 DEF InStep, InFlight, LastReply, Loading
<1>8. Rerun(c)'
  BY <1>1, <1>3, <1>4, <1>5 DEF ToolsIInv, CallInv, Rerun, Key
<1> QED
  BY <1>1, <1>2, <1>5, <1>6, <1>7, <1>8, Unchanged, BegunStepKeeps

LEMMA ServerRunsKeeps ==
  ASSUME ToolsIInv, NEW c \in Calls, ServerRuns(c)
  PROVE  ToolsIInv'
<1>1. /\ pc[c] = "calling" /\ step[c] = "calling" /\ outcome[c] = "none"
      /\ ran' = [ran EXCEPT ![c] = @ \cup {attempt[c]}]
      /\ registry' = registry /\ UNCHANGED grants /\ UNCHANGED vars
      /\ pc' = pc /\ attempt' = attempt /\ error' = error
      /\ step' = step /\ reply' = reply /\ again' = again /\ blocks' = blocks /\ outcome' = outcome
  BY DEF ServerRuns, ToolsIInv, CallInv, InStep, InFlight, results, vars, calls, handles
<1>2. attempt[c] \in {1, 2} /\ attempt[c] \in 1..attempt[c]
  BY DEF ToolsIInv, IInv, TypeOK
<1>3. OnlyAt(c, ran, ran', SUBSET {1, 2}) /\ ran'[c] = ran[c] \cup {attempt[c]}
  BY <1>1, <1>2 DEF OnlyAt, ToolsIInv
<1>4. InStep(c)' /\ LastReply(c)'
  BY <1>1 DEF ToolsIInv, CallInv, InStep, LastReply
<1>5. Rerun(c)'
  BY <1>1, <1>2, <1>3 DEF ToolsIInv, CallInv, Rerun, Key
<1> QED
  BY <1>1, <1>3, <1>4, <1>5, Unchanged, BegunStepKeeps

LEMMA AnsweredKeeps ==
  ASSUME ToolsIInv, NEW c \in Calls, Answered(c)
  PROVE  ToolsIInv'
<1>1. Answer(c) /\ [Next]_vars
  BY DEF Answered, Next, CallStep
<1>2. TypeOK
  BY DEF ToolsIInv, IInv
<1>3. /\ pc[c] = "calling" /\ attempt' = attempt /\ error' = error
      /\ \E at \in {"done", "signin"} :
           /\ pc' = [pc EXCEPT ![c] = at]
           /\ at = "signin" => c \notin Reads /\ attempt[c] = 1
  BY <1>1 DEF Answer, Park, handles
<1>4. PICK at \in {"done", "signin"} :
        pc' = [pc EXCEPT ![c] = at] /\ (at = "signin" => c \notin Reads /\ attempt[c] = 1)
  BY <1>3
<1>5. pc'[c] = at /\ \A d \in Calls \ {c} : pc'[d] = pc[d]
  BY <1>2, <1>4 DEF TypeOK
<1>6. step[c] = "calling" /\ outcome[c] = "none"
  BY <1>3 DEF ToolsIInv, CallInv, InStep, InFlight
<1>7. registry' = registry /\ UNCHANGED grants /\ ran' = ran
  BY DEF Answered
<1>8. \E said \in {"none", "ok", "error", "challenge"}, go \in {"publishing", "ended", "calling"},
         o \in {"none", "failed"}, why \in {again[c], "challenge"} :
        /\ reply' = [reply EXCEPT ![c] = said] /\ step' = [step EXCEPT ![c] = go]
        /\ outcome' = [outcome EXCEPT ![c] = o] /\ again' = [again EXCEPT ![c] = why]
        /\ o = "none" <=> go # "ended"
        /\ IF at = "signin" THEN go = "calling" /\ why = "challenge" /\ said = "challenge"
           ELSE go # "calling" /\ why = again[c]
        /\ go = "publishing" => (said = "ok" /\ attempt[c] \in ran[c]) \/ (said = "error" /\ c \notin Reads)
  <2>1. /\ step = [step EXCEPT ![c] = "calling"] /\ outcome = [outcome EXCEPT ![c] = "none"]
        /\ again = [again EXCEPT ![c] = again[c]]
    BY <1>6 DEF ToolsIInv, ToolsTypeOK
  <2> QED
    BY <1>5, <2>1 DEF Answered, Replied, MoveOn, End
<1>9. PICK said \in {"none", "ok", "error", "challenge"},
           go \in {"publishing", "ended", "calling"}, o \in {"none", "failed"},
           why \in {again[c], "challenge"} : <1>8!(said, go, o, why)
  BY <1>8
<1>10. OnlyAt(c, blocks, blocks', 0..MaxBlocks)
  BY DEF Answered, OnlyAt, ToolsIInv, ToolsTypeOK
<1>11. /\ OnlyAt(c, step, step', Steps) /\ step'[c] = go
       /\ OnlyAt(c, outcome, outcome', Outcomes) /\ outcome'[c] = o
       /\ OnlyAt(c, reply, reply', {"none", "ok", "error", "challenge"}) /\ reply'[c] = said
       /\ OnlyAt(c, again, again', {"no", "cut", "challenge"}) /\ again'[c] = why
  BY <1>9 DEF OnlyAt, Steps, Outcomes, ToolsIInv, ToolsTypeOK
<1>12. InStep(c)'
  BY <1>5, <1>9, <1>11 DEF InStep, InFlight, Loading
<1>13. attempt[c] \in {1, 2} /\ (attempt[c] = 1 => again[c] = "no")
  BY <1>2, <1>3 DEF TypeOK, ToolsIInv, CallInv, Rerun
<1>14. Rerun(c)'
  BY <1>3, <1>4, <1>5, <1>7, <1>9, <1>11, <1>13 DEF ToolsIInv, CallInv, Rerun, Key
<1>15. LastReply(c)'
  BY <1>3, <1>4, <1>5, <1>7, <1>9, <1>11, <1>13 DEF LastReply
<1> QED
  BY <1>1, <1>3, <1>5, <1>6, <1>7, <1>10, <1>11, <1>12, <1>14, <1>15, Unchanged, BegunStepKeeps

(* Why a call is signed in for: the 401 that ended its session. *)
SignInFor(c) ==
  /\ c \notin Reads /\ attempt[c] = 1 /\ ToolsetOf[c] \in DialToolsets
  /\ \E h \in Handles : Key(h) = ToolsetOf[c] /\ error[h] = "unauthorized"

LEMMA RaisedFrom ==
  ASSUME IInv, WatchedOwn, NEW c \in Calls,
         TakeLock(c) \/ Opened(c) \/ Interrupted(c) \/ CallBreaks(c)
  PROVE  /\ attempt' = attempt /\ error' = error /\ pc[c] \in {"waiting", "opening", "calling"}
         /\ \E at \in {"waiting", "calling", "opening", "signin", "done"} :
              pc' = [pc EXCEPT ![c] = at] /\ (at = "signin" => SignInFor(c))
<1> USE DEF IInv
<1>1. CASE TakeLock(c)
  <2>1. attempt[c] \in {1, 2}
    BY DEF TypeOK
  <2> QED
    BY <1>1, <2>1, GetSessionOfCall DEF TakeLock
<1>2. ASSUME NEW h \in Handles, Key(h) = ToolsetOf[c], NEW e \in {error[h], "error"}, Raise(c, e)
      PROVE  \E at \in {"signin", "done"} :
               pc' = [pc EXCEPT ![c] = at] /\ (at = "signin" => SignInFor(c))
  BY <1>2 DEF Raise, Park, SignInFor
<1>3. CASE Opened(c)
  <2> DEFINE h == <<c, attempt[c]>>
  <2>1. h \in Handles /\ Key(h) = ToolsetOf[c]
    BY DEF TypeOK, Handles, Key
  <2>2. attempt' = attempt /\ error' = error /\ pc[c] = "opening"
    BY <1>3 DEF Opened, handles
  <2>3. Raise(c, error[h]) \/ pc' = [pc EXCEPT ![c] = "calling"]
    BY <1>3 DEF Opened
  <2> HIDE DEF h
  <2> QED
    BY <1>2, <2>1, <2>2, <2>3
<1>4. CASE Interrupted(c)
  <2>1. /\ attempt' = attempt /\ error' = error /\ pc[c] = "calling"
        /\ watching[c] \in Handles /\ Key(watching[c]) = ToolsetOf[c]
    BY <1>4 DEF Interrupted, handles, TypeOK, WatchedOwn
  <2>2. \E e \in {error[watching[c]], "error"} : Raise(c, e)
    BY <1>4 DEF Interrupted
  <2> QED
    BY <1>2, <2>1, <2>2
<1>5. CASE CallBreaks(c)
  BY <1>5 DEF CallBreaks, Park, handles
<1> QED
  BY <1>1, <1>3, <1>4, <1>5

LEMMA RaisedKeeps ==
  ASSUME ToolsIInv, NEW c \in Calls, Raised(c)
  PROVE  ToolsIInv'
<1>1. [Next]_vars
  BY DEF Raised, Next, CallStep
<1>2. /\ attempt' = attempt /\ error' = error /\ pc[c] \in {"waiting", "opening", "calling"}
      /\ TypeOK
  BY RaisedFrom DEF Raised, ToolsIInv, IInv
<1>3. PICK at \in {"waiting", "calling", "opening", "signin", "done"} :
        pc' = [pc EXCEPT ![c] = at] /\ (at = "signin" => SignInFor(c))
  BY RaisedFrom DEF Raised, ToolsIInv
<1>4. pc'[c] = at /\ \A d \in Calls \ {c} : pc'[d] = pc[d]
  BY <1>2, <1>3 DEF TypeOK
<1>5. step[c] = "calling" /\ outcome[c] = "none"
  BY <1>2 DEF ToolsIInv, CallInv, InStep, InFlight
<1>6. /\ registry' = registry /\ UNCHANGED grants
      /\ ran' = ran /\ reply' = reply /\ blocks' = blocks
  BY DEF Raised
<1>7. /\ OnlyAt(c, step, step', Steps) /\ OnlyAt(c, outcome, outcome', Outcomes)
      /\ OnlyAt(c, again, again', {"no", "cut", "challenge"})
      /\ step'[c] = IF at = "done" THEN "ended" ELSE "calling"
      /\ outcome'[c] = IF at = "done" THEN "failed" ELSE "none"
      /\ again'[c] = IF at = "signin" THEN "cut" ELSE again[c]
  BY <1>4, <1>5 DEF Raised, End, OnlyAt, Steps, Outcomes, ToolsIInv, ToolsTypeOK
<1>8. InStep(c)'
  BY <1>4, <1>7 DEF InStep, InFlight, Loading
<1>9. attempt[c] \in {1, 2} /\ (attempt[c] = 1 => again[c] = "no")
  BY <1>2 DEF TypeOK, ToolsIInv, CallInv, Rerun
<1>10. Rerun(c)'
  BY <1>2, <1>3, <1>4, <1>6, <1>7, <1>9 DEF ToolsIInv, CallInv, Rerun, Key, SignInFor
<1>11. LastReply(c)'
  BY <1>4, <1>7 DEF LastReply
<1> QED
  BY <1>1, <1>2, <1>4, <1>5, <1>6, <1>7, <1>8, <1>10, <1>11, Unchanged, BegunStepKeeps

LEMMA SignedInKeeps ==
  ASSUME ToolsIInv, NEW c \in Calls, SignedIn(c)
  PROVE  ToolsIInv'
<1>1. /\ SigninSucceeds(c) /\ [Next]_vars /\ TypeOK
      /\ pc[c] = "signin" /\ attempt' = [attempt EXCEPT ![c] = @ + 1] /\ error' = error
  BY DEF SignedIn, Next, CallStep, SigninSucceeds, ToolsIInv, IInv
<1>2. attempt[c] = 1 /\ attempt'[c] = 2 /\ \A d \in Calls \ {c} : attempt'[d] = attempt[d]
  <2>1. attempt[c] = 1 /\ attempt \in [Calls -> {1, 2}]
    BY <1>1 DEF ToolsIInv, IInv, HandlesFresh, TypeOK
  <2> QED
    BY <1>1, <2>1
<1>3. PICK at \in {"calling", "opening", "waiting"} : pc' = [pc EXCEPT ![c] = at]
  <2>1. GetSession(c, 2)
    BY <1>1, <1>2 DEF SigninSucceeds
  <2> QED
    BY <1>1, <2>1, GetSessionOfCall
<1>4. pc'[c] = at /\ \A d \in Calls \ {c} : pc'[d] = pc[d]
  BY <1>1, <1>3 DEF TypeOK
<1>5. /\ registry' = registry /\ UNCHANGED grants /\ step' = step /\ ran' = ran
      /\ reply' = reply /\ again' = again /\ blocks' = blocks /\ outcome' = outcome
  BY DEF SignedIn, tools, results
<1>6. step[c] = "calling" /\ outcome[c] = "none"
  BY <1>1 DEF ToolsIInv, CallInv, InStep, InFlight
<1>7. InStep(c)' /\ LastReply(c)'
  BY <1>4, <1>5, <1>6 DEF InStep, LastReply, InFlight, Loading
<1>8. Rerun(c)'
  BY <1>1, <1>2, <1>4, <1>5 DEF ToolsIInv, CallInv, Rerun, Key
<1> QED
  BY <1>1, <1>2, <1>4, <1>5, <1>6, <1>7, <1>8, Unchanged, BegunStepKeeps

LEMMA NotSignedInKeeps ==
  ASSUME ToolsIInv, NEW c \in Calls, NotSignedIn(c)
  PROVE  ToolsIInv'
<1>1. /\ [Next]_vars /\ TypeOK /\ pc[c] = "signin" /\ attempt' = attempt /\ error' = error
      /\ pc' = [pc EXCEPT ![c] = "done"]
  BY DEF NotSignedIn, Next, CallStep, SigninFails, Park, handles, ToolsIInv, IInv
<1>2. /\ pc'[c] = "done" /\ \A d \in Calls \ {c} : pc'[d] = pc[d]
  BY <1>1 DEF TypeOK
<1>3. /\ registry' = registry /\ UNCHANGED grants /\ ran' = ran
      /\ reply' = reply /\ again' = again /\ blocks' = blocks
  BY DEF NotSignedIn, results
<1>4. step[c] = "calling" /\ outcome[c] = "none"
  BY <1>1 DEF ToolsIInv, CallInv, InStep, InFlight
<1>5. /\ OnlyAt(c, step, step', Steps) /\ OnlyAt(c, outcome, outcome', Outcomes)
      /\ step'[c] = IF again[c] = "challenge" THEN "publishing" ELSE "ended"
      /\ outcome'[c] = IF again[c] = "challenge" THEN "none" ELSE "failed"
  BY <1>4 DEF NotSignedIn, MoveOn, End, OnlyAt, Steps, Outcomes, ToolsIInv, ToolsTypeOK
<1>6. InStep(c)' /\ LastReply(c)'
  BY <1>1, <1>2, <1>3, <1>5 DEF InStep, LastReply, InFlight, Loading, ToolsIInv, CallInv, Rerun
<1>7. Rerun(c)'
  BY <1>1, <1>2, <1>3 DEF ToolsIInv, CallInv, Rerun, Key
<1> QED
  BY <1>1, <1>2, <1>3, <1>4, <1>5, <1>6, <1>7, Unchanged, BegunStepKeeps

LEMMA PublishKeeps ==
  ASSUME ToolsIInv, NEW c \in Calls, Upload(c) \/ Publish(c) \/ ReadEnds(c)
  PROVE  ToolsIInv'
<1>1. /\ step[c] = "publishing" /\ [Next]_vars
      /\ pc' = pc /\ attempt' = attempt /\ error' = error
      /\ registry' = registry /\ UNCHANGED grants
      /\ ran' = ran /\ reply' = reply /\ again' = again
  BY DEF Upload, Publish, ReadEnds, vars, calls, handles, results, grants
<1>2. OnlyAt(c, blocks, blocks', 0..MaxBlocks)
  BY RegistriesAssumption DEF Upload, Publish, ReadEnds, results, OnlyAt, ToolsIInv, ToolsTypeOK
<1>3. /\ OnlyAt(c, step, step', Steps) /\ OnlyAt(c, outcome, outcome', Outcomes)
      /\ \/ step' = step /\ outcome' = outcome
         \/ step'[c] = "ended" /\ outcome'[c] # "none"
      /\ outcome'[c] = "result" => outcome[c] = "result" \/ reply[c] = "ok" \/ c \in Reads
  BY <1>1 DEF Upload, Publish, ReadEnds, End, OnlyAt, Steps, Outcomes, ToolsIInv, ToolsTypeOK
<1>4. InStep(c)' /\ LastReply(c)'
  BY <1>1, <1>3 DEF InStep, LastReply, InFlight, Loading, ToolsIInv, CallInv
<1>5. Rerun(c)'
  BY <1>1 DEF ToolsIInv, CallInv, Rerun, Key
<1>6. step'[c] \in {"publishing", "ended"}
  BY <1>1, <1>3
<1> QED
  BY <1>1, <1>2, <1>3, <1>4, <1>5, <1>6, Unchanged, BegunStepKeeps

LEMMA TimedOutKeeps ==
  ASSUME ToolsIInv, NEW c \in Calls, TimedOut(c)
  PROVE  ToolsIInv'
<1>1. /\ [Next]_vars /\ TypeOK
      /\ registry' = registry /\ UNCHANGED grants
      /\ ran' = ran /\ reply' = reply /\ again' = again /\ blocks' = blocks
  BY DEF TimedOut, Next, results, ToolsIInv, IInv
<1>2. /\ attempt' = attempt /\ error' = error
      /\ \/ pc[c] \in InFlight /\ pc' = [pc EXCEPT ![c] = "done"]
         \/ step[c] = "publishing" /\ pc' = pc
  BY DEF TimedOut, TimeOut, Park, InFlight, vars, calls, handles
<1>3. step[c] \in {"calling", "publishing"} /\ pc'[c] = "done"
  BY <1>1, <1>2 DEF ToolsIInv, CallInv, InStep, TypeOK
<1>4. \A d \in Calls \ {c} : pc'[d] = pc[d]
  BY <1>1, <1>2 DEF TypeOK
<1>5. /\ OnlyAt(c, step, step', Steps) /\ OnlyAt(c, outcome, outcome', Outcomes)
      /\ step'[c] = "ended" /\ outcome'[c] = "failed"
  BY DEF TimedOut, End, OnlyAt, Steps, Outcomes, ToolsIInv, ToolsTypeOK
<1>6. InStep(c)' /\ LastReply(c)'
  BY <1>3, <1>5 DEF InStep, LastReply, InFlight, Loading
<1>7. Rerun(c)'
  BY <1>1, <1>2, <1>3 DEF ToolsIInv, CallInv, Rerun, Key
<1> QED
  BY <1>1, <1>2, <1>3, <1>4, <1>5, <1>6, <1>7, Unchanged, BegunStepKeeps

LEMMA SessionStepKeeps ==
  ASSUME ToolsIInv, SessionStep \/ Over \/ UNCHANGED <<vars, tools>>
  PROVE  ToolsIInv'
<1>1. [Next]_vars
  BY DEF SessionStep, Over, Terminated, Next
<1>2. tools' = tools
  BY DEF SessionStep, Over
<1>3. /\ registry' = registry /\ granted' = granted /\ step' = step /\ sent' = sent /\ ran' = ran
      /\ reply' = reply /\ again' = again /\ blocks' = blocks /\ outcome' = outcome
  BY <1>2 DEF tools, grants, results
<1>4. pc' = pc /\ attempt' = attempt
  BY DEF SessionStep, Over, Terminated, OwnerStep, OwnerOpens, OwnerExits, OwnerFails, BeginClose,
         EndClose, vars, calls
<1>5. ErrorOfFailed' /\ \A h \in Handles : error[h] # "none" => error'[h] = error[h]
  BY <1>1, ErrorsKept DEF ToolsIInv
<1>6. IInv' /\ WatchedOwn'
  BY <1>1, NextIInv, WatchedOwnKept DEF ToolsIInv
<1>7. ToolsTypeOK'
  BY <1>3, <1>4 DEF ToolsIInv, ToolsTypeOK
<1>8. ASSUME NEW c \in Calls PROVE CallInv(c)'
  BY <1>3, <1>4, <1>5, CallKept DEF ToolsIInv
<1> QED
  BY <1>3, <1>5, <1>6, <1>7, <1>8 DEF ToolsIInv

-----------------------------------------------------------------------------
LEMMA ToolsInitIInv == ToolsInit => ToolsIInv
<1> SUFFICES ASSUME ToolsInit PROVE ToolsIInv
  OBVIOUS
<1>1. IInv
  BY InitIInv DEF ToolsInit
<1>2. ToolsTypeOK /\ ran \in [Calls -> SUBSET {1, 2}]
  BY RegistriesAssumption DEF ToolsInit, ToolsTypeOK
<1>3. ErrorOfFailed /\ WatchedOwn
  BY DEF ToolsInit, Init, ErrorOfFailed, WatchedOwn
<1>4. ASSUME NEW c \in Calls PROVE CallInv(c)
  BY DEF ToolsInit, Init, CallInv, InStep, InFlight, Rerun, LastReply, GrantedFirst, Loading
<1> QED
  BY <1>1, <1>2, <1>3, <1>4 DEF ToolsIInv

LEMMA ToolsNextIInv == ToolsIInv /\ [ToolsNext]_<<vars, tools>> => ToolsIInv'
<1> SUFFICES ASSUME ToolsIInv, [ToolsNext]_<<vars, tools>> PROVE ToolsIInv'
  OBVIOUS
<1>1. CASE SessionStep \/ Over \/ UNCHANGED <<vars, tools>>
  BY <1>1, SessionStepKeeps
<1>2. ASSUME NEW c \in Calls, Prepare(c) \/ Look(c) \/ ToolStep(c) \/ TimedOut(c)
      PROVE  ToolsIInv'
  BY <1>2, PrepareKeeps, LookKeeps, TransformedKeeps, GrantedKeeps, CallKeeps, ServerRunsKeeps,
     AnsweredKeeps, RaisedKeeps, SignedInKeeps, NotSignedInKeeps, PublishKeeps, TimedOutKeeps
     DEF ToolStep
<1> QED
  BY <1>1, <1>2 DEF ToolsNext

LEMMA ToolsSpecIInv == ToolsSpec => []ToolsIInv
BY ToolsInitIInv, ToolsNextIInv, PTL DEF ToolsSpec

-----------------------------------------------------------------------------
(* The theorems about the tools. *)

(* The tools use the sessions as MCPSessions lets calls use them: what is proved of the
   sessions holds when the tools drive them. *)
THEOREM ToolsUseSessions == ToolsSpec => Spec
<1>1. ToolsInit => Init
  BY DEF ToolsInit
<1> QED
  BY <1>1, ToolsStepIsSessionsStep, PTL DEF ToolsSpec, Spec

(* Every variable of the tools stays within its type. *)
THEOREM ToolsTyped == ToolsSpec => []ToolsTypeOK
<1>1. ToolsIInv => ToolsTypeOK
  BY DEF ToolsIInv
<1> QED
  BY ToolsSpecIInv, <1>1, PTL

(* A server carries a call out a second time only after a 401 ended its session or the
   server asked for a sign-in (__call_tool_with_signin). *)
THEOREM RunsOnce == ToolsSpec => []RunsOnceUnlessSignedIn
<1>1. ToolsIInv => RunsOnceUnlessSignedIn
  <2> SUFFICES ASSUME ToolsIInv, NEW c \in Calls, Cardinality(ran[c]) > 1
               PROVE  attempt[c] = 2
    BY DEF ToolsIInv, CallInv, Rerun, RunsOnceUnlessSignedIn
  <2> SUFFICES ASSUME attempt[c] # 2 PROVE FALSE
    OBVIOUS
  <2>1. ran[c] \subseteq {1}
    BY DEF ToolsIInv, IInv, TypeOK, CallInv, Rerun
  <2>2. Cardinality(ran[c]) \in Nat /\ Cardinality(ran[c]) <= 1
    <3>1. IsFiniteSet({1}) /\ Cardinality({1}) = 1
      BY FS_Singleton
    <3>2. IsFiniteSet(ran[c]) /\ Cardinality(ran[c]) <= Cardinality({1})
      BY <2>1, <3>1, FS_Subset
    <3> QED
      BY <3>1, <3>2, FS_CardinalityType
  <2> QED
    BY <2>2
<1> QED
  BY ToolsSpecIInv, <1>1, PTL

(* What reaches a server under a flagged argument is a DIAL file its toolset was given
   access to (_pre_process_params, _collect_dial_url_files). *)
THEOREM GrantedBeforeRun == ToolsSpec => []SharedBeforeRun
<1>1. ToolsIInv => SharedBeforeRun
  BY DEF ToolsIInv, CallInv, GrantedFirst, SharedBeforeRun
<1> QED
  BY ToolsSpecIInv, <1>1, PTL

(* A result is the answer to the attempt that counts; an answer that asked for a sign-in
   is never one (_run_in_stage_async). *)
THEOREM LastRunTold == ToolsSpec => []ResultIsOfLastRun
<1>1. ToolsIInv => ResultIsOfLastRun
  BY DEF ToolsIInv, IInv, TypeOK, CallInv, LastReply, ResultIsOfLastRun
<1> QED
  BY ToolsSpecIInv, <1>1, PTL

=============================================================================
