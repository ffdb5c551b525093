---------------------------- MODULE MCPSessions ----------------------------
(***************************************************************************)
(* The MCP sessions of one request: _MCPSessionManager (one session per    *)
(* toolset, opened inside an owner task, shared by the tool calls, closed  *)
(* at request end), the client that borrows a session for each call, and   *)
(* the single sign-in retry of _MCPTool.                                   *)
(*                                                                         *)
(* A call is one run of an MCP tool's body in its own asyncio task, under  *)
(* the wall-clock timeout of translate_timeout: the timeout cancels the    *)
(* call at whichever await it is parked, the owner task lives on.          *)
(***************************************************************************)
EXTENDS Naturals, Sequences, SequencesExt, FiniteSets

CONSTANTS
  Calls,        \* runs of MCP tools in this request
  Reads,        \* those of read_mcp_resource: neither sign-in nor tool timeout
  NoCall,       \* nobody holds the lock
  Toolsets,     \* keys of the session manager
  ToolsetOf,    \* the toolset a call's tool belongs to
  NoHandle,     \* no entry in the handle dictionary
  DialToolsets, \* toolsets a 401 of which can be cured by toolset/signin
  MayTimeOut,   \* a call may run into the tool timeout
  MayOutlive    \* a sibling's hard stop may end the request before a call ends

ASSUME CallsAssumption ==
  /\ Reads \subseteq Calls
  /\ ToolsetOf \in [Calls -> Toolsets]
  /\ NoCall \notin Calls
  /\ NoHandle \notin Calls \X {1, 2}
  /\ DialToolsets \subseteq Toolsets
  /\ MayTimeOut \in BOOLEAN /\ MayOutlive \in BOOLEAN

(* A handle is named after the call, and the attempt of it, that made it. *)
Handles == Calls \X {1, 2}

VARIABLES
  phase,      \* the request: its loop runs, aclose_all awaits the owners, over
  pc,         \* the await at which each call is parked
  attempt,    \* call_mcp_tool is run once, and again after a sign-in
  holder,     \* who holds the lock of a toolset
  waiters,    \* the lock's queue (asyncio.Lock is fair)
  current,    \* __handles
  owner,      \* the owner task of a handle
  error,      \* handle.error of an owner that failed
  using,      \* the handle whose session a call in flight was given
  watching,   \* the handle await_while_session_alive found for it
  closing,    \* the handles aclose_all told to shut down and awaits
  abandoned,  \* history: a call was cancelled while its session was opening
  outlived    \* history: the request ended before one of its calls

calls    == <<pc, attempt>>
lock     == <<holder, waiters>>
handles  == <<owner, error>>
borrowed == <<using, watching>>
request  == <<phase, closing, outlived>>
vars     == <<calls, lock, current, handles, borrowed, request, abandoned>>

-----------------------------------------------------------------------------
Key(h) == ToolsetOf[h[1]]

Ended(h) == owner[h] \in {"exited", "failed"}

(* handle.session is not None: an owner that fails clears it, one that was
   asked to exit does not. *)
HasSession(h) == owner[h] \in {"parked", "exited"}

Live(h) == owner[h] \in {"opening", "parked"}

(* Faulty variant: any handle that is in the dictionary is good enough. *)
BugReusable(h) == h # NoHandle

(* get_session takes the handle it finds when that has a session. *)
Reusable(h) == h # NoHandle /\ HasSession(h)

(* Call c goes to the await at, with no request in flight. *)
Park(c, at) ==
  /\ pc' = [pc EXCEPT ![c] = at]
  /\ using' = [using EXCEPT ![c] = NoHandle]
  /\ watching' = [watching EXCEPT ![c] = NoHandle]

(* Faulty variant: every failure is answered with a sign-in, once. *)
BugRaiseAny(c, e) ==
  Park(c, IF attempt[c] = 1 /\ c \notin Reads THEN "signin" ELSE "done")

(* call_mcp_tool raised: a 401 of a DIAL toolset is answered with a sign-in, once. *)
Raise(c, e) ==
  Park(c, IF e = "unauthorized" /\ attempt[c] = 1 /\ c \notin Reads
             /\ ToolsetOf[c] \in DialToolsets
          THEN "signin" ELSE "done")

(* The body of get_session once the lock is held, for attempt n of call c, up to
   the next await: either in call_mcp_tool or for the new owner to be ready. *)
Enter(c, n) ==
  LET k == ToolsetOf[c]
      h == current[k]
  IN \/ /\ Reusable(h)
        /\ pc' = [pc EXCEPT ![c] = "calling"]
        /\ using' = [using EXCEPT ![c] = h]
        /\ watching' = [watching EXCEPT ![c] = h]
        /\ UNCHANGED <<holder, current, owner>>
     \/ /\ ~Reusable(h)
        /\ pc' = [pc EXCEPT ![c] = "opening"]
        /\ holder' = [holder EXCEPT ![k] = c]
        /\ current' = [current EXCEPT ![k] = <<c, n>>]
        /\ owner' = [owner EXCEPT ![<<c, n>>] = "opening"]
        /\ UNCHANGED borrowed

(* Faulty variant: the lock is not awaited. *)
BugGetSession(c, n) == Enter(c, n) /\ UNCHANGED waiters

(* get_session: take the lock or queue for it. *)
GetSession(c, n) ==
  LET k == ToolsetOf[c] IN
  \/ /\ holder[k] = NoCall /\ waiters[k] = <<>>
     /\ Enter(c, n)
     /\ UNCHANGED waiters
  \/ /\ holder[k] # NoCall \/ waiters[k] # <<>>
     /\ pc' = [pc EXCEPT ![c] = "waiting"]
     /\ waiters' = [waiters EXCEPT ![k] = Append(@, c)]
     /\ UNCHANGED <<holder, current, owner, borrowed>>

-----------------------------------------------------------------------------
Init ==
  /\ phase = "running" /\ closing = {} /\ outlived = FALSE /\ abandoned = FALSE
  /\ pc = [c \in Calls |-> "idle"]
  /\ attempt = [c \in Calls |-> 1]
  /\ holder = [k \in Toolsets |-> NoCall]
  /\ waiters = [k \in Toolsets |-> <<>>]
  /\ current = [k \in Toolsets |-> NoHandle]
  /\ owner = [h \in Handles |-> "none"]
  /\ error = [h \in Handles |-> "none"]
  /\ using = [c \in Calls |-> NoHandle]
  /\ watching = [c \in Calls |-> NoHandle]

(* call_mcp_tool starts: in a batch of the loop, or late in a task that gather
   left behind. *)
StartCall(c) ==
  /\ pc[c] = "idle"
  /\ phase = "running" \/ outlived
  /\ GetSession(c, 1)
  /\ UNCHANGED <<attempt, error, request, abandoned>>

TakeLock(c) ==
  LET k == ToolsetOf[c] IN
  /\ pc[c] = "waiting"
  /\ holder[k] = NoCall /\ Head(waiters[k]) = c
  /\ waiters' = [waiters EXCEPT ![k] = Tail(@)]
  /\ Enter(c, attempt[c])
  /\ UNCHANGED <<attempt, error, request, abandoned>>

(* handle.ready is set: drop a failed handle and raise, or call through the new
   session under the watch of whatever handle the dictionary has now. *)
Opened(c) ==
  LET k == ToolsetOf[c]
      h == <<c, attempt[c]>>
  IN /\ pc[c] = "opening"
     /\ owner[h] # "opening"
     /\ holder' = [holder EXCEPT ![k] = NoCall]
     /\ \/ /\ owner[h] = "failed"
           /\ current' = [current EXCEPT ![k] = NoHandle]
           /\ Raise(c, error[h])
        \/ /\ owner[h] # "failed"
           /\ pc' = [pc EXCEPT ![c] = "calling"]
           /\ using' = [using EXCEPT ![c] = h]
           /\ watching' = [watching EXCEPT ![c] = current[k]]
           /\ UNCHANGED current
     /\ UNCHANGED <<attempt, waiters, handles, request, abandoned>>

(* The server answers: a result, an error, or at the first attempt an error with
   a sign-in challenge in its metadata. *)
Answer(c) ==
  /\ pc[c] = "calling"
  /\ owner[using[c]] = "parked"
  /\ \/ Park(c, "done")
     \/ c \notin Reads /\ attempt[c] = 1 /\ Park(c, "signin")
  /\ UNCHANGED <<attempt, lock, current, handles, request, abandoned>>

(* await_while_session_alive: the owner ended first, the call is cancelled and
   the owner's error raised in its place. *)
Interrupted(c) ==
  /\ pc[c] = "calling"
  /\ watching[c] # NoHandle /\ Ended(watching[c])
  /\ Raise(c, IF owner[watching[c]] = "failed" THEN error[watching[c]] ELSE "error")
  /\ UNCHANGED <<attempt, lock, current, handles, request, abandoned>>

(* A call nobody watches, on a session that is gone: the library may raise. *)
CallBreaks(c) ==
  /\ pc[c] = "calling"
  /\ watching[c] = NoHandle /\ Ended(using[c])
  /\ Park(c, "done")
  /\ UNCHANGED <<attempt, lock, current, handles, request, abandoned>>

SigninSucceeds(c) ==
  /\ pc[c] = "signin"
  /\ attempt' = [attempt EXCEPT ![c] = @ + 1]
  /\ GetSession(c, attempt[c] + 1)
  /\ UNCHANGED <<error, request, abandoned>>

(* Denied, timed out, no channel or an error: the first outcome stands. *)
SigninFails(c) ==
  /\ pc[c] = "signin"
  /\ Park(c, "done")
  /\ UNCHANGED <<attempt, lock, current, handles, request, abandoned>>

(* translate_timeout cancels the call at its await; the lock is released, or the
   place in its queue given up, on the way out. *)
TimeOut(c) ==
  LET k == ToolsetOf[c]
  IN /\ MayTimeOut /\ c \notin Reads
     /\ pc[c] \in {"waiting", "opening", "calling", "signin"}
     /\ Park(c, "done")
     /\ waiters' = [waiters EXCEPT ![k] = RemoveFirst(@, c)]
     /\ holder' = [holder EXCEPT ![k] = IF @ = c THEN NoCall ELSE @]
     /\ abandoned' = (abandoned \/ (pc[c] = "opening" /\ owner[<<c, attempt[c]>>] = "opening"))
     /\ UNCHANGED <<attempt, current, handles, request>>

-----------------------------------------------------------------------------
(* __run_owner of handle h. *)

OwnerOpens(h) ==
  /\ owner[h] = "opening"
  /\ owner' = [owner EXCEPT ![h] = "parked"]
  /\ UNCHANGED <<calls, lock, current, error, borrowed, request, abandoned>>

(* The transport, or its initialisation, raises inside the session's context. *)
OwnerFails(h) ==
  /\ owner[h] \in {"opening", "parked"}
  /\ owner' = [owner EXCEPT ![h] = "failed"]
  /\ \E e \in {"unauthorized", "error"} : error' = [error EXCEPT ![h] = e]
  /\ UNCHANGED <<calls, lock, current, borrowed, request, abandoned>>

OwnerExits(h) ==
  /\ owner[h] = "parked" /\ h \in closing
  /\ owner' = [owner EXCEPT ![h] = "exited"]
  /\ UNCHANGED <<calls, lock, current, error, borrowed, request, abandoned>>

-----------------------------------------------------------------------------
(* The request leaves its loop and aclose_all begins. *)
BeginClose ==
  /\ phase = "running"
  /\ \/ (\A c \in Calls : pc[c] \in {"idle", "done"}) /\ UNCHANGED outlived
     \/ MayOutlive /\ outlived' = TRUE
  /\ phase' = "closing"
  /\ closing' = {current[k] : k \in Toolsets} \ {NoHandle}
  /\ current' = [k \in Toolsets |-> NoHandle]
  /\ UNCHANGED <<calls, lock, handles, borrowed, abandoned>>

(* Faulty variant: the owners are told to exit and not awaited. *)
BugEndClose ==
  /\ phase = "closing"
  /\ phase' = "closed"
  /\ UNCHANGED <<calls, lock, current, handles, borrowed, closing, outlived, abandoned>>

EndClose ==
  /\ phase = "closing"
  /\ \A h \in closing : Ended(h)
  /\ phase' = "closed"
  /\ UNCHANGED <<calls, lock, current, handles, borrowed, closing, outlived, abandoned>>

CallStep(c) ==
  \/ TakeLock(c) \/ Opened(c) \/ Answer(c) \/ Interrupted(c)
  \/ SigninSucceeds(c) \/ SigninFails(c)

OwnerStep(h) == OwnerOpens(h) \/ OwnerExits(h)

Terminated ==
  /\ phase = "closed"
  /\ \A c \in Calls : pc[c] \in {"idle", "done"}
  /\ UNCHANGED vars

Next ==
  \/ \E c \in Calls : StartCall(c) \/ CallStep(c) \/ CallBreaks(c) \/ TimeOut(c)
  \/ \E h \in Handles : OwnerStep(h) \/ OwnerFails(h)
  \/ BeginClose \/ EndClose
  \/ Terminated

Spec == Init /\ [][Next]_vars

(* Ready tasks run; opening a session, a call on a live session and a sign-in end
   by their own client timeouts.  Neither the tool timeout nor the failure of a
   session is ever due. *)
FairSpec ==
  /\ Spec
  /\ \A c \in Calls : WF_vars(CallStep(c))
  /\ \A h \in Handles : WF_vars(OwnerStep(h))

-----------------------------------------------------------------------------
(* Properties *)

(* Every variable holds a value the program can give it. *)
TypeOK ==
  /\ phase \in {"running", "closing", "closed"}
  /\ pc \in [Calls -> {"idle", "waiting", "opening", "calling", "signin", "done"}]
  /\ attempt \in [Calls -> {1, 2}]
  /\ holder \in [Toolsets -> Calls \cup {NoCall}]
  /\ waiters \in [Toolsets -> Seq(Calls)]
  /\ current \in [Toolsets -> Handles \cup {NoHandle}]
  /\ owner \in [Handles -> {"none", "opening", "parked", "exited", "failed"}]
  /\ error \in [Handles -> {"none", "error", "unauthorized"}]
  /\ using \in [Calls -> Handles \cup {NoHandle}]
  /\ watching \in [Calls -> Handles \cup {NoHandle}]
  /\ closing \subseteq Handles
  /\ abandoned \in BOOLEAN /\ outlived \in BOOLEAN

(* Concurrent calls to a toolset share one session while the request runs, even
   when calls of it were cancelled at any await (get_session, _run_owner). *)
SessionShared ==
  phase = "running" =>
    \A c, d \in Calls :
      /\ pc[c] = "calling" /\ pc[d] = "calling" /\ ToolsetOf[c] = ToolsetOf[d]
      /\ owner[using[c]] = "parked" /\ owner[using[d]] = "parked"
      => using[c] = using[d]

(* The session a call is given while the request runs is live at that moment and
   the call is watched by the owner of that session: a call can neither be handed
   a dead session nor outwait one (get_session, await_while_session_alive). *)
GivenLiveSession ==
  [][\A c \in Calls :
       pc[c] # "calling" /\ pc'[c] = "calling" /\ phase = "running" =>
         owner'[using'[c]] = "parked" /\ watching'[c] = using'[c]]_vars

(* When the request is over every session is closed, unless a call was cancelled
   while it waited for its session or outlived the request. *)
ClosedUnlessAbandoned ==
  phase = "closed" /\ ~abandoned /\ ~outlived => \A h \in Handles : ~Live(h)

(* docs/designs/mcp_within_request_session_reuse.md: "sessions are guaranteed to
   close on both the success and error paths". *)
SessionsClosedAtEnd == phase = "closed" => \A h \in Handles : ~Live(h)

=============================================================================
