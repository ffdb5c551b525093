----------------------------- MODULE Promotions -----------------------------
(***************************************************************************)
(* External attachments: DialFilePromoter fetches each url and uploads it  *)
(* in one task that every call of the request shares.  Deployment tools    *)
(* gather the links of a call (_AttachmentResolver) and run them and the   *)
(* deployment's answer under the tool's timeout (DialCompletionService).   *)
(*                                                                         *)
(* A fetch goes from host to host: ExternalUrlFetcher looks at each before *)
(* it sends a request there.                                               *)
(***************************************************************************)
EXTENDS Threads

CONSTANTS
  Urls,          \* external urls
  Hosts,         \* hosts of the internet
  Public,        \* those all of whose addresses are public
  Site,          \* the host of each url
  MaxRedirects   \* EXTERNAL_URL_FETCH_MAX_REDIRECTS

ASSUME PromotionsAssumption ==
  /\ Public \subseteq Hosts
  /\ Site \in [Urls -> Hosts]
  /\ MaxRedirects \in 0..10
  /\ \A s \in Scripts : s.redirects \subseteq Hosts

VARIABLES
  promo,     \* DialFilePromoter.__cache: the task of each url, its creator, its fetch
  link,      \* what each call's await of a promotion has come to
  batch,     \* the attachments a deployment call has come to: those of Batches
  uploads,   \* history: uploads of each url that DIAL Core stored
  broken     \* history: promotions of each url that ended without a result

promotions == <<promo, link, batch, uploads, broken>>

Fresh(x) == [at |-> "none", owner |-> {}, host |-> Site[x], hops |-> 0]

Running == {"fetching", "uploading", "stored"}
Broken == {"invalid", "error", "cancelled"}

PromotionsInit ==
  /\ promo = [x \in Urls |-> Fresh(x)]
  /\ link = [c \in Calls |-> [x \in Urls |-> "none"]]
  /\ uploads = [x \in Urls |-> 0]
  /\ broken = [x \in Urls |-> 0]
  /\ batch = [c \in Calls |-> 0]

(* The urls whose promotions a deployment call awaits now. *)
Links(c) == IF batch[c] = 0 THEN {} ELSE Batches(c)[batch[c]]

(* promote up to its await: the first caller creates the task, the others join it, also
   when it is over. *)
JoinOrCreate(c, x) ==
  IF promo[x].at = "none" THEN [promo[x] EXCEPT !.at = "fetching", !.owner = {c}] ELSE promo[x]

Told(t) == IF t.at = "done" \/ t.at \in Broken THEN t.at ELSE "waiting"

(* resolve_attachment_urls up to gather, for the links of batch i. *)
Gather(c, i) ==
  LET links == Batches(c)[i] IN
  /\ batch' = [batch EXCEPT ![c] = i]
  /\ promo' = [x \in Urls |-> IF x \in links THEN JoinOrCreate(c, x) ELSE promo[x]]
  /\ link' = [link EXCEPT ![c] = [x \in Urls |-> IF x \in links THEN Told(promo[x]) ELSE "none"]]
  /\ MoveTo(c, IF i < Len(Batches(c)) THEN "history"
               ELSE IF links = {} THEN "model" ELSE "promote")
  /\ UNCHANGED <<script, uploads, broken>>

(* _run_in_stage_async up to its first await *)
BeginAsk(c) ==
  /\ at[c] = "start"
  /\ Job(c).tool = "ask"
  /\ Gather(c, 1)

(* Tasks in xs end, and every call that awaits one is told; a task that is broken stays
   in the cache until its creator resumes. *)
PromotionsEnd(xs, how) ==
  /\ promo' = [x \in Urls |-> IF x \in xs THEN [Fresh(x) EXCEPT !.at = how, !.owner = promo[x].owner]
                        ELSE promo[x]]
  /\ link' = [c \in Calls |-> [x \in Urls |->
       IF x \in xs /\ link[c][x] = "waiting" THEN how ELSE link[c][x]]]
  /\ broken' = [x \in Urls |-> IF x \in xs /\ how \in Broken THEN broken[x] + 1 ELSE broken[x]]

(* resolve_reason: the operator's switch and the app's. *)
Enabled == script.gate = "allowed"

(* match_host: a list is the set of the hosts it matches, all of them without a list. *)
Matches(host, list) == host \in list

(* resolve_host *)
Listed(host) == Matches(host, script.admin) /\ Matches(host, script.builder)

(* _resolve_addresses, _is_blocked_address *)
Reachable(host) == host \in Public

(* handle_async_request, within the client's limit of redirects. *)
MayAsk(host, hops) ==
  Enabled /\ hops <= MaxRedirects /\ Listed(host) /\ Reachable(host)

Hops(t) == t.hops + 1

(* A request of ExternalUrlFetcher.fetch: the host redirects it, sends the file, or sends
   an error or more bytes than the limit, or it is refused. *)
UrlFetched(x) ==
  LET t == promo[x] IN
  /\ t.at = "fetching"
  /\ \/ /\ MayAsk(t.host, t.hops)
        /\ \E next \in script.redirects :
             promo' = [promo EXCEPT ![x].host = next, ![x].hops = Hops(t)]
        /\ UNCHANGED <<link, broken>>
     \/ /\ MayAsk(t.host, t.hops)
        /\ promo' = [promo EXCEPT ![x] = [Fresh(x) EXCEPT !.at = "uploading", !.owner = t.owner]]
        /\ UNCHANGED <<link, broken>>
     \/ PromotionsEnd({x}, "invalid")
  /\ UNCHANGED <<script, task, batch, uploads>>

(* DIAL Core stores the upload; it overwrites what is there. *)
UploadStored(x) ==
  /\ promo[x].at = "uploading"
  /\ promo' = [promo EXCEPT ![x].at = "stored"]
  /\ uploads' = [uploads EXCEPT ![x] = @ + 1]
  /\ UNCHANGED <<script, task, link, batch, broken>>

UploadReturns(x) ==
  /\ \/ promo[x].at = "stored" /\ PromotionsEnd({x}, "done")
     \/ promo[x].at \in {"uploading", "stored"} /\ PromotionsEnd({x}, "error")
  /\ UNCHANGED <<script, task, batch, uploads>>

(* Faulty variant: the creator takes the task out of the cache at any end. *)
BugDroppedAlways(t) == t.at = "done" \/ t.at \in Broken

(* The creator's except BaseException. *)
Dropped(t) == t.at \in Broken

PromotionDropped(x) ==
  /\ Dropped(promo[x])
  /\ promo' = [promo EXCEPT ![x] = Fresh(x)]
  /\ UNCHANGED <<script, task, link, batch, uploads, broken>>

(* The creator has resumed before its own gather does. *)
OwnDropped(c) == \A x \in Links(c) : c \in promo[x].owner => ~Dropped(promo[x])

Joined(c) == \A x \in Links(c) : link[c][x] # "waiting"

(* resolve_attachment_urls: gather collects every result, then the first exception is
   raised; CancelledError is no Exception, and so passes every handler of the tool. *)
LinksResolved(c) ==
  /\ at[c] \in {"history", "promote"}
  /\ Joined(c)
  /\ OwnDropped(c)
  /\ LET failed == {x \in Links(c) : link[c][x] \in Broken} IN
     \/ \E x \in failed : Settle(c, link[c][x]) /\ UNCHANGED <<script, promotions>>
     \/ failed = {} /\ at[c] = "history" /\ Gather(c, batch[c] + 1)
     \/ failed = {} /\ at[c] = "promote" /\ MoveTo(c, "model") /\ UNCHANGED <<script, promotions>>

(* The running tasks a call awaits: nothing shields them from a call that is cancelled. *)
Awaited(c) == {x \in Links(c) : link[c][x] = "waiting" /\ promo[x].at \in Running}

(* asyncio.timeout fires among the promotions: gather cancels each of its awaits ... *)
AskTimesOut(c) ==
  /\ at[c] = "promote"
  /\ MoveTo(c, "expired")
  /\ PromotionsEnd(Awaited(c), "cancelled")
  /\ UNCHANGED <<script, batch, uploads>>

(* ... and raises when all of them have ended. *)
AskExpired(c) ==
  /\ at[c] = "expired"
  /\ OwnDropped(c)
  /\ Settle(c, "timeout")
  /\ UNCHANGED <<script, promotions>>

(* The deployment's answer ends, fails or times out. *)
ModelAnswers(c) ==
  /\ at[c] = "model"
  /\ \E outcome \in {"ok", "error", "timeout"} : Settle(c, outcome)
  /\ UNCHANGED <<script, promotions>>

AskStep(c) ==
  /\ Job(c).tool = "ask"
  /\ \/ BeginAsk(c) \/ LinksResolved(c) \/ AskTimesOut(c) \/ AskExpired(c)
     \/ ModelAnswers(c)

PromotionStep(x) ==
  UrlFetched(x) \/ UploadStored(x) \/ UploadReturns(x) \/ PromotionDropped(x)

PromotionsTypeOK ==
  /\ promo \in [Urls -> [at : {"none", "done"} \cup Running \cup Broken, owner : SUBSET Calls,
                         host : Hosts, hops : 0..(MaxRedirects + 1)]]
  /\ batch \in [Calls -> Nat]
  /\ link \in [Calls -> [Urls -> {"none", "waiting", "done"} \cup Broken]]
  /\ uploads \in [Urls -> Nat] /\ broken \in [Urls -> Nat]

=============================================================================
