------------------------------ MODULE RestTools -----------------------------
(***************************************************************************)
(* A REST tool: _RestApiTool builds a request from the configured          *)
(* parameters and the arguments of the call, sends it, and may store the   *)
(* response as an attachment, all under the tool's timeout.                *)
(***************************************************************************)
EXTENDS ToolTask

Rest(c) == Job(c).tool = "rest"

(* __add_url_param refuses a parameter of the path without a plain value; the other places
   leave out what has no value. *)
Placeable(p) == p.place = "url" => p.value = "plain"

(* with_auth: forward_auth_token needs the bearer of the request. *)
Authorizable(c) == Job(c).auth = "forwarded" => script.bearer

(* The request is built without an await, unless a token is fetched for it; the places are
   filled before that. *)
BeginRest(c) ==
  /\ at[c] = "start"
  /\ IF ~(\A p \in Job(c).params : Placeable(p)) \/ ~Authorizable(c) THEN Settle(c, "error")
     ELSE MoveTo(c, IF Job(c).auth = "client_id_secret" THEN "auth" ELSE "request")

(* fetch_oauth_token *)
TokenFetched(c) ==
  /\ at[c] = "auth"
  /\ \/ MoveTo(c, "request")
     \/ \E outcome \in {"error", "timeout"} : Settle(c, outcome)

(* A status of an error is raised with the body of the response; a response of a type in
   response_as_attachment is uploaded first. *)
Responds(c) ==
  /\ at[c] = "request"
  /\ \/ Job(c).attachable /\ MoveTo(c, "attach")
     \/ \E outcome \in {"ok", "error", "timeout"} : Settle(c, outcome)

ResponseStored(c) ==
  /\ at[c] = "attach"
  /\ \E outcome \in {"ok", "error", "timeout"} : Settle(c, outcome)

RestStep(c) == Rest(c) /\ (BeginRest(c) \/ TokenFetched(c) \/ Responds(c) \/ ResponseStored(c))

=============================================================================
