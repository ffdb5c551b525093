-------------------------- MODULE MCRequestErrors --------------------------
(* An instance of RequestErrors for TLC: statuses of every class, alone and with the other
   fields of a body. *)
EXTENDS RequestErrors

CONSTANTS a, b

Statuses == {400, 404, 409, 418, 429, 502}

Bodies == [code : {"none", "filter", "other"}, text : {"none", "too long"},
           display : {"none", "blank", "text"}]

WithBody(kind, s, body) ==
  [kind |-> kind, status |-> s, code |-> body.code, number |-> 0, text |-> body.text,
   display |-> body.display, odd |-> FALSE]

(* A status as the code of a body, and a field of a wrong type. *)
Numbered(e, n) == [e EXCEPT !.code = "number", !.number = n]
Odd(e) == [e EXCEPT !.odd = TRUE]

Plain == CHOOSE body \in Bodies : body.code = "none" /\ body.text = "none" /\ body.display = "none"

Answers == {WithBody(k, s, body) : k \in {"status", "core", "service"}, s \in Statuses, body \in Bodies}
Broken == {WithBody("stream", 0, body) : body \in Bodies}

MCErrors ==
  Answers \cup Broken
  \cup {Numbered(e, n) : e \in {f \in Broken : f.code = "other"}, n \in Statuses}
  \cup {Odd(WithBody(k, s, Plain)) : k \in {"status", "core", "service"}, s \in {0, 400, 429}}
  \cup {Known(k) : k \in {"timeout", "connection", "service timeout", "network", "bug"}}

=============================================================================
