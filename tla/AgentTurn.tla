----------------------------- MODULE AgentTurn -----------------------------
(***************************************************************************)
(* What a request promises the client and the next request, without stages *)
(* and tasks: the model is asked, every call of ours in its answer is      *)
(* answered before it is asked again, the client's calls are handed over   *)
(* last, and the turn is stored when it is over.  Orchestrator implements  *)
(* it.                                                                     *)
(***************************************************************************)
EXTENDS Naturals

CONSTANTS
  Calls,      \* ids of tool calls
  MaxRounds   \* answers the model may give in one turn

VARIABLES
  phase,      \* ready to ask, asked, acting on an answer, ending or over
  rounds,     \* answers asked for
  wanted,     \* calls of ours the model has made
  answered,   \* those it was given a result of
  offered,    \* the client's calls of the answer being acted on
  handed,     \* calls that were handed to the client
  outcome,    \* how the turn ends
  saved       \* the turn is stored

vars == <<phase, rounds, wanted, answered, offered, handed, outcome, saved>>

Init ==
  /\ phase = "ready"
  /\ rounds = 0
  /\ wanted \in SUBSET Calls   \* prepared before the loop, with their results
  /\ answered = wanted
  /\ offered = {} /\ handed = {}
  /\ outcome = "open"
  /\ saved = FALSE

Ask ==
  /\ phase = "ready"
  /\ rounds < MaxRounds
  /\ phase' = "asked"
  /\ rounds' = rounds + 1
  /\ UNCHANGED <<wanted, answered, offered, handed, outcome, saved>>

FinalAnswer ==
  /\ phase = "asked"
  /\ phase' = "ending"
  /\ outcome' = "answered"
  /\ UNCHANGED <<rounds, wanted, answered, offered, handed, saved>>

HandOver(client) ==
  /\ client # {}
  /\ phase' = "ending"
  /\ outcome' = "handed"
  /\ handed' = handed \cup client

OnlyClientCalls ==
  /\ phase = "asked"
  /\ \E client \in SUBSET Calls : HandOver(client)
  /\ UNCHANGED <<rounds, wanted, answered, offered, saved>>

(* New calls of ours, with or without some of the client's. *)
Act ==
  /\ phase = "asked"
  /\ phase' = "acting"
  /\ \E own \in (SUBSET Calls) \ {{}} :
       /\ own \cap wanted = {}
       /\ wanted' = wanted \cup own
  /\ offered' \in SUBSET Calls
  /\ UNCHANGED <<rounds, answered, handed, outcome, saved>>

(* Every call of ours has its result: the model is asked again, unless the client
   has calls to run first. *)
Results ==
  /\ phase = "acting"
  /\ answered' = wanted
  /\ offered' = {}
  /\ \/ offered = {} /\ phase' = "ready" /\ UNCHANGED <<handed, outcome>>
     \/ HandOver(offered)
  /\ UNCHANGED <<rounds, wanted, saved>>

(* An error or a disconnect, which may come upon calls that were never run. *)
Fail ==
  /\ phase # "over"
  /\ phase' = "ending"
  /\ outcome' = "failed"
  /\ \E own \in SUBSET Calls : wanted' = wanted \cup own
  /\ offered' = {}
  /\ UNCHANGED <<rounds, answered, handed, saved>>

Save ==
  /\ phase = "ending"
  /\ phase' = "over"
  /\ saved' = TRUE
  /\ UNCHANGED <<rounds, wanted, answered, offered, handed, outcome>>

(* The client is gone before the turn is stored. *)
Abandon ==
  /\ phase = "ending"
  /\ phase' = "over"
  /\ outcome' = "failed"
  /\ UNCHANGED <<rounds, wanted, answered, offered, handed, saved>>

Next ==
  \/ Ask \/ FinalAnswer \/ OnlyClientCalls \/ Act \/ Results
  \/ Fail \/ Save \/ Abandon

Spec == Init /\ [][Next]_vars

=============================================================================
