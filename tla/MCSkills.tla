------------------------------ MODULE MCSkills ------------------------------
(* An instance of Skills for TLC. *)
EXTENDS Skills, TLC

CONSTANTS a, b, c, p, n1, n2, n3, md, csv, txt, dot, t1, t2

MCNamedBy == [u \in {a, b, c, p} |-> CASE u = a -> {n1} [] u = b -> {n1, n2}
                                     [] u = c -> {n2} [] OTHER -> {n1, n3}]

\* Two chips; one of an older message; a full budget; none left for the older ones; one too
\* many; the same again, alone and with a new one; and no chip at all.
MCChats ==
  { <<<<a, Malformed, b, a>>>>, <<<<a>>, <<b>>>>, <<<<a, b>>, <<>>, <<c>>>>, <<<<a>>, <<b, c>>>>,
    <<<<a, b, c>>>>, <<<<a>>, <<a>>>>, <<<<a>>, <<a, c>>>>, <<<<>>>> }

MCConfigs ==
  { [prompts |-> <<>>, resources |-> <<a, a>>], [prompts |-> <<p>>, resources |-> <<b>>] }

P(items, next) == [items |-> items, next |-> next]

\* More files than the inventory takes; more pages than are read.
MCListings ==
  { <<P(<<dot, md>>, t1), P(<<csv, txt>>, NoToken)>>,
    <<P(<<md>>, t1), P(<<md, dot>>, t2), P(<<csv>>, NoToken)>> }

=============================================================================
