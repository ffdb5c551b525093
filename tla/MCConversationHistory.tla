----------------------- MODULE MCConversationHistory -----------------------
(* Instances of ConversationHistory for TLC. *)
EXTENDS ConversationHistory, TLC

CONSTANTS i1, i2, e1, e2, h1, h2, f1, k1, k2, r1, t1, t2, t3

\* Two skills in one user message, read as one batch.
TwoSkills == {<<k1, k2>>}
OneResource == <<r1>>
NoResource == <<>>

\* Ids of one kind are interchangeable, except those of which WithTime chooses.
Alike == Permutations({i1, i2}) \cup Permutations({e1, e2}) \cup Permutations({h1, h2})

=============================================================================
