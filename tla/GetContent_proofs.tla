-------------------------- MODULE GetContent_proofs --------------------------
(***************************************************************************)
(* Proofs about GetContent for any files, contexts, uploads and numbers of *)
(* requests: what the model is told of files, what it can ask for, what is *)
(* delivered to it, and what the stored history keeps.                     *)
(***************************************************************************)
EXTENDS GetContent, TLAPS, FiniteSetTheorems, WellFoundedInduction

-----------------------------------------------------------------------------
(* Sequences, position by position. *)

IsList(s) == s \in Seq(ToSet(s))

LEMMA ListFrom ==
  ASSUME NEW n \in Nat, NEW s, s = [i \in 1..n |-> s[i]]
  PROVE  IsList(s) /\ Len(s) = n
<1>1. DOMAIN s = 1..n
  OBVIOUS
<1>2. ToSet(s) = {s[i] : i \in 1..n}
  BY <1>1 DEF ToSet
<1>3. s \in [1..n -> ToSet(s)]
  BY <1>2
<1> HIDE DEF ToSet
<1>4. s \in Seq(ToSet(s))
  BY <1>3
<1> QED
  BY <1>1, <1>4 DEF IsList

LEMMA ListIs ==
  ASSUME NEW s, IsList(s)
  PROVE  Len(s) \in Nat /\ DOMAIN s = 1..Len(s) /\ s = [i \in 1..Len(s) |-> s[i]]
BY DEF IsList

LEMMA SeqIs ==
  ASSUME NEW E, NEW s \in Seq(E)
  PROVE  Len(s) \in Nat /\ s = [i \in 1..Len(s) |-> s[i]]
OBVIOUS

LEMMA SeqWidens ==
  ASSUME NEW D, NEW E, D \subseteq E, NEW s \in Seq(D)
  PROVE  s \in Seq(E)
<1>1. Len(s) \in Nat /\ s \in [1..Len(s) -> D]
  OBVIOUS
<1>2. s \in [1..Len(s) -> E]
  BY <1>1
<1> QED
  BY <1>1, <1>2

LEMMA Appended ==
  ASSUME NEW s, IsList(s), NEW e
  PROVE  /\ IsList(Append(s, e)) /\ Len(Append(s, e)) = Len(s) + 1
         /\ \A i \in 1..Len(s) : Append(s, e)[i] = s[i]
         /\ Append(s, e)[Len(s) + 1] = e
<1> DEFINE E == ToSet(s) \cup {e}
           t == Append(s, e)
<1>1. s \in Seq(E) /\ e \in E
  <2>1. s \in Seq(ToSet(s)) /\ ToSet(s) \subseteq E /\ e \in E
    BY DEF IsList
  <2> HIDE DEF E
  <2> QED
    BY <2>1, SeqWidens
<1> HIDE DEF E
<1>2. t \in Seq(E) /\ Len(t) = Len(s) + 1 /\ Len(s) \in Nat
  BY <1>1
<1>3. (\A i \in 1..Len(s) : t[i] = s[i]) /\ t[Len(s) + 1] = e
  BY <1>1
<1> HIDE DEF t
<1>4. t = [i \in 1..Len(t) |-> t[i]] /\ Len(t) \in Nat
  BY <1>2, SeqIs
<1>5. IsList(t)
  BY <1>4, ListFrom
<1> QED
  BY <1>2, <1>3, <1>5 DEF t

LEMMA Joined ==
  ASSUME NEW s, IsList(s), NEW t, IsList(t)
  PROVE  /\ IsList(s \o t) /\ Len(s \o t) = Len(s) + Len(t)
         /\ \A i \in 1..Len(s) : (s \o t)[i] = s[i]
         /\ \A i \in 1..Len(t) : (s \o t)[Len(s) + i] = t[i]
<1> DEFINE E == ToSet(s) \cup ToSet(t)
           u == s \o t
<1>1. s \in Seq(E) /\ t \in Seq(E)
  <2>1. s \in Seq(ToSet(s)) /\ ToSet(s) \subseteq E /\ t \in Seq(ToSet(t)) /\ ToSet(t) \subseteq E
    BY DEF IsList
  <2> HIDE DEF E
  <2> QED
    BY <2>1, SeqWidens
<1> HIDE DEF E
<1>2. u \in Seq(E) /\ Len(u) = Len(s) + Len(t) /\ Len(s) \in Nat /\ Len(t) \in Nat
  BY <1>1
<1>3. \A i \in 1..Len(s) : u[i] = s[i]
  BY <1>1
<1>4. \A i \in 1..Len(t) : u[Len(s) + i] = t[i]
  BY <1>1
<1> HIDE DEF u
<1>5. u = [i \in 1..Len(u) |-> u[i]] /\ Len(u) \in Nat
  BY <1>2, SeqIs
<1>6. IsList(u)
  BY <1>5, ListFrom
<1> QED
  BY <1>2, <1>3, <1>4, <1>6 DEF u

LEMMA Part ==
  ASSUME NEW s, IsList(s), NEW m \in Nat, NEW n \in Nat, 1 <= m, m <= n + 1, n <= Len(s)
  PROVE  /\ IsList(SubSeq(s, m, n)) /\ Len(SubSeq(s, m, n)) = n - m + 1
         /\ \A i \in 1..(n - m + 1) : SubSeq(s, m, n)[i] = s[m + i - 1]
<1> DEFINE E == ToSet(s)
           t == SubSeq(s, m, n)
<1>1. s \in Seq(E)
  BY DEF IsList
<1> HIDE DEF E
<1>2. Len(t) = n - m + 1 /\ t \in Seq(E) /\ Len(t) \in Nat
  BY <1>1
<1>3. \A i \in 1..(n - m + 1) : t[i] = s[m + i - 1]
  BY <1>1
<1> HIDE DEF t
<1>4. IsList(t)
  BY <1>2, SeqIs, ListFrom
<1> QED
  BY <1>2, <1>3, <1>4 DEF t

(* A set of numbers has a least member, and one that is bounded has a greatest. *)
LEMMA LeastNat ==
  ASSUME NEW I, I \subseteq Nat, I # {}
  PROVE  \E m \in I : \A n \in I : m <= n
<1> DEFINE R == OpToRel(<, Nat)
<1>1. \E m \in I : \A n \in I : ~(<<n, m>> \in R)
  <2>1. IsWellFoundedOn(R, Nat)
    BY NatLessThanWellFounded
  <2> HIDE DEF R
  <2> QED BY <2>1, WFMin
<1>2. \A n, m \in Nat : n < m => <<n, m>> \in R
  BY DEF OpToRel
<1>3. PICK m \in I : \A n \in I : ~(<<n, m>> \in R)
  BY <1>1
<1> HIDE DEF R
<1>4. \A n \in I : ~(n < m)
  BY <1>2, <1>3
<1> QED
  BY <1>4

LEMMA MinIs ==
  ASSUME NEW I, I \subseteq Nat, I # {}
  PROVE  Min(I) \in I /\ \A n \in I : Min(I) <= n
BY LeastNat DEF Min

LEMMA MaxIs ==
  ASSUME NEW I, NEW n \in Nat, I \subseteq 1..n, I # {}
  PROVE  Max(I) \in I /\ \A m \in I : m <= Max(I)
<1> DEFINE U == {b \in Nat : \A m \in I : m <= b}
<1>1. n \in U
  OBVIOUS
<1>2. PICK b \in U : \A c \in U : b <= c
  BY <1>1, LeastNat
<1>3. b \in I
  <2> SUFFICES ASSUME b \notin I PROVE FALSE
    OBVIOUS
  <2>1. \A m \in I : m < b /\ m \in Nat
    BY <1>2
  <2>2. b \in Nat /\ b > 0
    <3>1. PICK m \in I : m < b /\ m \in Nat
      BY <2>1
    <3>2. b \in Nat
      BY <1>2
    <3> QED
      BY <3>1, <3>2
  <2>3. b - 1 \in U
    BY <2>1, <2>2
  <2> QED
    BY <1>2, <2>2, <2>3
<1>4. \E x \in I : \A y \in I : x >= y
  BY <1>2, <1>3
<1>5. Max(I) \in I /\ \A y \in I : Max(I) >= y
  BY <1>4 DEF Max
<1>6. I \subseteq Nat
  OBVIOUS
<1> QED
  BY <1>5, <1>6

LEMMA NthIs ==
  ASSUME NEW n \in Nat, NEW S, S \subseteq 1..n
  PROVE  /\ Cardinality(S) \in Nat
         /\ \A j \in 1..Cardinality(S) : Nth(S, j) \in S
         /\ \A k \in S : \E j \in 1..Cardinality(S) : Nth(S, j) = k
<1> DEFINE Upto(k) == {j \in S : j <= k}
           place == [k \in S |-> Cardinality(Upto(k))]
           c == Cardinality(S)
<1>1. IsFiniteSet(S) /\ S \subseteq Nat /\ c \in Nat
  <2>1. IsFiniteSet(1..n)
    BY FS_Interval
  <2>2. IsFiniteSet(S)
    BY <2>1, FS_Subset
  <2> QED
    BY <2>2, FS_CardinalityType
<1>2. \A k \in S : IsFiniteSet(Upto(k)) /\ Cardinality(Upto(k)) \in 1..c
  <2> SUFFICES ASSUME NEW k \in S PROVE IsFiniteSet(Upto(k)) /\ Cardinality(Upto(k)) \in 1..c
    OBVIOUS
  <2>1. Upto(k) \in SUBSET S /\ k \in Upto(k)
    BY <1>1
  <2> HIDE DEF Upto
  <2>2. IsFiniteSet(Upto(k)) /\ Cardinality(Upto(k)) <= c
    BY <1>1, <2>1, FS_Subset
  <2>3. Cardinality(Upto(k)) \in Nat /\ Cardinality(Upto(k)) # 0
    BY <2>1, <2>2, FS_CardinalityType, FS_EmptySet
  <2> QED
    BY <1>1, <2>2, <2>3
<1>3. \A k, l \in S : k < l => Cardinality(Upto(k)) # Cardinality(Upto(l))
  <2> SUFFICES ASSUME NEW k \in S, NEW l \in S, k < l, Cardinality(Upto(k)) = Cardinality(Upto(l))
               PROVE  FALSE
    OBVIOUS
  <2>0. k \in Nat /\ l \in Nat /\ S \subseteq Nat
    BY <1>1
  <2>1. Upto(k) \subseteq Upto(l) /\ l \in Upto(l) /\ l \notin Upto(k)
    <3>1. \A j \in S : j <= k => j <= l
      BY <2>0
    <3>2. Upto(k) \subseteq Upto(l)
      BY <3>1
    <3> QED
      BY <2>0, <3>2
  <2>2. IsFiniteSet(Upto(l))
    BY <1>2
  <2> HIDE DEF Upto
  <2>3. Upto(l) = Upto(k)
    BY <2>1, <2>2, FS_Subset
  <2> QED
    BY <2>1, <2>3
<1> HIDE DEF c
<1>4. \A k, l \in S : place[k] = place[l] => k = l
  <2> SUFFICES ASSUME NEW k \in S, NEW l \in S, place[k] = place[l] PROVE k = l
    OBVIOUS
  <2>1. Cardinality(Upto(k)) = Cardinality(Upto(l))
    OBVIOUS
  <2>2. ~(k < l) /\ ~(l < k)
    BY <1>3, <2>1
  <2> QED
    BY <1>1, <2>2
<1>5. place \in [S -> 1..c]
  BY <1>2
<1>6. place \in Surjection(S, 1..c)
  <2>1. place \in Injection(S, 1..c)
    BY <1>4, <1>5 DEF Injection, IsInjective
  <2>2. IsFiniteSet(1..c) /\ Cardinality(1..c) = c
    BY <1>1, FS_Interval
  <2> HIDE DEF place
  <2> QED
    BY <2>1, <2>2, FS_Injection DEF c
<1>7. \A j \in 1..c : \E k \in S : place[k] = j
  BY <1>6 DEF Surjection
<1>8. \A j \in 1..c : \E k \in S : Cardinality(Upto(k)) = j
  BY <1>7
<1>9. \A j \in 1..c : Nth(S, j) \in S /\ Cardinality(Upto(Nth(S, j))) = j
  BY <1>8 DEF Nth
<1>10. \A k \in S : Nth(S, Cardinality(Upto(k))) = k
  <2> SUFFICES ASSUME NEW k \in S PROVE Nth(S, Cardinality(Upto(k))) = k
    OBVIOUS
  <2> DEFINE j == Cardinality(Upto(k))
  <2>1. j \in 1..c
    BY <1>2
  <2>2. Nth(S, j) \in S /\ Cardinality(Upto(Nth(S, j))) = j
    BY <1>9, <2>1
  <2>3. place[Nth(S, j)] = place[k]
    BY <2>2
  <2> HIDE DEF place
  <2> QED
    BY <1>4, <2>2, <2>3
<1> QED
  BY <1>1, <1>2, <1>9, <1>10 DEF c

-----------------------------------------------------------------------------
(* The last row of a kind. *)

LEMMA LastOf ==
  ASSUME NEW n \in Nat, NEW I, I \subseteq 1..n,
         NEW k, k = IF I # {} THEN Max(I) ELSE 0
  PROVE  \/ k = 0 /\ I = {}
         \/ k \in I /\ \A m \in I : m <= k
<1>1. CASE I = {}
  BY <1>1
<1>2. CASE I # {}
  BY <1>2, MaxIs
<1> QED
  BY <1>1, <1>2

LEMMA LastUserIs ==
  ASSUME NEW s, IsList(s)
  PROVE  /\ LastUser(s) \in 0..Len(s)
         /\ LastUser(s) > 0 => s[LastUser(s)].kind = "user"
         /\ \A i \in 1..Len(s) : i > LastUser(s) => s[i].kind # "user"
<1> DEFINE I == {i \in 1..Len(s) : s[i].kind = "user"}
<1>1. Len(s) \in Nat
  BY ListIs
<1>2. LastUser(s) = IF I # {} THEN Max(I) ELSE 0
  BY DEF LastUser, SelectLastInSeq
<1>3. \/ LastUser(s) = 0 /\ I = {}
      \/ LastUser(s) \in I /\ \A m \in I : m <= LastUser(s)
  <2>1. I \subseteq 1..Len(s)
    OBVIOUS
  <2> HIDE DEF I
  <2> QED
    BY <1>1, <1>2, <2>1, LastOf
<1>4. CASE LastUser(s) = 0 /\ I = {}
  BY <1>1, <1>4
<1>5. CASE LastUser(s) \in I /\ \A m \in I : m <= LastUser(s)
  BY <1>1, <1>5
<1> QED
  BY <1>3, <1>4, <1>5

LEMMA LastUserAt ==
  ASSUME NEW s, IsList(s), NEW u \in 0..Len(s), u > 0 => s[u].kind = "user",
         \A i \in 1..Len(s) : i > u => s[i].kind # "user"
  PROVE  LastUser(s) = u
<1> DEFINE v == LastUser(s)
<1>1. /\ v \in 0..Len(s)
      /\ v > 0 => s[v].kind = "user"
      /\ \A i \in 1..Len(s) : i > v => s[i].kind # "user"
  BY LastUserIs
<1>2. Len(s) \in Nat
  BY ListIs
<1> HIDE DEF v
<1>3. ~(u < v) /\ ~(v < u)
  BY <1>1, <1>2
<1>4. v = u
  BY <1>1, <1>2, <1>3
<1> QED
  BY <1>4 DEF v

LEMMA LastUploadIs ==
  ASSUME NEW s, IsList(s)
  PROVE  /\ LastUpload(s) \in 0..Len(s)
         /\ LastUpload(s) > 0 => s[LastUpload(s)].kind = "user" /\ s[LastUpload(s)].files # <<>>
         /\ \A i \in 1..Len(s) :
              i > LastUpload(s) => ~(s[i].kind = "user" /\ s[i].files # <<>>)
<1> DEFINE I == {i \in 1..Len(s) : s[i].kind = "user" /\ s[i].files # <<>>}
<1>1. Len(s) \in Nat
  BY ListIs
<1>2. LastUpload(s) = IF I # {} THEN Max(I) ELSE 0
  BY DEF LastUpload, SelectLastInSeq
<1>3. \/ LastUpload(s) = 0 /\ I = {}
      \/ LastUpload(s) \in I /\ \A m \in I : m <= LastUpload(s)
  <2>1. I \subseteq 1..Len(s)
    OBVIOUS
  <2> HIDE DEF I
  <2> QED
    BY <1>1, <1>2, <2>1, LastOf
<1>4. CASE LastUpload(s) = 0 /\ I = {}
  BY <1>1, <1>4
<1>5. CASE LastUpload(s) \in I /\ \A m \in I : m <= LastUpload(s)
  BY <1>1, <1>5
<1> QED
  BY <1>3, <1>4, <1>5

LastTold(s) == SelectLastInSeq(s, IsTold)

LEMMA LastToldIs ==
  ASSUME NEW s, IsList(s)
  PROVE  /\ LastTold(s) \in 0..Len(s)
         /\ LastTold(s) > 0 => s[LastTold(s)].kind = "told"
         /\ \A i \in 1..Len(s) : i > LastTold(s) => s[i].kind # "told"
<1> DEFINE I == {i \in 1..Len(s) : s[i].kind = "told"}
<1>1. Len(s) \in Nat
  BY ListIs
<1>2. LastTold(s) = IF I # {} THEN Max(I) ELSE 0
  BY DEF LastTold, SelectLastInSeq, IsTold
<1>3. \/ LastTold(s) = 0 /\ I = {}
      \/ LastTold(s) \in I /\ \A m \in I : m <= LastTold(s)
  <2>1. I \subseteq 1..Len(s)
    OBVIOUS
  <2> HIDE DEF I
  <2> QED
    BY <1>1, <1>2, <2>1, LastOf
<1>4. CASE LastTold(s) = 0 /\ I = {}
  BY <1>1, <1>4
<1>5. CASE LastTold(s) \in I /\ \A m \in I : m <= LastTold(s)
  BY <1>1, <1>5
<1> QED
  BY <1>3, <1>4, <1>5

LEMMA LastToldAt ==
  ASSUME NEW s, IsList(s), NEW u \in 0..Len(s), u > 0 => s[u].kind = "told",
         \A i \in 1..Len(s) : i > u => s[i].kind # "told"
  PROVE  LastTold(s) = u
<1> DEFINE v == LastTold(s)
<1>1. /\ v \in 0..Len(s)
      /\ v > 0 => s[v].kind = "told"
      /\ \A i \in 1..Len(s) : i > v => s[i].kind # "told"
  BY LastToldIs
<1>2. Len(s) \in Nat
  BY ListIs
<1> HIDE DEF v
<1>3. ~(u < v) /\ ~(v < u)
  BY <1>1, <1>2
<1>4. v = u
  BY <1>1, <1>2, <1>3
<1> QED
  BY <1>4 DEF v

LEMMA SeenIs ==
  ASSUME NEW s
  PROVE  Seen(s) = IF LastTold(s) = 0 THEN <<>> ELSE Parsed(s[LastTold(s)].entries)
BY DEF Seen, LastTold

-----------------------------------------------------------------------------
(* What the helpers do to the messages. *)

(* The files of the user get rows of their own after the message that has them. *)
LEMMA UploadRows ==
  ASSUME NEW m, IsList(m), NEW stopped, LastUpload(m) > 0, IsList(m[LastUpload(m)].files)
  PROVE  LET user == LastUpload(m)
             files == m[user].files
             missing == Missing(m, user, stopped)
             n == Cardinality(missing)
             w == WithUploads(m, stopped)
             Row(k) == Content(files[k].ref, "loaded", Deliverable(files[k]))
         IN /\ user \in 1..Len(m)
            /\ n \in Nat /\ IsList(w) /\ Len(w) = Len(m) + n
            /\ \A i \in 1..user : w[i] = m[i]
            /\ \A i \in user + 1..user + n : \E k \in missing : w[i] = Row(k)
            /\ \A i \in user + n + 1..Len(m) + n : w[i] = m[i - n]
            /\ \A k \in missing : \E i \in user + 1..user + n : w[i] = Row(k)
<1> DEFINE user == LastUpload(m)
           files == m[user].files
           missing == Missing(m, user, stopped)
           n == Cardinality(missing)
           w == WithUploads(m, stopped)
           Row(k) == Content(files[k].ref, "loaded", Deliverable(files[k]))
           pairs == [j \in 1..n |-> Row(Nth(missing, j))]
           head == SubSeq(m, 1, user)
           tail == SubSeq(m, user + 1, Len(m))
<1>1. Len(m) \in Nat /\ user \in 1..Len(m) /\ Len(files) \in Nat /\ DOMAIN files = 1..Len(files)
  BY LastUploadIs, ListIs
<1>2. missing \subseteq 1..Len(files)
  BY <1>1 DEF Missing
<1>3. w = head \o pairs \o tail
  <2>1. LastUpload(m) # 0
    BY <1>1
  <2> QED
    BY <2>1, Zenon DEF WithUploads
<1> HIDE DEF user, missing, w, files
<1>4. /\ n \in Nat
      /\ \A j \in 1..n : Nth(missing, j) \in missing
      /\ \A k \in missing : \E j \in 1..n : Nth(missing, j) = k
  BY <1>1, <1>2, NthIs
<1> HIDE DEF n, Row
<1>5. IsList(pairs) /\ Len(pairs) = n /\ \A j \in 1..n : pairs[j] = Row(Nth(missing, j))
  <2>1. pairs = [j \in 1..n |-> pairs[j]]
    OBVIOUS
  <2>2. \A j \in 1..n : pairs[j] = Row(Nth(missing, j))
    OBVIOUS
  <2> HIDE DEF pairs
  <2> QED
    BY <1>4, <2>1, <2>2, ListFrom
<1>6. IsList(head) /\ Len(head) = user /\ \A i \in 1..user : head[i] = m[i]
  <2>0. 1 \in Nat /\ user \in Nat /\ 1 <= 1 /\ 1 <= user + 1 /\ user <= Len(m)
    BY <1>1
  <2>1. /\ IsList(head) /\ Len(head) = user - 1 + 1
        /\ \A i \in 1..(user - 1 + 1) : head[i] = m[1 + i - 1]
    BY <2>0, Part
  <2> HIDE DEF head
  <2> QED
    BY <1>1, <2>1
<1>7. IsList(tail) /\ Len(tail) = Len(m) - user /\ \A i \in 1..(Len(m) - user) : tail[i] = m[user + i]
  <2>0. user + 1 \in Nat /\ Len(m) \in Nat /\ 1 <= user + 1 /\ user + 1 <= Len(m) + 1 /\ Len(m) <= Len(m)
    BY <1>1
  <2>1. /\ IsList(tail) /\ Len(tail) = Len(m) - (user + 1) + 1
        /\ \A i \in 1..(Len(m) - (user + 1) + 1) : tail[i] = m[user + 1 + i - 1]
    BY <2>0, Part
  <2> HIDE DEF tail
  <2> QED
    BY <1>1, <2>1
<1> DEFINE start == head \o pairs
<1> HIDE DEF pairs, head, tail
<1>8. /\ IsList(start) /\ Len(start) = user + n
      /\ \A i \in 1..user : start[i] = m[i]
      /\ \A j \in 1..n : start[user + j] = Row(Nth(missing, j))
  <2>1. /\ IsList(start) /\ Len(start) = Len(head) + Len(pairs)
        /\ \A i \in 1..Len(head) : start[i] = head[i]
        /\ \A i \in 1..Len(pairs) : start[Len(head) + i] = pairs[i]
    <3>1. IsList(head) /\ IsList(pairs)
      BY <1>5, <1>6
    <3> QED
      BY <3>1, Joined
  <2> HIDE DEF start
  <2> QED
    BY <1>5, <1>6, <2>1
<1>9. w = start \o tail
  BY <1>3
<1> HIDE DEF start
<1>10. /\ IsList(w) /\ Len(w) = Len(m) + n
       /\ \A i \in 1..user + n : w[i] = start[i]
       /\ \A i \in 1..(Len(m) - user) : w[user + n + i] = m[user + i]
  <2>1. /\ IsList(w) /\ Len(w) = Len(start) + Len(tail)
        /\ \A i \in 1..Len(start) : w[i] = start[i]
        /\ \A i \in 1..Len(tail) : w[Len(start) + i] = tail[i]
    <3>1. IsList(start) /\ IsList(tail)
      BY <1>7, <1>8
    <3> QED
      BY <1>9, <3>1, Joined
  <2>2. \A i \in 1..(Len(m) - user) : i \in 1..Len(tail) /\ w[Len(start) + i] = tail[i]
    BY <1>7, <2>1
  <2>3. Len(w) = Len(m) + n
    BY <1>1, <1>4, <1>7, <1>8, <2>1
  <2> QED
    BY <1>7, <1>8, <2>1, <2>2, <2>3
<1>11. \A i \in 1..user : w[i] = m[i]
  BY <1>1, <1>4, <1>8, <1>10
<1>12. \A j \in 1..n : w[user + j] = Row(Nth(missing, j))
  <2> SUFFICES ASSUME NEW j \in 1..n PROVE w[user + j] = Row(Nth(missing, j))
    OBVIOUS
  <2>1. user + j \in 1..user + n
    BY <1>1, <1>4
  <2> QED
    BY <1>8, <1>10, <2>1
<1>13. \A i \in user + 1..user + n : \E k \in missing : w[i] = Row(k)
  <2> SUFFICES ASSUME NEW i \in user + 1..user + n PROVE \E k \in missing : w[i] = Row(k)
    OBVIOUS
  <2>1. i - user \in 1..n /\ user + (i - user) = i
    BY <1>1, <1>4
  <2>2. w[i] = Row(Nth(missing, i - user)) /\ Nth(missing, i - user) \in missing
    BY <1>4, <1>12, <2>1
  <2> QED
    BY <2>2
<1>14. \A i \in user + n + 1..Len(m) + n : w[i] = m[i - n]
  <2> SUFFICES ASSUME NEW i \in user + n + 1..Len(m) + n PROVE w[i] = m[i - n]
    OBVIOUS
  <2>1. i - n - user \in 1..(Len(m) - user) /\ user + n + (i - n - user) = i /\ user + (i - n - user) = i - n
    BY <1>1, <1>4
  <2> QED
    BY <1>10, <2>1
<1>15. \A k \in missing : \E i \in user + 1..user + n : w[i] = Row(k)
  <2> SUFFICES ASSUME NEW k \in missing PROVE \E i \in user + 1..user + n : w[i] = Row(k)
    OBVIOUS
  <2>1. PICK j \in 1..n : Nth(missing, j) = k
    BY <1>4
  <2>2. user + j \in user + 1..user + n
    BY <1>1, <1>4
  <2>3. w[user + j] = Row(k)
    BY <1>12, <2>1
  <2> QED
    BY <2>2, <2>3
<1>16. /\ user \in 1..Len(m) /\ n \in Nat /\ IsList(w) /\ Len(w) = Len(m) + n
       /\ \A i \in 1..user : w[i] = m[i]
       /\ \A i \in user + 1..user + n : \E k \in missing : w[i] = Row(k)
       /\ \A i \in user + n + 1..Len(m) + n : w[i] = m[i - n]
       /\ \A k \in missing : \E i \in user + 1..user + n : w[i] = Row(k)
  BY <1>1, <1>4, <1>10, <1>11, <1>13, <1>14, <1>15
<1> QED
  BY <1>16 DEF n, Row, missing, w, files, user

LEMMA Single ==
  ASSUME NEW x
  PROVE  IsList(<<x>>) /\ Len(<<x>>) = 1 /\ <<x>>[1] = x
<1>1. <<x>> \in Seq({x}) /\ Len(<<x>>) = 1 /\ <<x>>[1] = x
  OBVIOUS
<1>2. <<x>> = [i \in 1..1 |-> <<x>>[i]]
  OBVIOUS
<1> QED
  BY <1>1, <1>2, ListFrom

LEMMA Nothing == IsList(<<>>) /\ Len(<<>>) = 0
<1>1. <<>> = [i \in 1..0 |-> <<>>[i]]
  OBVIOUS
<1> QED
  BY <1>1, ListFrom

LEMMA LastUserAppended ==
  ASSUME NEW s, IsList(s), NEW e
  PROVE  LastUser(Append(s, e)) = IF e.kind = "user" THEN Len(s) + 1 ELSE LastUser(s)
<1> DEFINE t == Append(s, e)
<1>1. /\ IsList(t) /\ Len(t) = Len(s) + 1 /\ Len(s) \in Nat
      /\ \A i \in 1..Len(s) : t[i] = s[i]
      /\ t[Len(s) + 1] = e
  BY Appended, ListIs
<1>2. /\ LastUser(s) \in 0..Len(s)
      /\ LastUser(s) > 0 => s[LastUser(s)].kind = "user"
      /\ \A i \in 1..Len(s) : i > LastUser(s) => s[i].kind # "user"
  BY LastUserIs
<1>3. \A i \in 1..Len(t) : i \in 1..Len(s) \/ i = Len(s) + 1
  BY <1>1
<1> HIDE DEF t
<1>4. CASE e.kind = "user"
  <2>1. /\ Len(s) + 1 \in 0..Len(t) /\ t[Len(s) + 1].kind = "user"
        /\ \A i \in 1..Len(t) : i > Len(s) + 1 => t[i].kind # "user"
    BY <1>1, <1>4
  <2>2. LastUser(t) = Len(s) + 1
    BY <1>1, <2>1, LastUserAt
  <2> QED
    BY <1>4, <2>2 DEF t
<1>5. CASE e.kind # "user"
  <2>1. /\ LastUser(s) \in 0..Len(t)
        /\ LastUser(s) > 0 => t[LastUser(s)].kind = "user"
        /\ \A i \in 1..Len(t) : i > LastUser(s) => t[i].kind # "user"
    BY <1>1, <1>2, <1>3, <1>5
  <2>2. LastUser(t) = LastUser(s)
    <3> DEFINE u == LastUser(s)
    <3>1. /\ u \in 0..Len(t)
          /\ u > 0 => t[u].kind = "user"
          /\ \A i \in 1..Len(t) : i > u => t[i].kind # "user"
      BY <2>1
    <3> HIDE DEF u
    <3>2. LastUser(t) = u
      BY <1>1, <3>1, LastUserAt
    <3> QED
      BY <3>2 DEF u
  <2> QED
    BY <1>5, <2>2 DEF t
<1> QED
  BY <1>4, <1>5

LEMMA SeenAppended ==
  ASSUME NEW s, IsList(s), NEW e
  PROVE  Seen(Append(s, e)) = IF e.kind = "told" THEN Parsed(e.entries) ELSE Seen(s)
<1> DEFINE t == Append(s, e)
<1>1. /\ IsList(t) /\ Len(t) = Len(s) + 1 /\ Len(s) \in Nat
      /\ \A i \in 1..Len(s) : t[i] = s[i]
      /\ t[Len(s) + 1] = e
  BY Appended, ListIs
<1>2. /\ LastTold(s) \in 0..Len(s)
      /\ LastTold(s) > 0 => s[LastTold(s)].kind = "told"
      /\ \A i \in 1..Len(s) : i > LastTold(s) => s[i].kind # "told"
  BY LastToldIs
<1>3. \A i \in 1..Len(t) : i \in 1..Len(s) \/ i = Len(s) + 1
  BY <1>1
<1> HIDE DEF t
<1>4. CASE e.kind = "told"
  <2>1. /\ Len(s) + 1 \in 0..Len(t) /\ t[Len(s) + 1].kind = "told"
        /\ \A i \in 1..Len(t) : i > Len(s) + 1 => t[i].kind # "told"
    BY <1>1, <1>4
  <2>2. LastTold(t) = Len(s) + 1
    BY <1>1, <2>1, LastToldAt
  <2>3. Seen(t) = Parsed(e.entries)
    BY <1>1, <2>2, SeenIs
  <2> QED
    BY <1>4, <2>3 DEF t
<1>5. CASE e.kind # "told"
  <2>1. /\ LastTold(s) \in 0..Len(t)
        /\ LastTold(s) > 0 => t[LastTold(s)].kind = "told"
        /\ \A i \in 1..Len(t) : i > LastTold(s) => t[i].kind # "told"
    BY <1>1, <1>2, <1>3, <1>5
  <2>2. LastTold(t) = LastTold(s)
    <3> DEFINE u == LastTold(s)
    <3>1. /\ u \in 0..Len(t)
          /\ u > 0 => t[u].kind = "told"
          /\ \A i \in 1..Len(t) : i > u => t[i].kind # "told"
      BY <2>1
    <3> HIDE DEF u
    <3>2. LastTold(t) = u
      BY <1>1, <3>1, LastToldAt
    <3> QED
      BY <3>2 DEF u
  <2>3. LastTold(s) # 0 => t[LastTold(s)] = s[LastTold(s)]
    BY <1>1, <1>2
  <2>4. Seen(t) = Seen(s)
    BY <2>2, <2>3, SeenIs
  <2> QED
    BY <1>5, <2>4 DEF t
<1> QED
  BY <1>4, <1>5

(* Rows replaced by rows of their kind, those of available-context by themselves. *)
LEMMA Replaced ==
  ASSUME NEW s, IsList(s), NEW t, IsList(t), Len(t) = Len(s),
         \A i \in 1..Len(s) : t[i].kind = s[i].kind /\ (s[i].kind = "told" => t[i] = s[i])
  PROVE  LastUser(t) = LastUser(s) /\ Seen(t) = Seen(s)
<1>1. Len(s) \in Nat
  BY ListIs
<1>2. LastUser(t) = LastUser(s)
  <2>1. /\ LastUser(s) \in 0..Len(s)
        /\ LastUser(s) > 0 => s[LastUser(s)].kind = "user"
        /\ \A i \in 1..Len(s) : i > LastUser(s) => s[i].kind # "user"
    BY LastUserIs
  <2>2. /\ LastUser(s) \in 0..Len(t)
        /\ LastUser(s) > 0 => t[LastUser(s)].kind = "user"
        /\ \A i \in 1..Len(t) : i > LastUser(s) => t[i].kind # "user"
    BY <1>1, <2>1
  <2> DEFINE u == LastUser(s)
  <2>3. /\ u \in 0..Len(t)
        /\ u > 0 => t[u].kind = "user"
        /\ \A i \in 1..Len(t) : i > u => t[i].kind # "user"
    BY <2>2
  <2> HIDE DEF u
  <2>4. LastUser(t) = u
    BY <2>3, LastUserAt
  <2> QED
    BY <2>4 DEF u
<1>3. /\ LastTold(s) \in 0..Len(s)
      /\ LastTold(s) > 0 => s[LastTold(s)].kind = "told"
      /\ \A i \in 1..Len(s) : i > LastTold(s) => s[i].kind # "told"
  BY LastToldIs
<1>4. LastTold(t) = LastTold(s)
  <2>1. /\ LastTold(s) \in 0..Len(t)
        /\ LastTold(s) > 0 => t[LastTold(s)].kind = "told"
        /\ \A i \in 1..Len(t) : i > LastTold(s) => t[i].kind # "told"
    BY <1>1, <1>3
  <2> DEFINE u == LastTold(s)
  <2>2. /\ u \in 0..Len(t)
        /\ u > 0 => t[u].kind = "told"
        /\ \A i \in 1..Len(t) : i > u => t[i].kind # "told"
    BY <2>1
  <2> HIDE DEF u
  <2>3. LastTold(t) = u
    BY <2>2, LastToldAt
  <2> QED
    BY <2>3 DEF u
<1>5. LastTold(s) # 0 => t[LastTold(s)] = s[LastTold(s)]
  BY <1>1, <1>3
<1>6. Seen(t) = Seen(s)
  BY <1>4, <1>5, SeenIs
<1> QED
  BY <1>2, <1>6

(* Results of get_content put in between the rows. *)
LEMMA Inserted ==
  ASSUME NEW m, IsList(m), NEW w, IsList(w), NEW at \in 1..Len(m), NEW n \in Nat,
         Len(w) = Len(m) + n,
         \A i \in 1..at : w[i] = m[i],
         \A i \in at + 1..at + n : w[i].kind = "content",
         \A i \in at + n + 1..Len(m) + n : w[i] = m[i - n]
  PROVE  /\ LastUser(w) = IF LastUser(m) <= at THEN LastUser(m) ELSE LastUser(m) + n
         /\ Seen(w) = Seen(m)
<1>1. Len(m) \in Nat /\ at \in Nat
  BY ListIs
<1>2. \A i \in 1..Len(w) : \/ i \in 1..at
                           \/ i \in at + 1..at + n
                           \/ i \in at + n + 1..Len(m) + n /\ i - n \in at + 1..Len(m)
  BY <1>1
<1>3. LastUser(w) = IF LastUser(m) <= at THEN LastUser(m) ELSE LastUser(m) + n
  <2> DEFINE v == LastUser(m)
             u == IF v <= at THEN v ELSE v + n
  <2>1. /\ v \in 0..Len(m)
        /\ v > 0 => m[v].kind = "user"
        /\ \A i \in 1..Len(m) : i > v => m[i].kind # "user"
    BY LastUserIs
  <2> HIDE DEF v
  <2>2. u \in 0..Len(w)
    BY <1>1, <2>1
  <2>3. u > 0 => w[u].kind = "user"
    <3>1. CASE v <= at
      BY <1>1, <2>1, <3>1
    <3>2. CASE ~(v <= at)
      <4> DEFINE j == v + n
      <4>1. j \in at + n + 1..Len(m) + n /\ j - n = v /\ v > 0
        BY <1>1, <2>1, <3>2
      <4> HIDE DEF j
      <4>2. w[j] = m[j - n]
        BY <4>1
      <4>3. w[v + n] = m[v]
        BY <4>1, <4>2 DEF j
      <4> QED
        BY <2>1, <3>2, <4>1, <4>3
    <3> QED
      BY <3>1, <3>2
  <2>4. \A i \in 1..Len(w) : i > u => w[i].kind # "user"
    <3> SUFFICES ASSUME NEW i \in 1..Len(w), i > u PROVE w[i].kind # "user"
      OBVIOUS
    <3>1. CASE i \in 1..at
      BY <1>1, <2>1, <3>1
    <3>2. CASE i \in at + 1..at + n
      BY <3>2
    <3>3. CASE i \in at + n + 1..Len(m) + n /\ i - n \in at + 1..Len(m)
      <4>1. i - n \in 1..Len(m) /\ i - n > v /\ w[i] = m[i - n]
        BY <1>1, <2>1, <3>3
      <4> QED
        BY <2>1, <4>1
    <3> QED
      BY <1>2, <3>1, <3>2, <3>3
  <2> HIDE DEF u
  <2>5. LastUser(w) = u
    BY <2>2, <2>3, <2>4, LastUserAt
  <2> QED
    BY <2>5 DEF u, v
<1>4. Seen(w) = Seen(m)
  <2> DEFINE v == LastTold(m)
             u == IF v <= at THEN v ELSE v + n
  <2>1. /\ v \in 0..Len(m)
        /\ v > 0 => m[v].kind = "told"
        /\ \A i \in 1..Len(m) : i > v => m[i].kind # "told"
    BY LastToldIs
  <2> HIDE DEF v
  <2>2. u \in 0..Len(w) /\ (u = 0 <=> v = 0)
    BY <1>1, <2>1
  <2>3. u > 0 => w[u] = m[v]
    <3>1. CASE v <= at
      BY <1>1, <2>1, <3>1
    <3>2. CASE ~(v <= at)
      <4> DEFINE j == v + n
      <4>1. j \in at + n + 1..Len(m) + n /\ j - n = v /\ v > 0
        BY <1>1, <2>1, <3>2
      <4> HIDE DEF j
      <4>2. w[j] = m[j - n]
        BY <4>1
      <4>3. w[v + n] = m[v]
        BY <4>1, <4>2 DEF j
      <4> QED
        BY <2>1, <3>2, <4>1, <4>3
    <3> QED
      BY <3>1, <3>2
  <2>4. \A i \in 1..Len(w) : i > u => w[i].kind # "told"
    <3> SUFFICES ASSUME NEW i \in 1..Len(w), i > u PROVE w[i].kind # "told"
      OBVIOUS
    <3>1. CASE i \in 1..at
      BY <1>1, <2>1, <3>1
    <3>2. CASE i \in at + 1..at + n
      BY <3>2
    <3>3. CASE i \in at + n + 1..Len(m) + n /\ i - n \in at + 1..Len(m)
      <4>1. i - n \in 1..Len(m) /\ i - n > v /\ w[i] = m[i - n]
        BY <1>1, <2>1, <3>3
      <4> QED
        BY <2>1, <4>1
    <3> QED
      BY <1>2, <3>1, <3>2, <3>3
  <2> HIDE DEF u
  <2>5. u > 0 => w[u].kind = "told"
    BY <1>1, <2>1, <2>2, <2>3
  <2>6. LastTold(w) = u
    BY <2>2, <2>4, <2>5, LastToldAt
  <2>7. LastTold(w) = 0 <=> LastTold(m) = 0
    BY <2>2, <2>6 DEF v
  <2>8. LastTold(w) # 0 => w[LastTold(w)] = m[LastTold(m)]
    <3>1. Len(w) \in Nat
      BY <1>1
    <3> QED
      BY <2>2, <2>3, <2>6, <3>1 DEF v
  <2> QED
    BY <2>7, <2>8, SeenIs
<1> QED
  BY <1>3, <1>4

(* The rows that the files of the user add. *)
Added(row, m, stopped) ==
  /\ LastUpload(m) > 0
  /\ \E k \in Missing(m, LastUpload(m), stopped) :
       LET file == m[LastUpload(m)].files[k]
       IN row = Content(file.ref, "loaded", Deliverable(file))

LEMMA Uploaded ==
  ASSUME NEW m, IsList(m), NEW stopped,
         \A i \in 1..Len(m) : m[i].kind = "user" => IsList(m[i].files)
  PROVE  LET w == WithUploads(m, stopped)
             v == LastUser(m)
         IN /\ IsList(w) /\ Seen(w) = Seen(m)
            /\ v > 0 => LastUser(w) > 0 /\ w[LastUser(w)] = m[v]
            /\ \A i \in 1..Len(w) : (\E j \in 1..Len(m) : w[i] = m[j]) \/ Added(w[i], m, stopped)
            /\ \A i \in 1..Len(w) : i > LastUser(w) =>
                 (\E j \in 1..Len(m) : j > v /\ w[i] = m[j]) \/ Added(w[i], m, stopped)
            /\ \A j \in 1..Len(m) : j > v =>
                 \E i \in 1..Len(w) : i > LastUser(w) /\ w[i] = m[j]
            /\ v > 0 /\ LastUpload(m) = v =>
                 \A k \in Missing(m, v, stopped) : \E i \in 1..Len(w) :
                   LET file == m[v].files[k]
                   IN i > LastUser(w) /\ w[i] = Content(file.ref, "loaded", Deliverable(file))
<1> DEFINE w == WithUploads(m, stopped)
           v == LastUser(m)
           at == LastUpload(m)
           missing == Missing(m, at, stopped)
           n == Cardinality(missing)
           Row(k) == Content(m[at].files[k].ref, "loaded", Deliverable(m[at].files[k]))
<1>1. /\ Len(m) \in Nat /\ at \in 0..Len(m) /\ v \in 0..Len(m) /\ at <= v
      /\ at > 0 => m[at].kind = "user"
  <2>1. /\ at \in 0..Len(m)
        /\ at > 0 => m[at].kind = "user"
    BY LastUploadIs
  <2>2. v \in 0..Len(m) /\ \A i \in 1..Len(m) : i > v => m[i].kind # "user"
    BY LastUserIs
  <2>3. Len(m) \in Nat
    BY ListIs
  <2> HIDE DEF v, at
  <2> QED
    BY <2>1, <2>2, <2>3
<1>2. CASE at = 0
  <2>1. w = m
    BY <1>2 DEF WithUploads
  <2>2. v > 0 => v # at
    BY <1>2
  <2> HIDE DEF w, missing, Row
  <2> QED
    BY <2>1, <2>2 DEF w, missing, Row
<1>3. CASE at > 0
  <2>1. IsList(m[at].files)
    BY <1>1, <1>3
  <2>2. /\ at \in 1..Len(m)
        /\ n \in Nat /\ IsList(w) /\ Len(w) = Len(m) + n
        /\ \A i \in 1..at : w[i] = m[i]
        /\ \A i \in at + 1..at + n : \E k \in missing : w[i] = Row(k)
        /\ \A i \in at + n + 1..Len(m) + n : w[i] = m[i - n]
        /\ \A k \in missing : \E i \in at + 1..at + n : w[i] = Row(k)
    BY <1>3, <2>1, UploadRows
  <2>3. \A i \in at + 1..at + n : w[i].kind = "content"
    <3> SUFFICES ASSUME NEW i \in at + 1..at + n PROVE w[i].kind = "content"
      OBVIOUS
    <3>1. PICK k \in missing : w[i] = Row(k)
      BY <2>2
    <3> HIDE DEF w, missing, at, n
    <3> QED
      BY <3>1 DEF Content
  <2>4. \A row : (\E k \in missing : row = Row(k)) <=> Added(row, m, stopped)
    BY <1>3 DEF Added
  <2> HIDE DEF Row, missing, n, w, at
  <2>5. Seen(w) = Seen(m) /\ LastUser(w) = IF v <= at THEN v ELSE v + n
    BY <2>2, <2>3, Inserted
  <2> HIDE DEF v
  <2>6. /\ LastUser(w) \in Nat /\ (LastUser(w) = v \/ LastUser(w) = v + n)
        /\ LastUser(w) = v => v = at \/ n = 0
    BY <1>1, <2>2, <2>5
  <2>7. \A i \in 1..Len(w) :
          \/ i <= at /\ i \in 1..Len(m) /\ w[i] = m[i]
          \/ i \in at + 1..at + n /\ Added(w[i], m, stopped)
          \/ i > at + n /\ i - n \in 1..Len(m) /\ w[i] = m[i - n]
    <3> SUFFICES ASSUME NEW i \in 1..Len(w)
                 PROVE  \/ i <= at /\ i \in 1..Len(m) /\ w[i] = m[i]
                        \/ i \in at + 1..at + n /\ Added(w[i], m, stopped)
                        \/ i > at + n /\ i - n \in 1..Len(m) /\ w[i] = m[i - n]
      OBVIOUS
    <3>1. CASE i <= at
      BY <1>1, <2>2, <3>1
    <3>2. CASE i \in at + 1..at + n
      <4>1. \E k \in missing : w[i] = Row(k)
        BY <2>2, <3>2
      <4>2. Added(w[i], m, stopped)
        BY <2>4, <4>1, Zenon
      <4> QED
        BY <3>2, <4>2
    <3>3. CASE i > at + n
      <4>1. i \in at + n + 1..Len(m) + n /\ i - n \in 1..Len(m)
        BY <1>1, <2>2, <3>3
      <4>2. w[i] = m[i - n]
        BY <2>2, <4>1
      <4> QED
        BY <3>3, <4>1, <4>2
    <3>4. i <= at \/ i \in at + 1..at + n \/ i > at + n
      BY <1>1, <2>2
    <3> QED
      BY <3>1, <3>2, <3>3, <3>4
  <2>8. v > 0 => LastUser(w) > 0 /\ w[LastUser(w)] = m[v]
    <3> SUFFICES ASSUME v > 0 PROVE LastUser(w) > 0 /\ w[LastUser(w)] = m[v]
      OBVIOUS
    <3>1. CASE v <= at
      BY <1>1, <2>2, <2>5, <3>1
    <3>2. CASE ~(v <= at)
      <4> DEFINE j == v + n
      <4>1. j \in at + n + 1..Len(m) + n /\ j - n = v /\ j > 0 /\ LastUser(w) = j
        BY <1>1, <2>2, <2>5, <3>2
      <4> HIDE DEF j
      <4>2. w[j] = m[j - n]
        BY <2>2, <4>1
      <4> QED
        BY <4>1, <4>2
    <3> QED
      BY <3>1, <3>2
  <2>9. \A i \in 1..Len(w) : i > LastUser(w) =>
          (\E j \in 1..Len(m) : j > v /\ w[i] = m[j]) \/ Added(w[i], m, stopped)
    <3> SUFFICES ASSUME NEW i \in 1..Len(w), i > LastUser(w), ~Added(w[i], m, stopped)
                 PROVE  \E j \in 1..Len(m) : j > v /\ w[i] = m[j]
      OBVIOUS
    <3>1. CASE i <= at /\ i \in 1..Len(m) /\ w[i] = m[i]
      BY <1>1, <2>2, <2>6, <3>1
    <3>2. CASE i > at + n /\ i - n \in 1..Len(m) /\ w[i] = m[i - n]
      <4>1. i - n > v
        BY <1>1, <2>2, <2>5, <3>2
      <4> QED
        BY <3>2, <4>1
    <3> QED
      BY <2>7, <3>1, <3>2
  <2>10. \A j \in 1..Len(m) : j > v => \E i \in 1..Len(w) : i > LastUser(w) /\ w[i] = m[j]
    <3> SUFFICES ASSUME NEW j \in 1..Len(m), j > v
                 PROVE  \E i \in 1..Len(w) : i > LastUser(w) /\ w[i] = m[j]
      OBVIOUS
    <3>1. j + n \in at + n + 1..Len(m) + n /\ j + n - n = j /\ j + n \in 1..Len(w) /\ j + n > LastUser(w)
      BY <1>1, <2>2, <2>6
    <3>2. w[j + n] = m[j]
      BY <2>2, <3>1
    <3> QED
      BY <3>1, <3>2
  <2>11. v = at => \A k \in missing : \E i \in 1..Len(w) : i > LastUser(w) /\ w[i] = Row(k)
    <3> SUFFICES ASSUME v = at, NEW k \in missing
                 PROVE  \E i \in 1..Len(w) : i > LastUser(w) /\ w[i] = Row(k)
      OBVIOUS
    <3>1. PICK i \in at + 1..at + n : w[i] = Row(k)
      BY <2>2
    <3>2. i \in 1..Len(w) /\ i > LastUser(w)
      BY <1>1, <2>2, <2>5
    <3> QED
      BY <3>1, <3>2
  <2>12. \A i \in 1..Len(w) : (\E j \in 1..Len(m) : w[i] = m[j]) \/ Added(w[i], m, stopped)
    BY <2>7
  <2>13. at = v => Missing(m, v, stopped) = missing /\ \A k : Row(k) = Content(m[v].files[k].ref, "loaded", Deliverable(m[v].files[k]))
    BY DEF missing, Row
  <2>14. v > 0 /\ at = v =>
           \A k \in Missing(m, v, stopped) : \E i \in 1..Len(w) :
             i > LastUser(w) /\ w[i] = Content(m[v].files[k].ref, "loaded", Deliverable(m[v].files[k]))
    BY <2>11, <2>13
  <2> QED
    BY <2>2, <2>5, <2>8, <2>9, <2>10, <2>12, <2>14 DEF w, v, at
<1> QED
  BY <1>1, <1>2, <1>3

(* The rows after the last message of the user. *)
LEMMA TurnIs ==
  ASSUME IsList(messages)
  PROVE  /\ IsList(Turn)
         /\ \A i \in 1..Len(Turn) :
              Turn[i].kind # "user"
              /\ \E j \in 1..Len(messages) : j > LastUser(messages) /\ Turn[i] = messages[j]
<1> DEFINE u == LastUser(messages)
<1>1. /\ Len(messages) \in Nat /\ u \in 0..Len(messages)
      /\ \A i \in 1..Len(messages) : i > u => messages[i].kind # "user"
  BY LastUserIs, ListIs
<1>2. Turn = SubSeq(messages, u + 1, Len(messages))
  BY DEF Turn
<1> HIDE DEF u
<1>3. /\ IsList(Turn) /\ Len(Turn) = Len(messages) - (u + 1) + 1
      /\ \A i \in 1..(Len(messages) - (u + 1) + 1) : Turn[i] = messages[u + 1 + i - 1]
  <2>1. u + 1 \in Nat /\ 1 <= u + 1 /\ u + 1 <= Len(messages) + 1 /\ Len(messages) <= Len(messages)
    BY <1>1
  <2> QED
    BY <1>1, <1>2, <2>1, Part
<1>4. \A i \in 1..Len(Turn) : u + i \in 1..Len(messages) /\ u + i > u /\ Turn[i] = messages[u + i]
  BY <1>1, <1>3
<1> QED
  BY <1>1, <1>3, <1>4 DEF u

LEMMA StoredIs ==
  ASSUME IsList(conv), IsList(messages), LastUser(messages) > 0,
         ended = "handed" => LastUser(conv) > 0,
         NEW turn, IsList(turn), \A i \in 1..Len(turn) : turn[i].kind # "user"
  PROVE  LET t == Stored(turn)
             u == LastUser(t)
         IN /\ IsList(t) /\ u > 0
            /\ \A i \in 1..Len(t) : i > u => \E j \in 1..Len(turn) : t[i] = turn[j]
            /\ \A i \in 1..Len(t) : \/ \E j \in 1..Len(conv) : t[i] = conv[j]
                                    \/ \E j \in 1..Len(messages) : t[i] = messages[j]
                                    \/ \E j \in 1..Len(turn) : t[i] = turn[j]
<1> DEFINE user == LastUser(messages)
           last == IF ended = "handed" THEN LastUser(conv) - 1 ELSE Len(conv)
           head == SubSeq(conv, 1, last)
           mid == <<messages[user]>>
           t == Stored(turn)
           u == last + 1
<1>1. /\ user \in 1..Len(messages) /\ messages[user].kind = "user" /\ Len(messages) \in Nat
      /\ last \in Nat /\ last <= Len(conv) /\ Len(conv) \in Nat /\ Len(turn) \in Nat
  <2>1. /\ user \in 0..Len(messages)
        /\ user > 0 => messages[user].kind = "user"
    BY LastUserIs
  <2>2. LastUser(conv) \in 0..Len(conv)
    BY LastUserIs
  <2>3. Len(messages) \in Nat /\ Len(conv) \in Nat /\ Len(turn) \in Nat
    BY ListIs
  <2> QED
    BY <2>1, <2>2, <2>3
<1>2. t = head \o mid \o turn
  BY DEF Stored
<1> HIDE DEF user, last, t
<1>3. IsList(head) /\ Len(head) = last /\ \A i \in 1..last : head[i] = conv[i]
  <2>0. 1 \in Nat /\ 1 <= 1 /\ 1 <= last + 1
    BY <1>1
  <2>1. /\ IsList(head) /\ Len(head) = last - 1 + 1
        /\ \A i \in 1..(last - 1 + 1) : head[i] = conv[1 + i - 1]
    BY <1>1, <2>0, Part
  <2> HIDE DEF head
  <2> QED
    BY <1>1, <2>1
<1>4. IsList(mid) /\ Len(mid) = 1 /\ mid[1] = messages[user]
  BY Single
<1> DEFINE start == head \o mid
<1> HIDE DEF head, mid
<1>5. IsList(start) /\ Len(start) = u /\ start[u] = messages[user] /\ \A i \in 1..last : start[i] = conv[i]
  <2>1. /\ IsList(start) /\ Len(start) = Len(head) + Len(mid)
        /\ \A i \in 1..Len(head) : start[i] = head[i]
        /\ \A i \in 1..Len(mid) : start[Len(head) + i] = mid[i]
    <3>1. IsList(head) /\ IsList(mid)
      BY <1>3, <1>4
    <3> QED
      BY <3>1, Joined
  <2> HIDE DEF start
  <2> QED
    BY <1>1, <1>3, <1>4, <2>1
<1>6. t = start \o turn
  BY <1>2
<1> HIDE DEF start
<1>7. /\ IsList(t) /\ Len(t) = u + Len(turn)
      /\ \A i \in 1..u : t[i] = start[i]
      /\ \A j \in 1..Len(turn) : t[u + j] = turn[j]
  <2>1. /\ IsList(t) /\ Len(t) = Len(start) + Len(turn)
        /\ \A i \in 1..Len(start) : t[i] = start[i]
        /\ \A i \in 1..Len(turn) : t[Len(start) + i] = turn[i]
    <3>1. IsList(start)
      BY <1>5
    <3> QED
      BY <1>6, <3>1, Joined
  <2> QED
    BY <1>5, <2>1
<1>8. \A i \in 1..Len(t) : \/ i \in 1..last /\ t[i] = conv[i]
                           \/ i = u /\ t[i] = messages[user]
                           \/ i > u /\ \E j \in 1..Len(turn) : t[i] = turn[j]
  <2> SUFFICES ASSUME NEW i \in 1..Len(t)
               PROVE  \/ i \in 1..last /\ t[i] = conv[i]
                      \/ i = u /\ t[i] = messages[user]
                      \/ i > u /\ \E j \in 1..Len(turn) : t[i] = turn[j]
    OBVIOUS
  <2>1. CASE i \in 1..last
    BY <1>1, <1>5, <1>7, <2>1
  <2>2. CASE i = u
    BY <1>1, <1>5, <1>7, <2>2
  <2>3. CASE i > u
    <3> DEFINE j == i - u
    <3>1. j \in 1..Len(turn) /\ u + j = i
      BY <1>1, <1>7, <2>3
    <3> HIDE DEF j
    <3>2. t[u + j] = turn[j]
      BY <1>7, <3>1
    <3> QED
      BY <2>3, <3>1, <3>2
  <2>4. i \in 1..last \/ i = u \/ i > u
    BY <1>1, <1>7
  <2> QED
    BY <2>1, <2>2, <2>3, <2>4
<1>9. LastUser(t) = u
  <2>1. u \in 0..Len(t) /\ t[u].kind = "user"
    BY <1>1, <1>5, <1>7
  <2>2. \A i \in 1..Len(t) : i > u => t[i].kind # "user"
    BY <1>1, <1>8
  <2> HIDE DEF u
  <2> QED
    BY <1>7, <2>1, <2>2, LastUserAt
<1>10. /\ IsList(t) /\ u > 0
       /\ \A i \in 1..Len(t) : i > u => \E j \in 1..Len(turn) : t[i] = turn[j]
       /\ \A i \in 1..Len(t) : \/ \E j \in 1..Len(conv) : t[i] = conv[j]
                               \/ \E j \in 1..Len(messages) : t[i] = messages[j]
                               \/ \E j \in 1..Len(turn) : t[i] = turn[j]
  <2>1. IsList(t) /\ u > 0
    BY <1>1, <1>7
  <2>2. \A i \in 1..Len(t) : i > u => \E j \in 1..Len(turn) : t[i] = turn[j]
    <3>1. \A i \in 1..Len(t) : i > u => ~(i \in 1..last) /\ i # u
      BY <1>1
    <3> QED
      BY <1>8, <3>1
  <2>3. \A i \in 1..Len(t) : \/ \E j \in 1..Len(conv) : t[i] = conv[j]
                             \/ \E j \in 1..Len(messages) : t[i] = messages[j]
                             \/ \E j \in 1..Len(turn) : t[i] = turn[j]
    <3>1. \A i \in 1..last : i \in 1..Len(conv)
      BY <1>1
    <3> QED
      BY <1>1, <1>8, <3>1
  <2> QED
    BY <2>1, <2>2, <2>3
<1> HIDE DEF u
<1> QED
  BY <1>9, <1>10 DEF t

-----------------------------------------------------------------------------
(* What the model is told of the configured files. *)

IsMap(f) == f = [x \in DOMAIN f |-> f[x]]

LEMMA SeenIsMap ==
  ASSUME NEW s
  PROVE  IsMap(Seen(s))
<1>1. IsMap(<<>>)
  BY DEF IsMap
<1>2. \A entries : IsMap(Parsed(entries))
  BY DEF IsMap, Parsed
<1> QED
  BY <1>1, <1>2, SeenIs

LEMMA CurrentIsMap ==
  ASSUME NEW list, NEW held
  PROVE  /\ IsMap(Current(list, held))
         /\ DOMAIN Current(list, held) = {c.url : c \in ToSet(list)} \cup Expanded(list, held)
BY DEF Current, IsMap

LEMMA EntriesHas ==
  ASSUME NEW seen, NEW current
  PROVE  \A u \in DOMAIN current : \E e \in Entries(seen, current) :
           e.url = u /\ (e.status = "same" => u \in DOMAIN seen /\ seen[u] = current[u])
<1> DEFINE Status(x) == IF x \notin DOMAIN seen THEN "new"
                        ELSE IF seen[x] # current[x] THEN "updated" ELSE "same"
           Entry(x) == [url |-> x, about |-> current[x], status |-> Status(x)]
<1>1. Entries(seen, current) = {Entry(x) : x \in DOMAIN current}
  BY DEF Entries
<1>2. \A u : Entry(u).url = u /\ Entry(u).status = Status(u)
  OBVIOUS
<1>3. \A u : Status(u) = "same" => u \in DOMAIN seen /\ seen[u] = current[u]
  OBVIOUS
<1> HIDE DEF Entry, Status
<1>4. \A u \in DOMAIN current : Entry(u) \in Entries(seen, current)
  BY <1>1
<1> QED
  BY <1>2, <1>3, <1>4

(* An answer of available-context names each url once and says what is there now. *)
LEMMA ToldIs ==
  ASSUME NEW seen, NEW current, IsMap(current)
  PROVE  LET entries == Told(seen, current).entries
         IN /\ Told(seen, current).kind = "told"
            /\ \A d, e \in entries : d.url = e.url => d = e
            /\ Parsed(entries) = current
<1> DEFINE entries == Told(seen, current).entries
           kept == {e \in entries : e.status # "removed"}
<1>1. Told(seen, current).kind = "told" /\ entries = Entries(seen, current) \cup Removed(seen, current)
  BY DEF Told
<1>2. \A e \in Entries(seen, current) :
        e.url \in DOMAIN current /\ e.about = current[e.url] /\ e.status # "removed"
  BY DEF Entries
<1>3. \A e \in Removed(seen, current) : e.url \notin DOMAIN current /\ e.status = "removed"
  BY DEF Removed
<1>4. \A d, e \in entries : d.url = e.url => d = e
  <2>1. \A d, e \in Entries(seen, current) : d.url = e.url => d = e
    BY DEF Entries
  <2>2. \A d, e \in Removed(seen, current) : d.url = e.url => d = e
    BY DEF Removed
  <2> HIDE DEF entries
  <2> QED
    BY <1>1, <1>2, <1>3, <2>1, <2>2
<1> HIDE DEF entries
<1>5. kept = Entries(seen, current)
  BY <1>1, <1>2, <1>3
<1>6. \A u \in DOMAIN current : \E e \in kept : e.url = u
  <2>1. \A u \in DOMAIN current : \E e \in Entries(seen, current) :
          e.url = u /\ (e.status = "same" => u \in DOMAIN seen /\ seen[u] = current[u])
    BY EntriesHas
  <2> QED
    BY <1>5, <2>1
<1> HIDE DEF kept
<1>7. {e.url : e \in kept} = DOMAIN current
  BY <1>2, <1>5, <1>6
<1>8. \A u \in DOMAIN current : (CHOOSE e \in kept : e.url = u).about = current[u]
  BY <1>2, <1>5, <1>6
<1>9. Parsed(entries) = [u \in {e.url : e \in kept} |-> (CHOOSE e \in kept : e.url = u).about]
  BY DEF Parsed, kept
<1>10. Parsed(entries) = current
  BY <1>7, <1>8, <1>9 DEF IsMap
<1> QED
  BY <1>1, <1>4, <1>10 DEF entries

LEMMA NoChange ==
  ASSUME NEW seen, IsMap(seen), NEW current, IsMap(current),
         \A e \in Told(seen, current).entries : e.status = "same"
  PROVE  seen = current
<1>1. \A e \in Entries(seen, current) \cup Removed(seen, current) : e.status = "same"
  BY DEF Told
<1>2. \A u \in DOMAIN current : u \in DOMAIN seen /\ seen[u] = current[u]
  <2> SUFFICES ASSUME NEW u \in DOMAIN current, ~(u \in DOMAIN seen /\ seen[u] = current[u])
               PROVE  FALSE
    OBVIOUS
  <2>1. \E e \in Entries(seen, current) : e.status # "same"
    BY EntriesHas
  <2> QED
    BY <1>1, <2>1
<1>3. \A u \in DOMAIN seen : u \in DOMAIN current
  <2> SUFFICES ASSUME NEW u \in DOMAIN seen, u \notin DOMAIN current PROVE FALSE
    OBVIOUS
  <2>1. \E e \in Removed(seen, current) : e.status # "same"
    <3> DEFINE Entry(x) == [url |-> x, about |-> seen[x], status |-> "removed"]
    <3>1. Removed(seen, current) = {Entry(x) : x \in DOMAIN seen \ DOMAIN current}
      BY DEF Removed
    <3>2. Entry(u).status # "same"
      OBVIOUS
    <3> HIDE DEF Entry
    <3> QED
      BY <3>1, <3>2
  <2> QED
    BY <1>1, <2>1
<1> QED
  BY <1>2, <1>3 DEF IsMap

LEMMA NothingConfigured ==
  ASSUME NEW held
  PROVE  Current(<<>>, held) = <<>> /\ DOMAIN Current(<<>>, held) = {}
<1>1. ToSet(<<>>) = {}
  BY DEF ToSet
<1>2. Expanded(<<>>, held) = {}
  BY <1>1 DEF Expanded
<1>3. DOMAIN Current(<<>>, held) = {}
  BY <1>1, <1>2, CurrentIsMap
<1>4. IsMap(Current(<<>>, held))
  BY CurrentIsMap
<1> QED
  BY <1>3, <1>4 DEF IsMap

(* Only the configured folders count. *)
LEMMA CurrentOfFolders ==
  ASSUME NEW list, NEW held, NEW other,
         \A c \in ToSet(list) : c.url \in Folders => held[c.url] = other[c.url]
  PROVE  Current(list, held) = Current(list, other)
<1> DEFINE D(h) == {c.url : c \in ToSet(list)} \cup Expanded(list, h)
           First(h, u) == list[Min(Bringing(list, h, u))]
           Val(h, u) == IF First(h, u).url = u THEN First(h, u).about ELSE Plain
<1>1. \A u : Bringing(list, held, u) = Bringing(list, other, u)
  <2>1. \A i \in DOMAIN list : list[i] \in ToSet(list)
    BY DEF ToSet
  <2> QED
    BY <2>1 DEF Bringing
<1>2. Expanded(list, held) = Expanded(list, other)
  <2>1. \A f \in {c.url : c \in ToSet(list)} \cap Folders : held[f] = other[f]
    OBVIOUS
  <2> QED
    BY <2>1 DEF Expanded
<1>3. \A u : Val(held, u) = Val(other, u)
  BY <1>1
<1>4. D(held) = D(other)
  BY <1>2
<1>5. Current(list, held) = [u \in D(held) |-> Val(held, u)]
  BY DEF Current
<1>6. Current(list, other) = [u \in D(other) |-> Val(other, u)]
  BY DEF Current
<1> HIDE DEF D, Val
<1> QED
  BY <1>3, <1>4, <1>5, <1>6

-----------------------------------------------------------------------------
(* The invariant. *)

(* A row: a file comes with a result that says it was loaded, and with no other; one of
   DIAL storage is of an accepted type.  Rows of get_content are the strategy's. *)
RowFits(row) ==
  /\ row.kind \in {"user", "told", "content"}
  /\ row.kind = "user" => row.files \in Uploads
  /\ row.kind = "told" => \A d, e \in row.entries : d.url = e.url => d = e
  /\ row.kind = "content" =>
       /\ lazy /\ row.ref \in Refs /\ row.status \in {"loaded", "failed", "removed"}
       /\ row.file # NoFile <=> row.status = "loaded"
       /\ row.status = "loaded" /\ Kind[row.ref] = "dial" => row.file.stored /\ Accepts(row.file.type)

ListFits(s) == IsList(s) /\ \A i \in 1..Len(s) : RowFits(s[i])

(* A turn that goes on: a message of the user, and no file of it was taken out since. *)
TurnOpen(s) ==
  /\ LastUser(s) > 0
  /\ \A i \in 1..Len(s) : i > LastUser(s) /\ s[i].kind = "content" => s[i].status # "removed"

TurnLight(s) ==
  \A i \in 1..Len(s) : i > LastUser(s) /\ s[i].kind = "content" =>
    s[i].status # "loaded" /\ s[i].file = NoFile

(* Each file in DIAL of the last message of the user has a result after it. *)
Reaches(s) ==
  \A f \in ToSet(s[LastUser(s)].files) :
    Kind[f.ref] = "dial" /\ Accepts(MimeOf(f)) =>
      \E i \in 1..Len(s) : i > LastUser(s) /\ s[i].kind = "content" /\ s[i].ref = f.ref

Types ==
  /\ ContextTypeOK
  /\ phase \in {"client", "setup", "loop", "over"} /\ ended \in {"answered", "handed", "failed"}
  /\ turns \in 0..MaxTurns /\ calls \in 0..MaxCalls
  /\ lazy \in BOOLEAN /\ home \in BOOLEAN /\ offered \in BOOLEAN
  /\ retried \in BOOLEAN /\ fetching \in BOOLEAN

(* What holds of the messages in the loop: the last answer of available-context says what
   is there, by the listing of the request, which is that of DIAL where it did not break;
   get_content is offered for what was found; and the attachments have their results. *)
LoopOK ==
  /\ Seen(messages) = Current(contexts, listing)
  /\ \A c \in ToSet(contexts) : c.url \in Folders \ broken => listing[c.url] = dial[c.url]
  /\ lazy /\ (\E u \in DOMAIN Current(contexts, listing) \cap Files : Accepts(Guess[u])) => offered
  /\ lazy => Reaches(messages)

IInv ==
  /\ Types
  /\ ListFits(conv) /\ ListFits(messages)
  /\ phase \in {"setup", "loop"} => TurnOpen(messages)
  /\ ended = "handed" => TurnOpen(conv)
  /\ ended = "answered" => TurnLight(conv)
  /\ phase # "loop" => \A f \in Folders : listing[f] = Unlisted
  /\ offered => lazy
  /\ phase = "loop" => LoopOK

LEMMA UploadIsList ==
  ASSUME NEW s, ListFits(s), NEW i \in 1..Len(s), s[i].kind = "user"
  PROVE  IsList(s[i].files) /\ \A f \in ToSet(s[i].files) : f.ref \in Refs
<1>1. s[i].files \in Uploads
  BY DEF ListFits, RowFits
<1> DEFINE files == s[i].files
<1>2. files \in Uploads
  BY <1>1
<1> HIDE DEF files
<1>3. IsList(files) /\ \A f \in ToSet(files) : f.ref \in Refs
  BY <1>2, RefsAssumption DEF IsList
<1> QED
  BY <1>3 DEF files

LEMMA FitsAppended ==
  ASSUME NEW s, ListFits(s), NEW e, RowFits(e)
  PROVE  ListFits(Append(s, e))
<1> DEFINE t == Append(s, e)
<1>1. /\ IsList(t) /\ Len(t) = Len(s) + 1 /\ Len(s) \in Nat
      /\ \A i \in 1..Len(s) : t[i] = s[i]
      /\ t[Len(s) + 1] = e
  BY Appended, ListIs DEF ListFits
<1> HIDE DEF t
<1>2. \A i \in 1..Len(t) : i \in 1..Len(s) \/ i = Len(s) + 1
  BY <1>1
<1>3. \A i \in 1..Len(s) : RowFits(s[i])
  BY DEF ListFits
<1>4. \A i \in 1..Len(t) : RowFits(t[i])
  BY <1>1, <1>2, <1>3
<1> QED
  BY <1>1, <1>4 DEF ListFits, t

(* The rows a turn adds leave it open and its attachments delivered. *)
LEMMA TurnAppended ==
  ASSUME NEW s, IsList(s), TurnOpen(s), NEW e, e.kind # "user",
         e.kind = "content" => e.status # "removed"
  PROVE  TurnOpen(Append(s, e)) /\ (Reaches(s) => Reaches(Append(s, e)))
<1> DEFINE t == Append(s, e)
           u == LastUser(s)
<1>1. /\ IsList(t) /\ Len(t) = Len(s) + 1 /\ Len(s) \in Nat
      /\ \A i \in 1..Len(s) : t[i] = s[i]
      /\ t[Len(s) + 1] = e
  BY Appended, ListIs
<1>2. LastUser(t) = u /\ u \in 0..Len(s) /\ u > 0
  BY LastUserAppended, LastUserIs DEF TurnOpen
<1>3. \A i \in 1..Len(s) : i > u /\ s[i].kind = "content" => s[i].status # "removed"
  BY DEF TurnOpen
<1> HIDE DEF t, u
<1>4. \A i \in 1..Len(t) : i \in 1..Len(s) \/ i = Len(s) + 1
  BY <1>1
<1>5. \A i \in 1..Len(t) : i > u /\ t[i].kind = "content" => t[i].status # "removed"
  BY <1>1, <1>3, <1>4
<1>6. TurnOpen(t)
  BY <1>2, <1>5 DEF TurnOpen
<1>7. ASSUME Reaches(s) PROVE Reaches(t)
  <2>1. t[u] = s[u]
    BY <1>1, <1>2
  <2>2. \A f \in ToSet(s[u].files) : Kind[f.ref] = "dial" /\ Accepts(MimeOf(f)) =>
          \E i \in 1..Len(s) : i > u /\ s[i].kind = "content" /\ s[i].ref = f.ref
    BY <1>7 DEF Reaches, u
  <2>3. \A i \in 1..Len(s) : i \in 1..Len(t) /\ t[i] = s[i]
    BY <1>1
  <2>4. \A f \in ToSet(t[u].files) : Kind[f.ref] = "dial" /\ Accepts(MimeOf(f)) =>
          \E i \in 1..Len(t) : i > u /\ t[i].kind = "content" /\ t[i].ref = f.ref
    <3> SUFFICES ASSUME NEW f \in ToSet(t[u].files), Kind[f.ref] = "dial", Accepts(MimeOf(f))
                 PROVE  \E i \in 1..Len(t) : i > u /\ t[i].kind = "content" /\ t[i].ref = f.ref
      OBVIOUS
    <3>1. PICK i \in 1..Len(s) : i > u /\ s[i].kind = "content" /\ s[i].ref = f.ref
      BY <2>1, <2>2
    <3> QED
      BY <2>3, <3>1
  <2> QED
    BY <1>2, <2>4 DEF Reaches
<1> QED
  BY <1>6, <1>7 DEF t

LEMMA TurnStarted ==
  ASSUME NEW s, IsList(s), NEW files
  PROVE  TurnOpen(Append(s, User(files)))
<1> DEFINE t == Append(s, User(files))
<1>1. LastUser(t) = Len(s) + 1
  BY LastUserAppended DEF User
<1>2. IsList(t) /\ Len(t) = Len(s) + 1 /\ Len(s) \in Nat
  BY Appended, ListIs
<1> HIDE DEF t
<1>3. TurnOpen(t)
  BY <1>1, <1>2 DEF TurnOpen
<1> QED
  BY <1>3 DEF t

(* What is stored of the messages of a turn. *)
LEMMA StoredFits ==
  ASSUME ListFits(conv), ListFits(messages), TurnOpen(messages),
         ended = "handed" => TurnOpen(conv),
         NEW turn, IsList(turn), \A i \in 1..Len(turn) : turn[i].kind # "user" /\ RowFits(turn[i])
  PROVE  /\ ListFits(Stored(turn))
         /\ (\A i \in 1..Len(turn) : turn[i].kind = "content" => turn[i].status # "removed")
              => TurnOpen(Stored(turn))
         /\ (\A i \in 1..Len(turn) :
               turn[i].kind = "content" => turn[i].status # "loaded" /\ turn[i].file = NoFile)
              => TurnLight(Stored(turn))
<1> DEFINE t == Stored(turn)
           u == LastUser(t)
<1>1. /\ IsList(t) /\ u > 0
      /\ \A i \in 1..Len(t) : i > u => \E j \in 1..Len(turn) : t[i] = turn[j]
      /\ \A i \in 1..Len(t) : \/ \E j \in 1..Len(conv) : t[i] = conv[j]
                              \/ \E j \in 1..Len(messages) : t[i] = messages[j]
                              \/ \E j \in 1..Len(turn) : t[i] = turn[j]
  BY StoredIs DEF ListFits, TurnOpen
<1>2. /\ \A i \in 1..Len(conv) : RowFits(conv[i])
      /\ \A i \in 1..Len(messages) : RowFits(messages[i])
  BY DEF ListFits
<1> HIDE DEF t
<1>3. ListFits(t)
  BY <1>1, <1>2 DEF ListFits
<1>4. (\A i \in 1..Len(turn) : turn[i].kind = "content" => turn[i].status # "removed") => TurnOpen(t)
  BY <1>1 DEF TurnOpen
<1>5. (\A i \in 1..Len(turn) :
         turn[i].kind = "content" => turn[i].status # "loaded" /\ turn[i].file = NoFile)
        => TurnLight(t)
  BY <1>1 DEF TurnLight
<1> QED
  BY <1>3, <1>4, <1>5 DEF t

LEMMA TurnFits ==
  ASSUME ListFits(messages), TurnOpen(messages)
  PROVE  /\ IsList(Turn)
         /\ \A i \in 1..Len(Turn) : Turn[i].kind # "user" /\ RowFits(Turn[i])
         /\ \A i \in 1..Len(Turn) : Turn[i].kind = "content" => Turn[i].status # "removed"
<1>1. /\ IsList(Turn)
      /\ \A i \in 1..Len(Turn) :
           Turn[i].kind # "user"
           /\ \E j \in 1..Len(messages) : j > LastUser(messages) /\ Turn[i] = messages[j]
  BY TurnIs DEF ListFits
<1>2. /\ \A i \in 1..Len(messages) : RowFits(messages[i])
      /\ \A i \in 1..Len(messages) :
           i > LastUser(messages) /\ messages[i].kind = "content" => messages[i].status # "removed"
  BY DEF ListFits, TurnOpen
<1> QED
  BY <1>1, <1>2

(* The notification says what is there, or the model knows it already. *)
LEMMA Noticed ==
  ASSUME ListFits(messages), TurnOpen(messages), NEW held
  PROVE  /\ ListFits(Notice(messages, held)) /\ TurnOpen(Notice(messages, held))
         /\ Seen(Notice(messages, held)) = Current(contexts, held)
<1> DEFINE seen == Seen(messages)
           current == Current(contexts, held)
           row == Told(seen, current)
<1>1. /\ row.kind = "told" /\ \A d, e \in row.entries : d.url = e.url => d = e
      /\ Parsed(row.entries) = current /\ IsMap(seen) /\ IsMap(current)
  BY ToldIs, SeenIsMap, CurrentIsMap
<1>2. CASE ~Active(contexts, messages)
  <2>1. contexts = <<>> /\ \A i \in DOMAIN messages : messages[i].kind # "told"
    BY <1>2 DEF Active
  <2>2. LastTold(messages) = 0
    <3>1. DOMAIN messages = 1..Len(messages) /\ Len(messages) \in Nat
      BY ListIs DEF ListFits
    <3>2. 0 \in 0..Len(messages) /\ \A i \in 1..Len(messages) : i > 0 => messages[i].kind # "told"
      BY <2>1, <3>1
    <3>3. IsList(messages)
      BY DEF ListFits
    <3> QED
      BY <3>2, <3>3, LastToldAt
  <2>3. seen = current
    BY <2>1, <2>2, SeenIs, NothingConfigured
  <2>4. Notice(messages, held) = messages
    BY <1>2 DEF Notice
  <2> QED
    BY <2>3, <2>4
<1>3. CASE \A e \in row.entries : e.status = "same"
  <2>1. seen = current
    <3> HIDE DEF seen, current
    <3> QED
      BY <1>1, <1>3, NoChange
  <2>2. Notice(messages, held) = messages
    BY <1>3 DEF Notice
  <2> QED
    BY <2>1, <2>2
<1>4. CASE Active(contexts, messages) /\ ~\A e \in row.entries : e.status = "same"
  <2>1. Notice(messages, held) = Append(messages, row)
    BY <1>4 DEF Notice
  <2> HIDE DEF row
  <2>2. RowFits(row) /\ IsList(messages)
    BY <1>1 DEF RowFits, ListFits
  <2>3. ListFits(Append(messages, row))
    BY <2>2, FitsAppended
  <2>4. TurnOpen(Append(messages, row))
    BY <1>1, <2>2, TurnAppended
  <2>5. Seen(Append(messages, row)) = current
    BY <1>1, <2>2, SeenAppended
  <2> QED
    BY <2>1, <2>3, <2>4, <2>5
<1> QED
  BY <1>2, <1>3, <1>4

LEMMA AcceptedFile ==
  ASSUME NEW file, Accepts(file.type)
  PROVE  file # NoFile
BY RefsAssumption DEF Accepts, Matches, NoFile

LEMMA AddedFits ==
  ASSUME NEW m, ListFits(m), lazy, NEW stopped, NEW row, Added(row, m, stopped)
  PROVE  RowFits(row) /\ row.kind = "content" /\ row.status = "loaded"
<1> DEFINE at == LastUpload(m)
           files == m[at].files
<1>1. PICK k \in Missing(m, at, stopped) :
        row = Content(files[k].ref, "loaded", Deliverable(files[k]))
  BY DEF Added
<1>2. at \in 1..Len(m) /\ m[at].kind = "user"
  <2>1. /\ at \in 0..Len(m)
        /\ at > 0 => m[at].kind = "user"
    BY LastUploadIs DEF ListFits
  <2>2. at > 0 /\ Len(m) \in Nat
    BY ListIs DEF Added, ListFits
  <2> HIDE DEF at
  <2> QED
    BY <2>1, <2>2
<1>3. \A f \in ToSet(files) : f.ref \in Refs
  BY <1>2, UploadIsList
<1> DEFINE file == files[k]
<1>4. Delivers(file, stopped) /\ k \in DOMAIN files
  BY DEF Missing
<1>5. file.ref \in Refs
  <2>1. file \in ToSet(files)
    BY <1>4 DEF ToSet
  <2> QED
    BY <1>3, <2>1
<1> HIDE DEF file, files, at
<1>6. Accepts(Deliverable(file).type)
  BY <1>4 DEF Delivers
<1>7. Deliverable(file) # NoFile
  BY <1>6, AcceptedFile
<1>8. Kind[file.ref] = "dial" => Deliverable(file).stored
  BY DEF Deliverable
<1>9. row = Content(file.ref, "loaded", Deliverable(file))
  BY <1>1 DEF file
<1>10. row.kind = "content" /\ row.ref = file.ref /\ row.status = "loaded" /\ row.file = Deliverable(file)
  BY <1>9 DEF Content
<1> QED
  BY <1>5, <1>6, <1>7, <1>8, <1>10 DEF RowFits

LEMMA UploadsFit ==
  ASSUME NEW m, ListFits(m), TurnOpen(m), lazy, NEW stopped \in Stopped
  PROVE  LET w == WithUploads(m, stopped)
         IN ListFits(w) /\ TurnOpen(w) /\ Seen(w) = Seen(m) /\ Reaches(w)
<1> DEFINE w == WithUploads(m, stopped)
           v == LastUser(m)
           files == m[v].files
<1>1. /\ IsList(w) /\ Seen(w) = Seen(m)
      /\ v > 0 => LastUser(w) > 0 /\ w[LastUser(w)] = m[v]
      /\ \A i \in 1..Len(w) : (\E j \in 1..Len(m) : w[i] = m[j]) \/ Added(w[i], m, stopped)
      /\ \A i \in 1..Len(w) : i > LastUser(w) =>
           (\E j \in 1..Len(m) : j > v /\ w[i] = m[j]) \/ Added(w[i], m, stopped)
      /\ \A j \in 1..Len(m) : j > v =>
           \E i \in 1..Len(w) : i > LastUser(w) /\ w[i] = m[j]
      /\ v > 0 /\ LastUpload(m) = v =>
           \A k \in Missing(m, v, stopped) : \E i \in 1..Len(w) :
             i > LastUser(w) /\ w[i] = Content(files[k].ref, "loaded", Deliverable(files[k]))
  <2>1. IsList(m) /\ \A i \in 1..Len(m) : m[i].kind = "user" => IsList(m[i].files)
    BY UploadIsList DEF ListFits
  <2> QED
    BY <2>1, Uploaded
<1>2. /\ v \in 0..Len(m) /\ v > 0 /\ Len(m) \in Nat /\ DOMAIN m = 1..Len(m)
      /\ \A i \in 1..Len(m) : RowFits(m[i])
      /\ \A i \in 1..Len(m) : i > v /\ m[i].kind = "content" => m[i].status # "removed"
  BY LastUserIs, ListIs DEF TurnOpen, ListFits
<1>3. m[v].kind = "user"
  BY <1>2, LastUserIs DEF ListFits
<1> HIDE DEF w
<1>4. ListFits(w)
  BY <1>1, <1>2, AddedFits DEF ListFits
<1>5. TurnOpen(w)
  <2>1. \A i \in 1..Len(w) : i > LastUser(w) /\ w[i].kind = "content" => w[i].status # "removed"
    <3> SUFFICES ASSUME NEW i \in 1..Len(w), i > LastUser(w), w[i].kind = "content"
                 PROVE  w[i].status # "removed"
      OBVIOUS
    <3>1. CASE \E j \in 1..Len(m) : j > v /\ w[i] = m[j]
      BY <1>2, <3>1
    <3>2. CASE Added(w[i], m, stopped)
      BY <3>2, AddedFits
    <3> QED
      BY <1>1, <3>1, <3>2
  <2> QED
    BY <1>1, <1>2, <2>1 DEF TurnOpen
<1>6. Reaches(w)
  <2> SUFFICES ASSUME NEW f \in ToSet(files), Kind[f.ref] = "dial", Accepts(MimeOf(f))
               PROVE  \E i \in 1..Len(w) : i > LastUser(w) /\ w[i].kind = "content" /\ w[i].ref = f.ref
    BY <1>1, <1>2 DEF Reaches
  <2>1. CASE HasPair(m, v, f.ref)
    <3>1. PICK j \in 1..Len(m) : j > v /\ m[j].kind = "content" /\ m[j].ref = f.ref
      BY <1>2, <2>1 DEF HasPair
    <3> HIDE DEF v
    <3> QED
      BY <1>1, <3>1
  <2>2. CASE ~HasPair(m, v, f.ref)
    <3>1. IsList(files)
      BY <1>2, <1>3, UploadIsList
    <3>2. Len(files) \in Nat /\ DOMAIN files = 1..Len(files)
      BY <3>1, ListIs
    <3>3. LastUpload(m) = v
      <4>1. files # <<>>
        BY DEF ToSet
      <4>2. /\ LastUpload(m) \in 0..Len(m)
            /\ LastUpload(m) > 0 => m[LastUpload(m)].kind = "user"
            /\ \A i \in 1..Len(m) : i > LastUpload(m) => ~(m[i].kind = "user" /\ m[i].files # <<>>)
        BY LastUploadIs DEF ListFits
      <4>3. \A i \in 1..Len(m) : i > v => m[i].kind # "user"
        BY LastUserIs DEF ListFits
      <4> DEFINE at == LastUpload(m)
      <4> HIDE DEF at, v
      <4>4. ~(v > at)
        BY <1>2, <1>3, <4>1, <4>2 DEF at
      <4>5. ~(at > v)
        BY <1>2, <4>2, <4>3 DEF at
      <4>6. at = v
        BY <1>2, <4>2, <4>4, <4>5 DEF at
      <4> QED
        BY <4>6 DEF at
    <3>4. \A r \in stopped : Kind[r] = "external"
      BY DEF Stopped
    <3>5. Delivers(f, stopped)
      BY <3>4 DEF Delivers, Deliverable
    <3> DEFINE K == {j \in DOMAIN files : files[j].ref = f.ref /\ Delivers(files[j], stopped)}
    <3>6. K \subseteq Nat /\ K # {}
      BY <3>2, <3>5 DEF ToSet
    <3>7. PICK k \in K : \A j \in K : k <= j
      BY <3>6, LeastNat
    <3>8. k \in Missing(m, v, stopped) /\ files[k].ref = f.ref
      <4>1. k \in DOMAIN files /\ files[k].ref = f.ref /\ Delivers(files[k], stopped)
        BY <3>7
      <4>2. \A j \in 1..(k - 1) : files[j].ref = files[k].ref => ~Delivers(files[j], stopped)
        BY <3>2, <3>7, <4>1
      <4>3. ~HasPair(m, v, files[k].ref)
        BY <2>2, <4>1
      <4> QED
        BY <4>1, <4>2, <4>3 DEF Missing
    <3> HIDE DEF v, K
    <3>9. PICK i \in 1..Len(w) :
            i > LastUser(w) /\ w[i] = Content(files[k].ref, "loaded", Deliverable(files[k]))
      BY <1>1, <1>2, <3>3, <3>8
    <3> QED
      BY <3>8, <3>9 DEF Content
  <2> QED
    BY <2>1, <2>2
<1> QED
  BY <1>1, <1>4, <1>5, <1>6 DEF w

-----------------------------------------------------------------------------
(* Every step keeps the invariant. *)

LEMMA InitHolds == Init => IInv
<1> SUFFICES ASSUME Init PROVE IInv
  OBVIOUS
<1>1. ListFits(<<>>) /\ TurnLight(<<>>)
  BY Nothing DEF ListFits, TurnLight
<1>2. Types
  <2>1. ContextTypeOK
    BY DEF Init, ContextInit, ContextTypeOK
  <2>2. turns \in 0..MaxTurns /\ calls \in 0..MaxCalls
    BY RefsAssumption DEF Init
  <2>3. /\ phase \in {"client", "setup", "loop", "over"} /\ ended \in {"answered", "handed", "failed"}
        /\ lazy \in BOOLEAN /\ home \in BOOLEAN /\ offered \in BOOLEAN
        /\ retried \in BOOLEAN /\ fetching \in BOOLEAN
    BY Zenon DEF Init
  <2> QED
    BY <2>1, <2>2, <2>3 DEF Types
<1>3. conv = <<>> /\ messages = <<>> /\ phase = "client" /\ ended = "answered" /\ offered = FALSE
  BY DEF Init
<1>4. \A f \in Folders : listing[f] = Unlisted
  BY DEF Init, ContextInit
<1> QED
  BY <1>1, <1>2, <1>3, <1>4 DEF IInv

LEMMA NewRequestKeeps ==
  ASSUME IInv, NewRequest
  PROVE  IInv'
<1>0. /\ phase = "client" /\ turns < MaxTurns /\ contexts' \in ContextLists
      /\ dial' \in [Folders -> Holdings] /\ listing' = listing /\ expanded' = expanded
      /\ phase' = "setup" /\ turns' = turns + 1 /\ calls' = 0 /\ fetching' \in BOOLEAN
      /\ lazy' = lazy /\ conv' = conv /\ ended' = ended /\ home' = home /\ offered' = offered
      /\ retried' = retried /\ broken' = broken
  BY DEF NewRequest
<1>1. ListFits(messages') /\ TurnOpen(messages')
  <2>1. CASE ended = "handed"
    BY <2>1 DEF NewRequest, IInv
  <2>2. CASE ended # "handed"
    <3>1. PICK files \in Uploads : messages' = Append(conv, User(files))
      BY <2>2 DEF NewRequest
    <3>2. RowFits(User(files))
      BY DEF RowFits, User
    <3>3. ListFits(conv) /\ IsList(conv)
      BY DEF IInv, ListFits
    <3>4. ListFits(Append(conv, User(files))) /\ TurnOpen(Append(conv, User(files)))
      BY <3>2, <3>3, FitsAppended, TurnStarted
    <3> QED
      BY <3>1, <3>4
  <2> QED
    BY <2>1, <2>2
<1>2. Types'
  <2>1. \A f \in Folders : dial'[f] \subseteq Files
    BY <1>0, ContextsAssumption
  <2>2. ContextTypeOK'
    BY <1>0, <2>1 DEF IInv, Types, ContextTypeOK
  <2> QED
    BY <1>0, <2>2, RefsAssumption DEF IInv, Types
<1>3. ListFits(conv)' /\ ListFits(messages)'
  BY <1>0, <1>1 DEF IInv, ListFits, RowFits
<1>4. TurnOpen(messages)' /\ (ended = "handed" => TurnOpen(conv))' /\ (ended = "answered" => TurnLight(conv))'
  BY <1>0, <1>1 DEF IInv
<1>5. (\A f \in Folders : listing[f] = Unlisted)' /\ (offered => lazy)'
  BY <1>0 DEF IInv
<1> QED
  BY <1>0, <1>2, <1>3, <1>4, <1>5 DEF IInv

(* The folders are listed: those of the contexts, as DIAL has them unless it broke. *)
LEMMA ListedIs ==
  ASSUME ContextTypeOK, \A f \in Folders : listing[f] = Unlisted, NEW b
  PROVE  /\ \A c \in ToSet(contexts) : c.url \in Folders \ b => Listed(b)[c.url] = dial[c.url]
         /\ \A f \in Folders : Listed(b)[f] # Unlisted => Listed(b)[f] \subseteq Files
         /\ Expanded(contexts, Listed(b)) \subseteq Files
<1>1. \A f \in {c.url : c \in ToSet(contexts)} \cap Folders :
        Listed(b)[f] = IF f \in b THEN {} ELSE dial[f]
  BY DEF Listed, Shown
<1>2. \A f \in Folders : f \in {c.url : c \in ToSet(contexts)} \/ Listed(b)[f] = Unlisted
  BY DEF Listed
<1>3. \A f \in Folders : dial[f] \subseteq Files
  BY DEF ContextTypeOK
<1>4. \A c \in ToSet(contexts) : c.url \in Folders \ b => Listed(b)[c.url] = dial[c.url]
  BY <1>1
<1>5. \A f \in {c.url : c \in ToSet(contexts)} \cap Folders : Listed(b)[f] \subseteq Files
  BY <1>1, <1>3
<1>6. \A f \in Folders : Listed(b)[f] # Unlisted => Listed(b)[f] \subseteq Files
  BY <1>2, <1>5
<1>7. Expanded(contexts, Listed(b)) \subseteq Files
  BY <1>5 DEF Expanded
<1> QED
  BY <1>4, <1>6, <1>7

LEMMA SetUpKeeps ==
  ASSUME IInv, SetUp
  PROVE  IInv'
<1>0. /\ phase = "setup" /\ phase' = "loop"
      /\ contexts' = contexts /\ dial' = dial /\ lazy' = lazy /\ conv' = conv /\ ended' = ended
      /\ turns' = turns /\ calls' = calls /\ home' = home /\ retried' = retried /\ fetching' = fetching
  BY DEF SetUp
<1>1. PICK b \in SUBSET Folders, s \in Stopped :
        LET held == Listed(b)
            noticed == Notice(messages, held)
            found == IF Active(contexts, messages) THEN Expanded(contexts, held) ELSE expanded
        IN /\ broken' = b
           /\ listing' = IF Active(contexts, messages) THEN held ELSE listing
           /\ expanded' = found
           /\ messages' = IF lazy THEN WithUploads(noticed, s) ELSE noticed
           /\ offered' = Wired(messages', found)
  BY DEF SetUp
<1> DEFINE held == Listed(b)
           noticed == Notice(messages, held)
<1>2. /\ ListFits(messages) /\ TurnOpen(messages) /\ ContextTypeOK
      /\ \A f \in Folders : listing[f] = Unlisted
  BY <1>0 DEF IInv, Types
<1>3. /\ \A c \in ToSet(contexts) : c.url \in Folders \ b => held[c.url] = dial[c.url]
      /\ \A f \in Folders : held[f] # Unlisted => held[f] \subseteq Files
      /\ Expanded(contexts, held) \subseteq Files
  BY <1>2, ListedIs
<1>4. ListFits(noticed) /\ TurnOpen(noticed) /\ Seen(noticed) = Current(contexts, held)
  BY <1>2, Noticed
<1>5. /\ broken' = b
      /\ listing' = IF Active(contexts, messages) THEN held ELSE listing
      /\ expanded' = IF Active(contexts, messages) THEN Expanded(contexts, held) ELSE expanded
      /\ messages' = IF lazy THEN WithUploads(noticed, s) ELSE noticed
      /\ offered' = Wired(messages', IF Active(contexts, messages) THEN Expanded(contexts, held) ELSE expanded)
  BY <1>1
<1> HIDE DEF held, noticed
<1>6. ListFits(messages') /\ TurnOpen(messages') /\ Seen(messages') = Current(contexts, held) /\ (lazy => Reaches(messages'))
  <2>1. CASE lazy
    <3>1. LET w == WithUploads(noticed, s)
          IN ListFits(w) /\ TurnOpen(w) /\ Seen(w) = Seen(noticed) /\ Reaches(w)
      BY <1>4, <2>1, UploadsFit
    <3> QED
      BY <1>4, <1>5, <2>1, <3>1
  <2>2. CASE ~lazy
    BY <1>4, <1>5, <2>2
  <2> QED
    BY <2>1, <2>2
<1>7. Current(contexts, listing') = Current(contexts, held)
  <2>1. CASE Active(contexts, messages)
    BY <1>5, <2>1
  <2>2. CASE ~Active(contexts, messages)
    <3>1. contexts = <<>>
      BY <2>2 DEF Active
    <3> QED
      BY <3>1, NothingConfigured
  <2> QED
    BY <2>1, <2>2
<1>8. (\A c \in ToSet(contexts) : c.url \in Folders \ broken => listing[c.url] = dial[c.url])'
  <2>1. CASE Active(contexts, messages)
    BY <1>0, <1>3, <1>5, <2>1
  <2>2. CASE ~Active(contexts, messages)
    <3>1. contexts' = <<>>
      BY <1>0, <2>2 DEF Active
    <3> QED
      BY <3>1 DEF ToSet
  <2> QED
    BY <2>1, <2>2
<1>9. ASSUME lazy, NEW u \in DOMAIN Current(contexts, held) \cap Files, Accepts(Guess[u])
      PROVE  offered'
  <2>1. Active(contexts, messages)
    <3> SUFFICES ASSUME ~Active(contexts, messages) PROVE FALSE
      OBVIOUS
    <3>1. contexts = <<>>
      BY DEF Active
    <3> QED
      BY <1>9, <3>1, NothingConfigured
  <2>2. u \in {c.url : c \in ToSet(contexts)} \cup Expanded(contexts, held)
    BY <1>9, CurrentIsMap
  <2>3. Declared # {}
    BY <1>9 DEF Accepts, Matches
  <2>4. Enabled(messages', Expanded(contexts, held))
    BY <1>9, <2>2, <2>3 DEF Enabled
  <2> QED
    BY <1>5, <1>9, <2>1, <2>4 DEF Wired
<1>10. offered' \in BOOLEAN /\ (offered' => lazy)
  BY <1>5, Zenon DEF Wired, Enabled
<1>11. Types'
  <2>1. ContextTypeOK'
    BY <1>0, <1>2, <1>3, <1>5 DEF ContextTypeOK
  <2> QED
    BY <1>0, <1>10, <2>1 DEF IInv, Types
<1>12. ListFits(conv)' /\ ListFits(messages)'
  BY <1>0, <1>6 DEF IInv, ListFits, RowFits
<1>13. LoopOK'
  <2>1. (Seen(messages) = Current(contexts, listing))'
    BY <1>0, <1>6, <1>7
  <2>2. (lazy /\ (\E u \in DOMAIN Current(contexts, listing) \cap Files : Accepts(Guess[u])) => offered)'
    BY <1>0, <1>7, <1>9
  <2>3. (lazy => Reaches(messages))'
    BY <1>0, <1>6
  <2> QED
    BY <1>8, <2>1, <2>2, <2>3 DEF LoopOK
<1>14. TurnOpen(messages)' /\ (ended = "handed" => TurnOpen(conv))' /\ (ended = "answered" => TurnLight(conv))'
  BY <1>0, <1>6 DEF IInv
<1> QED
  BY <1>0, <1>10, <1>11, <1>12, <1>13, <1>14 DEF IInv

(* A call of the loop adds a row of its own. *)
LEMMA CallKeeps ==
  ASSUME IInv, NEW row, Called(row),
         contexts' = contexts, dial' = dial, listing' = listing, expanded' = expanded,
         lazy' = lazy, conv' = conv, phase' = phase, ended' = ended, turns' = turns,
         home' \in BOOLEAN, offered' = offered, fetching' = fetching, broken' = broken,
         RowFits(row), row.kind # "user", row.kind = "content" => row.status # "removed",
         row.kind = "told" => Parsed(row.entries) = Current(contexts, listing)
  PROVE  IInv'
<1>0. /\ phase = "loop" /\ calls < MaxCalls /\ messages' = Append(messages, row)
      /\ calls' = calls + 1 /\ retried' = FALSE
  BY DEF Called
<1>1. ListFits(messages) /\ IsList(messages) /\ TurnOpen(messages) /\ LoopOK
  BY <1>0 DEF IInv, ListFits
<1>2. ListFits(messages')
  BY <1>0, <1>1, FitsAppended
<1>3. TurnOpen(messages') /\ (Reaches(messages) => Reaches(messages'))
  BY <1>0, <1>1, TurnAppended
<1>4. Seen(messages') = Current(contexts, listing)
  BY <1>0, <1>1, SeenAppended DEF LoopOK
<1>5. ListFits(conv)' /\ ListFits(messages)'
  BY <1>2 DEF IInv, ListFits, RowFits
<1>6. Types'
  <2>1. ContextTypeOK'
    BY DEF IInv, Types, ContextTypeOK
  <2>2. calls' \in 0..MaxCalls
    BY <1>0, RefsAssumption DEF IInv, Types
  <2>3. retried' \in BOOLEAN
    BY <1>0, Zenon
  <2> QED
    BY <2>1, <2>2, <2>3 DEF IInv, Types
<1>7. LoopOK'
  BY <1>1, <1>3, <1>4 DEF LoopOK
<1>8. TurnOpen(messages)' /\ (ended = "handed" => TurnOpen(conv))' /\ (ended = "answered" => TurnLight(conv))'
  BY <1>3 DEF IInv
<1> QED
  BY <1>0, <1>5, <1>6, <1>7, <1>8 DEF IInv

LEMMA ListContextKeeps ==
  ASSUME IInv, ListContext
  PROVE  IInv'
<1> DEFINE row == Told(Seen(messages), Current(contexts, listing))
<1>1. /\ row.kind = "told" /\ \A d, e \in row.entries : d.url = e.url => d = e
      /\ Parsed(row.entries) = Current(contexts, listing)
  BY ToldIs, CurrentIsMap
<1>2. /\ Called(row)
      /\ contexts' = contexts /\ dial' = dial /\ listing' = listing /\ expanded' = expanded
      /\ lazy' = lazy /\ conv' = conv /\ phase' = phase /\ ended' = ended /\ turns' = turns
      /\ home' = home /\ offered' = offered /\ fetching' = fetching /\ broken' = broken
  BY DEF ListContext, contextVars
<1> HIDE DEF row
<1>3. RowFits(row)
  BY <1>1 DEF RowFits
<1>4. home' \in BOOLEAN
  BY <1>2 DEF IInv, Types
<1> QED
  BY <1>1, <1>2, <1>3, <1>4, CallKeeps

LEMMA ResultFits ==
  ASSUME NEW ref \in Refs, NEW file, file.stored, lazy
  PROVE  /\ RowFits(Result(ref, file)) /\ RowFits(Refused(ref))
         /\ Result(ref, file).kind = "content" /\ Result(ref, file).status # "removed"
         /\ Refused(ref).kind = "content" /\ Refused(ref).status # "removed"
<1>1. RowFits(Refused(ref)) /\ Refused(ref).kind = "content" /\ Refused(ref).status # "removed"
  BY DEF RowFits, Refused, Content
<1>2. CASE Accepts(file.type)
  <2> DEFINE row == Content(ref, "loaded", file)
  <2>1. row.kind = "content" /\ row.ref = ref /\ row.status = "loaded" /\ row.file = file
    BY DEF Content
  <2>2. file # NoFile
    BY <1>2, AcceptedFile
  <2>3. Result(ref, file) = row
    BY <1>2 DEF Result
  <2> HIDE DEF row
  <2>4. RowFits(row)
    BY <1>2, <2>1, <2>2 DEF RowFits
  <2> QED
    BY <1>1, <2>1, <2>3, <2>4
<1>3. CASE ~Accepts(file.type)
  BY <1>1, <1>3 DEF Result
<1> QED
  BY <1>2, <1>3

LEMMA AskContentKeeps ==
  ASSUME IInv, NEW ref \in Refs, AskContent(ref)
  PROVE  IInv'
<1>0. /\ offered
      /\ contexts' = contexts /\ dial' = dial /\ listing' = listing /\ expanded' = expanded
      /\ lazy' = lazy /\ conv' = conv /\ phase' = phase /\ ended' = ended /\ turns' = turns
      /\ offered' = offered /\ fetching' = fetching /\ broken' = broken
  BY DEF AskContent, contextVars
<1>1. lazy
  BY <1>0 DEF IInv
<1>2. \E row : /\ Called(row) /\ RowFits(row) /\ row.kind = "content" /\ row.status # "removed"
               /\ home' \in BOOLEAN
  <2>1. \A url : DialFile(url).stored
    BY DEF DialFile
  <2>2. home \in BOOLEAN
    BY DEF IInv, Types
  <2>3. CASE AskDial(ref)
    BY <1>1, <2>1, <2>2, <2>3, ResultFits DEF AskDial
  <2>4. CASE AskExternal(ref)
    <3> DEFINE file == [stored |-> TRUE, type |-> Served[ref]]
    <3>1. file.stored /\ home' \in BOOLEAN
      BY <2>2, <2>4 DEF AskExternal
    <3>2. Called(Result(ref, file)) \/ Called(Refused(ref))
      BY <2>4 DEF AskExternal
    <3> HIDE DEF file
    <3> QED
      BY <1>1, <3>1, <3>2, ResultFits
  <2>5. CASE AskHome(ref)
    <3>1. home' \in BOOLEAN
      BY <2>5, Zenon DEF AskHome
    <3>2. Called(Result(ref, DialFile(HomeUrl[ref]))) \/ Called(Refused(ref))
      BY <2>5 DEF AskHome
    <3> QED
      BY <1>1, <2>1, <3>1, <3>2, ResultFits
  <2>6. CASE AskOther(ref)
    <3>1. RowFits(Refused(ref)) /\ Refused(ref).kind = "content" /\ Refused(ref).status # "removed"
      BY <1>1, <2>1, ResultFits
    <3>2. Called(Refused(ref)) /\ home' = home
      BY <2>6 DEF AskOther
    <3> QED
      BY <2>2, <3>1, <3>2
  <2> QED
    BY <2>3, <2>4, <2>5, <2>6 DEF AskContent
<1>3. PICK row : /\ Called(row) /\ RowFits(row) /\ row.kind = "content" /\ row.status # "removed"
                 /\ home' \in BOOLEAN
  BY <1>2
<1> QED
  BY <1>0, <1>3, CallKeeps

LEMMA RecoverKeeps ==
  ASSUME IInv, Recover
  PROVE  IInv'
<1>0. /\ phase = "loop" /\ lazy /\ retried' = TRUE
      /\ contexts' = contexts /\ dial' = dial /\ listing' = listing /\ expanded' = expanded
      /\ lazy' = lazy /\ conv' = conv /\ phase' = phase /\ ended' = ended /\ turns' = turns
      /\ calls' = calls /\ home' = home /\ offered' = offered /\ fetching' = fetching /\ broken' = broken
  BY DEF Recover, contextVars
<1> DEFINE s == messages
           u == LastUser(messages)
           t == [i \in DOMAIN s |-> IF i > u THEN TakenBack(s[i]) ELSE s[i]]
<1>1. /\ ListFits(s) /\ IsList(s) /\ TurnOpen(s) /\ LoopOK
      /\ Len(s) \in Nat /\ DOMAIN s = 1..Len(s) /\ u > 0 /\ u \in 0..Len(s)
  BY <1>0, ListIs, LastUserIs DEF IInv, ListFits, TurnOpen
<1>2. messages' = t
  BY DEF Recover
<1>3. /\ IsList(t) /\ Len(t) = Len(s)
      /\ \A i \in 1..Len(s) : t[i] = IF i > u THEN TakenBack(s[i]) ELSE s[i]
  <2>1. t = [i \in 1..Len(s) |-> t[i]]
    BY <1>1
  <2>2. \A i \in 1..Len(s) : t[i] = IF i > u THEN TakenBack(s[i]) ELSE s[i]
    BY <1>1
  <2> HIDE DEF t
  <2> QED
    BY <1>1, <2>1, <2>2, ListFrom
<1> HIDE DEF t, s, u
<1>4. \A i \in 1..Len(s) : /\ RowFits(s[i]) /\ RowFits(t[i]) /\ t[i].kind = s[i].kind
                           /\ s[i].kind = "told" => t[i] = s[i]
                           /\ s[i].kind = "content" => t[i].ref = s[i].ref
                           /\ i > u /\ s[i].kind = "content" => t[i].status = "failed"
  <2> SUFFICES ASSUME NEW i \in 1..Len(s)
               PROVE  /\ RowFits(s[i]) /\ RowFits(t[i]) /\ t[i].kind = s[i].kind
                      /\ s[i].kind = "told" => t[i] = s[i]
                      /\ s[i].kind = "content" => t[i].ref = s[i].ref
                      /\ i > u /\ s[i].kind = "content" => t[i].status = "failed"
    OBVIOUS
  <2>1. RowFits(s[i])
    BY <1>1 DEF ListFits
  <2>2. CASE i > u /\ s[i].kind = "content"
    <3>1. t[i] = Refused(s[i].ref)
      BY <1>3, <2>2 DEF TakenBack
    <3>2. t[i].kind = "content" /\ t[i].ref = s[i].ref /\ t[i].status = "failed" /\ t[i].file = NoFile
      BY <3>1 DEF Refused, Content
    <3> QED
      BY <2>1, <2>2, <3>2 DEF RowFits
  <2>3. CASE ~(i > u /\ s[i].kind = "content")
    <3>1. t[i] = s[i]
      BY <1>3, <2>3 DEF TakenBack
    <3> QED
      BY <2>1, <2>3, <3>1
  <2> QED
    BY <2>2, <2>3
<1>5. LastUser(t) = u /\ Seen(t) = Seen(s)
  BY <1>1, <1>3, <1>4, Replaced DEF u, s
<1>6. ListFits(t)
  BY <1>3, <1>4 DEF ListFits
<1>7. TurnOpen(t)
  <2>1. \A i \in 1..Len(t) : i > u /\ t[i].kind = "content" => t[i].status # "removed"
    BY <1>3, <1>4
  <2> QED
    BY <1>1, <1>5, <2>1 DEF TurnOpen
<1>8. Reaches(t)
  <2>1. \A f \in ToSet(s[u].files) : Kind[f.ref] = "dial" /\ Accepts(MimeOf(f)) =>
          \E i \in 1..Len(s) : i > u /\ s[i].kind = "content" /\ s[i].ref = f.ref
    BY <1>0, <1>1 DEF LoopOK, Reaches, s, u
  <2>2. t[u] = s[u]
    BY <1>1, <1>3
  <2>3. \A f \in ToSet(t[u].files) : Kind[f.ref] = "dial" /\ Accepts(MimeOf(f)) =>
          \E i \in 1..Len(t) : i > u /\ t[i].kind = "content" /\ t[i].ref = f.ref
    <3> SUFFICES ASSUME NEW f \in ToSet(t[u].files), Kind[f.ref] = "dial", Accepts(MimeOf(f))
                 PROVE  \E i \in 1..Len(t) : i > u /\ t[i].kind = "content" /\ t[i].ref = f.ref
      OBVIOUS
    <3>1. PICK i \in 1..Len(s) : i > u /\ s[i].kind = "content" /\ s[i].ref = f.ref
      BY <2>1, <2>2
    <3> QED
      BY <1>3, <1>4, <3>1
  <2> QED
    BY <1>5, <2>3 DEF Reaches
<1>9. ListFits(conv)' /\ ListFits(messages)'
  BY <1>0, <1>2, <1>6 DEF IInv, ListFits, RowFits
<1>10. Types'
  <2>1. ContextTypeOK'
    BY <1>0 DEF IInv, Types, ContextTypeOK
  <2>2. retried' \in BOOLEAN
    BY <1>0, Zenon
  <2> QED
    BY <1>0, <2>1, <2>2 DEF IInv, Types
<1>11. LoopOK'
  BY <1>0, <1>1, <1>2, <1>5, <1>8 DEF LoopOK, s
<1>12. TurnOpen(messages)' /\ (ended = "handed" => TurnOpen(conv))' /\ (ended = "answered" => TurnLight(conv))'
  BY <1>0, <1>2, <1>7 DEF IInv
<1> QED
  BY <1>0, <1>9, <1>10, <1>11, <1>12 DEF IInv

(* The request ends, whatever it stored. *)
LEMMA EndKeeps ==
  ASSUME IInv, Forgotten, phase' \in {"client", "over"}, ended' \in {"answered", "handed", "failed"},
         ListFits(conv'), ended' = "handed" => TurnOpen(conv'), ended' = "answered" => TurnLight(conv')
  PROVE  IInv'
<1>0. /\ contexts' = <<>> /\ dial' = [f \in Folders |-> {}]
      /\ listing' = [f \in Folders |-> Unlisted] /\ expanded' = {}
      /\ messages' = <<>> /\ calls' = 0 /\ lazy' = lazy /\ turns' = turns
  BY DEF Forgotten, ContextForgotten
<1>1. ListFits(<<>>)
  BY Nothing DEF ListFits
<1>2. ListFits(conv)' /\ ListFits(messages)'
  BY <1>0, <1>1 DEF ListFits, RowFits
<1>3. Types'
  <2>1. ContextTypeOK'
    BY <1>0 DEF ContextTypeOK
  <2>2. home' \in BOOLEAN /\ offered' \in BOOLEAN /\ retried' \in BOOLEAN /\ fetching' \in BOOLEAN
    BY Zenon DEF Forgotten
  <2>3. calls' \in 0..MaxCalls
    BY <1>0, RefsAssumption
  <2> QED
    BY <1>0, <2>1, <2>2, <2>3 DEF IInv, Types
<1>4. (\A f \in Folders : listing[f] = Unlisted)'
  BY <1>0
<1>5. (offered => lazy)'
  BY Zenon DEF Forgotten
<1> QED
  BY <1>2, <1>3, <1>4, <1>5 DEF IInv

LEMMA FinishKeeps ==
  ASSUME IInv, Finish
  PROVE  IInv'
<1> DEFINE turn == [i \in DOMAIN Turn |-> Stripped(Turn[i])]
<1>0. /\ phase = "loop" /\ ended' = "answered" /\ conv' = Stored(turn) /\ Forgotten
      /\ phase' \in {"client", "over"}
  BY DEF Finish
<1>1. ListFits(conv) /\ ListFits(messages) /\ TurnOpen(messages) /\ (ended = "handed" => TurnOpen(conv))
  BY <1>0 DEF IInv
<1>2. /\ IsList(Turn) /\ Len(Turn) \in Nat /\ DOMAIN Turn = 1..Len(Turn)
      /\ \A i \in 1..Len(Turn) : Turn[i].kind # "user" /\ RowFits(Turn[i])
  BY <1>1, TurnFits, ListIs
<1>3. IsList(turn) /\ Len(turn) = Len(Turn) /\ \A i \in 1..Len(turn) : turn[i] = Stripped(Turn[i])
  <2>1. turn = [i \in 1..Len(Turn) |-> turn[i]]
    BY <1>2
  <2>2. \A i \in 1..Len(Turn) : turn[i] = Stripped(Turn[i])
    BY <1>2
  <2> HIDE DEF turn
  <2> QED
    BY <1>2, <2>1, <2>2, ListFrom
<1> HIDE DEF turn
<1>4. \A i \in 1..Len(turn) :
        /\ turn[i].kind # "user" /\ RowFits(turn[i])
        /\ turn[i].kind = "content" => turn[i].status # "loaded" /\ turn[i].file = NoFile
  <2> SUFFICES ASSUME NEW i \in 1..Len(turn)
               PROVE  /\ turn[i].kind # "user" /\ RowFits(turn[i])
                      /\ turn[i].kind = "content" => turn[i].status # "loaded" /\ turn[i].file = NoFile
    OBVIOUS
  <2> DEFINE row == Turn[i]
  <2>1. turn[i] = Stripped(row) /\ row.kind # "user" /\ RowFits(row)
    BY <1>2, <1>3
  <2> HIDE DEF row
  <2>2. CASE row.kind = "content" /\ row.file # NoFile
    <3>1. lazy
      BY <2>1, <2>2 DEF RowFits
    <3>2. turn[i] = Content(row.ref, "removed", NoFile)
      BY <2>1, <2>2, <3>1 DEF Stripped, Removal
    <3>3. turn[i].kind = "content" /\ turn[i].ref = row.ref /\ turn[i].status = "removed" /\ turn[i].file = NoFile
      BY <3>2 DEF Content
    <3> QED
      BY <2>1, <2>2, <3>1, <3>3 DEF RowFits
  <2>3. CASE ~(row.kind = "content" /\ row.file # NoFile)
    <3>1. turn[i] = row
      BY <2>1, <2>3 DEF Stripped
    <3>2. row.kind = "content" => row.status # "loaded"
      BY <2>1, <2>3 DEF RowFits
    <3> QED
      BY <2>1, <2>3, <3>1, <3>2
  <2> QED
    BY <2>2, <2>3
<1>5. ListFits(conv') /\ TurnLight(conv')
  BY <1>0, <1>1, <1>3, <1>4, StoredFits
<1> QED
  BY <1>0, <1>5, EndKeeps

LEMMA HandOffKeeps ==
  ASSUME IInv, HandOff
  PROVE  IInv'
<1>0. /\ phase = "loop" /\ ended' = "handed" /\ conv' = Stored(Turn) /\ Forgotten
      /\ phase' \in {"client", "over"}
  BY DEF HandOff
<1>1. ListFits(conv) /\ ListFits(messages) /\ TurnOpen(messages) /\ (ended = "handed" => TurnOpen(conv))
  BY <1>0 DEF IInv
<1>2. /\ IsList(Turn)
      /\ \A i \in 1..Len(Turn) : Turn[i].kind # "user" /\ RowFits(Turn[i])
      /\ \A i \in 1..Len(Turn) : Turn[i].kind = "content" => Turn[i].status # "removed"
  BY <1>1, TurnFits
<1>3. ListFits(conv') /\ TurnOpen(conv')
  BY <1>0, <1>1, <1>2, StoredFits
<1> QED
  BY <1>0, <1>3, EndKeeps

LEMMA FailKeeps ==
  ASSUME IInv, Fail
  PROVE  IInv'
<1>0. /\ phase = "loop" /\ ended' = "failed" /\ Forgotten /\ phase' \in {"client", "over"}
      /\ conv' = conv \/ conv' = Stored(<<>>) \/ conv' = Stored(Turn)
  BY DEF Fail
<1>1. ListFits(conv) /\ ListFits(messages) /\ TurnOpen(messages) /\ (ended = "handed" => TurnOpen(conv))
  BY <1>0 DEF IInv
<1>2. ListFits(Stored(Turn))
  <2>1. IsList(Turn) /\ \A i \in 1..Len(Turn) : Turn[i].kind # "user" /\ RowFits(Turn[i])
    BY <1>1, TurnFits
  <2> QED
    BY <1>1, <2>1, StoredFits
<1>3. ListFits(Stored(<<>>))
  <2> DEFINE none == <<>>
  <2>1. IsList(none) /\ \A i \in 1..Len(none) : none[i].kind # "user" /\ RowFits(none[i])
    BY Nothing
  <2> HIDE DEF none
  <2>2. ListFits(Stored(none))
    BY <1>1, <2>1, StoredFits
  <2> QED
    BY <2>2 DEF none
<1>4. ListFits(conv')
  BY <1>0, <1>1, <1>2, <1>3
<1> QED
  BY <1>0, <1>4, EndKeeps

LEMMA StepHolds == IInv /\ [Next]_vars => IInv'
<1> SUFFICES ASSUME IInv, [Next]_vars PROVE IInv'
  OBVIOUS
<1>1. CASE NewRequest
  BY <1>1, NewRequestKeeps
<1>2. CASE SetUp
  BY <1>2, SetUpKeeps
<1>3. CASE ListContext
  BY <1>3, ListContextKeeps
<1>4. CASE Recover
  BY <1>4, RecoverKeeps
<1>5. CASE Finish
  BY <1>5, FinishKeeps
<1>6. CASE HandOff
  BY <1>6, HandOffKeeps
<1>7. CASE Fail
  BY <1>7, FailKeeps
<1>8. ASSUME NEW ref \in Refs, AskContent(ref) PROVE IInv'
  BY <1>8, AskContentKeeps
<1>9. CASE UNCHANGED vars
  BY <1>9 DEF vars, contextVars, IInv, Types, ContextTypeOK, ListFits, RowFits, TurnOpen, TurnLight,
              LoopOK, Reaches
<1> QED
  BY <1>1, <1>2, <1>3, <1>4, <1>5, <1>6, <1>7, <1>8, <1>9 DEF Next

LEMMA Invariant == Spec => []IInv
<1>1. Init => IInv
  BY InitHolds
<1>2. IInv /\ [Next]_vars => IInv'
  BY StepHolds
<1> QED
  BY <1>1, <1>2, PTL DEF Spec

(* Type correctness: a row of available-context names each url once, and a file is only with
   a result that says it was loaded, in what the client keeps as in the messages of a request. *)
THEOREM GetContentTyped == Spec => []TypeOK
<1>1. IInv => TypeOK
  <2> SUFFICES ASSUME IInv PROVE TypeOK
    OBVIOUS
  <2>1. \A row : RowFits(row) => RowOK(row)
    BY DEF RowFits, RowOK
  <2>2. /\ \A i \in DOMAIN conv : RowFits(conv[i])
        /\ \A i \in DOMAIN messages : RowFits(messages[i])
    BY ListIs DEF IInv, ListFits
  <2>3. {lazy, home, offered, retried, fetching} \subseteq BOOLEAN
    BY Zenon DEF IInv, Types
  <2> QED
    BY <2>1, <2>2, <2>3 DEF IInv, Types, TypeOK
<1> QED
  BY <1>1, Invariant, PTL

(* When the model is called, what it was told last of the configured files is what the
   application and DIAL have now, unless a listing broke: however many turns told it only
   the differences, were resumed, or failed and were stored or not. *)
THEOREM ToldIsCurrent == Spec => []ContextTold
<1>1. IInv => ContextTold
  <2> SUFFICES ASSUME IInv, phase = "loop", broken = {}
               PROVE  Seen(messages) = Current(contexts, dial)
    BY DEF ContextTold
  <2>1. /\ Seen(messages) = Current(contexts, listing)
        /\ \A c \in ToSet(contexts) : c.url \in Folders => listing[c.url] = dial[c.url]
    BY DEF IInv, LoopOK
  <2>2. Current(contexts, listing) = Current(contexts, dial)
    BY <2>1, CurrentOfFolders
  <2> QED
    BY <2>1, <2>2
<1> QED
  BY <1>1, Invariant, PTL

(* Whatever configured file the model was told of in any turn that is still there, of a type
   it accepts, get_content is offered to load it. *)
THEOREM ListedLoads == Spec => []ListedCanBeLoaded
<1>1. IInv => ListedCanBeLoaded
  BY DEF IInv, LoopOK, ListedCanBeLoaded
<1> QED
  BY <1>1, Invariant, PTL

(* A stored file of an accepted type that the user attaches reaches the model in that turn,
   unless the model refused the files: a result of an earlier turn, stored without its file,
   never stands in for it, and that of a resumed turn still has its file. *)
THEOREM AttachedReaches == Spec => []AttachedIsDelivered
<1>1. IInv => AttachedIsDelivered
  <2> SUFFICES ASSUME IInv, phase = "loop", lazy,
                      NEW f \in ToSet(messages[LastUser(messages)].files),
                      Kind[f.ref] = "dial", Accepts(MimeOf(f))
               PROVE  \E i \in DOMAIN messages :
                        /\ i > LastUser(messages) /\ messages[i].kind = "content"
                        /\ messages[i].ref = f.ref
                        /\ Prompt(messages)[i].file # NoFile \/ messages[i].status = "failed"
    BY DEF AttachedIsDelivered
  <2>1. ListFits(messages) /\ TurnOpen(messages) /\ Reaches(messages)
    BY DEF IInv, LoopOK
  <2>2. PICK i \in 1..Len(messages) :
          i > LastUser(messages) /\ messages[i].kind = "content" /\ messages[i].ref = f.ref
    BY <2>1 DEF Reaches
  <2> DEFINE row == messages[i]
  <2>3. i \in DOMAIN messages /\ RowFits(row) /\ row.status # "removed"
    BY <2>1, <2>2, ListIs DEF ListFits, TurnOpen
  <2>4. Prompt(messages)[i] = Filtered(row)
    BY <2>3 DEF Prompt
  <2> HIDE DEF row
  <2>5. row.kind = "content" /\ row.ref = f.ref
    BY <2>2 DEF row
  <2>6. row.status = "failed" \/ row.status = "loaded"
    BY <2>3, <2>5 DEF RowFits
  <2>7. ASSUME row.status = "loaded" PROVE Filtered(row).file # NoFile
    <3>1. Kept(row) /\ row.file # NoFile
      BY <2>3, <2>5, <2>7 DEF RowFits, Kept
    <3>2. Filtered(row) = row
      BY <2>5, <3>1 DEF Filtered
    <3> QED
      BY <3>1, <3>2
  <2> QED
    BY <2>2, <2>3, <2>4, <2>6, <2>7 DEF row
<1> QED
  BY <1>1, Invariant, PTL

(* What an answered turn stores holds no file and does not say that one is there, also when
   the turn resumed one whose rows were stored with their files. *)
THEOREM StoredIsLight == Spec => []HistoryIsLight
<1>1. IInv => HistoryIsLight
  BY ListIs DEF IInv, ListFits, TurnLight, HistoryIsLight
<1> QED
  BY <1>1, Invariant, PTL

=============================================================================
