------------------------------ MODULE ListFacts ------------------------------
(***************************************************************************)
(* Facts about sequences, sets of numbers and Only that the proofs share.  *)
(* Induction is by least counterexample: the numbers at which a statement  *)
(* fails are a set, and a set of natural numbers has a least element.      *)
(***************************************************************************)
EXTENDS Lists, TLAPS, WellFoundedInduction

(* A set of natural numbers has a least element ... *)
LEMMA LeastNumber ==
  ASSUME NEW T, T \subseteq Nat, T # {}
  PROVE  \E n \in T : \A m \in T : n <= m
<1>1. PICK n \in T : \A k \in T : <<k, n>> \notin OpToRel(<, Nat)
  BY WFMin, NatLessThanWellFounded, Zenon
<1>2. \A k \in T : ~(k < n)
  BY <1>1, Zenon DEF OpToRel
<1> QED
  BY <1>2

(* ... so a set that holds 0, and n + 1 with n, holds every number. *)
LEMMA NumberInduction ==
  ASSUME NEW T, 0 \in T, \A n \in Nat : n \in T => n + 1 \in T
  PROVE  Nat \subseteq T
<1> SUFFICES ASSUME Nat \ T # {} PROVE FALSE
  OBVIOUS
<1>1. PICK n \in Nat \ T : \A m \in Nat \ T : n <= m
  BY LeastNumber
<1>2. n # 0 /\ n - 1 \in Nat
  BY <1>1
<1>3. n - 1 \in T
  BY <1>1, <1>2
<1> QED
  BY <1>1, <1>2, <1>3

-----------------------------------------------------------------------------
(* Where the elements of a queue are after something is appended ... *)
LEMMA AppendPlaces ==
  ASSUME NEW S, NEW s \in Seq(S), NEW e \in S
  PROVE  /\ Append(s, e) \in Seq(S) /\ Append(s, e) # <<>>
         /\ DOMAIN s = 1 .. Len(s) /\ DOMAIN Append(s, e) = 1 .. (Len(s) + 1)
         /\ Len(s) \in Nat /\ Len(Append(s, e)) = Len(s) + 1
         /\ \A i \in 1 .. Len(s) : Append(s, e)[i] = s[i]
         /\ Append(s, e)[Len(s) + 1] = e
OBVIOUS

(* ... and after its head is taken. *)
LEMMA TailPlaces ==
  ASSUME NEW S, NEW s \in Seq(S), s # <<>>
  PROVE  /\ Head(s) = s[1] /\ Head(s) \in S /\ Tail(s) \in Seq(S)
         /\ Len(s) \in Nat /\ Len(s) >= 1 /\ Len(Tail(s)) = Len(s) - 1
         /\ DOMAIN s = 1 .. Len(s) /\ DOMAIN Tail(s) = 1 .. (Len(s) - 1)
         /\ \A i \in 1 .. (Len(s) - 1) : Tail(s)[i] = s[i + 1]
OBVIOUS

-----------------------------------------------------------------------------
(* The recursion of Only, up to n. *)
Picks(s, A, n, g) ==
  g = [i \in 0 .. n |->
         IF i = 0 THEN <<>>
         ELSE IF s[i] \in A THEN Append(g[i - 1], s[i]) ELSE g[i - 1]]

(* It has a solution ... *)
LEMMA PicksExist ==
  ASSUME NEW s, NEW A, NEW n \in Nat
  PROVE  \E g : Picks(s, A, n, g)
<1> DEFINE T == {k \in Nat : \E g : Picks(s, A, k, g)}
<1>1. 0 \in T
  <2> DEFINE g == [i \in 0 .. 0 |-> <<>>]
  <2>1. Picks(s, A, 0, g)
    BY DEF Picks
  <2> QED
    BY <2>1
<1>2. ASSUME NEW k \in Nat, k \in T PROVE k + 1 \in T
  <2>1. PICK g : Picks(s, A, k, g)
    BY <1>2
  <2> DEFINE e == IF s[k + 1] \in A THEN Append(g[k], s[k + 1]) ELSE g[k]
             h == [i \in 0 .. (k + 1) |-> IF i = k + 1 THEN e ELSE g[i]]
  <2>2. ASSUME NEW i \in 0 .. (k + 1)
        PROVE  h[i] = IF i = 0 THEN <<>>
                      ELSE IF s[i] \in A THEN Append(h[i - 1], s[i]) ELSE h[i - 1]
    <3>1. CASE i = k + 1
      <4>1. h[i] = e /\ h[i - 1] = g[k]
        BY <3>1
      <4> QED
        BY <3>1, <4>1
    <3>2. CASE i # k + 1
      <4>1. i \in 0 .. k
        BY <3>2
      <4>2. g[i] = IF i = 0 THEN <<>>
                   ELSE IF s[i] \in A THEN Append(g[i - 1], s[i]) ELSE g[i - 1]
        BY <2>1, <4>1 DEF Picks
      <4>3. h[i] = g[i] /\ (i # 0 => h[i - 1] = g[i - 1])
        BY <4>1
      <4> QED
        BY <4>2, <4>3
    <3> QED
      BY <3>1, <3>2
  <2>3. Picks(s, A, k + 1, h)
    BY <2>2 DEF Picks
  <2> QED
    BY <2>3
<1> HIDE DEF T
<1>3. Nat \subseteq T
  BY <1>1, <1>2, NumberInduction
<1> QED
  BY <1>3 DEF T

(* ... and solutions agree where the sequences do. *)
LEMMA PicksAgree ==
  ASSUME NEW s, NEW t, NEW A, NEW m \in Nat, NEW n \in Nat, m <= n,
         \A i \in 1 .. m : s[i] = t[i]
  PROVE  \A g, h : Picks(s, A, m, g) /\ Picks(t, A, n, h) => \A i \in 0 .. m : g[i] = h[i]
<1> SUFFICES ASSUME NEW g, NEW h, Picks(s, A, m, g), Picks(t, A, n, h)
             PROVE  \A i \in 0 .. m : g[i] = h[i]
  OBVIOUS
<1> DEFINE T == {k \in Nat : k <= m => g[k] = h[k]}
<1>1. 0 \in T
  BY DEF Picks
<1>2. ASSUME NEW k \in Nat, k \in T PROVE k + 1 \in T
  <2> SUFFICES ASSUME k + 1 <= m PROVE g[k + 1] = h[k + 1]
    OBVIOUS
  <2>1. g[k] = h[k] /\ s[k + 1] = t[k + 1]
    BY <1>2
  <2>2. k + 1 \in 0 .. m /\ k + 1 \in 0 .. n /\ k + 1 # 0 /\ (k + 1) - 1 = k
    OBVIOUS
  <2>3. g[k + 1] = IF s[k + 1] \in A THEN Append(g[k], s[k + 1]) ELSE g[k]
    <3>1. \A i \in 0 .. m : g[i] =
             IF i = 0 THEN <<>>
             ELSE IF s[i] \in A THEN Append(g[i - 1], s[i]) ELSE g[i - 1]
      BY Zenon DEF Picks
    <3> QED
      BY <2>2, <3>1, Zenon
  <2>4. h[k + 1] = IF t[k + 1] \in A THEN Append(h[k], t[k + 1]) ELSE h[k]
    <3>1. \A i \in 0 .. n : h[i] =
             IF i = 0 THEN <<>>
             ELSE IF t[i] \in A THEN Append(h[i - 1], t[i]) ELSE h[i - 1]
      BY Zenon DEF Picks
    <3> QED
      BY <2>2, <3>1, Zenon
  <2> QED
    BY <2>1, <2>3, <2>4
<1> HIDE DEF T
<1>3. Nat \subseteq T
  BY <1>1, <1>2, NumberInduction
<1> QED
  BY <1>3 DEF T

(* Only is the last value of the recursion. *)
LEMMA OnlyPicks ==
  ASSUME NEW S, NEW s \in Seq(S), NEW A
  PROVE  \E g : Picks(s, A, Len(s), g) /\ Only(s, A) = g[Len(s)]
<1> DEFINE g == CHOOSE f : Picks(s, A, Len(s), f)
<1>1. Picks(s, A, Len(s), g)
  <2>1. Len(s) \in Nat
    OBVIOUS
  <2> QED
    BY <2>1, PicksExist, Zenon DEF g
<1>2. Only(s, A) = g[Len(s)]
  BY Zenon DEF Only, Picks, g
<1> QED
  BY <1>1, <1>2

(* Only, one element at a time. *)
LEMMA OnlyEmpty ==
  ASSUME NEW A
  PROVE  Only(<<>>, A) = <<>>
<1>1. <<>> \in Seq({}) /\ Len(<<>>) = 0
  OBVIOUS
<1>2. PICK g : Picks(<<>>, A, 0, g) /\ Only(<<>>, A) = g[0]
  BY <1>1, OnlyPicks
<1> QED
  BY <1>2 DEF Picks

LEMMA OnlyAppend ==
  ASSUME NEW S, NEW s \in Seq(S), NEW e \in S, NEW A
  PROVE  Only(Append(s, e), A) = IF e \in A THEN Append(Only(s, A), e) ELSE Only(s, A)
<1> DEFINE n == Len(s)
           t == Append(s, e)
<1>1. /\ n \in Nat /\ t \in Seq(S) /\ Len(t) = n + 1 /\ t[n + 1] = e
      /\ \A i \in 1 .. n : s[i] = t[i]
  OBVIOUS
<1> HIDE DEF n, t
<1>2. PICK g : Picks(s, A, n, g) /\ Only(s, A) = g[n]
  BY OnlyPicks DEF n
<1>3. PICK h : Picks(t, A, n + 1, h) /\ Only(t, A) = h[n + 1]
  BY <1>1, OnlyPicks
<1>4. g[n] = h[n]
  <2>1. n <= n + 1 /\ n + 1 \in Nat /\ n \in 0 .. n
    BY <1>1
  <2>2. \A i \in 0 .. n : g[i] = h[i]
    <3> DEFINE m == n + 1
    <3>1. Picks(s, A, n, g) /\ Picks(t, A, m, h)
      BY <1>2, <1>3
    <3>2. m \in Nat /\ n <= m /\ n \in Nat /\ \A i \in 1 .. n : s[i] = t[i]
      BY <1>1
    <3> HIDE DEF m
    <3> QED
      BY <3>1, <3>2, PicksAgree
  <2> QED
    BY <2>1, <2>2
<1>5. h[n + 1] = IF t[n + 1] \in A THEN Append(h[n], t[n + 1]) ELSE h[n]
  <2>1. \A i \in 0 .. (n + 1) : h[i] =
           IF i = 0 THEN <<>>
           ELSE IF t[i] \in A THEN Append(h[i - 1], t[i]) ELSE h[i - 1]
    BY <1>3, Zenon DEF Picks
  <2>2. n + 1 \in 0 .. (n + 1) /\ n + 1 # 0 /\ (n + 1) - 1 = n
    BY <1>1
  <2> QED
    BY <2>1, <2>2, Zenon
<1> QED
  BY <1>1, <1>2, <1>3, <1>4, <1>5 DEF t

(* A sequence that is not empty has a last element. *)
LEMMA LastSplit ==
  ASSUME NEW S, NEW n \in Nat, NEW s \in Seq(S), Len(s) = n + 1
  PROVE  \E r \in Seq(S), e \in S : Len(r) = n /\ s = Append(r, e)
<1> DEFINE r == SubSeq(s, 1, n)
<1>1. r \in Seq(S) /\ Len(r) = n /\ s[n + 1] \in S
  OBVIOUS
<1>2. s = Append(r, s[n + 1])
  OBVIOUS
<1> QED
  BY <1>1, <1>2

(* A set of sequences that holds the empty one, and what is got from its   *)
(* members by appending, holds them all.                                   *)
LEMMA SequenceInduction ==
  ASSUME NEW S, NEW T, <<>> \in T,
         \A s \in Seq(S) : \A e \in S : s \in T => Append(s, e) \in T
  PROVE  Seq(S) \subseteq T
<1> DEFINE N == {n \in Nat : \A s \in Seq(S) : Len(s) = n => s \in T}
<1>1. 0 \in N
  <2>1. \A s \in Seq(S) : Len(s) = 0 => s = <<>>
    OBVIOUS
  <2> QED
    BY <2>1
<1>2. ASSUME NEW n \in Nat, n \in N PROVE n + 1 \in N
  <2> SUFFICES ASSUME NEW s \in Seq(S), Len(s) = n + 1 PROVE s \in T
    OBVIOUS
  <2>1. PICK r \in Seq(S), e \in S : Len(r) = n /\ s = Append(r, e)
    BY LastSplit
  <2> QED
    BY <1>2, <2>1
<1> HIDE DEF N
<1>3. Nat \subseteq N
  BY <1>1, <1>2, NumberInduction
<1>4. \A s \in Seq(S) : Len(s) \in Nat
  OBVIOUS
<1> QED
  BY <1>3, <1>4 DEF N

-----------------------------------------------------------------------------
(* What is picked are elements of the sequence that belong to the set. *)
LEMMA OnlyType ==
  ASSUME NEW S, NEW s \in Seq(S), NEW A
  PROVE  Only(s, A) \in Seq(S \cap A)
<1> DEFINE T == {t \in Seq(S) : Only(t, A) \in Seq(S \cap A)}
<1>1. <<>> \in T
  <2>1. <<>> \in Seq(S) /\ <<>> \in Seq(S \cap A)
    OBVIOUS
  <2> QED
    BY <2>1, OnlyEmpty, Zenon
<1>2. ASSUME NEW t \in Seq(S), NEW e \in S, t \in T PROVE Append(t, e) \in T
  <2>1. Only(t, A) \in Seq(S \cap A)
    BY <1>2
  <2>2. Only(Append(t, e), A) = IF e \in A THEN Append(Only(t, A), e) ELSE Only(t, A)
    BY OnlyAppend
  <2>3. Append(t, e) \in Seq(S) /\ (e \in A => Append(Only(t, A), e) \in Seq(S \cap A))
    BY <2>1
  <2> QED
    BY <2>1, <2>2, <2>3, Zenon
<1> HIDE DEF T
<1>3. Seq(S) \subseteq T
  BY <1>1, <1>2, SequenceInduction
<1> QED
  BY <1>3 DEF T

(* Concatenation and appending, to the right. *)
LEMMA ConcatAppend ==
  ASSUME NEW S, NEW s \in Seq(S), NEW t \in Seq(S), NEW e \in S
  PROVE  s \o Append(t, e) = Append(s \o t, e)
OBVIOUS

(* Picking from two sequences. *)
LEMMA OnlyConcat ==
  ASSUME NEW S, NEW s \in Seq(S), NEW t \in Seq(S), NEW A
  PROVE  Only(s \o t, A) = Only(s, A) \o Only(t, A)
<1> DEFINE T == {u \in Seq(S) : Only(s \o u, A) = Only(s, A) \o Only(u, A)}
<1>0. Only(s, A) \in Seq(S \cap A)
  BY OnlyType
<1>1. <<>> \in T
  <2>1. s \o <<>> = s /\ Only(s, A) \o <<>> = Only(s, A)
    BY <1>0
  <2>2. <<>> \in Seq(S)
    OBVIOUS
  <2> QED
    BY <2>1, <2>2, OnlyEmpty, Zenon
<1>2. ASSUME NEW u \in Seq(S), NEW e \in S, u \in T PROVE Append(u, e) \in T
  <2>1. Only(s \o u, A) = Only(s, A) \o Only(u, A) /\ s \o u \in Seq(S)
    BY <1>2
  <2>2. Only(Append(u, e), A) = IF e \in A THEN Append(Only(u, A), e) ELSE Only(u, A)
    BY OnlyAppend
  <2>3. Only(Append(s \o u, e), A) =
          IF e \in A THEN Append(Only(s \o u, A), e) ELSE Only(s \o u, A)
    <3> DEFINE w == s \o u
    <3>1. w \in Seq(S)
      BY <2>1
    <3> HIDE DEF w
    <3>2. Only(Append(w, e), A) = IF e \in A THEN Append(Only(w, A), e) ELSE Only(w, A)
      BY <3>1, OnlyAppend
    <3> QED
      BY <3>2 DEF w
  <2>4. s \o Append(u, e) = Append(s \o u, e) /\ Append(u, e) \in Seq(S)
    BY ConcatAppend
  <2>5. Only(u, A) \in Seq(S \cap A)
    BY OnlyType
  <2>6. e \in A => Only(s, A) \o Append(Only(u, A), e) = Append(Only(s, A) \o Only(u, A), e)
    BY <1>0, <2>5, ConcatAppend
  <2> QED
    BY <2>1, <2>2, <2>3, <2>4, <2>6
<1> HIDE DEF T
<1>3. Seq(S) \subseteq T
  BY <1>1, <1>2, SequenceInduction
<1> QED
  BY <1>3 DEF T

(* A sequence of members of the set is picked as a whole. *)
LEMMA OnlyAll ==
  ASSUME NEW A, NEW s \in Seq(A)
  PROVE  Only(s, A) = s
<1> DEFINE T == {t \in Seq(A) : Only(t, A) = t}
<1>1. <<>> \in T
  BY OnlyEmpty
<1>2. ASSUME NEW t \in Seq(A), NEW e \in A, t \in T PROVE Append(t, e) \in T
  BY <1>2, OnlyAppend
<1> HIDE DEF T
<1>3. Seq(A) \subseteq T
  BY <1>1, <1>2, SequenceInduction
<1> QED
  BY <1>3 DEF T

(* Picking from what has been picked. *)
LEMMA OnlyOnly ==
  ASSUME NEW S, NEW s \in Seq(S), NEW A, NEW B
  PROVE  Only(Only(s, A), B) = Only(s, A \cap B)
<1> DEFINE T == {t \in Seq(S) : Only(Only(t, A), B) = Only(t, A \cap B)}
<1>1. <<>> \in T
  BY OnlyEmpty
<1>2. ASSUME NEW t \in Seq(S), NEW e \in S, t \in T PROVE Append(t, e) \in T
  <2>1. Only(Only(t, A), B) = Only(t, A \cap B)
    BY <1>2
  <2>2. Only(Append(t, e), A) = IF e \in A THEN Append(Only(t, A), e) ELSE Only(t, A)
    BY OnlyAppend
  <2>3. Only(Append(t, e), A \cap B) =
          IF e \in A \cap B THEN Append(Only(t, A \cap B), e) ELSE Only(t, A \cap B)
    BY OnlyAppend
  <2>4. Only(t, A) \in Seq(S)
    <3>1. Only(t, A) \in Seq(S \cap A)
      BY OnlyType
    <3> QED
      BY <3>1
  <2>5. Only(Append(Only(t, A), e), B) =
          IF e \in B THEN Append(Only(Only(t, A), B), e) ELSE Only(Only(t, A), B)
    BY <2>4, OnlyAppend
  <2>6. Append(t, e) \in Seq(S)
    OBVIOUS
  <2>7. Only(Only(Append(t, e), A), B) = Only(Append(t, e), A \cap B)
    <3>1. CASE e \in A /\ e \in B
      BY <2>1, <2>2, <2>3, <2>5, <3>1
    <3>2. CASE e \in A /\ e \notin B
      BY <2>1, <2>2, <2>3, <2>5, <3>2
    <3>3. CASE e \notin A
      BY <2>1, <2>2, <2>3, <3>3
    <3> QED
      BY <3>1, <3>2, <3>3
  <2> QED
    BY <2>6, <2>7
<1> HIDE DEF T
<1>3. Seq(S) \subseteq T
  BY <1>1, <1>2, SequenceInduction
<1> QED
  BY <1>3 DEF T
(* Sets that agree on the elements pick the same. *)
LEMMA OnlyAgree ==
  ASSUME NEW S, NEW s \in Seq(S), NEW A, NEW B, \A x \in S : x \in A <=> x \in B
  PROVE  Only(s, A) = Only(s, B)
<1> DEFINE T == {t \in Seq(S) : Only(t, A) = Only(t, B)}
<1>1. <<>> \in T
  BY OnlyEmpty
<1>2. ASSUME NEW t \in Seq(S), NEW e \in S, t \in T PROVE Append(t, e) \in T
  <2>1. Only(t, A) = Only(t, B) /\ (e \in A <=> e \in B)
    BY <1>2
  <2>2. Only(Append(t, e), A) = IF e \in A THEN Append(Only(t, A), e) ELSE Only(t, A)
    BY OnlyAppend
  <2>3. Only(Append(t, e), B) = IF e \in B THEN Append(Only(t, B), e) ELSE Only(t, B)
    BY OnlyAppend
  <2>4. Append(t, e) \in Seq(S)
    OBVIOUS
  <2> QED
    BY <2>1, <2>2, <2>3, <2>4
<1> HIDE DEF T
<1>3. Seq(S) \subseteq T
  BY <1>1, <1>2, SequenceInduction
<1> QED
  BY <1>3 DEF T

(* A set that has none of the elements picks nothing. *)
LEMMA OnlyNone ==
  ASSUME NEW S, NEW s \in Seq(S), NEW A, S \cap A = {}
  PROVE  Only(s, A) = <<>>
<1>1. Only(s, A) \in Seq(S \cap A)
  BY OnlyType
<1> QED
  BY <1>1

(* Handing the head of one queue to the end of another moves nothing. *)
LEMMA HandedOver ==
  ASSUME NEW S, NEW s \in Seq(S), NEW q \in Seq(S), q # <<>>
  PROVE  Append(s, Head(q)) \o Tail(q) = s \o q
OBVIOUS

(* Some numbers up to n have a greatest one. *)
LEMMA GreatestNumber ==
  ASSUME NEW n \in Nat, NEW T, T \subseteq 1 .. n, T # {}
  PROVE  \E m \in T : \A x \in T : m >= x
<1> DEFINE R == {n - x : x \in T}
<1>1. R \subseteq Nat /\ R # {}
  <2>1. \A x \in T : n - x \in Nat
    <3>1. \A x \in 1 .. n : n - x \in Nat
      OBVIOUS
    <3> QED
      BY <3>1
  <2>2. R \subseteq Nat
    BY <2>1
  <2>3. R # {}
    BY Zenon
  <2> QED
    BY <2>2, <2>3
<1>2. PICK r \in R : \A x \in R : r <= x
  <2> HIDE DEF R
  <2> QED
    BY <1>1, LeastNumber
<1>3. PICK m \in T : r = n - m
  OBVIOUS
<1>4. \A x \in T : m >= x
  BY <1>2, <1>3
<1> QED
  BY <1>4

-----------------------------------------------------------------------------
(* The last element of s in A is one of B; and there is none in A. *)
LastIn(s, A, B) ==
  \E i \in DOMAIN s : s[i] \in B /\ \A j \in DOMAIN s : j > i => s[j] \notin A
NoneIn(s, A) == \A i \in DOMAIN s : s[i] \notin A

(* One element more. *)
LEMMA AppendLast ==
  ASSUME NEW S, NEW s \in Seq(S), NEW e \in S, NEW A, NEW B
  PROVE  /\ e \in B => LastIn(Append(s, e), A, B)
         /\ e \notin A /\ LastIn(s, A, B) => LastIn(Append(s, e), A, B)
         /\ e \notin A /\ NoneIn(s, A) => NoneIn(Append(s, e), A)
         /\ LastIn(Append(s, e), A, B) => e \in B \/ (e \notin A /\ LastIn(s, A, B))
<1> DEFINE t == Append(s, e)
           n == Len(s)
<1>1. /\ n \in Nat /\ DOMAIN s = 1 .. n /\ DOMAIN t = 1 .. (n + 1)
      /\ \A i \in 1 .. n : t[i] = s[i]
      /\ t[n + 1] = e
  BY AppendPlaces
<1> HIDE DEF t, n
<1>2. n + 1 \in 1 .. (n + 1) /\ \A i \in 1 .. n : i \in 1 .. (n + 1) /\ n + 1 > i
  BY <1>1
<1>3. \A i \in 1 .. (n + 1) : i \in 1 .. n \/ i = n + 1
  BY <1>1
<1>4. e \in B => LastIn(t, A, B)
  <2>1. \A j \in 1 .. (n + 1) : ~ (j > n + 1)
    BY <1>1
  <2> QED
    BY <1>1, <1>2, <2>1 DEF LastIn
<1>5. e \notin A /\ LastIn(s, A, B) => LastIn(t, A, B)
  BY <1>1, <1>2, <1>3 DEF LastIn
<1>6. e \notin A /\ NoneIn(s, A) => NoneIn(t, A)
  BY <1>1, <1>3 DEF NoneIn
<1>7. ASSUME LastIn(t, A, B), e \notin B PROVE e \notin A /\ LastIn(s, A, B)
  <2>1. PICK i \in 1 .. (n + 1) : t[i] \in B /\ \A j \in 1 .. (n + 1) : j > i => t[j] \notin A
    BY <1>1, <1>7 DEF LastIn
  <2>2. i \in 1 .. n
    BY <1>1, <1>3, <1>7, <2>1
  <2>3. e \notin A
    BY <1>1, <1>2, <2>1, <2>2
  <2> QED
    BY <1>1, <1>2, <2>1, <2>2, <2>3 DEF LastIn
<1> QED
  BY <1>4, <1>5, <1>6, <1>7 DEF t

(* One element less. *)
LEMMA TailLast ==
  ASSUME NEW S, NEW s \in Seq(S), s # <<>>, NEW A, NEW B
  PROVE  /\ LastIn(s, A, B) => \/ LastIn(Tail(s), A, B)
                               \/ Head(s) \in B /\ NoneIn(Tail(s), A)
         /\ NoneIn(s, A) => Head(s) \notin A /\ NoneIn(Tail(s), A)
<1> DEFINE t == Tail(s)
           n == Len(s)
           h == Head(s)
<1>1. /\ n \in Nat /\ n >= 1 /\ h = s[1] /\ DOMAIN s = 1 .. n /\ DOMAIN t = 1 .. (n - 1)
      /\ \A i \in 1 .. (n - 1) : t[i] = s[i + 1]
  BY TailPlaces
<1> HIDE DEF t, n, h
<1>2. /\ 1 \in 1 .. n
      /\ \A i \in 1 .. (n - 1) : i + 1 \in 1 .. n /\ i + 1 > 1
      /\ \A i \in 1 .. n : i = 1 \/ (i - 1 \in 1 .. (n - 1) /\ (i - 1) + 1 = i)
  BY <1>1
<1>3. ASSUME LastIn(s, A, B) PROVE LastIn(t, A, B) \/ (h \in B /\ NoneIn(t, A))
  <2>1. PICK i \in 1 .. n : s[i] \in B /\ \A j \in 1 .. n : j > i => s[j] \notin A
    BY <1>1, <1>3 DEF LastIn
  <2>2. CASE i = 1
    BY <1>1, <1>2, <2>1, <2>2 DEF NoneIn
  <2>3. CASE i # 1
    <3>1. i - 1 \in 1 .. (n - 1) /\ t[i - 1] \in B
      BY <1>1, <1>2, <2>1, <2>3
    <3>2. \A j \in 1 .. (n - 1) : j > i - 1 => t[j] \notin A
      BY <1>1, <1>2, <2>1
    <3> QED
      BY <1>1, <3>1, <3>2 DEF LastIn
  <2> QED
    BY <2>2, <2>3
<1>4. NoneIn(s, A) => h \notin A /\ NoneIn(t, A)
  BY <1>1, <1>2 DEF NoneIn
<1> QED
  BY <1>3, <1>4 DEF t, h

(* Two sequences in a row. *)
LEMMA ConcatLast ==
  ASSUME NEW S, NEW s \in Seq(S), NEW t \in Seq(S), NEW A, NEW B
  PROVE  /\ LastIn(t, A, B) => LastIn(s \o t, A, B)
         /\ LastIn(s, A, B) /\ NoneIn(t, A) => LastIn(s \o t, A, B)
         /\ NoneIn(s, A) /\ NoneIn(t, A) => NoneIn(s \o t, A)
<1> DEFINE c == s \o t
           n == Len(s)
           k == Len(t)
<1>1. /\ n \in Nat /\ k \in Nat /\ DOMAIN s = 1 .. n /\ DOMAIN t = 1 .. k
      /\ DOMAIN c = 1 .. (n + k)
      /\ \A i \in 1 .. n : c[i] = s[i]
      /\ \A i \in 1 .. k : c[n + i] = t[i]
  OBVIOUS
<1> HIDE DEF c, n, k
<1>2. /\ \A i \in 1 .. n : i \in 1 .. (n + k)
      /\ \A i \in 1 .. k : n + i \in 1 .. (n + k)
      /\ \A i \in 1 .. (n + k) : i \in 1 .. n \/ (i - n \in 1 .. k /\ n + (i - n) = i)
  BY <1>1
<1>3. ASSUME LastIn(t, A, B) PROVE LastIn(c, A, B)
  <2>1. PICK i \in 1 .. k : t[i] \in B /\ \A j \in 1 .. k : j > i => t[j] \notin A
    BY <1>1, <1>3 DEF LastIn
  <2>2. ASSUME NEW j \in 1 .. (n + k), j > n + i PROVE c[j] \notin A
    <3>1. j - n \in 1 .. k /\ n + (j - n) = j /\ j - n > i
      BY <1>1, <2>1, <2>2
    <3> QED
      BY <1>1, <2>1, <3>1
  <2>3. n + i \in 1 .. (n + k) /\ c[n + i] \in B
    BY <1>1, <1>2, <2>1
  <2> QED
    BY <1>1, <2>2, <2>3 DEF LastIn
<1>4. ASSUME LastIn(s, A, B), NoneIn(t, A) PROVE LastIn(c, A, B)
  <2>1. PICK i \in 1 .. n : s[i] \in B /\ \A j \in 1 .. n : j > i => s[j] \notin A
    BY <1>1, <1>4 DEF LastIn
  <2>2. \A j \in 1 .. k : t[j] \notin A
    BY <1>1, <1>4 DEF NoneIn
  <2>3. ASSUME NEW j \in 1 .. (n + k), j > i PROVE c[j] \notin A
    <3>1. CASE j \in 1 .. n
      BY <1>1, <2>1, <2>3, <3>1
    <3>2. CASE j - n \in 1 .. k /\ n + (j - n) = j
      BY <1>1, <2>2, <3>2
    <3> QED
      BY <1>2, <3>1, <3>2
  <2>4. i \in 1 .. (n + k) /\ c[i] \in B
    BY <1>1, <1>2, <2>1
  <2> QED
    BY <1>1, <2>3, <2>4 DEF LastIn
<1>5. NoneIn(s, A) /\ NoneIn(t, A) => NoneIn(c, A)
  BY <1>1, <1>2 DEF NoneIn
<1> QED
  BY <1>3, <1>4, <1>5 DEF c

(* What is last of A stays last of A among the elements of a larger set. *)
LEMMA OnlyLast ==
  ASSUME NEW S, NEW s \in Seq(S), NEW A, NEW B, NEW C, B \subseteq A, A \subseteq C,
         LastIn(s, A, B)
  PROVE  LastIn(Only(s, C), A, B)
<1> DEFINE T == {t \in Seq(S) : LastIn(t, A, B) => LastIn(Only(t, C), A, B)}
<1>1. <<>> \in T
  BY DEF LastIn
<1>2. ASSUME NEW t \in Seq(S), NEW e \in S, t \in T PROVE Append(t, e) \in T
  <2>1. Append(t, e) \in Seq(S)
    OBVIOUS
  <2>2. Only(t, C) \in Seq(S)
    <3>1. Only(t, C) \in Seq(S \cap C)
      BY OnlyType
    <3> QED
      BY <3>1
  <2>3. Only(Append(t, e), C) = IF e \in C THEN Append(Only(t, C), e) ELSE Only(t, C)
    BY OnlyAppend
  <2>4. ASSUME LastIn(Append(t, e), A, B) PROVE LastIn(Only(Append(t, e), C), A, B)
    <3>1. CASE e \in B
      <4>1. LastIn(Append(Only(t, C), e), A, B)
        BY <2>2, <3>1, AppendLast
      <4> QED
        BY <2>3, <3>1, <4>1
    <3>2. CASE e \notin A /\ LastIn(t, A, B)
      <4>1. LastIn(Only(t, C), A, B)
        BY <1>2, <3>2
      <4>2. LastIn(Append(Only(t, C), e), A, B)
        BY <2>2, <3>2, <4>1, AppendLast
      <4> QED
        BY <2>3, <4>1, <4>2
    <3> QED
      BY <2>4, <3>1, <3>2, AppendLast
  <2> QED
    BY <2>1, <2>4
<1>3. Seq(S) \subseteq T
  <2> HIDE DEF T
  <2> QED
    BY <1>1, <1>2, SequenceInduction
<1> QED
  BY <1>3
=============================================================================
