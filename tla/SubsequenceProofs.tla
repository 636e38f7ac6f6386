-------------------------- MODULE SubsequenceProofs --------------------------
(* What Keep returns, for every list, by induction on its length.             *)
EXTENDS Subsequences, WellFoundedInduction, TLAPS

(* Induction, stated of sets: a set of numbers that is not all of Nat leaves    *)
(* out a smallest one.                                                       *)

LEMMA NatSetInduction ==
    ASSUME NEW N, 0 \in N, \A n \in Nat : n \in N => n + 1 \in N
    PROVE  Nat \subseteq N
<1> DEFINE T == Nat \ N
<1> SUFFICES ASSUME T # {} PROVE FALSE
  OBVIOUS
<1>1. PICK x \in T : \A y \in T : ~(<<y, x>> \in OpToRel(<, Nat))
  BY NatLessThanWellFounded, WFMin, T \subseteq Nat
<1>2. x # 0 /\ x \in Nat
  OBVIOUS
<1>3. x - 1 \in Nat /\ x - 1 < x /\ (x - 1) + 1 = x
  BY <1>2
<1>4. <<x - 1, x>> \in OpToRel(<, Nat)
  BY <1>2, <1>3 DEF OpToRel
<1>5. x - 1 \in N
  BY <1>1, <1>3, <1>4
<1> QED
  BY <1>3, <1>5

LEMMA SeqSetInduction ==
    ASSUME NEW T, NEW P, <<>> \in P, \A s \in Seq(T), e \in T : s \in P => Append(s, e) \in P
    PROVE  Seq(T) \subseteq P
<1> DEFINE N == {n \in Nat : \A s \in Seq(T) : Len(s) = n => s \in P}
<1>1. 0 \in N
  <2>1. \A s \in Seq(T) : Len(s) = 0 => s = <<>>
    OBVIOUS
  <2> QED
    BY <2>1
<1>2. ASSUME NEW n \in Nat, n \in N PROVE n + 1 \in N
  <2> SUFFICES ASSUME NEW s \in Seq(T), Len(s) = n + 1 PROVE s \in P
    OBVIOUS
  <2> DEFINE t == [i \in 1..n |-> s[i]]
  <2>1. t \in Seq(T) /\ Len(t) = n /\ s[n + 1] \in T
    OBVIOUS
  <2>2. s = Append(t, s[n + 1])
    <3>1. DOMAIN s = 1..n + 1 /\ s = [i \in 1..n + 1 |-> s[i]]
      OBVIOUS
    <3> QED
      BY <2>1, <3>1
  <2>3. t \in P
    BY <1>2, <2>1
  <2> HIDE DEF t
  <2> QED
    BY <2>1, <2>2, <2>3
<1>3. Nat \subseteq N
  <2> HIDE DEF N
  <2> QED
    BY <1>1, <1>2, NatSetInduction
<1> QED
  BY <1>3

----------------------------------------------------------------------------
(* The recursion of Keep has a solution, and one only.                       *)

\* k solves it up to the n-th element.
Solves(k, s, S, n) ==
    k = [i \in 0..n |-> IF i = 0 THEN <<>>
                        ELSE IF s[i] \in S THEN Append(k[i - 1], s[i]) ELSE k[i - 1]]

LEMMA SolutionExists ==
    ASSUME NEW s, NEW S, NEW m \in Nat
    PROVE  \E k : Solves(k, s, S, m)
<1> DEFINE N == {n \in Nat : \E k : Solves(k, s, S, n)}
<1>1. 0 \in N
  <2> DEFINE k == [i \in 0..0 |-> <<>>]
  <2>1. Solves(k, s, S, 0)
    BY DEF Solves
  <2> QED
    BY <2>1
<1>2. ASSUME NEW n \in Nat, n \in N PROVE n + 1 \in N
  <2>1. PICK k : Solves(k, s, S, n)
    BY <1>2
  <2> DEFINE e == IF s[n + 1] \in S THEN Append(k[n], s[n + 1]) ELSE k[n]
             h == [i \in 0..n + 1 |-> IF i <= n THEN k[i] ELSE e]
  <2>2. \A i \in 0..n : h[i] = k[i]
    OBVIOUS
  <2>3. \A i \in 0..n : k[i] = IF i = 0 THEN <<>>
                        ELSE IF s[i] \in S THEN Append(k[i - 1], s[i]) ELSE k[i - 1]
    BY <2>1 DEF Solves
  <2>4. \A i \in 1..n + 1 : h[i - 1] = k[i - 1]
    BY <2>2
  <2>5. h[n + 1] = e
    OBVIOUS
  <2>6. ASSUME NEW i \in 0..n + 1
        PROVE  h[i] = IF i = 0 THEN <<>>
                      ELSE IF s[i] \in S THEN Append(h[i - 1], s[i]) ELSE h[i - 1]
    <3> HIDE DEF h
    <3>1. CASE i = 0
      BY <2>2, <2>3, <3>1
    <3>2. CASE i \in 1..n
      BY <2>2, <2>3, <2>4, <3>2
    <3>3. CASE i = n + 1
      BY <2>4, <2>5, <3>3
    <3> QED
      BY <3>1, <3>2, <3>3
  <2>7. Solves(h, s, S, n + 1)
    BY <2>6 DEF Solves
  <2> QED
    BY <2>7
<1>3. Nat \subseteq N
  <2> HIDE DEF N
  <2> QED
    BY <1>1, <1>2, NatSetInduction
<1> QED
  BY <1>3

LEMMA KeepIs ==
    ASSUME NEW s, NEW S, Len(s) \in Nat
    PROVE  \E k : Solves(k, s, S, Len(s)) /\ Keep(s, S) = k[Len(s)]
<1> DEFINE k == CHOOSE g : Solves(g, s, S, Len(s))
<1>1. Solves(k, s, S, Len(s))
  BY SolutionExists
<1>2. Keep(s, S) = k[Len(s)]
  BY DEF Keep, Solves
<1> QED
  BY <1>1, <1>2

LEMMA SolutionsAgree ==
    ASSUME NEW s, NEW t, NEW S, NEW k, NEW h, NEW n \in Nat, NEW m \in Nat,
           Solves(k, s, S, n), Solves(h, t, S, m), \A i \in 1..n : i <= m => s[i] = t[i]
    PROVE  \A i \in Nat : i <= n /\ i <= m => k[i] = h[i]
<1> DEFINE N == {i \in Nat : i <= n /\ i <= m => k[i] = h[i]}
<1>1. /\ \A i \in 0..n : k[i] = IF i = 0 THEN <<>>
                        ELSE IF s[i] \in S THEN Append(k[i - 1], s[i]) ELSE k[i - 1]
      /\ \A i \in 0..m : h[i] = IF i = 0 THEN <<>>
                        ELSE IF t[i] \in S THEN Append(h[i - 1], t[i]) ELSE h[i - 1]
  BY DEF Solves
<1>2. 0 \in N
  BY <1>1
<1>3. ASSUME NEW i \in Nat, i \in N PROVE i + 1 \in N
  <2> SUFFICES ASSUME i + 1 <= n, i + 1 <= m PROVE k[i + 1] = h[i + 1]
    OBVIOUS
  <2>1. k[i] = h[i] /\ s[i + 1] = t[i + 1] /\ i + 1 \in 0..n /\ i + 1 \in 0..m /\ i + 1 # 0
        /\ (i + 1) - 1 = i
    BY <1>3
  <2> QED
    BY <1>1, <2>1
<1>4. Nat \subseteq N
  <2> HIDE DEF N
  <2> QED
    BY <1>2, <1>3, NatSetInduction
<1> QED
  BY <1>4

----------------------------------------------------------------------------
(* Keep, element by element.                                                 *)

LEMMA KeepEmpty == ASSUME NEW S PROVE Keep(<<>>, S) = <<>>
<1>1. PICK k : Solves(k, <<>>, S, 0) /\ Keep(<<>>, S) = k[0]
  BY KeepIs
<1> QED
  BY <1>1 DEF Solves

LEMMA KeepAppend ==
    ASSUME NEW T, NEW s \in Seq(T), NEW e \in T, NEW S
    PROVE  Keep(Append(s, e), S) = IF e \in S THEN Append(Keep(s, S), e) ELSE Keep(s, S)
<1> DEFINE t == Append(s, e)
           n == Len(s)
<1>1. n \in Nat /\ Len(t) = n + 1 /\ t[n + 1] = e /\ \A i \in 1..n : t[i] = s[i]
  OBVIOUS
<1>2. PICK k : Solves(k, s, S, n) /\ Keep(s, S) = k[n]
  BY <1>1, KeepIs
<1> HIDE DEF t, n
<1>3. PICK h : Solves(h, t, S, n + 1) /\ Keep(t, S) = h[n + 1]
  BY <1>1, KeepIs
<1>4. h[n] = k[n]
  <2>1. \A i \in 1..n : i <= n + 1 => s[i] = t[i]
    BY <1>1
  <2>2. \A i \in Nat : i <= n /\ i <= n + 1 => k[i] = h[i]
    BY <1>1, <1>2, <1>3, <2>1, SolutionsAgree
  <2> QED
    BY <1>1, <2>2
<1>5. h[n + 1] = IF t[n + 1] \in S THEN Append(h[n], t[n + 1]) ELSE h[n]
  <2>1. n + 1 \in 0..n + 1 /\ n + 1 # 0 /\ (n + 1) - 1 = n
    BY <1>1
  <2>2. \A i \in 0..n + 1 : h[i] = IF i = 0 THEN <<>>
                        ELSE IF t[i] \in S THEN Append(h[i - 1], t[i]) ELSE h[i - 1]
    BY <1>3 DEF Solves
  <2> QED
    BY <2>1, <2>2
<1> QED
  BY <1>1, <1>2, <1>3, <1>4, <1>5 DEF t

LEMMA EmptyIsSeq == \A T : <<>> \in Seq(T)
OBVIOUS

\* What is kept is kept in a list of the same type, and nothing else is.
LEMMA KeepType ==
    ASSUME NEW T, NEW s \in Seq(T), NEW S
    PROVE  Keep(s, S) \in Seq(T \cap S)
<1> DEFINE P == {q \in Seq(T) : Keep(q, S) \in Seq(T \cap S)}
<1>1. <<>> \in P
  <2>1. Keep(<<>>, S) = <<>> /\ <<>> \in Seq(T) /\ <<>> \in Seq(T \cap S)
    BY KeepEmpty, Zenon, EmptyIsSeq
  <2> QED
    BY <2>1, Zenon
<1>2. ASSUME NEW q \in Seq(T), NEW e \in T, q \in P PROVE Append(q, e) \in P
  <2>1. PICK k \in Seq(T \cap S) : k = Keep(q, S)
    BY <1>2
  <2>2. Keep(Append(q, e), S) = IF e \in S THEN Append(k, e) ELSE k
    BY <2>1, KeepAppend
  <2>3. Append(q, e) \in Seq(T) /\ (e \in S => Append(k, e) \in Seq(T \cap S))
    OBVIOUS
  <2> QED
    BY <2>2, <2>3
<1>3. Seq(T) \subseteq P
  <2> HIDE DEF P
  <2> QED
    BY <1>1, <1>2, SeqSetInduction
<1> QED
  BY <1>3

LEMMA ConsAppend ==
    ASSUME NEW T, NEW s \in Seq(T), NEW a \in T, NEW e \in T
    PROVE  /\ <<a>> \o Append(s, e) = Append(<<a>> \o s, e)
           /\ <<a>> \o s \in Seq(T)
OBVIOUS

\* The first element is looked at first.
LEMMA KeepCons ==
    ASSUME NEW T, NEW a \in T, NEW s \in Seq(T), NEW S
    PROVE  Keep(<<a>> \o s, S) = IF a \in S THEN <<a>> \o Keep(s, S) ELSE Keep(s, S)
<1> DEFINE First == IF a \in S THEN <<a>> ELSE <<>>
           P == {q \in Seq(T) : Keep(<<a>> \o q, S) = First \o Keep(q, S)}
<1>0. \A q \in Seq(T) : Keep(q, S) \in Seq(T)
  <2>1. Seq(T \cap S) \subseteq Seq(T)
    OBVIOUS
  <2> QED
    BY <2>1, KeepType
<1>1. <<>> \in P
  <2>1. <<a>> \o <<>> = Append(<<>>, a) /\ <<>> \in Seq(T) /\ <<a>> = Append(<<>>, a)
    OBVIOUS
  <2>2. Keep(<<a>> \o <<>>, S) = First
    <3>1. PICK u \in Seq(T) : u = <<>> /\ Keep(u, S) = <<>>
      BY <2>1, KeepEmpty
    <3>2. Keep(Append(u, a), S) = IF a \in S THEN Append(u, a) ELSE u
      <4>1. Keep(Append(u, a), S) = IF a \in S THEN Append(Keep(u, S), a) ELSE Keep(u, S)
        BY KeepAppend, Zenon
      <4> QED
        BY <3>1, <4>1, Zenon
    <3>3. a \in S => Append(u, a) = <<a>>
      BY <2>1, <3>1
    <3> QED
      BY <2>1, <3>1, <3>2, <3>3, Zenon
  <2>3. First \o <<>> = First
    OBVIOUS
  <2> QED
    BY <2>1, <2>2, <2>3, KeepEmpty
<1>2. ASSUME NEW q \in Seq(T), NEW e \in T, q \in P PROVE Append(q, e) \in P
  <2>1. /\ <<a>> \o Append(q, e) = Append(<<a>> \o q, e) /\ <<a>> \o q \in Seq(T)
        /\ Keep(<<a>> \o q, S) = First \o Keep(q, S)
        /\ Append(q, e) \in Seq(T)
    <3>1. /\ <<a>> \o Append(q, e) = Append(<<a>> \o q, e) /\ <<a>> \o q \in Seq(T)
          /\ Append(q, e) \in Seq(T)
      BY ConsAppend
    <3>2. Keep(<<a>> \o q, S) = First \o Keep(q, S)
      BY <1>2
    <3> QED
      BY <3>1, <3>2
  <2>2. Keep(<<a>> \o Append(q, e), S)
          = IF e \in S THEN Append(First \o Keep(q, S), e) ELSE First \o Keep(q, S)
    <3>1. PICK u \in Seq(T) : u = <<a>> \o q
      BY <2>1
    <3>2. Keep(Append(u, e), S) = IF e \in S THEN Append(Keep(u, S), e) ELSE Keep(u, S)
      BY KeepAppend
    <3> HIDE DEF First
    <3> QED
      BY <2>1, <3>1, <3>2
  <2>3. Append(First \o Keep(q, S), e) = First \o Append(Keep(q, S), e)
    <3>1. PICK v \in Seq(T) : v = Keep(q, S)
      BY <1>0
    <3>2. CASE a \in S
      <4>1. <<a>> \o Append(v, e) = Append(<<a>> \o v, e)
        BY ConsAppend
      <4> QED
        BY <3>1, <3>2, <4>1
    <3>3. CASE a \notin S
      <4>1. <<>> \o v = v /\ <<>> \o Append(v, e) = Append(v, e)
        OBVIOUS
      <4> QED
        BY <3>1, <3>3, <4>1
    <3> QED
      BY <3>2, <3>3
  <2>4. Keep(Append(q, e), S) = IF e \in S THEN Append(Keep(q, S), e) ELSE Keep(q, S)
    BY KeepAppend
  <2> QED
    BY <2>1, <2>2, <2>3, <2>4
<1>3. Seq(T) \subseteq P
  <2> HIDE DEF P
  <2> QED
    BY <1>1, <1>2, SeqSetInduction
<1>4. Keep(<<a>> \o s, S) = First \o Keep(s, S)
  BY <1>3
<1>5. Keep(s, S) \in Seq(T)
  BY <1>0
<1>6. <<>> \o Keep(s, S) = Keep(s, S)
  BY <1>5
<1> QED
  BY <1>4, <1>6

LEMMA KeepHeadTail ==
    ASSUME NEW T, NEW s \in Seq(T), s # <<>>, NEW S
    PROVE  Keep(s, S) = IF Head(s) \in S THEN <<Head(s)>> \o Keep(Tail(s), S) ELSE Keep(Tail(s), S)
<1>1. Head(s) \in T /\ Tail(s) \in Seq(T) /\ s = <<Head(s)>> \o Tail(s)
  OBVIOUS
<1>2. PICK a \in T, t \in Seq(T) : a = Head(s) /\ t = Tail(s)
  BY <1>1
<1>3. Keep(<<a>> \o t, S) = IF a \in S THEN <<a>> \o Keep(t, S) ELSE Keep(t, S)
  BY KeepCons
<1> QED
  BY <1>1, <1>2, <1>3

----------------------------------------------------------------------------
(* How often an element occurs.                                              *)

LEMMA OccursAppend ==
    ASSUME NEW T, NEW s \in Seq(T), NEW e \in T, NEW g
    PROVE  /\ Occurs(g, Append(s, e)) <=> g = e \/ Occurs(g, s)
           /\ OccursOnce(g, Append(s, e)) <=>
                 IF g = e THEN ~Occurs(g, s) ELSE OccursOnce(g, s)
<1> DEFINE t == Append(s, e)
           n == Len(s)
<1>1. /\ n \in Nat /\ DOMAIN s = 1..n /\ DOMAIN t = 1..n + 1 /\ t[n + 1] = e
      /\ \A i \in 1..n : t[i] = s[i]
      /\ \A i \in 1..n + 1 : i \in 1..n \/ i = n + 1
      /\ n + 1 \in 1..n + 1 /\ n + 1 \notin 1..n /\ \A i \in 1..n : i \in 1..n + 1
  OBVIOUS
<1> HIDE DEF t, n
<1>2. Occurs(g, t) <=> g = e \/ Occurs(g, s)
  BY <1>1 DEF Occurs
<1>3. g = e => (OccursOnce(g, t) <=> ~Occurs(g, s))
  BY <1>1 DEF Occurs, OccursOnce
<1>4. ASSUME g # e PROVE OccursOnce(g, t) <=> OccursOnce(g, s)
  <2>1. ASSUME NEW i \in 1..n + 1, \A j \in 1..n + 1 : t[j] = g <=> j = i
        PROVE  OccursOnce(g, s)
    <3>1. i \in 1..n
      BY <1>1, <1>4, <2>1
    <3>2. \A j \in 1..n : s[j] = g <=> j = i
      BY <1>1, <2>1
    <3>3. i \in DOMAIN s /\ \A j \in DOMAIN s : s[j] = g <=> j = i
      BY <1>1, <3>1, <3>2
    <3> QED
      BY <3>3 DEF OccursOnce
  <2>2. ASSUME NEW i \in 1..n, \A j \in 1..n : s[j] = g <=> j = i
        PROVE  OccursOnce(g, t)
    <3>1. \A j \in 1..n + 1 : t[j] = g <=> j = i
      BY <1>1, <1>4, <2>2
    <3>2. i \in DOMAIN t /\ \A j \in DOMAIN t : t[j] = g <=> j = i
      BY <1>1, <3>1
    <3> QED
      BY <3>2 DEF OccursOnce
  <2>3. ASSUME OccursOnce(g, t) PROVE OccursOnce(g, s)
    <3>1. PICK i \in DOMAIN t : \A j \in DOMAIN t : t[j] = g <=> j = i
      BY <2>3 DEF OccursOnce
    <3>2. i \in 1..n + 1 /\ \A j \in 1..n + 1 : t[j] = g <=> j = i
      BY <1>1, <3>1
    <3> QED
      BY <2>1, <3>2
  <2>4. ASSUME OccursOnce(g, s) PROVE OccursOnce(g, t)
    <3>1. PICK i \in DOMAIN s : \A j \in DOMAIN s : s[j] = g <=> j = i
      BY <2>4 DEF OccursOnce
    <3>2. i \in 1..n /\ \A j \in 1..n : s[j] = g <=> j = i
      BY <1>1, <3>1
    <3> QED
      BY <2>2, <3>2
  <2> QED
    BY <2>3, <2>4
<1> QED
  BY <1>2, <1>3, <1>4 DEF t

\* What is taken out is gone; the rest occurs as often as before.
LEMMA KeepOccurs ==
    ASSUME NEW T, NEW s \in Seq(T), NEW S, NEW g
    PROVE  /\ Occurs(g, Keep(s, S)) <=> g \in S /\ Occurs(g, s)
           /\ OccursOnce(g, Keep(s, S)) <=> g \in S /\ OccursOnce(g, s)
<1> DEFINE P == {q \in Seq(T) : /\ Occurs(g, Keep(q, S)) <=> g \in S /\ Occurs(g, q)
                                /\ OccursOnce(g, Keep(q, S)) <=> g \in S /\ OccursOnce(g, q)}
<1>1. <<>> \in P
  BY KeepEmpty DEF Occurs, OccursOnce
<1>2. ASSUME NEW q \in Seq(T), NEW e \in T, q \in P PROVE Append(q, e) \in P
  <2>1. Append(q, e) \in Seq(T) /\ Keep(q, S) \in Seq(T)
    <3>1. Seq(T \cap S) \subseteq Seq(T)
      OBVIOUS
    <3> QED
      BY <3>1, KeepType
  <2>2. PICK k \in Seq(T) : k = Keep(q, S)
    BY <2>1
  <2>3. Keep(Append(q, e), S) = IF e \in S THEN Append(k, e) ELSE k
    BY <2>2, KeepAppend
  <2>4. /\ Occurs(g, Append(q, e)) <=> g = e \/ Occurs(g, q)
        /\ OccursOnce(g, Append(q, e)) <=> IF g = e THEN ~Occurs(g, q) ELSE OccursOnce(g, q)
        /\ Occurs(g, Append(k, e)) <=> g = e \/ Occurs(g, k)
        /\ OccursOnce(g, Append(k, e)) <=> IF g = e THEN ~Occurs(g, k) ELSE OccursOnce(g, k)
    BY OccursAppend
  <2> QED
    BY <1>2, <2>1, <2>2, <2>3, <2>4
<1>3. Seq(T) \subseteq P
  <2> HIDE DEF P
  <2> QED
    BY <1>1, <1>2, SeqSetInduction
<1> QED
  BY <1>3
============================================================================
