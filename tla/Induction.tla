------------------------------- MODULE Induction -------------------------------
(***************************************************************************)
(* Induction over the naturals with sets in the place of operators.  The   *)
(* theorems of NaturalsInduction take the property, or the equation of a   *)
(* recursive function, as an operator; here the property is a set of       *)
(* numbers and the equation a function, which any prover can instantiate.  *)
(* Then what the operators of Loops do, proved by such inductions.          *)
(***************************************************************************)
EXTENDS Naturals, FiniteSetTheorems, SequenceTheorems, WellFoundedInduction, Loops, TLAPS

\* A set of numbers that is not empty has a smallest element.
LEMMA SmallestExists ==
    ASSUME NEW S \in SUBSET Nat, S # {}
    PROVE  \E m \in S : \A n \in S : m <= n
<1> DEFINE Less == {ss \in Nat \X Nat : ss[1] < ss[2]}
<1>1. IsWellFoundedOn(Less, Nat)
  BY NatLessThanWellFounded, Zenon DEF OpToRel
<1>2. PICK m \in S : \A n \in S : ~(<<n, m>> \in Less)
  BY <1>1, WFMin, Zenon
<1>3. ASSUME NEW n \in S PROVE m <= n
  <2>1. m \in Nat /\ n \in Nat /\ ~(n < m)
    BY <1>2
  <2> QED BY <2>1
<1> QED BY <1>3

\* A set of numbers with 0 and the successor of each element has all of them.
LEMMA SetInduction ==
    ASSUME NEW S, 0 \in S, \A n \in Nat : n \in S => n + 1 \in S
    PROVE  Nat \subseteq S
<1> DEFINE Rest == Nat \ S
<1> SUFFICES ASSUME Rest # {} PROVE FALSE
  OBVIOUS
<1>1. PICK m \in Rest : \A n \in Rest : m <= n
  <2>1. Rest \in SUBSET Nat
    OBVIOUS
  <2> HIDE DEF Rest
  <2> QED BY <2>1, SmallestExists
<1>2. m \in Nat /\ m # 0
  OBVIOUS
<1>3. m - 1 \in Nat /\ m - 1 \notin Rest
  <2>1. m - 1 \in Nat /\ ~(m <= m - 1)
    BY <1>2
  <2> QED BY <1>1, <2>1
<1>4. m - 1 \in S /\ (m - 1) + 1 = m
  BY <1>2, <1>3
<1> QED BY <1>3, <1>4

\* The same up to N.
LEMMA IntervalInduction ==
    ASSUME NEW N \in Nat, NEW S, 0 \in S, \A n \in 0 .. N : n \in S /\ n < N => n + 1 \in S
    PROVE  0 .. N \subseteq S
<1> DEFINE T == {n \in Nat : n <= N => n \in S}
<1>1. 0 \in T
  OBVIOUS
<1>2. ASSUME NEW n \in Nat, n \in T PROVE n + 1 \in T
  <2>1. CASE n + 1 <= N
    <3>1. n \in 0 .. N /\ n < N /\ n \in S
      BY <1>2, <2>1
    <3> QED BY <3>1
  <2>2. CASE ~(n + 1 <= N)
    BY <2>2
  <2> QED BY <2>1, <2>2
<1>3. Nat \subseteq T
  <2> HIDE DEF T
  <2> QED BY <1>1, <1>2, SetInduction
<1> QED BY <1>3

\* A set of numbers up to N that is not empty has a largest element.
LEMMA LargestExists ==
    ASSUME NEW N \in Nat, NEW S \in SUBSET (0 .. N), S # {}
    PROVE  \E m \in S : \A n \in S : n <= m
<1> DEFINE Above == {n \in Nat : \A g \in S : g <= n}
<1>1. Above \in SUBSET Nat /\ N \in Above
  OBVIOUS
<1>2. PICK m \in Above : \A n \in Above : m <= n
  <2> HIDE DEF Above
  <2> QED BY <1>1, SmallestExists
<1>3. m \in S
  <2> SUFFICES ASSUME m \notin S PROVE FALSE
    OBVIOUS
  <2>1. m \in Nat /\ \A g \in S : g \in Nat /\ g <= m /\ g # m
    OBVIOUS
  <2>2. m # 0
    <3>1. PICK g \in S : g \in Nat /\ g <= m /\ g # m
      BY <2>1
    <3> QED BY <3>1
  <2>3. m - 1 \in Nat /\ \A g \in S : g <= m - 1
    BY <2>1, <2>2
  <2>4. m - 1 \in Above
    BY <2>3
  <2>5. m <= m - 1
    BY <1>2, <2>4
  <2> QED BY <2>1, <2>5
<1> QED BY <1>3

\* g begins with first, and each value up to N is step of the one before it.
Iterates(g, N, first, step) ==
    /\ g[0] = first
    /\ \A i \in 1 .. N : g[i] = step[<<i, g[i - 1]>>]

\* Whatever a function says of the next value, some function follows it from 0
\* to N: what a recursive definition needs to define anything.
LEMMA RecursionExists ==
    ASSUME NEW N \in Nat, NEW A, NEW first \in A, NEW step \in [(1 .. N) \X A -> A]
    PROVE  \E g \in [0 .. N -> A] : Iterates(g, N, first, step)
<1> USE DEF Iterates
<1> DEFINE Some(n) == \E g \in [0 .. n -> A] : Iterates(g, n, first, step)
           S == {n \in 0 .. N : Some(n)}
<1>1. Some(0)
  <2>1. [i \in 0 .. 0 |-> first] \in [0 .. 0 -> A] /\ Iterates([i \in 0 .. 0 |-> first], 0, first, step)
    OBVIOUS
  <2> HIDE DEF Iterates
  <2> QED BY <2>1
<1>2. ASSUME NEW n \in 0 .. N, Some(n), n < N PROVE Some(n + 1)
  <2>1. PICK g \in [0 .. n -> A] : Iterates(g, n, first, step)
    BY <1>2
  <2> DEFINE h == [i \in 0 .. n + 1 |-> IF i = n + 1 THEN step[<<n + 1, g[n]>>] ELSE g[i]]
  <2>2. n + 1 \in 1 .. N /\ g[n] \in A
    BY <1>2
  <2>3. step[<<n + 1, g[n]>>] \in A
    BY <2>2
  <2>4. h \in [0 .. n + 1 -> A]
    BY <2>3
  <2>5. h[0] = first
    BY <2>1
  <2>6. ASSUME NEW i \in 1 .. n + 1 PROVE h[i] = step[<<i, h[i - 1]>>]
    <3>1. CASE i = n + 1
      <4>1. h[n + 1] = step[<<n + 1, g[n]>>] /\ h[n] = g[n]
        OBVIOUS
      <4>2. i - 1 = n
        BY <3>1
      <4> HIDE DEF h
      <4> QED BY <3>1, <4>1, <4>2
    <3>2. CASE i # n + 1
      <4>1. i \in 1 .. n /\ i - 1 \in 0 .. n
        BY <3>2
      <4>2. h[i] = g[i] /\ h[i - 1] = g[i - 1]
        BY <4>1
      <4> QED BY <2>1, <4>1, <4>2
    <3> QED BY <3>1, <3>2
  <2>7. Iterates(h, n + 1, first, step)
    BY <2>5, <2>6
  <2> HIDE DEF Iterates, h
  <2> QED BY <2>4, <2>7
<1>3. 0 .. N \subseteq S
  <2>1. 0 \in S
    BY <1>1
  <2>2. ASSUME NEW n \in 0 .. N, n \in S, n < N PROVE n + 1 \in S
    <3>1. Some(n) /\ n + 1 \in 0 .. N
      BY <2>2
    <3>2. Some(n + 1)
      BY <1>2, <2>2, <3>1
    <3> HIDE DEF Some
    <3> QED BY <3>1, <3>2
  <2> HIDE DEF S
  <2> QED BY <2>1, <2>2, IntervalInduction
<1>4. Some(N)
  <2> HIDE DEF Some
  <2> QED BY <1>3
<1> QED BY <1>4

-----------------------------------------------------------------------------
(* Loops, filters, orders and sums over what a function is given *)

\* A sequence with one more at its end.
LEMMA RangeOfAppend ==
    ASSUME NEW X, NEW s \in Seq(X), NEW x \in X
    PROVE  Append(s, x) \in Seq(X) /\ Range(Append(s, x)) = Range(s) \cup {x}
<1> DEFINE z == Append(s, x)
<1>1. /\ z \in Seq(X) /\ Len(z) = Len(s) + 1 /\ Len(s) \in Nat /\ DOMAIN s = 1 .. Len(s)
      /\ DOMAIN z = 1 .. Len(s) + 1
      /\ z[Len(s) + 1] = x /\ \A i \in 1 .. Len(s) : z[i] = s[i]
  OBVIOUS
<1> HIDE DEF z
<1>2. 1 .. Len(s) + 1 = (1 .. Len(s)) \cup {Len(s) + 1}
  BY <1>1
<1>3. Range(z) = {z[i] : i \in (1 .. Len(s)) \cup {Len(s) + 1}} /\ Range(s) = {s[i] : i \in 1 .. Len(s)}
  BY <1>1, <1>2 DEF Range
<1>4. Range(z) = Range(s) \cup {x}
  BY <1>1, <1>3
<1> QED BY <1>1, <1>4 DEF z

\* Two sequences one after the other.
LEMMA ConcatIs ==
    ASSUME NEW S, NEW s \in Seq(S), NEW t \in Seq(S)
    PROVE  s \o t \in Seq(S) /\ Range(s \o t) = Range(s) \cup Range(t) /\ Len(s \o t) = Len(s) + Len(t)
BY ConcatProperties, RangeConcatenation

\* Among keeps the members that are in the set, and no others.
LEMMA AmongIs ==
    ASSUME NEW X, NEW S, NEW s \in Seq(X)
    PROVE  /\ Among(s, S) \in Seq(X) /\ Len(Among(s, S)) <= Len(s)
           /\ Range(Among(s, S)) = Range(s) \cap S
<1> DEFINE N == Len(s)
           A == Seq(X)
           first == <<>>
           To(n, x) == IF s[n] \in S THEN Append(x, s[n]) ELSE x
<1>0. DOMAIN s = 1 .. N /\ \A n \in 1 .. N : s[n] \in X
  OBVIOUS
<1>1. N \in Nat /\ first \in A
  OBVIOUS
<1>2. \A n \in 1 .. N, x \in A : To(n, x) \in A
  BY <1>0
<1>3. Among(s, S) = (CHOOSE h : h = [n \in 0 .. N |-> IF n = 0 THEN first ELSE To(n, h[n - 1])])[N]
  BY DEF Among, Walked
<1> HIDE DEF N, A, first, To
<1> DEFINE step == [x \in (1 .. N) \X A |-> To(x[1], x[2])]
           Walk(h) == h = [n \in 0 .. N |-> IF n = 0 THEN first ELSE To(n, h[n - 1])]
           c == CHOOSE h : Walk(h)
<1>4. step \in [(1 .. N) \X A -> A]
  BY <1>2
<1>5. PICK g \in [0 .. N -> A] : Iterates(g, N, first, step)
  <2> HIDE DEF step
  <2> QED BY <1>1, <1>4, RecursionExists
<1>6. Walk(g)
  <2>1. ASSUME NEW n \in 0 .. N PROVE g[n] = IF n = 0 THEN first ELSE To(n, g[n - 1])
    <3>1. CASE n = 0
      BY <1>5, <3>1 DEF Iterates
    <3>2. CASE n # 0
      <4>1. n \in 1 .. N /\ n - 1 \in 0 .. N
        BY <1>1, <3>2
      <4>2. g[n] = step[<<n, g[n - 1]>>]
        BY <1>5, <4>1 DEF Iterates
      <4> QED BY <3>2, <4>1, <4>2
    <3> QED BY <3>1, <3>2
  <2> QED BY <2>1
<1>7. Walk(c)
  <2> HIDE DEF Walk
  <2> QED BY <1>6
<1> HIDE DEF c
<1>8. c[0] = first /\ \A n \in 1 .. N : c[n] = To(n, c[n - 1])
  <2>1. \A n \in 0 .. N : c[n] = IF n = 0 THEN first ELSE To(n, c[n - 1])
    BY <1>7, Zenon
  <2> QED BY <1>1, <2>1
<1>9. c \in [0 .. N -> A]
  <2> DEFINE Typed == {n \in 0 .. N : c[n] \in A}
  <2>1. 0 \in Typed
    BY <1>1, <1>8
  <2>2. ASSUME NEW n \in 0 .. N, n \in Typed, n < N PROVE n + 1 \in Typed
    <3>1. n + 1 \in 1 .. N /\ (n + 1) - 1 = n
      BY <1>1, <2>2
    <3>2. c[n + 1] = To(n + 1, c[n])
      BY <1>8, <3>1
    <3> QED BY <1>1, <1>2, <2>2, <3>1, <3>2
  <2>3. 0 .. N \subseteq Typed
    <3> HIDE DEF Typed
    <3> QED BY <1>1, <2>1, <2>2, IntervalInduction
  <2>4. c = [n \in 0 .. N |-> c[n]]
    BY <1>7, Zenon
  <2> QED BY <2>3, <2>4
<1>10. Among(s, S) = c[N]
  BY <1>3, Zenon DEF c
<1> DEFINE Seen(n) == {s[j] : j \in 1 .. n}
           Good(n) == Len(c[n]) <= n /\ Range(c[n]) = Seen(n) \cap S
           G == {n \in 0 .. N : Good(n)}
<1>11. Good(0)
  BY <1>8 DEF first, Range
<1>12. ASSUME NEW n \in 0 .. N, n < N, Good(n) PROVE Good(n + 1)
  <2>1. n + 1 \in 1 .. N /\ (n + 1) - 1 = n /\ n \in Nat
    BY <1>1, <1>12
  <2>2. c[n] \in Seq(X) /\ s[n + 1] \in X
    BY <1>0, <1>9, <2>1 DEF A
  <2>3. c[n + 1] = IF s[n + 1] \in S THEN Append(c[n], s[n + 1]) ELSE c[n]
    BY <1>8, <2>1 DEF To
  <2>4. Seen(n + 1) = Seen(n) \cup {s[n + 1]}
    <3>1. 1 .. n + 1 = (1 .. n) \cup {n + 1}
      BY <2>1
    <3> QED BY <3>1
  <2>5. Len(Append(c[n], s[n + 1])) = Len(c[n]) + 1 /\ Len(c[n]) \in Nat
    BY <2>2
  <2>6. Range(Append(c[n], s[n + 1])) = Range(c[n]) \cup {s[n + 1]}
    BY <2>2, RangeOfAppend
  <2> HIDE DEF Seen
  <2>7. CASE s[n + 1] \in S
    BY <1>12, <2>1, <2>3, <2>4, <2>5, <2>6, <2>7
  <2>8. CASE s[n + 1] \notin S
    BY <1>12, <2>1, <2>3, <2>4, <2>5, <2>8
  <2> QED BY <2>7, <2>8
<1>13. Good(N)
  <2> HIDE DEF Good
  <2>1. 0 \in G
    BY <1>1, <1>11
  <2>2. ASSUME NEW n \in 0 .. N, n \in G, n < N PROVE n + 1 \in G
    BY <1>1, <1>12, <2>2
  <2>3. 0 .. N \subseteq G
    <3> HIDE DEF G
    <3> QED BY <1>1, <2>1, <2>2, IntervalInduction
  <2> QED BY <1>1, <2>3
<1>14. Seen(N) = Range(s)
  BY <1>0 DEF Range
<1>15. c[N] \in A /\ Len(c[N]) <= N
  BY <1>1, <1>9, <1>13
<1> QED BY <1>10, <1>13, <1>14, <1>15 DEF A, N

\* A strict order on the members of S that compares any two of them.
StrictOrder(S, order) ==
    /\ \A a \in S : <<a, a>> \notin order
    /\ \A a, b, c \in S : <<a, b>> \in order /\ <<b, c>> \in order => <<a, c>> \in order
    /\ \A a, b \in S : a = b \/ <<a, b>> \in order \/ <<b, a>> \in order

\* Some member of a finite set comes last.
LEMMA LastExists ==
    ASSUME NEW S, IsFiniteSet(S), NEW order, StrictOrder(S, order)
    PROVE  \A U \in SUBSET S : U # {} => \E m \in U : \A x \in U \ {m} : <<x, m>> \in order
<1> DEFINE HasLast(U) == \E m \in U : \A x \in U \ {m} : <<x, m>> \in order
           G == {n \in Nat : \A U \in SUBSET S : Cardinality(U) = n /\ U # {} => HasLast(U)}
<1>1. 0 \in G
  <2>1. ASSUME NEW U \in SUBSET S, Cardinality(U) = 0 PROVE U = {}
    <3>1. IsFiniteSet(U)
      BY FS_Subset
    <3> QED BY <2>1, <3>1, FS_EmptySet
  <2> QED BY <2>1
<1>2. ASSUME NEW n \in Nat, n \in G PROVE n + 1 \in G
  <2> SUFFICES ASSUME NEW U \in SUBSET S, Cardinality(U) = n + 1, U # {} PROVE HasLast(U)
    OBVIOUS
  <2>1. PICK x \in U : TRUE
    OBVIOUS
  <2> DEFINE V == U \ {x}
  <2>2. IsFiniteSet(U) /\ V \in SUBSET S
    <3>1. IsFiniteSet(U)
      BY FS_Subset
    <3> QED BY <3>1
  <2>3. Cardinality(V) = n
    <3>1. Cardinality(V) = Cardinality(U) - 1
      BY <2>1, <2>2, FS_RemoveElement, Zenon
    <3> QED BY <3>1
  <2>4. CASE V = {}
    <3>1. \A y \in U \ {x} : FALSE
      BY <2>4
    <3> QED BY <3>1
  <2>5. CASE V # {}
    <3>1. PICK m \in V : \A y \in V \ {m} : <<y, m>> \in order
      BY <1>2, <2>2, <2>3, <2>5
    <3>2. m \in S /\ x \in S /\ m # x /\ m \in U
      OBVIOUS
    <3>3. CASE <<x, m>> \in order
      <4>1. \A y \in U \ {m} : <<y, m>> \in order
        BY <3>1, <3>3
      <4> QED BY <3>2, <4>1
    <3>4. CASE <<m, x>> \in order
      <4>1. ASSUME NEW y \in U \ {x} PROVE <<y, x>> \in order
        <5>1. y \in S /\ (y = m \/ <<y, m>> \in order)
          BY <3>1
        <5> QED BY <3>2, <3>4, <5>1 DEF StrictOrder
      <4> QED BY <4>1
    <3> QED BY <3>2, <3>3, <3>4 DEF StrictOrder
  <2> QED BY <2>4, <2>5
<1>3. Nat \subseteq G
  <2> HIDE DEF G
  <2> QED BY <1>1, <1>2, SetInduction
<1>4. ASSUME NEW U \in SUBSET S, U # {} PROVE HasLast(U)
  <2>1. Cardinality(U) \in Nat
    BY FS_Subset, FS_CardinalityType
  <2>2. Cardinality(U) \in G
    BY <1>3, <2>1
  <2> HIDE DEF HasLast
  <2> QED BY <1>4, <2>2
<1> QED BY <1>4

\* The members of a finite set in their order: each once, and none before one
\* that it comes after.
LEMMA OrderedIs ==
    ASSUME NEW S, IsFiniteSet(S), NEW order, StrictOrder(S, order)
    PROVE  /\ Ordered(S, order) \in Seq(S) /\ Len(Ordered(S, order)) = Cardinality(S)
           /\ Range(Ordered(S, order)) = S /\ Cardinality(S) \in Nat
           /\ \A i, j \in 1 .. Cardinality(S) : Ordered(S, order)[i] = Ordered(S, order)[j] => i = j
           /\ \A i, j \in 1 .. Cardinality(S) :
                 i < j => <<Ordered(S, order)[i], Ordered(S, order)[j]>> \in order
<1> DEFINE InOrder(n, s) == \A i, j \in 1 .. n : i < j => <<s[i], s[j]>> \in order
           Sortable(n, U) == \E s \in [1 .. n -> U] : InOrder(n, s)
           G == {n \in Nat : \A U \in SUBSET S : Cardinality(U) = n => Sortable(n, U)}
<1>1. 0 \in G
  <2>1. ASSUME NEW U \in SUBSET S PROVE Sortable(0, U)
    <3>1. <<>> \in [1 .. 0 -> U] /\ InOrder(0, <<>>)
      OBVIOUS
    <3> QED BY <3>1
  <2> QED BY <2>1
<1>2. ASSUME NEW n \in Nat, n \in G PROVE n + 1 \in G
  <2> SUFFICES ASSUME NEW U \in SUBSET S, Cardinality(U) = n + 1 PROVE Sortable(n + 1, U)
    OBVIOUS
  <2>1. IsFiniteSet(U)
    BY FS_Subset
  <2>2. U # {}
    <3>1. n + 1 # 0
      OBVIOUS
    <3> QED BY <3>1, FS_EmptySet
  <2>3. PICK m \in U : \A x \in U \ {m} : <<x, m>> \in order
    BY <2>2, LastExists
  <2> DEFINE V == U \ {m}
  <2>4. V \in SUBSET S /\ Cardinality(V) = n
    BY <2>1, FS_RemoveElement
  <2>5. PICK s \in [1 .. n -> V] : InOrder(n, s)
    BY <1>2, <2>4
  <2> DEFINE t == [i \in 1 .. n + 1 |-> IF i = n + 1 THEN m ELSE s[i]]
  <2>6. \A i \in 1 .. n + 1 : i # n + 1 => i \in 1 .. n
    OBVIOUS
  <2>7. \A i \in 1 .. n : s[i] \in V
    OBVIOUS
  <2>8. t \in [1 .. n + 1 -> U]
    BY <2>6, <2>7
  <2>9. InOrder(n + 1, t)
    <3> SUFFICES ASSUME NEW i \in 1 .. n + 1, NEW j \in 1 .. n + 1, i < j
                 PROVE  <<t[i], t[j]>> \in order
      OBVIOUS
    <3>1. i # n + 1 /\ i \in 1 .. n
      OBVIOUS
    <3>2. t[i] = s[i]
      BY <3>1
    <3>3. CASE j = n + 1
      <4>1. t[j] = m
        BY <3>3
      <4> QED BY <2>3, <2>7, <3>1, <3>2, <4>1
    <3>4. CASE j # n + 1
      <4>1. j \in 1 .. n /\ t[j] = s[j]
        BY <3>4
      <4> QED BY <2>5, <3>1, <3>2, <4>1
    <3> QED BY <3>3, <3>4
  <2> HIDE DEF t, InOrder
  <2> QED BY <2>8, <2>9
<1>3. Nat \subseteq G
  <2> HIDE DEF G
  <2> QED BY <1>1, <1>2, SetInduction
<1> DEFINE N == Cardinality(S)
           o == Ordered(S, order)
<1>4. N \in Nat
  BY FS_CardinalityType
<1>5. Sortable(N, S)
  <2>1. N \in G
    BY <1>3, <1>4
  <2> QED BY <2>1
<1>6. o \in [1 .. N -> S] /\ InOrder(N, o)
  BY <1>5, Zenon DEF Ordered
<1> HIDE DEF o
<1>7. \A i, j \in 1 .. N : o[i] = o[j] => i = j
  <2> SUFFICES ASSUME NEW i \in 1 .. N, NEW j \in 1 .. N, o[i] = o[j], i # j PROVE FALSE
    OBVIOUS
  <2>1. i < j \/ j < i
    BY <1>4
  <2>2. <<o[i], o[j]>> \in order \/ <<o[j], o[i]>> \in order
    BY <1>6, <2>1
  <2>3. o[i] \in S
    BY <1>6
  <2> QED BY <2>2, <2>3 DEF StrictOrder
<1>8. o \in Surjection(1 .. N, S)
  <2>1. o \in Injection(1 .. N, S)
    BY <1>6, <1>7 DEF Injection, IsInjective
  <2>2. 1 \in Int /\ N \in Int
    BY <1>4
  <2>3. IsFiniteSet(1 .. N) /\ Cardinality(1 .. N) = IF 1 > N THEN 0 ELSE N - 1 + 1
    BY <2>2, FS_Interval
  <2>4. Cardinality(1 .. N) = N
    BY <1>4, <2>3
  <2> QED BY <2>1, <2>3, <2>4, FS_Injection
<1>9. Range(o) = S
  <2>1. \A x \in S : \E i \in 1 .. N : o[i] = x
    BY <1>8 DEF Surjection
  <2> QED BY <1>6, <2>1 DEF Range
<1>10. o \in Seq(S) /\ Len(o) = N
  BY <1>4, <1>6
<1> QED BY <1>4, <1>6, <1>7, <1>9, <1>10 DEF o

\* A set of subsets of a finite set that has {}, and with each set those of one
\* member more, has them all.
LEMMA SubsetInduction ==
    ASSUME NEW S, IsFiniteSet(S), NEW G, {} \in G,
           \A U \in SUBSET S : U \in G => \A x \in S \ U : U \cup {x} \in G
    PROVE  SUBSET S \subseteq G
<1> DEFINE T == {n \in Nat : \A U \in SUBSET S : Cardinality(U) = n => U \in G}
<1>1. \A U \in SUBSET S : IsFiniteSet(U) /\ Cardinality(U) \in Nat
  BY FS_Subset, FS_CardinalityType
<1>2. 0 \in T
  BY <1>1, FS_EmptySet
<1>3. ASSUME NEW n \in Nat, n \in T PROVE n + 1 \in T
  <2> SUFFICES ASSUME NEW U \in SUBSET S, Cardinality(U) = n + 1 PROVE U \in G
    OBVIOUS
  <2>1. U # {}
    <3>1. n + 1 # 0
      OBVIOUS
    <3> QED BY <3>1, FS_EmptySet
  <2>2. PICK x \in U : TRUE
    BY <2>1
  <2> DEFINE V == U \ {x}
  <2>3. Cardinality(V) = Cardinality(U) - 1
    BY <1>1, <2>2, FS_RemoveElement, Zenon
  <2>4. Cardinality(V) = n /\ V \in SUBSET S
    BY <2>3
  <2>5. V \in G
    BY <1>3, <2>4
  <2>6. V \cup {x} = U /\ x \in S \ V
    OBVIOUS
  <2> HIDE DEF V
  <2> QED BY <2>4, <2>5, <2>6
<1>4. Nat \subseteq T
  <2> HIDE DEF T
  <2> QED BY <1>2, <1>3, SetInduction
<1>5. ASSUME NEW U \in SUBSET S PROVE U \in G
  <2>1. Cardinality(U) \in T
    BY <1>1, <1>4
  <2> QED BY <2>1
<1> QED BY <1>5

\* A sum is built of a number less and less, whichever is taken first.
SumsUp(f, g, S) ==
    /\ g \in [SUBSET S -> Nat] /\ g[{}] = 0
    /\ \A U \in SUBSET S : \A x \in U : g[U] = f[x] + g[U \ {x}]

\* A function of the subsets that sums up, choosing as the library does.
OneOf(U) == CHOOSE x \in U : TRUE
SumsBy(f, S, g) ==
    g = [U \in SUBSET S |-> IF U = {} THEN 0 ELSE f[OneOf(U)] + g[U \ {OneOf(U)}]]

LEMMA SumExists ==
    ASSUME NEW S, IsFiniteSet(S), NEW f, \A x \in S : f[x] \in Nat
    PROVE  \E g : SumsBy(f, S, g)
<1> DEFINE One(U) == OneOf(U)
           Rest(U) == U \ {One(U)}
           Next1(g, U) == IF U = {} THEN 0 ELSE f[One(U)] + g[Rest(U)]
           Upto(n, g) == \A U \in SUBSET S : Cardinality(U) <= n => g[U] = Next1(g, U)
           T == {n \in Nat : \E g \in [SUBSET S -> Nat] : Upto(n, g)}
<1>1. \A U \in SUBSET S : IsFiniteSet(U) /\ Cardinality(U) \in Nat
  BY FS_Subset, FS_CardinalityType
<1>2. ASSUME NEW U \in SUBSET S, U # {}
      PROVE  One(U) \in U /\ f[One(U)] \in Nat /\ Rest(U) \in SUBSET S
             /\ Cardinality(Rest(U)) = Cardinality(U) - 1
  <2>1. One(U) \in U
    BY <1>2 DEF OneOf
  <2> HIDE DEF One
  <2>2. Cardinality(U \ {One(U)}) = Cardinality(U) - 1
    BY <1>1, <2>1, FS_RemoveElement, Zenon
  <2> QED BY <2>1, <2>2
<1>3. 0 \in T
  <2> DEFINE g == [U \in SUBSET S |-> 0]
  <2>1. g \in [SUBSET S -> Nat]
    OBVIOUS
  <2>2. ASSUME NEW U \in SUBSET S, Cardinality(U) <= 0 PROVE g[U] = Next1(g, U)
    <3>1. U = {}
      BY <1>1, <2>2, FS_EmptySet
    <3> QED BY <3>1
  <2> HIDE DEF g, Next1
  <2> QED BY <2>1, <2>2
<1>4. ASSUME NEW n \in Nat, n \in T PROVE n + 1 \in T
  <2>1. PICK g \in [SUBSET S -> Nat] : Upto(n, g)
    BY <1>4
  <2> DEFINE h == [U \in SUBSET S |-> Next1(g, U)]
  <2> HIDE DEF One, Rest
  <2>2. h \in [SUBSET S -> Nat]
    BY <1>2
  <2>3. \A U \in SUBSET S : Cardinality(U) <= n => h[U] = g[U]
    BY <2>1
  <2>4. ASSUME NEW U \in SUBSET S, Cardinality(U) <= n + 1 PROVE h[U] = Next1(h, U)
    <3>1. CASE U = {}
      BY <3>1
    <3>2. CASE U # {}
      <4>1. Rest(U) \in SUBSET S /\ Cardinality(Rest(U)) <= n
        BY <1>1, <1>2, <2>4, <3>2
      <4>2. h[Rest(U)] = g[Rest(U)]
        BY <2>3, <4>1
      <4> QED BY <3>2, <4>2
    <3> QED BY <3>1, <3>2
  <2> HIDE DEF h, Next1
  <2>5. Upto(n + 1, h)
    BY <2>4
  <2> HIDE DEF Upto
  <2> QED BY <2>2, <2>5
<1>5. Nat \subseteq T
  <2> HIDE DEF T
  <2> QED BY <1>3, <1>4, SetInduction
<1>6. \E g \in [SUBSET S -> Nat] : Upto(Cardinality(S), g)
  <2>1. Cardinality(S) \in Nat
    BY FS_CardinalityType
  <2> HIDE DEF Upto
  <2> QED BY <1>5, <2>1
<1>7. PICK g \in [SUBSET S -> Nat] : Upto(Cardinality(S), g)
  BY <1>6
<1>8. \A U \in SUBSET S : Cardinality(U) <= Cardinality(S)
  BY FS_Subset
<1>9. \A U \in SUBSET S : g[U] = Next1(g, U)
  BY <1>7, <1>8
<1>10. g = [U \in SUBSET S |-> Next1(g, U)]
  <2> HIDE DEF Next1
  <2> QED BY <1>9
<1> QED BY <1>10, Zenon DEF SumsBy

LEMMA SumAddsUp ==
    ASSUME NEW S, IsFiniteSet(S), NEW f, \A x \in S : f[x] \in Nat
    PROVE  \E g : SumsUp(f, g, S) /\ SumFunctionOnSet(f, S) = g[S]
<1> DEFINE One(U) == OneOf(U)
           Rest(U) == U \ {One(U)}
           Next1(g, U) == IF U = {} THEN 0 ELSE f[One(U)] + g[Rest(U)]
           Is(g) == SumsBy(f, S, g)
           c == CHOOSE g : Is(g)
<1>1. SumFunctionOnSet(f, S) = c[S]
  BY Zenon DEF SumFunctionOnSet, FoldFunctionOnSet, MapThenFoldSet, SumsBy, OneOf
<1>2. \E g : Is(g)
  BY SumExists, Zenon
<1>3. Is(c)
  <2> HIDE DEF Is
  <2> QED BY <1>2
<1> HIDE DEF c
<1>4. \A U \in SUBSET S : c[U] = Next1(c, U)
  BY <1>3, Zenon DEF SumsBy
<1>5. c[{}] = 0
  BY <1>4
<1>6. \A U \in SUBSET S : U # {} => One(U) \in U /\ c[U] = f[One(U)] + c[U \ {One(U)}]
  BY <1>4 DEF OneOf
<1> DEFINE Good(V) == c[V] \in Nat /\ \A x \in V : c[V \ {x}] \in Nat /\ c[V] = f[x] + c[V \ {x}]
           T == {n \in Nat : \A V \in SUBSET S : Cardinality(V) <= n => Good(V)}
<1>a. \A U \in SUBSET S : IsFiniteSet(U) /\ Cardinality(U) \in Nat
  BY FS_Subset, FS_CardinalityType
<1>7. 0 \in T
  <2>1. \A V \in SUBSET S : Cardinality(V) <= 0 => V = {}
    BY <1>a, FS_EmptySet
  <2>2. Good({})
    BY <1>5
  <2> HIDE DEF Good
  <2> QED BY <2>1, <2>2
<1>8. ASSUME NEW n \in Nat, n \in T PROVE n + 1 \in T
  <2> SUFFICES ASSUME NEW V \in SUBSET S, Cardinality(V) <= n + 1, V # {} PROVE Good(V)
    <3>1. Good({})
      BY <1>5
    <3> HIDE DEF Good
    <3> QED BY <3>1
  <2> DEFINE o == One(V)
  <2>1. o \in V /\ c[V] = f[o] + c[V \ {o}]
    BY <1>6
  <2> HIDE DEF o, One
  <2>2. \A x \in V : f[x] \in Nat /\ Good(V \ {x})
    <3> SUFFICES ASSUME NEW x \in V PROVE Good(V \ {x})
      OBVIOUS
    <3>1. Cardinality(V \ {x}) = Cardinality(V) - 1
      BY <1>a, FS_RemoveElement, Zenon
    <3>2. Cardinality(V \ {x}) <= n /\ V \ {x} \in SUBSET S
      BY <1>a, <3>1
    <3> HIDE DEF Good
    <3> QED BY <1>8, <3>2
  <2>3. \A x \in V : c[V \ {x}] \in Nat
    BY <2>2
  <2>4. ASSUME NEW x \in V PROVE c[V] = f[x] + c[V \ {x}]
    <3>1. CASE x = o
      BY <2>1, <3>1
    <3>2. CASE x # o
      <4>1. x \in V \ {o} /\ o \in V \ {x} /\ (V \ {o}) \ {x} = (V \ {x}) \ {o}
        BY <2>1, <3>2
      <4>2. c[V \ {o}] = f[x] + c[(V \ {o}) \ {x}] /\ c[(V \ {o}) \ {x}] \in Nat
        BY <2>1, <2>2, <4>1
      <4>3. c[V \ {x}] = f[o] + c[(V \ {x}) \ {o}]
        BY <2>2, <4>1
      <4>4. f[x] \in Nat /\ f[o] \in Nat /\ c[V] = f[o] + c[V \ {o}]
        BY <2>1, <2>2
      <4> DEFINE p == c[(V \ {o}) \ {x}]
      <4>5. p \in Nat /\ c[V \ {o}] = f[x] + p /\ c[V \ {x}] = f[o] + p
        BY <4>1, <4>2, <4>3
      <4> HIDE DEF p
      <4>6. c[V] = f[o] + (f[x] + p)
        BY <4>4, <4>5
      <4>7. f[o] + (f[x] + p) = f[x] + (f[o] + p)
        BY <4>4, <4>5
      <4> QED BY <4>5, <4>6, <4>7
    <3> QED BY <3>1, <3>2
  <2>5. c[V] \in Nat
    BY <2>1, <2>2, <2>3
  <2> QED BY <2>3, <2>4, <2>5
<1>9. Nat \subseteq T
  <2> HIDE DEF T
  <2> QED BY <1>7, <1>8, SetInduction
<1>10. \A V \in SUBSET S : Good(V)
  <2> HIDE DEF Good
  <2> QED BY <1>a, <1>9
<1>11. c \in [SUBSET S -> Nat]
  <2>1. \A V \in SUBSET S : c[V] \in Nat
    BY <1>10
  <2>2. c = [V \in SUBSET S |-> c[V]]
    BY <1>3, Zenon DEF SumsBy
  <2> QED BY <2>1, <2>2
<1>12. SumsUp(f, c, S)
  BY <1>5, <1>10, <1>11 DEF SumsUp
<1> QED BY <1>1, <1>12

\* Two sums agree on what both have.
LEMMA SumsAgree ==
    ASSUME NEW S, IsFiniteSet(S), NEW f, \A x \in S : f[x] \in Nat,
           NEW T \in SUBSET S, NEW g, NEW h, SumsUp(f, g, S), SumsUp(f, h, T)
    PROVE  g[T] = h[T]
<1> DEFINE G == {U \in SUBSET T : g[U] = h[U]}
<1>1. {} \in G
  BY DEF SumsUp
<1>2. \A U \in SUBSET T : U \in G => \A x \in T \ U : U \cup {x} \in G
  <2> SUFFICES ASSUME NEW U \in SUBSET T, U \in G, NEW x \in T \ U PROVE g[U \cup {x}] = h[U \cup {x}]
    OBVIOUS
  <2> DEFINE V == U \cup {x}
  <2>1. V \in SUBSET T /\ V \in SUBSET S /\ x \in V /\ V \ {x} = U
    OBVIOUS
  <2> HIDE DEF V
  <2>2. g[V] = f[x] + g[U] /\ h[V] = f[x] + h[U]
    BY <2>1 DEF SumsUp
  <2> QED BY <2>2 DEF V
<1>3. IsFiniteSet(T)
  BY FS_Subset
<1>4. SUBSET T \subseteq G
  <2> HIDE DEF G
  <2> QED BY <1>1, <1>2, <1>3, SubsetInduction
<1> QED BY <1>4

\* What a sum over a finite set is: nothing for none, and a member more or less
\* is its number more or less.
LEMMA SumIs ==
    ASSUME NEW S, IsFiniteSet(S), NEW f, \A x \in S : f[x] \in Nat
    PROVE  /\ SumFunctionOnSet(f, {}) = 0
           /\ \A U \in SUBSET S : SumFunctionOnSet(f, U) \in Nat
           /\ \A U \in SUBSET S : \A x \in S \ U :
                 SumFunctionOnSet(f, U \cup {x}) = f[x] + SumFunctionOnSet(f, U)
<1>1. PICK g : SumsUp(f, g, S)
  BY SumAddsUp
<1>2. ASSUME NEW U \in SUBSET S PROVE SumFunctionOnSet(f, U) = g[U]
  <2>1. IsFiniteSet(U)
    BY FS_Subset
  <2>2. PICK h : SumsUp(f, h, U) /\ SumFunctionOnSet(f, U) = h[U]
    BY <2>1, SumAddsUp
  <2>3. g[U] = h[U]
    BY <1>1, <2>2, SumsAgree
  <2> QED BY <2>2, <2>3
<1>3. ASSUME NEW U \in SUBSET S, NEW x \in S \ U
      PROVE  SumFunctionOnSet(f, U \cup {x}) = f[x] + SumFunctionOnSet(f, U)
  <2> DEFINE V == U \cup {x}
  <2>1. V \in SUBSET S /\ x \in V /\ V \ {x} = U
    OBVIOUS
  <2> HIDE DEF V
  <2>2. g[V] = f[x] + g[U]
    BY <1>1, <2>1 DEF SumsUp
  <2> QED BY <1>2, <2>1, <2>2 DEF V
<1>4. {} \in SUBSET S /\ g[{}] = 0 /\ \A U \in SUBSET S : g[U] \in Nat
  BY <1>1 DEF SumsUp
<1> QED BY <1>2, <1>3, <1>4

\* Two or more is two that differ.
LEMMA TwoOrMore ==
    ASSUME NEW S, IsFiniteSet(S)
    PROVE  Cardinality(S) >= 2 <=> \E a, b \in S : a # b
<1>1. Cardinality(S) \in Nat
  BY FS_CardinalityType
<1>2. ASSUME NEW a \in S, NEW b \in S, a # b PROVE Cardinality(S) >= 2
  <2>1. Cardinality(S) # 0
    BY FS_EmptySet
  <2>2. Cardinality(S) # 1
    <3> SUFFICES ASSUME Cardinality(S) = 1 PROVE FALSE
      OBVIOUS
    <3>1. PICK x : S = {x}
      BY FS_Singleton
    <3> QED BY <1>2, <3>1
  <2> QED BY <1>1, <2>1, <2>2
<1>3. ASSUME Cardinality(S) >= 2 PROVE \E a, b \in S : a # b
  <2>1. S # {}
    BY <1>3, FS_EmptySet
  <2>2. PICK a \in S : TRUE
    BY <2>1
  <2>3. S # {a}
    BY <1>3, FS_Singleton
  <2> QED BY <2>2, <2>3
<1> QED BY <1>2, <1>3

\* A function has no more values on a finite set than the set has members.
LEMMA ImageFinite ==
    ASSUME NEW S, IsFiniteSet(S), NEW f
    PROVE  IsFiniteSet({f[x] : x \in S}) /\ Cardinality({f[x] : x \in S}) <= Cardinality(S)
<1> DEFINE T == {f[x] : x \in S}
           g == [x \in S |-> f[x]]
<1>1. g \in [S -> T] /\ \A y \in T : \E x \in S : g[x] = y
  OBVIOUS
<1> HIDE DEF g, T
<1>2. g \in Surjection(S, T)
  BY <1>1 DEF Surjection
<1>3. IsFiniteSet(T) /\ Cardinality(T) <= Cardinality(S)
  BY <1>2, FS_Surjection
<1> QED BY <1>3 DEF T

\* What is chained is what the sequences have.
LEMMA ChainedIs ==
    ASSUME NEW X, NEW ss \in Seq(Seq(X))
    PROVE  /\ Chained(ss) \in Seq(X)
           /\ Range(Chained(ss)) = UNION {Range(ss[k]) : k \in DOMAIN ss}
<1> DEFINE N == Len(ss)
           A == Seq(X)
           first == <<>>
           To(n, x) == x \o ss[n]
<1>0. DOMAIN ss = 1 .. N /\ \A n \in 1 .. N : ss[n] \in A
  OBVIOUS
<1>1. N \in Nat /\ first \in A
  OBVIOUS
<1>2. \A n \in 1 .. N, x \in A : To(n, x) \in A
  BY <1>0
<1>3. Chained(ss) = (CHOOSE h : h = [n \in 0 .. N |-> IF n = 0 THEN first ELSE To(n, h[n - 1])])[N]
  BY DEF Chained, Walked
<1> HIDE DEF N, A, first, To
<1> DEFINE step == [x \in (1 .. N) \X A |-> To(x[1], x[2])]
           Walk(h) == h = [n \in 0 .. N |-> IF n = 0 THEN first ELSE To(n, h[n - 1])]
           c == CHOOSE h : Walk(h)
<1>4. step \in [(1 .. N) \X A -> A]
  BY <1>2
<1>5. PICK g \in [0 .. N -> A] : Iterates(g, N, first, step)
  <2> HIDE DEF step
  <2> QED BY <1>1, <1>4, RecursionExists
<1>6. Walk(g)
  <2>1. ASSUME NEW n \in 0 .. N PROVE g[n] = IF n = 0 THEN first ELSE To(n, g[n - 1])
    <3>1. CASE n = 0
      BY <1>5, <3>1 DEF Iterates
    <3>2. CASE n # 0
      <4>1. n \in 1 .. N /\ n - 1 \in 0 .. N
        BY <1>1, <3>2
      <4>2. g[n] = step[<<n, g[n - 1]>>]
        BY <1>5, <4>1 DEF Iterates
      <4> QED BY <3>2, <4>1, <4>2
    <3> QED BY <3>1, <3>2
  <2> QED BY <2>1
<1>7. Walk(c)
  <2> HIDE DEF Walk
  <2> QED BY <1>6
<1> HIDE DEF c
<1>8. c[0] = first /\ \A n \in 1 .. N : c[n] = To(n, c[n - 1])
  <2>1. \A n \in 0 .. N : c[n] = IF n = 0 THEN first ELSE To(n, c[n - 1])
    BY <1>7, Zenon
  <2> QED BY <1>1, <2>1
<1>9. c \in [0 .. N -> A]
  <2> DEFINE Typed == {n \in 0 .. N : c[n] \in A}
  <2>1. 0 \in Typed
    BY <1>1, <1>8
  <2>2. ASSUME NEW n \in 0 .. N, n \in Typed, n < N PROVE n + 1 \in Typed
    <3>1. n + 1 \in 1 .. N /\ (n + 1) - 1 = n
      BY <1>1, <2>2
    <3>2. c[n + 1] = To(n + 1, c[n])
      BY <1>8, <3>1
    <3> QED BY <1>1, <1>2, <2>2, <3>1, <3>2
  <2>3. 0 .. N \subseteq Typed
    <3> HIDE DEF Typed
    <3> QED BY <1>1, <2>1, <2>2, IntervalInduction
  <2>4. c = [n \in 0 .. N |-> c[n]]
    BY <1>7, Zenon
  <2> QED BY <2>3, <2>4
<1>10. Chained(ss) = c[N]
  BY <1>3, Zenon DEF c
<1> DEFINE Seen(n) == UNION {Range(ss[j]) : j \in 1 .. n}
           G == {n \in 0 .. N : Range(c[n]) = Seen(n)}
<1>11. 0 \in G
  <2>1. Range(first) = {} /\ Seen(0) = {}
    BY DEF first, Range
  <2> QED BY <1>1, <1>8, <2>1
<1>12. ASSUME NEW n \in 0 .. N, n \in G, n < N PROVE n + 1 \in G
  <2>1. n + 1 \in 1 .. N /\ n + 1 \in 0 .. N /\ (n + 1) - 1 = n /\ n \in Nat
    BY <1>1, <1>12
  <2>2. c[n] \in Seq(X) /\ ss[n + 1] \in Seq(X)
    BY <1>0, <1>9, <2>1 DEF A
  <2>3. c[n + 1] = c[n] \o ss[n + 1]
    BY <1>8, <2>1 DEF To
  <2>4. Range(c[n + 1]) = Range(c[n]) \cup Range(ss[n + 1])
    BY <2>2, <2>3, ConcatIs
  <2>5. Seen(n + 1) = Seen(n) \cup Range(ss[n + 1])
    <3>1. 1 .. n + 1 = (1 .. n) \cup {n + 1}
      BY <2>1
    <3> QED BY <3>1
  <2> HIDE DEF Seen
  <2> QED BY <1>12, <2>1, <2>4, <2>5
<1>13. N \in G
  <2>1. 0 .. N \subseteq G
    <3> HIDE DEF G
    <3> QED BY <1>1, <1>11, <1>12, IntervalInduction
  <2>2. N \in 0 .. N
    BY <1>1
  <2> HIDE DEF G
  <2> QED BY <2>1, <2>2
<1>14. c[N] \in A
  BY <1>1, <1>9
<1>15. Range(c[N]) = Seen(N)
  BY <1>13
<1> QED BY <1>0, <1>10, <1>14, <1>15 DEF A

\* Whatever a loop does to a state and wherever it stops, some function maps each
\* state to what the loop makes of it: what the recursive definition of a while
\* loop needs to define anything.
LEMMA LoopExists ==
    ASSUME NEW W, NEW Stop \in SUBSET W, NEW next \in [W -> W]
    PROVE  \E f : f = [s \in W |-> IF s \in Stop THEN s ELSE f[next[s]]]
<1> DEFINE Closed(R) == /\ \A s \in Stop : <<s, s>> \in R
                        /\ \A s \in W \ Stop, x \in W : <<next[s], x>> \in R => <<s, x>> \in R
           L == {p \in W \X W : \A R \in SUBSET (W \X W) : Closed(R) => p \in R}
           e(s) == CHOOSE x : <<s, x>> \in L
           f == [s \in W |-> e(s)]
<1>1. \A s \in W : next[s] \in W
  OBVIOUS
<1>2. ASSUME NEW s \in Stop PROVE <<s, s>> \in L
  <2>1. <<s, s>> \in W \X W
    OBVIOUS
  <2>2. ASSUME NEW R \in SUBSET (W \X W), Closed(R) PROVE <<s, s>> \in R
    BY <2>2
  <2> HIDE DEF Closed
  <2> QED BY <2>1, <2>2
<1>3. ASSUME NEW s \in W \ Stop, NEW x \in W, <<next[s], x>> \in L PROVE <<s, x>> \in L
  <2>1. ASSUME NEW R \in SUBSET (W \X W), Closed(R) PROVE <<s, x>> \in R
    <3>1. <<next[s], x>> \in R
      BY <1>3, <2>1
    <3> QED BY <2>1, <3>1
  <2> HIDE DEF Closed
  <2> QED BY <2>1
<1>4. L \in SUBSET (W \X W) /\ \A R \in SUBSET (W \X W) : Closed(R) => L \subseteq R
  <2> HIDE DEF Closed
  <2> QED OBVIOUS
<1> HIDE DEF L
<1>5. ASSUME NEW s \in W, NEW x, <<s, x>> \in L
      PROVE  IF s \in Stop THEN x = s ELSE <<next[s], x>> \in L
  <2> DEFINE R == {p \in L : IF p[1] \in Stop THEN p[2] = p[1] ELSE <<next[p[1]], p[2]>> \in L}
  <2>1. R \in SUBSET (W \X W)
    BY <1>4
  <2>2. Closed(R)
    <3>1. ASSUME NEW t \in Stop PROVE <<t, t>> \in R
      <4> DEFINE p == <<t, t>>
      <4>1. p \in L /\ p[1] = t /\ p[2] = t
        BY <1>2
      <4>2. p \in R
        <5> HIDE DEF p
        <5> QED BY <4>1
      <4> QED BY <4>2
    <3>2. ASSUME NEW t \in W \ Stop, NEW y \in W, <<next[t], y>> \in R PROVE <<t, y>> \in R
      <4>1. <<next[t], y>> \in L
        BY <3>2
      <4>2. <<t, y>> \in L
        BY <1>3, <4>1
      <4> QED BY <4>1, <4>2
    <3> QED BY <3>1, <3>2
  <2>3. <<s, x>> \in R
    <3> HIDE DEF Closed, R
    <3> QED BY <1>4, <1>5, <2>1, <2>2
  <2> QED BY <2>3
<1>6. ASSUME NEW s \in Stop PROVE f[s] = s
  <2>1. \A x : <<s, x>> \in L <=> x = s
    BY <1>2, <1>5
  <2>2. f[s] = CHOOSE x : <<s, x>> \in L
    OBVIOUS
  <2>3. (CHOOSE x : <<s, x>> \in L) = CHOOSE x : x = s
    BY <2>1, Zenon
  <2> QED BY <2>2, <2>3, Zenon
<1>7. ASSUME NEW s \in W \ Stop PROVE f[s] = f[next[s]]
  <2>1. \A x : <<s, x>> \in L <=> <<next[s], x>> \in L
    <3>1. ASSUME NEW x, <<s, x>> \in L PROVE <<next[s], x>> \in L
      BY <1>5, <3>1
    <3>2. ASSUME NEW x, <<next[s], x>> \in L PROVE <<s, x>> \in L
      <4>1. x \in W
        BY <1>4, <3>2
      <4> QED BY <1>3, <3>2, <4>1
    <3> QED BY <3>1, <3>2
  <2>2. f[s] = (CHOOSE x : <<s, x>> \in L) /\ f[next[s]] = CHOOSE x : <<next[s], x>> \in L
    BY <1>1
  <2>3. (CHOOSE x : <<s, x>> \in L) = CHOOSE x : <<next[s], x>> \in L
    BY <2>1, Zenon
  <2> QED BY <2>2, <2>3, Zenon
<1>8. f = [s \in W |-> IF s \in Stop THEN s ELSE f[next[s]]]
  <2> HIDE DEF e
  <2>1. f = [s \in W |-> f[s]]
    OBVIOUS
  <2> HIDE DEF f
  <2>2. \A s \in W : f[s] = IF s \in Stop THEN s ELSE f[next[s]]
    BY <1>6, <1>7
  <2> QED BY <2>1, <2>2, Zenon
<1> QED BY <1>8, Zenon
================================================================================
