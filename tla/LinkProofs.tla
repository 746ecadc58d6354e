----------------------------- MODULE LinkProofs -----------------------------
(***************************************************************************)
(* What InsertTail and Remove of cache/link.go do to a list in which every *)
(* item occurs once, for lists of any length.                              *)
(***************************************************************************)
EXTENDS Link, WellFoundedInduction, TLAPS

\* Position m of a list that has lost its n-th item was this position before.
Source(m, n) == IF m < n THEN m ELSE m + 1

\* Taking out one item moves those behind it.
LEMMA CutProps ==
    ASSUME NEW S, NEW s \in Seq(S), NEW n \in 1..Len(s)
    PROVE  /\ Cut(s, n) \in Seq(S)
           /\ Len(Cut(s, n)) = Len(s) - 1
           /\ \A m \in 1..Len(s) - 1 : Cut(s, n)[m] = s[Source(m, n)]
<1> DEFINE a == SubSeq(s, 1, n - 1)
           b == SubSeq(s, n + 1, Len(s))
<1>1. a \in Seq(S) /\ Len(a) = n - 1 /\ \A m \in 1..n - 1 : a[m] = s[m]
  OBVIOUS
<1>2. b \in Seq(S) /\ Len(b) = Len(s) - n /\ \A m \in 1..Len(s) - n : b[m] = s[n + m]
  OBVIOUS
<1>3. Cut(s, n) = a \o b
  BY DEF Cut
<1> HIDE DEF a, b
<1>4. a \o b \in Seq(S) /\ Len(a \o b) = Len(s) - 1
  BY <1>1, <1>2
<1>5. ASSUME NEW m \in 1..Len(s) - 1
      PROVE  (a \o b)[m] = s[Source(m, n)]
  <2>1. CASE m < n
    BY <2>1, <1>1, <1>2 DEF Source
  <2>2. CASE ~(m < n)
    <3>1. (a \o b)[m] = b[m - (n - 1)]
      BY <2>2, <1>1, <1>2
    <3>2. m - (n - 1) \in 1..Len(s) - n
      BY <2>2
    <3>3. b[m - (n - 1)] = s[n + (m - (n - 1))]
      BY <3>2, <1>2
    <3>4. n + (m - (n - 1)) = m + 1
      BY <2>2
    <3> QED BY <3>1, <3>3, <3>4, <2>2 DEF Source
  <2> QED BY <2>1, <2>2
<1> QED BY <1>3, <1>4, <1>5

\* Remove takes one item out of a list and keeps the order of the others.
LEMMA WithoutProps ==
    ASSUME NEW S, NEW s \in Seq(S), NEW x, Distinct(s)
    PROVE  /\ Without(s, x) \in Seq(S)
           /\ Distinct(Without(s, x))
           /\ Elems(Without(s, x)) = Elems(s) \ {x}
           /\ x \in Elems(s) => Len(Without(s, x)) = Len(s) - 1
           /\ \A m, n \in DOMAIN Without(s, x) : m < n =>
                \E a, b \in DOMAIN s :
                    a < b /\ s[a] = Without(s, x)[m] /\ s[b] = Without(s, x)[n]
<1> DEFINE t == Without(s, x)
<1>1. CASE x \notin Elems(s)
  <2>1. t = s
    BY <1>1 DEF Without
  <2>2. Elems(s) \ {x} = Elems(s)
    BY <1>1
  <2> QED BY <2>1, <2>2, <1>1
<1>2. CASE x \in Elems(s)
  <2> DEFINE k == CHOOSE n \in DOMAIN s : s[n] = x
  <2>1. k \in 1..Len(s) /\ s[k] = x
    BY <1>2 DEF Elems
  <2>2. t = Cut(s, k)
    BY <1>2 DEF Without
  <2> HIDE DEF k, t
  <2>3. /\ t \in Seq(S)
        /\ Len(t) = Len(s) - 1
        /\ \A m \in 1..Len(s) - 1 : t[m] = s[Source(m, k)]
    BY <2>1, <2>2, CutProps
  <2>4. DOMAIN t = 1..Len(s) - 1 /\ DOMAIN s = 1..Len(s)
    BY <2>3
  <2>5. ASSUME NEW m \in DOMAIN t
        PROVE  Source(m, k) \in DOMAIN s /\ Source(m, k) # k /\ t[m] = s[Source(m, k)]
    BY <2>1, <2>3, <2>4 DEF Source
  <2>6. ASSUME NEW m \in DOMAIN t, NEW n \in DOMAIN t, m < n
        PROVE  Source(m, k) < Source(n, k)
    BY <2>1, <2>4, <2>6 DEF Source
  <2>7. ASSUME NEW m \in DOMAIN t, NEW n \in DOMAIN t, t[m] = t[n]
        PROVE  m = n
    <3>1. Source(m, k) = Source(n, k)
      BY <2>5, <2>7 DEF Distinct
    <3> QED BY <3>1, <2>1, <2>4 DEF Source
  <2>8. Elems(t) \subseteq Elems(s) \ {x}
    <3> SUFFICES ASSUME NEW m \in DOMAIN t PROVE t[m] \in Elems(s) /\ t[m] # x
      BY DEF Elems
    <3> QED BY <2>1, <2>4, <2>5 DEF Distinct, Elems
  <2>9. Elems(s) \ {x} \subseteq Elems(t)
    <3> SUFFICES ASSUME NEW m \in DOMAIN s, s[m] # x PROVE s[m] \in Elems(t)
      BY DEF Elems
    <3> DEFINE j == IF m < k THEN m ELSE m - 1
    <3>1. m # k
      BY <2>1
    <3>2. j \in DOMAIN t /\ Source(j, k) = m
      BY <3>1, <2>1, <2>4 DEF Source
    <3>3. t[j] = s[m]
      BY <3>2, <2>5
    <3> QED BY <3>2, <3>3 DEF Elems
  <2>10. \A m, n \in DOMAIN t : m < n =>
            \E a, b \in DOMAIN s : a < b /\ s[a] = t[m] /\ s[b] = t[n]
    BY <2>5, <2>6
  <2> QED BY <2>3, <2>7, <2>8, <2>9, <2>10 DEF Distinct, t
<1> QED BY <1>1, <1>2

\* InsertTail puts an item behind all others.
LEMMA InsertTailProps ==
    ASSUME NEW S, NEW s \in Seq(S), NEW x \in S, Distinct(s), x \notin Elems(s)
    PROVE  /\ InsertTail(s, x) \in Seq(S)
           /\ Distinct(InsertTail(s, x))
           /\ Elems(InsertTail(s, x)) = Elems(s) \cup {x}
           /\ Len(InsertTail(s, x)) = Len(s) + 1
           /\ InsertTail(s, x)[Len(s) + 1] = x
           /\ \A m \in DOMAIN s : InsertTail(s, x)[m] = s[m]
<1> DEFINE t == InsertTail(s, x)
<1>1. /\ t \in Seq(S) /\ Len(t) = Len(s) + 1 /\ t[Len(s) + 1] = x
      /\ \A m \in 1..Len(s) : t[m] = s[m]
  BY DEF InsertTail
<1> HIDE DEF t
<1>2. DOMAIN t = 1..Len(s) + 1 /\ DOMAIN s = 1..Len(s)
  BY <1>1
<1>3. \A m \in DOMAIN t : m \in DOMAIN s \/ m = Len(s) + 1
  BY <1>2
<1>4. \A m \in DOMAIN s : s[m] # x
  BY DEF Elems
<1>5. Distinct(t)
  BY <1>1, <1>2, <1>3, <1>4 DEF Distinct
<1>6. Elems(t) = Elems(s) \cup {x}
  BY <1>1, <1>2, <1>3 DEF Elems
<1> QED BY <1>1, <1>2, <1>5, <1>6 DEF t

\* Taking the first item leaves the others in their order.
LEMMA TailProps ==
    ASSUME NEW S, NEW s \in Seq(S), s # <<>>, Distinct(s)
    PROVE  /\ Tail(s) \in Seq(S)
           /\ Distinct(Tail(s))
           /\ Head(s) \in S
           /\ Elems(Tail(s)) = Elems(s) \ {Head(s)}
           /\ Head(s) \in Elems(s)
           /\ DOMAIN Tail(s) = 1..Len(s) - 1
           /\ \A m \in 1..Len(s) - 1 : m + 1 \in DOMAIN s /\ Tail(s)[m] = s[m + 1]
<1> DEFINE t == Tail(s)
<1>1. /\ t \in Seq(S) /\ Len(t) = Len(s) - 1 /\ Len(s) \in Nat \ {0}
      /\ \A m \in 1..Len(s) - 1 : t[m] = s[m + 1]
      /\ Head(s) = s[1]
  OBVIOUS
<1>0. Head(s) \in S OBVIOUS
<1> HIDE DEF t
<1>2. DOMAIN t = 1..Len(s) - 1 /\ DOMAIN s = 1..Len(s)
  BY <1>1
<1>3. \A m \in DOMAIN t : m + 1 \in DOMAIN s /\ m + 1 # 1 /\ t[m] = s[m + 1]
  BY <1>1, <1>2
<1>4. Distinct(t)
  <2> SUFFICES ASSUME NEW m \in DOMAIN t, NEW n \in DOMAIN t, t[m] = t[n] PROVE m = n
    BY DEF Distinct
  <2>1. m + 1 = n + 1
    BY <1>3 DEF Distinct
  <2> QED BY <2>1, <1>2
<1>5. 1 \in DOMAIN s
  BY <1>1, <1>2
<1>6. Elems(t) \subseteq Elems(s) \ {Head(s)}
  <2> SUFFICES ASSUME NEW m \in DOMAIN t PROVE t[m] \in Elems(s) /\ t[m] # Head(s)
    BY DEF Elems
  <2> QED BY <1>1, <1>3, <1>5 DEF Distinct, Elems
<1>7. Elems(s) \ {Head(s)} \subseteq Elems(t)
  <2> SUFFICES ASSUME NEW m \in DOMAIN s, s[m] # Head(s) PROVE s[m] \in Elems(t)
    BY DEF Elems
  <2>1. m - 1 \in DOMAIN t /\ m = (m - 1) + 1
    BY <1>1, <1>2
  <2> QED BY <2>1, <1>3 DEF Elems
<1> QED BY <1>0, <1>1, <1>2, <1>3, <1>4, <1>5, <1>6, <1>7 DEF t, Elems
-----------------------------------------------------------------------------
(* Numbers *)

\* Induction, for a property given as the set of the numbers that have it.
LEMMA Induction ==
    ASSUME NEW S, 0 \in S, \A n \in Nat : n \in S => n + 1 \in S
    PROVE  Nat \subseteq S
<1> DEFINE R == OpToRel(<, Nat)
           T == Nat \ S
<1>1. IsWellFoundedOn(R, Nat)
  BY NatLessThanWellFounded
<1>2. \A x, y \in Nat : <<x, y>> \in R <=> x < y
  BY DEF OpToRel
<1> HIDE DEF R
<1>3. SUFFICES ASSUME T # {} PROVE FALSE
  OBVIOUS
<1>4. \E x \in T : \A y \in T : ~(<<y, x>> \in R)
  <2>1. T \subseteq Nat
    OBVIOUS
  <2> HIDE DEF T
  <2> QED BY <2>1, <1>1, <1>3, WFMin
<1>5. PICK x \in T : \A y \in T : ~(y < x)
  BY <1>2, <1>4
<1>6. x \in Nat /\ x # 0
  OBVIOUS
<1>7. x - 1 \in Nat /\ x - 1 < x
  BY <1>6
<1>8. x - 1 \in S
  BY <1>5, <1>7
<1> QED BY <1>5, <1>7, <1>8

\* A number up to n that has a property, if 0 has it, and no greater one has it.
LEMMA GreatestUpTo ==
    ASSUME NEW n \in Nat, NEW K \in SUBSET (0..n), 0 \in K
    PROVE  \E m \in K : \A l \in K : l <= m
<1> DEFINE S == {b \in Nat : (\A l \in K : l <= b) => \E m \in K : \A l \in K : l <= m}
<1>1. 0 \in S
  OBVIOUS
<1>2. ASSUME NEW b \in Nat, b \in S PROVE b + 1 \in S
  <2>1. SUFFICES ASSUME \A l \in K : l <= b + 1
                 PROVE  \E m \in K : \A l \in K : l <= m
    OBVIOUS
  <2>2. CASE b + 1 \in K
    BY <2>1, <2>2
  <2>3. CASE b + 1 \notin K
    <3>1. \A l \in K : l <= b
      BY <2>1, <2>3
    <3> QED BY <3>1, <1>2
  <2> QED BY <2>2, <2>3
<1>3. n \in S
  <2> HIDE DEF S
  <2> QED BY <1>1, <1>2, Induction
<1>4. \A l \in K : l <= n
  OBVIOUS
<1> QED BY <1>3, <1>4
=============================================================================
