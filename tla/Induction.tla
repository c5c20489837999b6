------------------------------- MODULE Induction -------------------------------
(***************************************************************************)
(* Induction over data, for proofs.  The induction theorems of the library *)
(* take an operator as a parameter; here what is shown of a number is that *)
(* it belongs to a set, so that the lemmas can be cited like any other.    *)
(***************************************************************************)
EXTENDS Lists, WellFoundedInduction, NaturalsInduction, TLAPS

\* A set of natural numbers that is not empty has a least element.
LEMMA Least ==
  ASSUME NEW T, T \subseteq Nat, T # {}
  PROVE  \E m \in T : \A k \in T : m <= k
<1>1. IsWellFoundedOn(OpToRel(<,Nat), Nat)
  BY NatLessThanWellFounded
<1>2. \E m \in T : \A k \in T : ~(<<k, m>> \in OpToRel(<,Nat))
  BY <1>1, WFMin, Zenon
<1>3. PICK m \in T : \A k \in T : ~(<<k, m>> \in OpToRel(<,Nat))
  BY <1>2
<1>4. \A k \in T : m <= k
  <2>1. \A k \in T : ~(k < m)
    BY <1>3 DEF OpToRel
  <2>. QED BY <2>1
<1>. QED BY <1>4

\* Induction from 0 to n; what is shown of k is that it is in P.
LEMMA SetInduction ==
  ASSUME NEW n \in Nat, NEW P, 0 \in P, \A k \in 1..n : k-1 \in P => k \in P
  PROVE \A k \in 0..n : k \in P
<1>. SUFFICES ASSUME NEW j \in 0..n, j \notin P PROVE FALSE
  OBVIOUS
<1>. DEFINE T == {k \in 0..n : k \notin P}
<1>1. T \subseteq Nat /\ T # {}
  OBVIOUS
<1>2. PICK m \in T : \A k \in T : m <= k
  BY <1>1, Least
<1>3. m # 0 /\ m \in 0..n
  BY <1>2
<1>4. m-1 \in 0..n /\ m-1 \notin T
  BY <1>2, <1>3
<1>. QED BY <1>3, <1>4

\* f[i] is what G[1], .., G[i] make of a, one after the other.
Iterates(n, S, a, G, f) == f \in [0..n -> S] /\ f[0] = a /\ \A i \in 1..n : f[i] = G[i][f[i-1]]

\* There is such an f: a definition by recursion over 1..n has a value.
LEMMA RecursionExists ==
  ASSUME NEW n \in Nat, NEW S, NEW a \in S, NEW G \in [1..n -> [S -> S]]
  PROVE  \E f : Iterates(n, S, a, G, f)
<1>. DEFINE P == {k \in 0..n : \E f \in [0..k -> S] : f[0] = a /\ \A i \in 1..k : f[i] = G[i][f[i-1]]}
<1>1. 0 \in P
  <2>. DEFINE f == [i \in 0..0 |-> a]
  <2>1. f \in [0..0 -> S] /\ f[0] = a
    OBVIOUS
  <2>2. \E h \in [0..0 -> S] : h[0] = a /\ \A i \in 1..0 : h[i] = G[i][h[i-1]]
    <3>. HIDE DEF f
    <3>1. 1..0 = {}
      OBVIOUS
    <3>. QED BY <2>1, <3>1
  <2>. HIDE DEF f
  <2>. QED BY <2>2
<1>2. ASSUME NEW k \in 1..n, k-1 \in P PROVE k \in P
  <2>1. PICK f \in [0..(k-1) -> S] : f[0] = a /\ \A i \in 1..(k-1) : f[i] = G[i][f[i-1]]
    BY <1>2
  <2>. DEFINE g == [i \in 0..k |-> IF i = k THEN G[k][f[k-1]] ELSE f[i]]
  <2>2. G[k][f[k-1]] \in S
    OBVIOUS
  <2>3. g \in [0..k -> S]
    BY <2>2
  <2>4. g[0] = a
    BY <2>1
  <2>5. ASSUME NEW i \in 1..k PROVE g[i] = G[i][g[i-1]]
    <3>1. CASE i = k
      <4>1. k \in 0..k /\ k-1 \in 0..k /\ k # k-1
        OBVIOUS
      <4>2. g[k] = G[k][f[k-1]] /\ g[k-1] = f[k-1]
        BY <4>1
      <4>. QED BY <3>1, <4>2
    <3>2. CASE i # k
      <4>1. i \in 1..(k-1) /\ i-1 \in 0..(k-1) /\ i \in 0..k /\ i-1 \in 0..k
        BY <3>2
      <4>2. g[i] = f[i] /\ g[i-1] = f[i-1]
        BY <4>1
      <4>. QED BY <4>1, <4>2, <2>1
    <3>. QED BY <3>1, <3>2
  <2>. HIDE DEF g
  <2>6. k \in 0..n
    OBVIOUS
  <2>. QED BY <2>3, <2>4, <2>5, <2>6
<1>. HIDE DEF P
<1>3. \A k \in 0..n : k \in P
  BY <1>1, <1>2, SetInduction
<1>4. n \in P
  BY <1>3
<1>. QED BY <1>4 DEF P, Iterates

-----------------------------------------------------------------------------
\* The equation of the recursion that defines Keep.
LEMMA KeepEquation ==
  ASSUME NEW S, NEW s \in Seq(S), NEW V
  PROVE  \E H : /\ H[0] = << >>
                /\ \A i \in 1..Len(s) :
                      H[i] = IF s[i] \in V THEN Append(H[i-1], s[i]) ELSE H[i-1]
                /\ Keep(s, V) = H[Len(s)]
<1>1. PICK n \in Nat : n = Len(s)
  OBVIOUS
<1>2. PICK SS : SS = Seq(S)
  OBVIOUS
<1>. DEFINE Step(i, t) == IF s[i] \in V THEN Append(t, s[i]) ELSE t
<1>3. PICK G : G = [i \in 1..n |-> [t \in SS |-> Step(i, t)]]
  OBVIOUS
<1>4. \A i \in 1..n, t \in SS : Step(i, t) \in SS
  BY <1>1, <1>2
<1>5. G \in [1..n -> [SS -> SS]] /\ \A i \in 1..n, t \in SS : G[i][t] = Step(i, t)
  <2>. HIDE DEF Step
  <2>. QED BY <1>3, <1>4
<1>0. << >> \in Seq(S)
  OBVIOUS
<1>6. PICK e \in SS : e = << >>
  BY <1>0, <1>2, Zenon
<1>7. PICK f \in [0..n -> SS] : f[0] = e /\ \A i \in 1..n : f[i] = G[i][f[i-1]]
  <2>1. /\ n \in Nat /\ e \in SS
        /\ G \in [1..n -> [SS -> SS]]
    BY <1>1, <1>5, <1>6
  <2>2. \E f : Iterates(n, SS, e, G, f)
    BY <2>1, RecursionExists, Zenon
  <2>. QED BY <2>2 DEF Iterates
<1>8. \A i \in 1..n : f[i] = Step(i, f[i-1])
  <2>. SUFFICES ASSUME NEW i \in 1..n PROVE f[i] = Step(i, f[i-1])
    OBVIOUS
  <2>1. i - 1 \in 0..n
    OBVIOUS
  <2>2. f[i-1] \in SS
    BY <2>1
  <2>. HIDE DEF Step
  <2>. QED BY <1>5, <1>7, <2>2
<1>. DEFINE E(F) == F = [i \in 0..Len(s) |-> IF i = 0 THEN << >>
                                ELSE IF s[i] \in V THEN Append(F[i-1], s[i]) ELSE F[i-1]]
<1>9. E(f)
  <2>1. f = [i \in 0..n |-> f[i]]
    OBVIOUS
  <2>2. \A i \in 0..n : i # 0 => i \in 1..n
    OBVIOUS
  <2>3. \A i \in 0..n : f[i] = IF i = 0 THEN << >> ELSE Step(i, f[i-1])
    BY <1>6, <1>7, <1>8, <2>2
  <2>. QED BY <1>1, <2>1, <2>3
<1>. DEFINE H == CHOOSE F : E(F)
<1>10. E(H)
  <2>. HIDE DEF E
  <2>. QED BY <1>9
<1>11. Keep(s, V) = H[Len(s)]
  BY DEF Keep, FoldOver
<1>12. H[0] = << >> /\ \A i \in 1..Len(s) :
                      H[i] = IF s[i] \in V THEN Append(H[i-1], s[i]) ELSE H[i-1]
  <2>1. PICK F : F = H
    OBVIOUS
  <2>2. E(F)
    BY <1>10, <2>1
  <2>3. F[0] = << >>
    BY <1>1, <2>2
  <2>4. \A i \in 1..Len(s) : F[i] = IF s[i] \in V THEN Append(F[i-1], s[i]) ELSE F[i-1]
    <3>1. \A i \in 1..Len(s) : i \in 0..Len(s) /\ i # 0
      BY <1>1
    <3>. QED BY <2>2, <3>1
  <2>. HIDE DEF H
  <2>. QED BY <2>1, <2>3, <2>4
<1>. HIDE DEF H
<1>. QED BY <1>11, <1>12

\* t has the elements of s, up to the n-th, that are in V, in their order: where they
\* are is an increasing map from the places of t.
KeptAt(s, n, V, t, pos) ==
    /\ pos \in [1..Len(t) -> 1..n]
    /\ \A i \in 1..Len(t) : t[i] = s[pos[i]] /\ t[i] \in V
    /\ \A i, j \in 1..Len(t) : i < j => pos[i] < pos[j]
    /\ \A j \in 1..n : s[j] \in V => \E i \in 1..Len(t) : pos[i] = j

\* Keep(s, V) has the elements of s that are in V, no others, and in their order.
LEMMA KeepOrder ==
  ASSUME NEW S, NEW s \in Seq(S), NEW V
  PROVE  Keep(s, V) \in Seq(S) /\ \E pos : KeptAt(s, Len(s), V, Keep(s, V), pos)
<1>1. PICK H : /\ H[0] = << >>
               /\ \A i \in 1..Len(s) :
                     H[i] = IF s[i] \in V THEN Append(H[i-1], s[i]) ELSE H[i-1]
               /\ Keep(s, V) = H[Len(s)]
  BY KeepEquation
<1>2. PICK n \in Nat : n = Len(s)
  OBVIOUS
<1>. DEFINE Good(k) == H[k] \in Seq(S) /\ \E pos : KeptAt(s, k, V, H[k], pos)
    P == {k \in 0..n : Good(k)}
<1>3. 0 \in P
  <2>0. << >> \in Seq(S)
    OBVIOUS
  <2>1. PICK t \in Seq(S) : t = H[0] /\ t = << >>
    BY <1>1, <2>0, Zenon
  <2>2. 1..Len(t) = {} /\ 1..0 = {}
    BY <2>1
  <2>3. PICK pos : pos = [i \in 1..0 |-> 0]
    OBVIOUS
  <2>4. pos \in [1..Len(t) -> 1..0]
    BY <2>2, <2>3
  <2>5. KeptAt(s, 0, V, t, pos)
    BY <2>2, <2>4 DEF KeptAt
  <2>6. Good(0)
    BY <2>1, <2>5
  <2>. HIDE DEF Good
  <2>. QED BY <2>6
<1>4. ASSUME NEW k \in 1..n, k-1 \in P PROVE k \in P
  <2>1. PICK t \in Seq(S) : t = H[k-1]
    BY <1>4
  <2>2. PICK u : u = H[k]
    OBVIOUS
  <2>3. u = IF s[k] \in V THEN Append(t, s[k]) ELSE t
    BY <1>1, <1>2, <2>1, <2>2
  <2>4. PICK pos : KeptAt(s, k-1, V, t, pos)
    BY <1>4, <2>1
  <2>5. k \in 1..k /\ (\A j \in 1..(k-1) : j \in 1..k) /\ s[k] \in S
    BY <1>2
  <2>6. \A j \in 1..k : j = k \/ j \in 1..(k-1)
    OBVIOUS
  <2>7. PICK m \in Nat : m = Len(t)
    BY <2>1
  <2>8. CASE s[k] \in V
    <3>1. /\ u \in Seq(S) /\ Len(u) = m + 1 /\ u[m + 1] = s[k]
          /\ \A i \in 1..m : u[i] = t[i]
      BY <2>3, <2>5, <2>7, <2>8
    <3>2. PICK q : q = [i \in 1..(m + 1) |-> IF i = m + 1 THEN k ELSE pos[i]]
      OBVIOUS
    <3>3. \A i \in 1..(m + 1) : i = m + 1 \/ i \in 1..m
      OBVIOUS
    <3>4. \A i \in 1..m : pos[i] \in 1..(k-1)
      BY <2>4, <2>7 DEF KeptAt
    <3>5. q[m + 1] = k /\ \A i \in 1..m : q[i] = pos[i]
      BY <3>2
    <3>6. q \in [1..(m + 1) -> 1..k]
      BY <2>5, <3>2, <3>3, <3>4
    <3>7. \A i \in 1..(m + 1) : u[i] = s[q[i]] /\ u[i] \in V
      BY <2>4, <2>7, <2>8, <3>1, <3>3, <3>5 DEF KeptAt
    <3>8. \A i, j \in 1..(m + 1) : i < j => q[i] < q[j]
      <4>. SUFFICES ASSUME NEW i \in 1..(m + 1), NEW j \in 1..(m + 1), i < j PROVE q[i] < q[j]
        OBVIOUS
      <4>1. i \in 1..m
        OBVIOUS
      <4>2. q[i] = pos[i] /\ pos[i] < k /\ pos[i] \in Nat
        BY <3>4, <3>5, <4>1
      <4>. QED BY <2>4, <2>7, <3>3, <3>5, <4>1, <4>2 DEF KeptAt
    <3>9. \A j \in 1..k : s[j] \in V => \E i \in 1..(m + 1) : q[i] = j
      <4>. SUFFICES ASSUME NEW j \in 1..k, s[j] \in V PROVE \E i \in 1..(m + 1) : q[i] = j
        OBVIOUS
      <4>1. CASE j = k
        <5>1. m + 1 \in 1..(m + 1)
          OBVIOUS
        <5>. QED BY <3>5, <4>1, <5>1
      <4>2. CASE j \in 1..(k-1)
        <5>1. PICK i \in 1..m : pos[i] = j
          BY <2>4, <2>7, <4>2 DEF KeptAt
        <5>2. i \in 1..(m + 1)
          OBVIOUS
        <5>. QED BY <3>5, <5>1, <5>2
      <4>. QED BY <2>6, <4>1, <4>2
    <3>10. KeptAt(s, k, V, u, q)
      BY <3>1, <3>6, <3>7, <3>8, <3>9 DEF KeptAt
    <3>11. Good(k)
      BY <2>2, <3>1, <3>10
    <3>. HIDE DEF Good
    <3>. QED BY <3>11
  <2>9. CASE s[k] \notin V
    <3>1. u = t
      BY <2>3, <2>9
    <3>2. KeptAt(s, k, V, t, pos)
      BY <2>4, <2>5, <2>6, <2>7, <2>9 DEF KeptAt
    <3>3. Good(k)
      BY <2>1, <2>2, <3>1, <3>2
    <3>. HIDE DEF Good
    <3>. QED BY <3>3
  <2>. QED BY <2>8, <2>9
<1>. HIDE DEF P
<1>5. n \in P
  <2>1. \A k \in 0..n : k \in P
    BY <1>3, <1>4, SetInduction
  <2>. QED BY <2>1
<1>. QED BY <1>1, <1>2, <1>5 DEF P

\* What the elements of Keep(s, V) are, without their order.
LEMMA KeepFacts ==
  ASSUME NEW S, NEW s \in Seq(S), NEW V
  PROVE  /\ Keep(s, V) \in Seq(S)
         /\ \A i \in 1..Len(Keep(s, V)) :
               Keep(s, V)[i] \in V /\ \E j \in 1..Len(s) : s[j] = Keep(s, V)[i]
         /\ \A j \in 1..Len(s) :
               s[j] \in V => \E i \in 1..Len(Keep(s, V)) : Keep(s, V)[i] = s[j]
<1>1. PICK t \in Seq(S) : t = Keep(s, V)
  BY KeepOrder
<1>2. PICK pos : KeptAt(s, Len(s), V, t, pos)
  BY <1>1, KeepOrder
<1>3. \A i \in 1..Len(t) : pos[i] \in 1..Len(s) /\ t[i] = s[pos[i]] /\ t[i] \in V
  BY <1>2 DEF KeptAt
<1>4. \A j \in 1..Len(s) : s[j] \in V => \E i \in 1..Len(t) : t[i] = s[j]
  <2>. SUFFICES ASSUME NEW j \in 1..Len(s), s[j] \in V PROVE \E i \in 1..Len(t) : t[i] = s[j]
    OBVIOUS
  <2>1. PICK i \in 1..Len(t) : pos[i] = j
    BY <1>2 DEF KeptAt
  <2>. QED BY <1>3, <2>1
<1>. QED BY <1>1, <1>3, <1>4
=============================================================================
