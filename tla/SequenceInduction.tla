-------------------------- MODULE SequenceInduction --------------------------
(***************************************************************************)
(* Induction for the proofs about definitions that run over a byte string: *)
(*                                                                         *)
(*     LET f[i \in 0..n] == IF i = 0 THEN v0 ELSE ... f[i - 1] ...         *)
(*     IN  f[n]                                                            *)
(*                                                                         *)
(* The induction theorems of the library take a predicate as a parameter.  *)
(* Here a predicate is the set T of the numbers it holds of, and induction *)
(* follows from every set of naturals having a least element, which is the *)
(* well-foundedness of < on Nat.                                           *)
(***************************************************************************)
EXTENDS Integers, Sequences, WellFoundedInduction, TLAPS

(* A set of naturals that is not empty has a least element. *)
LEMMA NatLeast ==
    ASSUME NEW T \in SUBSET Nat, T # {}
    PROVE  \E x \in T : \A y \in T : x <= y
  <1>1. PICK x \in T : \A y \in T : <<y, x>> \notin OpToRel(<, Nat)
    BY WFMin, NatLessThanWellFounded, Zenon
  <1>2. \A y \in T : ~(y < x)
    BY <1>1, Zenon DEF OpToRel
  <1>. QED  BY <1>2

(* Induction up to n. *)
LEMMA IntervalInduction ==
    ASSUME NEW n \in Nat, NEW T, 0 \in T,
           \A i \in 1..n : i - 1 \in T => i \in T
    PROVE  \A i \in 0..n : i \in T
  <1>. SUFFICES ASSUME (0..n) \ T # {} PROVE FALSE
    OBVIOUS
  <1>1. (0..n) \ T \in SUBSET Nat
    OBVIOUS
  <1>2. PICK x \in (0..n) \ T : \A y \in (0..n) \ T : x <= y
    BY <1>1, NatLeast, Zenon
  <1>3. x \in 1..n
    BY <1>2
  <1>4. x - 1 \in 0..n /\ ~(x <= x - 1)
    BY <1>3
  <1>5. x - 1 \in T
    BY <1>2, <1>4
  <1>. QED  BY <1>2, <1>3, <1>5

(* Two functions that start alike and go on alike are alike. *)
LEMMA RecursionUnique ==
    ASSUME NEW n \in Nat
    PROVE  \A f, g :
             f[0] = g[0] /\ (\A i \in 1..n : f[i - 1] = g[i - 1] => f[i] = g[i])
               => \A i \in 0..n : f[i] = g[i]
  <1>. SUFFICES ASSUME NEW f, NEW g, f[0] = g[0],
                       \A i \in 1..n : f[i - 1] = g[i - 1] => f[i] = g[i]
                PROVE  \A i \in 0..n : f[i] = g[i]
    BY Zenon
  <1>. DEFINE T == {i \in 0..n : f[i] = g[i]}
  <1>1. 0 \in T
    OBVIOUS
  <1>2. \A i \in 1..n : i - 1 \in T => i \in T
    <2>. SUFFICES ASSUME NEW i \in 1..n, i - 1 \in T PROVE i \in T
      OBVIOUS
    <2>1. i \in 0..n
      OBVIOUS
    <2>. QED  BY <2>1
  <1>. HIDE DEF T
  <1>3. \A i \in 0..n : i \in T
    BY <1>1, <1>2, IntervalInduction, Zenon
  <1>. QED  BY <1>3 DEF T

(* F[i] makes the i-th value of g from the one before. *)
Steps(V, n) == [1..n -> [V -> V]]

Follows(g, V, v0, n, F) ==
    /\ g \in [0..n -> V]
    /\ g[0] = v0
    /\ \A i \in 1..n : g[i] = F[i][g[i - 1]]

LEMMA RecursionExists ==
    ASSUME NEW V, NEW v0 \in V, NEW n \in Nat, NEW F \in Steps(V, n)
    PROVE  \E g : Follows(g, V, v0, n, F)
  <1>. DEFINE P(m, g) == g[0] = v0 /\ \A i \in 1..m : g[i] = F[i][g[i - 1]]
              T == {m \in 0..n : \E g \in [0..m -> V] : P(m, g)}
  <1>1. 0 \in T
    <2>. DEFINE g == [i \in 0..0 |-> v0]
    <2>1. g \in [0..0 -> V] /\ 0 \in 0..n
      OBVIOUS
    <2>2. g[0] = v0
      OBVIOUS
    <2>3. P(0, g)
      BY <2>2
    <2>. QED  BY <2>1, <2>3, Zenon
  <1>2. \A m \in 1..n : m - 1 \in T => m \in T
    <2>. SUFFICES ASSUME NEW m \in 1..n, m - 1 \in T PROVE m \in T
      OBVIOUS
    <2>1. PICK g \in [0..(m - 1) -> V] : P(m - 1, g)
      OBVIOUS
    <2>. DEFINE h == [i \in 0..m |-> IF i = m THEN F[m][g[m - 1]] ELSE g[i]]
    <2>2. g[m - 1] \in V
      OBVIOUS
    <2>3. F[m][g[m - 1]] \in V
      BY <2>2 DEF Steps
    <2>4. h \in [0..m -> V]
      BY <2>3
    <2>h. h[m] = F[m][g[m - 1]] /\ \A i \in 0..(m - 1) : h[i] = g[i]
      OBVIOUS
    <2>. HIDE DEF h
    <2>5. h[0] = v0
      BY <2>1, <2>h
    <2>6. ASSUME NEW i \in 1..m PROVE h[i] = F[i][h[i - 1]]
      <3>1. h[i - 1] = g[i - 1]
        BY <2>h
      <3>2. CASE i = m
        BY <3>1, <3>2, <2>h
      <3>3. CASE i # m
        <4>1. i \in 1..(m - 1)
          BY <3>3
        <4>2. g[i] = F[i][g[i - 1]]
          BY <2>1, <4>1
        <4>3. h[i] = g[i]
          BY <4>1, <2>h
        <4>. QED  BY <3>1, <4>2, <4>3
      <3>. QED  BY <3>2, <3>3
    <2>7. P(m, h)
      BY <2>5, <2>6
    <2>8. m \in 0..n
      OBVIOUS
    <2>. QED  BY <2>4, <2>7, <2>8, Zenon
  <1>. HIDE DEF T
  <1>3. \A m \in 0..n : m \in T
    BY <1>1, <1>2, IntervalInduction, Zenon
  <1>4. n \in T
    BY <1>3
  <1>. QED  BY <1>4 DEF T, Follows

(* A function on Nat that is defined by its value at 0 and by the way from *)
(* each value to the next.                                                 *)
FollowsOn(g, V, v0, F) ==
    /\ g \in [Nat -> V]
    /\ g[0] = v0
    /\ \A k \in Nat : k # 0 => g[k] = F[k][g[k - 1]]

LEMMA NatRecursionExists ==
    ASSUME NEW V, NEW v0 \in V, NEW F \in [Nat -> [V -> V]]
    PROVE  \E g : FollowsOn(g, V, v0, F)
  <1>. DEFINE Upto(n) == [i \in 1..n |-> F[i]]
              h == [n \in Nat |-> CHOOSE g : Follows(g, V, v0, n, Upto(n))]
              g == [k \in Nat |-> h[k][k]]
  <1>1. ASSUME NEW n \in Nat PROVE Follows(h[n], V, v0, n, Upto(n))
    <2>1. Upto(n) \in Steps(V, n)
      <3>1. \A i \in 1..n : i \in Nat
        OBVIOUS
      <3>. QED  BY <3>1 DEF Steps
    <2>2. \E f : Follows(f, V, v0, n, Upto(n))
      <3>. HIDE DEF Upto
      <3>. QED  BY <2>1, RecursionExists, Zenon
    <2>. QED  BY <2>2, Zenon
  <1>2. ASSUME NEW n \in Nat
        PROVE  /\ h[n] \in [0..n -> V]
               /\ h[n][0] = v0
               /\ \A i \in 1..n : h[n][i] = F[i][h[n][i - 1]]
    <2>1. \A i \in 1..n : Upto(n)[i] = F[i]
      OBVIOUS
    <2>. HIDE DEF Upto, h
    <2>. QED  BY <1>1, <2>1, Zenon DEF Follows
  <1>. HIDE DEF h
  <1>3. ASSUME NEW k \in Nat, k # 0 PROVE h[k][k - 1] = h[k - 1][k - 1]
    <2>. DEFINE m == k - 1
    <2>1. m \in Nat /\ 0..m \subseteq 0..k /\ 1..m \subseteq 1..k /\ m \in 0..m
      BY <1>3
    <2>. HIDE DEF m
    <2>2. h[k][0] = h[m][0]
      BY <1>2, <2>1, Zenon
    <2>3. \A i \in 1..m : h[k][i - 1] = h[m][i - 1] => h[k][i] = h[m][i]
      <3>. SUFFICES ASSUME NEW i \in 1..m, h[k][i - 1] = h[m][i - 1]
                    PROVE  h[k][i] = h[m][i]
        BY Zenon
      <3>1. h[k][i] = F[i][h[k][i - 1]] /\ h[m][i] = F[i][h[m][i - 1]]
        BY <1>2, <2>1, Zenon
      <3>. QED  BY <3>1, Zenon
    <2>4. \A f, e : f[0] = e[0] /\ (\A i \in 1..m : f[i - 1] = e[i - 1] => f[i] = e[i])
                      => \A i \in 0..m : f[i] = e[i]
      BY <2>1, RecursionUnique, Zenon
    <2>. DEFINE a == h[k]
                b == h[m]
    <2>5. a[0] = b[0] /\ \A i \in 1..m : a[i - 1] = b[i - 1] => a[i] = b[i]
      BY <2>2, <2>3, Zenon
    <2>. HIDE DEF a, b
    <2>6. \A i \in 0..m : a[i] = b[i]
      BY <2>4, <2>5, Zenon
    <2>7. a[m] = b[m]
      BY <2>1, <2>6, Zenon
    <2>. QED  BY <2>7 DEF m, a, b
  <1>4. g \in [Nat -> V]
    <2>1. \A k \in Nat : k \in 0..k
      OBVIOUS
    <2>2. \A k \in Nat : h[k][k] \in V
      BY <1>2, <2>1
    <2>. QED  BY <2>2
  <1>5. g[0] = v0
    BY <1>2
  <1>6. ASSUME NEW k \in Nat, k # 0 PROVE g[k] = F[k][g[k - 1]]
    <2>1. k - 1 \in Nat /\ k \in 1..k
      BY <1>6
    <2>2. g[k] = h[k][k] /\ g[k - 1] = h[k - 1][k - 1]
      BY <2>1
    <2>3. h[k][k] = F[k][h[k][k - 1]]
      BY <1>2, <2>1, Zenon
    <2>4. h[k][k - 1] = h[k - 1][k - 1]
      BY <1>3, <1>6
    <2>. QED  BY <2>2, <2>3, <2>4, Zenon
  <1>. HIDE DEF g
  <1>7. FollowsOn(g, V, v0, F)
    BY <1>4, <1>5, <1>6, Zenon DEF FollowsOn
  <1>. QED  BY <1>7, Zenon

-----------------------------------------------------------------------------
(* Sequences joined and taken apart. *)

LEMMA Joined ==
    ASSUME NEW S, NEW a \in Seq(S), NEW b \in Seq(S)
    PROVE  /\ a \o b \in Seq(S)
           /\ Len(a \o b) = Len(a) + Len(b)
           /\ \A i \in 1..Len(a) : (a \o b)[i] = a[i]
           /\ \A i \in 1..Len(b) : (a \o b)[Len(a) + i] = b[i]
  <1>1. a \o b \in Seq(S) /\ Len(a \o b) = Len(a) + Len(b)
    OBVIOUS
  <1>2. \A i \in 1..Len(a) : (a \o b)[i] = a[i]
    OBVIOUS
  <1>3. \A i \in 1..Len(b) : (a \o b)[Len(a) + i] = b[i]
    OBVIOUS
  <1>. QED  BY <1>1, <1>2, <1>3, Zenon

LEMMA Piece ==
    ASSUME NEW S, NEW w \in Seq(S), NEW a \in Nat, NEW k \in 0..Len(w), a <= k
    PROVE  /\ SubSeq(w, a + 1, k) \in Seq(S)
           /\ Len(SubSeq(w, a + 1, k)) = k - a
           /\ \A i \in 1..(k - a) : SubSeq(w, a + 1, k)[i] = w[a + i]
  <1>1. SubSeq(w, a + 1, k) \in Seq(S) /\ Len(SubSeq(w, a + 1, k)) = k - a
    OBVIOUS
  <1>2. \A i \in 1..(k - a) : SubSeq(w, a + 1, k)[i] = w[a + i]
    OBVIOUS
  <1>. QED  BY <1>1, <1>2, Zenon

(* Sequences of the same length with the same elements are the same. *)
LEMMA SameSeq ==
    ASSUME NEW S, NEW a \in Seq(S), NEW b \in Seq(S), Len(a) = Len(b),
           \A i \in 1..Len(a) : a[i] = b[i]
    PROVE  a = b
  OBVIOUS
=============================================================================
