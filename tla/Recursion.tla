------------------------------ MODULE Recursion -----------------------------
(***************************************************************************)
(* Recursion and induction on bounded measures, stated for functions: what *)
(* the proofs about the scans and chains of the models need.               *)
(***************************************************************************)
EXTENDS Integers, FiniteSetTheorems, TLAPS

\* A set of naturals that is not empty has a least element.
LEMMA LeastNatural ==
    ASSUME NEW S \in SUBSET Nat, S # {}
    PROVE  \E m \in S : \A k \in S : m <= k
<1>. DEFINE T == {1..n : n \in S}
<1>1. IsWellFoundedOn(StrictSubsetOrdering(Nat), FiniteSubsetsOf(Nat))
  BY FS_StrictSubsetOrderingWellFounded
<1>2. T \subseteq FiniteSubsetsOf(Nat) /\ T # {}
  <2>1. \A n \in S : IsFiniteSet(1..n) /\ 1..n \subseteq Nat
    BY FS_Interval
  <2>. QED
    BY <2>1 DEF FiniteSubsetsOf
<1>3. PICK x \in T : \A y \in T : ~ (<<y, x>> \in StrictSubsetOrdering(Nat))
  <2>. HIDE DEF T
  <2>. QED
    BY <1>1, <1>2, WFMin
<1>4. PICK m \in S : x = 1..m
  BY <1>3
<1>5. ASSUME NEW k \in S, k < m PROVE FALSE
  <2>1. 1..k \in T /\ 1..k \subseteq 1..m /\ m \in 1..m /\ m \notin 1..k
    BY <1>5
  <2>2. <<1..k, x>> \in StrictSubsetOrdering(Nat)
    BY <1>4, <2>1 DEF StrictSubsetOrdering
  <2>. QED
    BY <1>3, <2>1, <2>2
<1>. QED
  BY <1>4, <1>5

\* What holds at zero and is handed from each n to n + 1 holds up to N.
LEMMA UpTo ==
    ASSUME NEW N \in Nat, NEW S, 0 \in S, \A n \in 0..(N - 1) : n \in S => n + 1 \in S
    PROVE  \A n \in 0..N : n \in S
<1>. DEFINE T == {n \in 0..N : n \notin S}
<1>. SUFFICES ASSUME T # {} PROVE FALSE
  OBVIOUS
<1>1. PICK m \in T : \A k \in T : m <= k
  <2>1. T \subseteq Nat
    OBVIOUS
  <2>. HIDE DEF T
  <2>. QED
    BY <2>1, LeastNatural
<1>2. m # 0 /\ m - 1 \in 0..(N - 1)
  BY <1>1
<1>3. m - 1 \notin S
  BY <1>1, <1>2
<1>. QED
  BY <1>1, <1>2, <1>3

\* What holds of every element whose smaller elements have it holds of all.
LEMMA ByMeasure ==
    ASSUME NEW S, NEW mu \in [S -> Nat], NEW T,
           \A x \in S : (\A y \in S : mu[y] < mu[x] => y \in T) => x \in T
    PROVE  S \subseteq T
<1>. DEFINE bad == {mu[x] : x \in S \ T}
<1>. SUFFICES ASSUME S \ T # {} PROVE FALSE
  OBVIOUS
<1>1. PICK m \in bad : \A k \in bad : m <= k
  <2>1. bad \subseteq Nat /\ bad # {}
    OBVIOUS
  <2>. HIDE DEF bad
  <2>. QED
    BY <2>1, LeastNatural
<1>2. PICK x \in S \ T : mu[x] = m
  BY <1>1
<1>3. ASSUME NEW y \in S, mu[y] < mu[x] PROVE y \in T
  <2>1. mu[y] \in Nat /\ m \in Nat /\ mu[y] < m
    BY <1>2, <1>3
  <2>2. y \notin T => mu[y] \in bad
    OBVIOUS
  <2>3. mu[y] \notin bad
    <3>. HIDE DEF bad
    <3>. QED
      BY <1>1, <2>1
  <2>. QED
    BY <2>2, <2>3
<1>. QED
  BY <1>2, <1>3

\* H determines a function from S to V by recursion: the value at x is H[<<f, x>>],
\* which depends only on values of f at places of smaller measure, up to N.
Determines(H, S, V, mu, N) ==
    /\ V # {} /\ N \in Nat /\ mu \in [S -> 0..N]
    /\ H \in [[S -> V] \X S -> V]
    /\ \A x \in S : \A g, h \in [S -> V] :
          (\A y \in S : mu[y] < mu[x] => g[y] = h[y]) => H[<<g, x>>] = H[<<h, x>>]

\* There is such a function.
LEMMA RecursiveFunction ==
    ASSUME NEW S, NEW V, NEW H, NEW mu, NEW N, Determines(H, S, V, mu, N)
    PROVE  \E f \in [S -> V] : \A x \in S : f[x] = H[<<f, x>>]
<1>. USE DEF Determines
<1>. DEFINE Good(n) == \E g \in [S -> V] : \A x \in S : mu[x] < n => g[x] = H[<<g, x>>]
            P == {n \in 0..(N + 1) : Good(n)}
<1>1. 0 \in P
  <2>1. PICK v \in V : TRUE
    OBVIOUS
  <2>2. [x \in S |-> v] \in [S -> V]
    OBVIOUS
  <2>3. \A x \in S : ~(mu[x] < 0)
    <3>1. \A x \in S : mu[x] \in 0..N
      OBVIOUS
    <3>. QED
      BY <3>1
  <2>4. Good(0)
    BY <2>2, <2>3
  <2>. QED
    BY <2>4
<1>2. ASSUME NEW n \in 0..N, n \in P PROVE n + 1 \in P
  <2>1. PICK g \in [S -> V] : \A x \in S : mu[x] < n => g[x] = H[<<g, x>>]
    BY <1>2
  <2>. DEFINE h == [x \in S |-> IF mu[x] <= n THEN H[<<g, x>>] ELSE g[x]]
  <2>2. h \in [S -> V]
    OBVIOUS
  <2>3. \A y \in S : mu[y] < n => h[y] = g[y]
    BY <2>1
  <2>4. ASSUME NEW x \in S, mu[x] < n + 1 PROVE h[x] = H[<<h, x>>]
    <3>1. h[x] = H[<<g, x>>]
      BY <2>4
    <3>2. \A y \in S : mu[y] < mu[x] => g[y] = h[y]
      BY <2>3, <2>4
    <3>. HIDE DEF h
    <3>. QED
      BY <2>2, <3>1, <3>2
  <2>. HIDE DEF h
  <2>5. Good(n + 1)
    BY <2>2, <2>4
  <2>. QED
    BY <2>5
<1>3. N + 1 \in P
  <2>. HIDE DEF P
  <2>1. \A n \in 0..((N + 1) - 1) : n \in P => n + 1 \in P
    BY <1>2
  <2>. QED
    BY <1>1, <2>1, UpTo
<1>4. PICK g \in [S -> V] : \A x \in S : mu[x] < N + 1 => g[x] = H[<<g, x>>]
  BY <1>3
<1>5. \A x \in S : mu[x] < N + 1
  <2>1. \A x \in S : mu[x] \in 0..N
    OBVIOUS
  <2>. QED
    BY <2>1
<1>. QED
  BY <1>4, <1>5

\* N + 1 values in V: the first is a, and G gives each other from its place and the one before it.
Iterates(g, a, G, N, V) ==
    g \in [0..N -> V] /\ g[0] = a /\ \A n \in 1..N : g[n] = G[<<n, g[n - 1]>>]

\* There are such values.
LEMMA Iteration ==
    ASSUME NEW N \in Nat, NEW V, NEW a \in V, NEW G \in [(1..N) \X V -> V]
    PROVE  \E g : Iterates(g, a, G, N, V)
<1>. DEFINE S == 0..N
            H == [p \in [S -> V] \X S |-> IF p[2] = 0 THEN a ELSE G[<<p[2], p[1][p[2] - 1]>>]]
            mu == [n \in S |-> n]
<1>1. \A f \in [S -> V], n \in S : H[<<f, n>>] = IF n = 0 THEN a ELSE G[<<n, f[n - 1]>>]
  OBVIOUS
<1>2. \A f \in [S -> V], n \in S : n # 0 => n \in 1..N /\ n - 1 \in S /\ f[n - 1] \in V
  OBVIOUS
<1>3. H \in [[S -> V] \X S -> V]
  <2>1. \A p \in [S -> V] \X S : \E f \in [S -> V], n \in S : p = <<f, n>>
    <3>. HIDE DEF S
    <3>. QED
      OBVIOUS
  <2>2. ASSUME NEW f \in [S -> V], NEW n \in S PROVE H[<<f, n>>] \in V
    <3>1. n # 0 => G[<<n, f[n - 1]>>] \in V
      BY <1>2
    <3>. QED
      BY <1>1, <3>1
  <2>3. H = [p \in [S -> V] \X S |-> H[p]]
    OBVIOUS
  <2>. HIDE DEF H, S
  <2>4. \A p \in [S -> V] \X S : H[p] \in V
    BY <2>1, <2>2
  <2>. QED
    BY <2>3, <2>4
<1>4. Determines(H, S, V, mu, N)
  <2>1. ASSUME NEW x \in S, NEW f \in [S -> V], NEW h \in [S -> V],
               \A y \in S : mu[y] < mu[x] => f[y] = h[y]
        PROVE  H[<<f, x>>] = H[<<h, x>>]
    <3>1. x # 0 => x - 1 \in S /\ mu[x - 1] < mu[x]
      OBVIOUS
    <3>2. x # 0 => f[x - 1] = h[x - 1]
      BY <2>1, <3>1
    <3>. HIDE DEF H
    <3>. QED
      BY <1>1, <3>2
  <2>2. mu \in [S -> 0..N]
    OBVIOUS
  <2>. HIDE DEF H, mu, S
  <2>. QED
    BY <1>3, <2>1, <2>2 DEF Determines
<1>5. PICK f \in [S -> V] : \A n \in S : f[n] = H[<<f, n>>]
  <2>. HIDE DEF H, mu, S
  <2>. QED
    BY <1>4, RecursiveFunction
<1>6. \A n \in S : f[n] = IF n = 0 THEN a ELSE G[<<n, f[n - 1]>>]
  <2>. HIDE DEF H
  <2>. QED
    BY <1>1, <1>5
<1>7. 0 \in S /\ \A n \in 1..N : n \in S /\ n # 0
  OBVIOUS
<1>8. f[0] = a /\ \A n \in 1..N : f[n] = G[<<n, f[n - 1]>>]
  BY <1>6, <1>7
<1>. QED
  BY <1>8 DEF Iterates
=============================================================================
