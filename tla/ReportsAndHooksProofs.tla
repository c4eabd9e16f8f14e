------------------------ MODULE ReportsAndHooksProofs ------------------------
(***************************************************************************)
(* Proofs about what the tool keeps beside the program's stack.            *)
(*                                                                         *)
(* RaceReports: the shared, reference-counted nodes are call stacks that   *)
(* persist, and no race is found twice.                                    *)
(*                                                                         *)
(* LibHooks: whatever library functions a program calls, the stacks hold   *)
(* the MAAPs of the calls in progress, a function is told what its own     *)
(* caller set, and a hook checks what the call accessed, filtered by the   *)
(* MAAPs of that call or by none.                                          *)
(***************************************************************************)
EXTENDS RaceReports, LibHooks, Recursion, SequenceTheorems, FiniteSetTheorems

(***************************************************************************)
(* Linked lists.  Serial numbers grow along a list, so it has an end.      *)
(***************************************************************************)
NodeRec(N) == [id : CallIDs \cup {"none"}, prev : Nodes \cup {Null}, ref_count : Nat,
               serial : 0 .. N]

\* A list of nodes, the latest of which is activation N at most.
Chained(ns, N) ==
    /\ N \in Nat /\ ns \in [Nodes -> NodeRec(N)]
    /\ \A n \in Nodes : ns[n].prev # Null => ns[ns[n].prev].serial < ns[n].serial

\* The fields of nodes, and the null pointer, which is no node.
LEMMA ListFacts ==
    ASSUME NEW ns, NEW N, Chained(ns, N)
    PROVE  /\ Null \notin Nodes /\ N \in Nat /\ ns \in [Nodes -> NodeRec(N)]
           /\ \A n \in Nodes :
                 /\ ns[n].prev \in Nodes \cup {Null} /\ ns[n].ref_count \in Nat
                 /\ ns[n].serial \in 0 .. N /\ ns[n].serial \in Nat
                 /\ ns[n].prev # Null =>
                       ns[n].prev \in Nodes /\ ns[ns[n].prev].serial < ns[n].serial
<1>1. Null \notin Nodes
  BY ReportsAssumption DEF Null
<1>2. N \in Nat /\ ns \in [Nodes -> NodeRec(N)]
  BY DEF Chained
<1>3. ASSUME NEW n \in Nodes
      PROVE  /\ ns[n].prev \in Nodes \cup {Null} /\ ns[n].ref_count \in Nat
             /\ ns[n].serial \in 0 .. N
  <2>1. ns[n] \in NodeRec(N)
    BY <1>2
  <2>. QED
    BY <2>1 DEF NodeRec
<1>. QED
  BY <1>1, <1>2, <1>3 DEF Chained

\* What holds of a pointer if it holds of the one before it, holds of all.
LEMMA AlongTheList ==
    ASSUME NEW ns, NEW N, Chained(ns, N), NEW T, Null \in T,
           \A n \in Nodes : ns[n].prev \in T => n \in T
    PROVE  Nodes \cup {Null} \subseteq T
<1>. DEFINE mu == [n \in Nodes |-> ns[n].serial]
<1>1. mu \in [Nodes -> Nat]
  BY ListFacts
<1>2. ASSUME NEW n \in Nodes, \A m \in Nodes : mu[m] < mu[n] => m \in T PROVE n \in T
  <2>1. CASE ns[n].prev = Null
    BY <2>1
  <2>2. CASE ns[n].prev # Null
    BY <1>2, <2>2, ListFacts
  <2>. QED
    BY <2>1, <2>2
<1>. HIDE DEF mu
<1>3. Nodes \subseteq T
  BY <1>1, <1>2, ByMeasure
<1>. QED
  BY <1>3

\* The list that ends at a node is the one that ends before it, and the node.
LEMMA ChainStep ==
    ASSUME NEW ns, NEW N, Chained(ns, N)
    PROVE  /\ Chain(ns, Null) = <<>>
           /\ \A n \in Nodes \cup {Null} : Chain(ns, n) \in Seq(Nodes)
           /\ \A n \in Nodes : Chain(ns, n) = Append(Chain(ns, ns[n].prev), n)
<1>. DEFINE V == Seq(Nodes)
            S == Nodes \cup {Null}
            H == [fm \in [S -> V] \X S |->
                    IF fm[2] = Null THEN <<>> ELSE Append(fm[1][ns[fm[2]].prev], fm[2])]
            mu == [m \in S |-> IF m = Null THEN 0 ELSE ns[m].serial + 1]
            chain == CHOOSE p : p = [m \in S |->
                      IF m = Null THEN <<>> ELSE Append(p[ns[m].prev], m)]
<1>1. \A m \in S : m # Null => m \in Nodes /\ ns[m].prev \in S
  BY ListFacts
<1>2. \A f \in [S -> V] : \A m \in S :
         H[<<f, m>>] = IF m = Null THEN <<>> ELSE Append(f[ns[m].prev], m)
  OBVIOUS
<1>3. H \in [[S -> V] \X S -> V]
  <2>1. ASSUME NEW f \in [S -> V], NEW m \in S
        PROVE  (IF m = Null THEN <<>> ELSE Append(f[ns[m].prev], m)) \in V
    <3>1. CASE m = Null
      BY <3>1, EmptySeq
    <3>2. CASE m # Null
      <4>1. f[ns[m].prev] \in V /\ m \in Nodes
        BY <1>1, <3>2
      <4>. QED
        BY <3>2, <4>1, AppendProperties
    <3>. QED
      BY <3>1, <3>2
  <2>. HIDE DEF V
  <2>. QED
    BY <2>1
<1>4. N + 1 \in Nat /\ mu \in [S -> 0 .. (N + 1)]
  BY ListFacts
<1>5. ASSUME NEW m \in S, NEW f \in [S -> V], NEW g \in [S -> V],
             \A y \in S : mu[y] < mu[m] => f[y] = g[y]
      PROVE  H[<<f, m>>] = H[<<g, m>>]
  <2>1. CASE m = Null
    BY <1>2, <2>1
  <2>2. CASE m # Null
    <3>1. m \in Nodes /\ ns[m].prev \in S
      BY <1>1, <2>2
    <3>2. mu[ns[m].prev] < mu[m]
      <4>1. CASE ns[m].prev = Null
        BY <2>2, <3>1, <4>1, ListFacts
      <4>2. CASE ns[m].prev # Null
        BY <2>2, <3>1, <4>2, ListFacts, SMTT(30)
      <4>. QED
        BY <4>1, <4>2
    <3>. QED
      BY <1>2, <1>5, <2>2, <3>1, <3>2
  <2>. QED
    BY <2>1, <2>2
<1>6. \E f \in [S -> V] : \A m \in S : f[m] = H[<<f, m>>]
  <2>1. Determines(H, S, V, mu, N + 1)
    <3>1. V # {}
      BY EmptySeq
    <3>. HIDE DEF mu, H, V, S
    <3>. QED
      BY <1>3, <1>4, <1>5, <3>1 DEF Determines
  <2>. HIDE DEF H, V, mu, S
  <2>. QED
    BY <2>1, RecursiveFunction
<1>7. PICK f \in [S -> V] :
         f = [m \in S |-> IF m = Null THEN <<>> ELSE Append(f[ns[m].prev], m)]
  <2>1. PICK f \in [S -> V] : \A m \in S : f[m] = H[<<f, m>>]
    BY <1>6
  <2>2. \A m \in S : f[m] = IF m = Null THEN <<>> ELSE Append(f[ns[m].prev], m)
    BY <1>2, <2>1
  <2>. HIDE DEF H, V, S
  <2>3. f = [m \in S |-> IF m = Null THEN <<>> ELSE Append(f[ns[m].prev], m)]
    BY <2>2
  <2>. QED
    BY <2>3
<1>8. chain = [m \in S |-> IF m = Null THEN <<>> ELSE Append(chain[ns[m].prev], m)]
  BY <1>7
<1>9. \A m : Chain(ns, m) = chain[m]
  BY DEF Chain
<1>. HIDE DEF chain
<1>10. chain[Null] = <<>> /\ \A m \in Nodes : chain[m] = Append(chain[ns[m].prev], m)
  BY <1>8, ListFacts
<1>11. S \subseteq {m \in S : chain[m] \in Seq(Nodes)}
  <2>. DEFINE T == {m \in S : chain[m] \in Seq(Nodes)}
  <2>1. Null \in T
    BY <1>10, EmptySeq
  <2>2. ASSUME NEW n \in Nodes, ns[n].prev \in T PROVE n \in T
    <3>1. chain[ns[n].prev] \in Seq(Nodes) /\ chain[n] = Append(chain[ns[n].prev], n)
      BY <1>10, <2>2
    <3>2. chain[n] \in Seq(Nodes)
      BY <3>1, AppendProperties
    <3>. QED
      BY <3>2
  <2>. HIDE DEF T
  <2>3. S \subseteq T
    BY <2>1, <2>2, AlongTheList
  <2>. QED
    BY <2>3 DEF T
<1>. QED
  BY <1>9, <1>10, <1>11

\* The list that ends at n: each node points at the one before it.
ChainOK(ns, n) ==
    LET c == Chain(ns, n) IN
    /\ c \in Seq(Nodes) /\ Len(c) \in Nat
    /\ Len(c) = 0 <=> n = Null
    /\ n # Null => c[Len(c)] = n
    /\ \A i \in 1 .. Len(c) :
          c[i] \in Nodes /\ ns[c[i]].prev = IF i = 1 THEN Null ELSE c[i - 1]
    /\ \A i, j \in 1 .. Len(c) : i < j => ns[c[i]].serial < ns[c[j]].serial

\* Every list is so.
LEMMA ChainFacts ==
    ASSUME NEW ns, NEW N, Chained(ns, N), NEW n \in Nodes \cup {Null}
    PROVE  ChainOK(ns, n)
<1>. DEFINE T == {m \in Nodes \cup {Null} : ChainOK(ns, m)}
<1>1. Null \in T
  <2>1. PICK c : c = Chain(ns, Null)
    OBVIOUS
  <2>2. c = <<>> /\ c \in Seq(Nodes) /\ Len(c) = 0
    BY <2>1, ChainStep, EmptySeq
  <2>3. ChainOK(ns, Null)
    BY <2>1, <2>2 DEF ChainOK
  <2>. QED
    BY <2>3
<1>2. ASSUME NEW m \in Nodes, ns[m].prev \in T PROVE ChainOK(ns, m)
  <2>1. PICK b, c, p : b = Chain(ns, p) /\ c = Chain(ns, m) /\ p = ns[m].prev
    OBVIOUS
  <2>2. /\ ChainOK(ns, p) /\ p \in Nodes \cup {Null} /\ m # Null
        /\ p # Null => ns[p].serial < ns[m].serial
        /\ c = Append(b, m)
    BY <1>2, <2>1, ChainStep, ListFacts
  <2>3. /\ b \in Seq(Nodes) /\ Len(b) \in Nat /\ (Len(b) = 0 <=> p = Null)
        /\ p # Null => b[Len(b)] = p
        /\ \A i \in 1 .. Len(b) :
              b[i] \in Nodes /\ ns[b[i]].prev = IF i = 1 THEN Null ELSE b[i - 1]
        /\ \A i, j \in 1 .. Len(b) : i < j => ns[b[i]].serial < ns[b[j]].serial
    BY <2>1, <2>2 DEF ChainOK
  <2>4. /\ c \in Seq(Nodes) /\ Len(c) = Len(b) + 1
        /\ \A i \in 1 .. Len(b) : c[i] = b[i]
        /\ c[Len(b) + 1] = m
    BY <2>2, <2>3, AppendProperties
  <2>5. ASSUME NEW i \in 1 .. Len(c)
        PROVE  c[i] \in Nodes /\ ns[c[i]].prev = IF i = 1 THEN Null ELSE c[i - 1]
    <3>1. CASE i \in 1 .. Len(b)
      <4>1. i # 1 => i - 1 \in 1 .. Len(b)
        BY <2>3, <3>1
      <4>. QED
        BY <2>3, <2>4, <3>1, <4>1
    <3>2. CASE i = Len(b) + 1
      <4>1. c[i] = m /\ ns[c[i]].prev = p
        BY <2>1, <2>4, <3>2
      <4>2. CASE Len(b) = 0
        BY <2>3, <3>2, <4>1, <4>2
      <4>3. CASE Len(b) # 0
        <5>1. i # 1 /\ i - 1 = Len(b) /\ Len(b) \in 1 .. Len(b)
          BY <2>3, <3>2, <4>3
        <5>. QED
          BY <2>3, <2>4, <4>1, <4>3, <5>1
      <4>. QED
        BY <4>2, <4>3
    <3>. QED
      BY <2>3, <2>4, <3>1, <3>2
  <2>6. ASSUME NEW i \in 1 .. Len(c), NEW j \in 1 .. Len(c), i < j
        PROVE  ns[c[i]].serial < ns[c[j]].serial
    <3>1. i \in 1 .. Len(b) /\ (j \in 1 .. Len(b) \/ j = Len(b) + 1)
      BY <2>3, <2>4, <2>6
    <3>2. CASE j \in 1 .. Len(b)
      BY <2>3, <2>4, <2>6, <3>1, <3>2
    <3>3. CASE j = Len(b) + 1
      <4>1. Len(b) \in 1 .. Len(b) /\ p \in Nodes /\ b[Len(b)] = p /\ ns[p].serial < ns[m].serial
        BY <2>2, <2>3, <3>1
      <4>2. CASE i = Len(b)
        BY <2>4, <3>3, <4>1, <4>2
      <4>3. CASE i < Len(b)
        <5>1. ns[b[i]].serial < ns[p].serial /\ b[i] \in Nodes
          BY <2>3, <3>1, <4>1, <4>3
        <5>2. /\ ns[b[i]].serial \in Nat /\ ns[p].serial \in Nat /\ ns[m].serial \in Nat
          BY <4>1, <5>1, ListFacts
        <5>3. c[i] = b[i] /\ c[j] = m
          BY <2>4, <3>1, <3>3
        <5>. QED
          BY <4>1, <5>1, <5>2, <5>3
      <4>. QED
        BY <2>3, <3>1, <4>2, <4>3
    <3>. QED
      BY <3>1, <3>2, <3>3
  <2>7. Len(c) \in Nat /\ Len(c) # 0 /\ c[Len(c)] = m
    BY <2>3, <2>4
  <2>. QED
    BY <2>1, <2>2, <2>4, <2>5, <2>6, <2>7 DEF ChainOK
<1>3. \A m \in Nodes : ns[m].prev \in T => m \in T
  BY <1>2
<1>. HIDE DEF T
<1>4. Nodes \cup {Null} \subseteq T
  BY <1>1, <1>3, AlongTheList
<1>. QED
  BY <1>4 DEF T

\* The nodes of A are in ns2 what they are in ns, and point at each other.
Kept(ns, ns2, A) ==
    \A m \in A : /\ ns2[m].prev = ns[m].prev /\ ns2[m].id = ns[m].id
                 /\ ns2[m].serial = ns[m].serial /\ ns[m].prev \in A \cup {Null}

\* Lists of nodes that are kept are the same lists of the same activations.
LEMMA SameLists ==
    ASSUME NEW ns, NEW N, Chained(ns, N), NEW ns2, NEW N2, Chained(ns2, N2),
           NEW A \in SUBSET Nodes, Kept(ns, ns2, A)
    PROVE  \A n \in A \cup {Null} :
              /\ Chain(ns2, n) = Chain(ns, n)
              /\ \A i \in 1 .. Len(Chain(ns, n)) : Chain(ns, n)[i] \in A
              /\ Activations(ns2, n) = Activations(ns, n)
<1>. DEFINE T == {n \in Nodes \cup {Null} : n \in A \cup {Null} =>
                    /\ Chain(ns2, n) = Chain(ns, n)
                    /\ \A i \in 1 .. Len(Chain(ns, n)) : Chain(ns, n)[i] \in A}
<1>1. Null \in T
  <2>1. Chain(ns, Null) = <<>> /\ Chain(ns2, Null) = <<>> /\ 1 .. Len(<<>>) = {}
    BY ChainStep, EmptySeq
  <2>. QED
    BY <2>1
<1>2. ASSUME NEW n \in Nodes, ns[n].prev \in T, n \in A
      PROVE  /\ Chain(ns2, n) = Chain(ns, n)
             /\ \A i \in 1 .. Len(Chain(ns, n)) : Chain(ns, n)[i] \in A
  <2>1. PICK p, b, c : p = ns[n].prev /\ b = Chain(ns, p) /\ c = Chain(ns, n)
    OBVIOUS
  <2>2. p = ns2[n].prev /\ p \in A \cup {Null}
    BY <1>2, <2>1 DEF Kept
  <2>3. Chain(ns2, p) = b /\ \A i \in 1 .. Len(b) : b[i] \in A
    BY <1>2, <2>1, <2>2
  <2>4. c = Append(b, n) /\ Chain(ns2, n) = Append(b, n) /\ b \in Seq(Nodes)
    BY <2>1, <2>2, <2>3, ChainStep
  <2>5. /\ Len(c) = Len(b) + 1 /\ Len(b) \in Nat /\ c[Len(b) + 1] = n
        /\ \A i \in 1 .. Len(b) : c[i] = b[i]
    BY <2>4, AppendProperties, LenProperties
  <2>6. ASSUME NEW i \in 1 .. Len(c) PROVE c[i] \in A
    <3>1. i \in 1 .. Len(b) \/ i = Len(b) + 1
      BY <2>5
    <3>. QED
      BY <1>2, <2>3, <2>5, <3>1
  <2>. QED
    BY <2>1, <2>4, <2>6
<1>3. \A n \in Nodes : ns[n].prev \in T => n \in T
  BY <1>2, ListFacts
<1>. HIDE DEF T
<1>4. Nodes \cup {Null} \subseteq T
  BY <1>1, <1>3, AlongTheList
<1>5. ASSUME NEW n \in A \cup {Null}
      PROVE  /\ Chain(ns2, n) = Chain(ns, n)
             /\ \A i \in 1 .. Len(Chain(ns, n)) : Chain(ns, n)[i] \in A
  BY <1>4 DEF T
<1>6. ASSUME NEW n \in A \cup {Null} PROVE Activations(ns2, n) = Activations(ns, n)
  <2>1. PICK c : c = Chain(ns, n) /\ c = Chain(ns2, n) /\ \A i \in 1 .. Len(c) : c[i] \in A
    BY <1>5
  <2>2. \A i \in 1 .. Len(c) : ns2[c[i]].id = ns[c[i]].id /\ ns2[c[i]].serial = ns[c[i]].serial
    BY <2>1 DEF Kept
  <2>3. [i \in 1 .. Len(c) |-> [id |-> ns2[c[i]].id, serial |-> ns2[c[i]].serial]]
          = [i \in 1 .. Len(c) |-> [id |-> ns[c[i]].id, serial |-> ns[c[i]].serial]]
    BY <2>2
  <2>. QED
    BY <2>1, <2>3 DEF Activations
<1>. QED
  BY <1>5, <1>6

-----------------------------------------------------------------------------
(***************************************************************************)
(* Counts.  X[n] is the number of pointers at n from outside the nodes.    *)
(***************************************************************************)
More(X, n) == [X EXCEPT ![n] = @ + 1]
Less(X, n) == [X EXCEPT ![n] = @ - 1]

Sons(ns, n) == {m \in Nodes : ns[m].prev = n}

Counted(ns, N, X) ==
    /\ Chained(ns, N) /\ X \in [Nodes -> Nat]
    /\ \A n \in Nodes : ns[n].ref_count = Cardinality(Sons(ns, n)) + X[n]
    /\ \A n \in Nodes : ns[n].ref_count = 0 => ns[n] = NoNode

\* Sets of nodes are finite.
LEMMA SonsFacts ==
    ASSUME NEW S \in SUBSET Nodes
    PROVE  /\ IsFiniteSet(S) /\ Cardinality(S) \in Nat /\ (Cardinality(S) = 0 <=> S = {})
           /\ \A m \in S : Cardinality(S \ {m}) = Cardinality(S) - 1
           /\ \A m \in Nodes \ S : Cardinality(S \cup {m}) = Cardinality(S) + 1
<1>1. IsFiniteSet(S)
  BY ReportsAssumption, FS_Subset
<1>. QED
  BY <1>1, FS_CardinalityType, FS_EmptySet, FS_AddElement, FS_RemoveElement

\* A node that something points at is alive.
LEMMA CountedFacts ==
    ASSUME NEW ns, NEW N, NEW X, Counted(ns, N, X), NEW n \in Nodes
    PROVE  /\ Chained(ns, N) /\ ns[n].ref_count \in Nat /\ X[n] \in Nat
           /\ Cardinality(Sons(ns, n)) \in Nat /\ Sons(ns, n) \in SUBSET Nodes
           /\ ns[n].ref_count = Cardinality(Sons(ns, n)) + X[n]
           /\ X[n] > 0 => ns[n].ref_count > 0
           /\ Sons(ns, n) # {} => ns[n].ref_count > 0
           /\ ns[n].ref_count = 0 => /\ ns[n] = NoNode /\ X[n] = 0 /\ Sons(ns, n) = {}
                                     /\ ns[n].prev = Null
           /\ ns[n].prev # Null => ns[ns[n].prev].ref_count > 0 /\ ns[n].ref_count > 0
<1>1. /\ Chained(ns, N) /\ X \in [Nodes -> Nat] /\ Null \notin Nodes
      /\ \A m \in Nodes : ns[m].ref_count = Cardinality(Sons(ns, m)) + X[m]
      /\ \A m \in Nodes : ns[m].ref_count = 0 => ns[m] = NoNode
  BY ListFacts DEF Counted
<1>2. ASSUME NEW m \in Nodes
      PROVE  /\ Sons(ns, m) \in SUBSET Nodes /\ Cardinality(Sons(ns, m)) \in Nat /\ X[m] \in Nat
             /\ Sons(ns, m) # {} => Cardinality(Sons(ns, m)) # 0
  <2>1. Sons(ns, m) \in SUBSET Nodes
    BY DEF Sons
  <2>. QED
    BY <1>1, <2>1, SonsFacts
<1>3. ASSUME NEW m \in Nodes
      PROVE  /\ X[m] > 0 => ns[m].ref_count > 0
             /\ Sons(ns, m) # {} => ns[m].ref_count > 0
             /\ ns[m].ref_count = 0 => X[m] = 0 /\ Sons(ns, m) = {}
  BY <1>1, <1>2
<1>4. ns[n].ref_count = 0 => ns[n] = NoNode /\ ns[n].prev = Null
  BY <1>1 DEF NoNode
<1>5. ns[n].ref_count \in Nat
  BY <1>1, ListFacts
<1>6. ASSUME ns[n].prev # Null
      PROVE  ns[ns[n].prev].ref_count > 0 /\ ns[n].ref_count > 0
  <2>1. ns[n].prev \in Nodes /\ n \in Sons(ns, ns[n].prev)
    BY <1>1, <1>6, ListFacts DEF Sons
  <2>. QED
    BY <1>3, <1>4, <1>5, <1>6, <2>1
<1>. QED
  BY <1>1, <1>2, <1>3, <1>4, <1>5, <1>6

\* The nodes alive, and what they point at, which is alive.
LEMMA AliveKept ==
    ASSUME NEW ns, NEW N, NEW X, Counted(ns, N, X), NEW n \in Nodes \cup {Null},
           n # Null => ns[n].ref_count > 0
    PROVE  /\ \A i \in 1 .. Len(Chain(ns, n)) : ns[Chain(ns, n)[i]].ref_count > 0
<1>. DEFINE A == {m \in Nodes : ns[m].ref_count > 0}
<1>1. A \in SUBSET Nodes /\ n \in A \cup {Null}
  OBVIOUS
<1>2. Kept(ns, ns, A)
  BY CountedFacts, ListFacts DEF Kept
<1>3. Chained(ns, N)
  BY DEF Counted
<1>4. \A i \in 1 .. Len(Chain(ns, n)) : Chain(ns, n)[i] \in A
  <2>. HIDE DEF A
  <2>. QED
    BY <1>1, <1>2, <1>3, SameLists
<1>. QED
  BY <1>4

\* inc_ref_count: a pointer is made at a node that is alive.
LEMMA IncCounted ==
    ASSUME NEW ns, NEW N, NEW X, Counted(ns, N, X), NEW n \in Nodes, ns[n].ref_count > 0,
           NEW ns2, ns2 = inc_ref_count(ns, n)
    PROVE  /\ Counted(ns2, N, More(X, n))
           /\ \A m \in Nodes :
                 /\ ns2[m].prev = ns[m].prev /\ ns2[m].id = ns[m].id
                 /\ ns2[m].serial = ns[m].serial
                 /\ ns2[m].ref_count = IF m = n THEN ns[m].ref_count + 1 ELSE ns[m].ref_count
<1>1. Chained(ns, N) /\ X \in [Nodes -> Nat]
  BY DEF Counted
<1>2. /\ Null \notin Nodes /\ N \in Nat /\ ns \in [Nodes -> NodeRec(N)]
  BY <1>1, ListFacts
<1>3. ns2 = [ns EXCEPT ![n].ref_count = @ + 1]
  BY <1>2 DEF inc_ref_count
<1>4. PICK r : r = [ns[n] EXCEPT !.ref_count = @ + 1]
  OBVIOUS
<1>5. ns2 = [ns EXCEPT ![n] = r]
  BY <1>3, <1>4, Zenon
<1>6. /\ r.prev = ns[n].prev /\ r.id = ns[n].id /\ r.serial = ns[n].serial
      /\ r.ref_count = ns[n].ref_count + 1 /\ r \in NodeRec(N)
  <2>1. ns[n] \in NodeRec(N)
    BY <1>2
  <2>. QED
    BY <1>4, <2>1 DEF NodeRec
<1>7. ns2 \in [Nodes -> NodeRec(N)] /\ ns2[n] = r /\ \A m \in Nodes : m # n => ns2[m] = ns[m]
  BY <1>2, <1>5, <1>6
<1>8. \A m \in Nodes :
         /\ ns2[m].prev = ns[m].prev /\ ns2[m].id = ns[m].id
         /\ ns2[m].serial = ns[m].serial
         /\ ns2[m].ref_count = IF m = n THEN ns[m].ref_count + 1 ELSE ns[m].ref_count
  BY <1>6, <1>7
<1>9. Chained(ns2, N)
  <2>1. ASSUME NEW m \in Nodes, ns2[m].prev # Null
        PROVE  ns2[ns2[m].prev].serial < ns2[m].serial
    BY <1>1, <1>8, <2>1, ListFacts
  <2>. QED
    BY <1>2, <1>7, <2>1 DEF Chained
<1>10. ASSUME NEW m \in Nodes
       PROVE  /\ ns2[m].ref_count = Cardinality(Sons(ns2, m)) + More(X, n)[m]
              /\ ns2[m].ref_count = 0 => ns2[m] = NoNode
  <2>1. Sons(ns2, m) = Sons(ns, m)
    BY <1>8 DEF Sons
  <2>2. /\ ns[m].ref_count = Cardinality(Sons(ns, m)) + X[m] /\ X[m] \in Nat
        /\ Cardinality(Sons(ns, m)) \in Nat /\ ns[m].ref_count \in Nat
        /\ ns[m].ref_count = 0 => ns[m] = NoNode
    BY CountedFacts
  <2>3. More(X, n)[m] = IF m = n THEN X[m] + 1 ELSE X[m]
    BY <1>1 DEF More
  <2>4. ns2[m].ref_count = Cardinality(Sons(ns2, m)) + More(X, n)[m]
    BY <1>8, <2>1, <2>2, <2>3
  <2>5. ns2[m].ref_count = 0 => ns2[m] = NoNode
    BY <1>7, <1>8, <2>2
  <2>. QED
    BY <2>4, <2>5
<1>11. More(X, n) \in [Nodes -> Nat]
  BY <1>1 DEF More
<1>. QED
  BY <1>8, <1>9, <1>10, <1>11 DEF Counted

\* What dies with a reference to n: the end of its list, from p + 1 on.
DiesFrom(ns, n, p) ==
    LET c == Chain(ns, n) IN
    /\ p \in 0 .. Len(c)
    /\ Dying(ns, n) = {c[i] : i \in (p + 1) .. Len(c)}
    /\ Cardinality(Dying(ns, n)) = Len(c) - p
    /\ \A i \in (p + 1) .. Len(c) : ns[c[i]].ref_count = 1
    /\ p > 0 => ns[c[p]].ref_count # 1

\* The destructors cascade as far as the first node with another reference.
LEMMA DyingFacts ==
    ASSUME NEW ns, NEW N, Chained(ns, N), NEW n \in Nodes \cup {Null}
    PROVE  \E p : DiesFrom(ns, n, p)
<1>1. PICK c, len : c = Chain(ns, n) /\ len = Len(c)
  OBVIOUS
<1>2. /\ len \in Nat
      /\ \A i \in 1 .. len : c[i] \in Nodes
      /\ \A i, j \in 1 .. len : i < j => ns[c[i]].serial < ns[c[j]].serial
  BY <1>1, ChainFacts DEF ChainOK
<1>3. \A i, j \in 1 .. len : c[i] = c[j] => i = j
  <2>1. \A i \in 1 .. len : ns[c[i]].serial \in Nat
    BY <1>2, ListFacts
  <2>. QED
    BY <1>2, <2>1
<1>4. PICK p \in 0 .. len : /\ \A i \in (p + 1) .. len : ns[c[i]].ref_count = 1
                            /\ p > 0 => ns[c[p]].ref_count # 1
  <2>. DEFINE S == {q \in 0 .. len : \A i \in (q + 1) .. len : ns[c[i]].ref_count = 1}
  <2>1. S \subseteq Nat /\ len \in S
    BY <1>2
  <2>2. PICK p \in S : \A q \in S : p <= q
    <3>. HIDE DEF S
    <3>. QED
      BY <2>1, LeastNatural
  <2>3. ASSUME p > 0, ns[c[p]].ref_count = 1 PROVE FALSE
    <3>1. p - 1 \in 0 .. len /\ ~(p <= p - 1)
      BY <1>2, <2>2, <2>3
    <3>2. \A i \in p .. len : ns[c[i]].ref_count = 1
      BY <1>2, <2>2, <2>3
    <3>3. p - 1 \in S
      BY <1>2, <2>2, <3>1, <3>2
    <3>. QED
      BY <2>2, <3>1, <3>3
  <2>. QED
    BY <2>2, <2>3
<1>5. PICK D : D = {c[i] : i \in (p + 1) .. len}
  OBVIOUS
<1>6. Dying(ns, n) = D
  <2>1. {j \in 1 .. len : \A k \in j .. len : ns[c[k]].ref_count = 1} = (p + 1) .. len
    <3>1. ASSUME NEW j \in 1 .. len, \A k \in j .. len : ns[c[k]].ref_count = 1
          PROVE  j \in (p + 1) .. len
      <4>1. CASE j <= p
        <5>1. p \in j .. len /\ p > 0
          BY <1>2, <1>4, <4>1
        <5>. QED
          BY <1>4, <3>1, <5>1
      <4>. QED
        BY <1>2, <1>4, <4>1
    <3>2. ASSUME NEW j \in (p + 1) .. len
          PROVE  j \in 1 .. len /\ \A k \in j .. len : ns[c[k]].ref_count = 1
      BY <1>2, <1>4
    <3>. QED
      BY <3>1, <3>2
  <2>. QED
    BY <1>1, <1>5, <2>1 DEF Dying
<1>7. Cardinality(D) = len - p
  <2>1. PICK I : I = (p + 1) .. len
    OBVIOUS
  <2>2. IsFiniteSet(I) /\ Cardinality(I) = len - p
    <3>1. p \in Nat /\ p <= len /\ p + 1 \in Int /\ len \in Int
      BY <1>2, <1>4
    <3>2. IsFiniteSet(I) /\ Cardinality(I) = IF p + 1 > len THEN 0 ELSE len - (p + 1) + 1
      BY <2>1, <3>1, FS_Interval
    <3>. QED
      BY <1>2, <3>1, <3>2
  <2>3. PICK f : f = [i \in I |-> c[i]]
    OBVIOUS
  <2>4. f \in Surjection(I, D) /\ f \in Injection(I, D)
    <3>1. f \in [I -> D] /\ \A d \in D : \E i \in I : f[i] = d
      BY <1>5, <2>1, <2>3
    <3>2. \A i, j \in I : f[i] = f[j] => i = j
      BY <1>2, <1>3, <2>1, <2>3
    <3>. QED
      BY <2>3, <3>1, <3>2 DEF Surjection, Injection, IsInjective
  <2>. QED
    BY <2>2, <2>4, FS_Surjection
<1>8. /\ p \in 0 .. Len(c) /\ Dying(ns, n) = {c[i] : i \in (p + 1) .. Len(c)}
      /\ Cardinality(Dying(ns, n)) = Len(c) - p
      /\ \A i \in (p + 1) .. Len(c) : ns[c[i]].ref_count = 1
      /\ p > 0 => ns[c[p]].ref_count # 1
  BY <1>1, <1>4, <1>5, <1>6, <1>7
<1>9. DiesFrom(ns, n, p)
  BY <1>1, <1>8, Zenon DEF DiesFrom
<1>. QED
  BY <1>9

\* A reference to n goes: the nodes that die are new on the free list, nearest
\* first, and every other node is what it was.
Released(ns, n, ns2, dead) ==
    /\ \A m \in Nodes : ns2[m].ref_count > 0 =>
          /\ ns[m].ref_count > 0 /\ ns2[m].prev = ns[m].prev /\ ns2[m].id = ns[m].id
          /\ ns2[m].serial = ns[m].serial
    /\ dead \in Seq(Nodes)
    /\ \A i \in 1 .. Len(dead) :
          /\ ns[dead[i]].ref_count > 0 /\ ns2[dead[i]].ref_count = 0
          /\ \A j \in 1 .. (i - 1) : dead[i] # dead[j]

\* release, when a pointer from outside goes.
LEMMA ReleaseCounted ==
    ASSUME NEW ns, NEW N, NEW X, Counted(ns, N, X), NEW n \in Nodes, X[n] > 0,
           NEW ns2, NEW dead, ns2 = release(ns, n).ns, dead = release(ns, n).dead
    PROVE  /\ Counted(ns2, N, Less(X, n))
           /\ Released(ns, n, ns2, dead)
<1>1. /\ Chained(ns, N) /\ X \in [Nodes -> Nat] /\ n # Null /\ Null \notin Nodes /\ N \in Nat
      /\ ns \in [Nodes -> NodeRec(N)]
  BY ListFacts DEF Counted
<1>2. PICK c, len : c = Chain(ns, n) /\ len = Len(c)
  OBVIOUS
<1>3. /\ len \in Nat /\ len # 0 /\ c[len] = n
      /\ \A i \in 1 .. len :
            c[i] \in Nodes /\ ns[c[i]].prev = IF i = 1 THEN Null ELSE c[i - 1]
      /\ \A i, j \in 1 .. len : i < j => ns[c[i]].serial < ns[c[j]].serial
  <2>1. ChainOK(ns, n)
    BY <1>1, ChainFacts
  <2>. QED
    BY <1>1, <1>2, <2>1 DEF ChainOK
<1>4. \A i, j \in 1 .. len : c[i] = c[j] => i = j
  <2>1. \A i \in 1 .. len : ns[c[i]].serial \in Nat
    BY <1>1, <1>3, ListFacts
  <2>. QED
    BY <1>3, <2>1
<1>5. PICK p : DiesFrom(ns, n, p)
  BY <1>1, DyingFacts
<1>6. PICK D : D = Dying(ns, n)
  OBVIOUS
<1>7. /\ p \in 0 .. len /\ D = {c[i] : i \in (p + 1) .. len} /\ Cardinality(D) = len - p
      /\ \A i \in (p + 1) .. len : ns[c[i]].ref_count = 1
      /\ p > 0 => ns[c[p]].ref_count # 1 /\ c[p] \in Nodes /\ c[p] \notin D
  <2>1. /\ p \in 0 .. len /\ D = {c[i] : i \in (p + 1) .. len} /\ Cardinality(D) = len - p
        /\ \A i \in (p + 1) .. len : ns[c[i]].ref_count = 1
        /\ p > 0 => ns[c[p]].ref_count # 1
    BY <1>2, <1>5, <1>6 DEF DiesFrom
  <2>2. ASSUME p > 0 PROVE c[p] \in Nodes /\ c[p] \notin D
    <3>1. p \in 1 .. len /\ \A i \in (p + 1) .. len : i \in 1 .. len /\ i # p
      BY <1>3, <2>1, <2>2
    <3>. QED
      BY <1>3, <1>4, <2>1, <3>1
  <2>. QED
    BY <2>1, <2>2
<1>8. /\ ns2 = [m \in Nodes |-> IF m \in D THEN NoNode
                                ELSE IF p > 0 /\ m = c[p] THEN [ns[m] EXCEPT !.ref_count = @ - 1]
                                ELSE ns[m]]
      /\ dead = [i \in 1 .. (len - p) |-> c[len + 1 - i]]
  <2>1. len - (len - p) = p
    BY <1>3, <1>7
  <2>. QED
    BY <1>1, <1>2, <1>6, <1>7, <2>1, ZenonT(40) DEF release
<1>9. \A m \in Nodes : /\ m \in D => ns2[m] = NoNode /\ ns2[m].ref_count = 0 /\ ns2[m].prev = Null
                                     /\ ns2[m].serial = 0
                       /\ m \notin D /\ ~(p > 0 /\ m = c[p]) => ns2[m] = ns[m]
  BY <1>8 DEF NoNode
<1>10. p > 0 => /\ ns2[c[p]].prev = ns[c[p]].prev /\ ns2[c[p]].id = ns[c[p]].id
                /\ ns2[c[p]].serial = ns[c[p]].serial
                /\ ns2[c[p]].ref_count = ns[c[p]].ref_count - 1
  <2>1. ASSUME p > 0
        PROVE  /\ ns2[c[p]].prev = ns[c[p]].prev /\ ns2[c[p]].id = ns[c[p]].id
               /\ ns2[c[p]].serial = ns[c[p]].serial
               /\ ns2[c[p]].ref_count = ns[c[p]].ref_count - 1
    <3>1. ns2[c[p]] = [ns[c[p]] EXCEPT !.ref_count = @ - 1]
      BY <1>7, <1>8, <2>1
    <3>2. ns[c[p]] \in NodeRec(N)
      BY <1>1, <1>7, <2>1
    <3>. QED
      BY <3>1, <3>2 DEF NodeRec
  <2>. QED
    BY <2>1
<1>11. \A m \in Nodes : m \notin D =>
          /\ ns2[m].prev = ns[m].prev /\ ns2[m].id = ns[m].id /\ ns2[m].serial = ns[m].serial
  BY <1>9, <1>10
<1>12. PICK Y : Y = Less(X, n)
  OBVIOUS
<1>13. /\ Y \in [Nodes -> Nat] /\ Y[n] = X[n] - 1 /\ \A m \in Nodes : m # n => Y[m] = X[m]
       /\ \A m \in Nodes : X[m] \in Nat
  BY <1>1, <1>12 DEF Less
<1>14. ASSUME NEW m \in Nodes
       PROVE  /\ ns[m].ref_count = Cardinality(Sons(ns, m)) + X[m] /\ ns[m].ref_count \in Nat
              /\ Sons(ns, m) \in SUBSET Nodes /\ Cardinality(Sons(ns, m)) \in Nat
              /\ Cardinality(Sons(ns, m)) = 0 <=> Sons(ns, m) = {}
              /\ Sons(ns2, m) = Sons(ns, m) \ D
  <2>1. /\ ns[m].ref_count = Cardinality(Sons(ns, m)) + X[m] /\ ns[m].ref_count \in Nat
        /\ Sons(ns, m) \in SUBSET Nodes
    BY CountedFacts
  <2>2. Sons(ns2, m) = Sons(ns, m) \ D
    BY <1>1, <1>9, <1>11 DEF Sons
  <2>. QED
    BY <2>1, <2>2, SonsFacts
<1>15. ASSUME NEW i \in 1 .. len, i < len
       PROVE  i + 1 \in 1 .. len /\ c[i + 1] \in Sons(ns, c[i]) /\ c[i] \in Nodes /\ c[i] # n
  <2>1. i + 1 \in 1 .. len /\ i + 1 # 1 /\ (i + 1) - 1 = i /\ len \in 1 .. len
    BY <1>3, <1>15
  <2>. QED
    BY <1>3, <1>4, <1>15, <2>1 DEF Sons
<1>16. ASSUME NEW j \in (p + 1) .. len, NEW m \in Nodes, ns[c[j]].prev = m
       PROVE  m = IF j = p + 1 THEN c[p] ELSE c[j - 1]
  <2>1. j \in 1 .. len
    BY <1>3, <1>7
  <2>2. j # 1 /\ m = c[j - 1]
    BY <1>1, <1>3, <1>16, <2>1
  <2>3. j = p + 1 => j - 1 = p
    BY <1>3, <1>7
  <2>. QED
    BY <2>2, <2>3
<1>17. ASSUME NEW m \in Nodes
       PROVE  /\ ns2[m].ref_count = Cardinality(Sons(ns2, m)) + Y[m] /\ ns2[m].ref_count \in Nat
              /\ ns2[m].ref_count = 0 => ns2[m] = NoNode
              /\ m \in D => Sons(ns2, m) = {}
              /\ ns2[m].ref_count > 0 => ns[m].ref_count > 0
  <2>1. CASE m \in D
    <3>1. PICK i \in (p + 1) .. len : m = c[i]
      BY <1>7, <2>1
    <3>2. i \in 1 .. len /\ ns[m].ref_count = 1
      BY <1>3, <1>7, <3>1
    <3>3. Sons(ns2, m) = {} /\ Y[m] = 0
      <4>1. CASE i = len
        <5>1. m = n
          BY <1>3, <3>1, <4>1
        <5>2. X[m] = 1 /\ Cardinality(Sons(ns, m)) = 0
          BY <1>13, <1>14, <3>2, <5>1
        <5>. QED
          BY <1>13, <1>14, <5>1, <5>2
      <4>2. CASE i < len
        <5>1. i + 1 \in (p + 1) .. len /\ c[i + 1] \in Sons(ns, m) /\ m # n
          BY <1>3, <1>7, <1>15, <3>1, <3>2, <4>2
        <5>2. c[i + 1] \in D
          BY <1>7, <5>1
        <5>3. PICK S : S = Sons(ns, m)
          OBVIOUS
        <5>4. S \in SUBSET Nodes /\ Cardinality(S) \in Nat /\ Cardinality(S) # 0
              /\ ns[m].ref_count = Cardinality(S) + X[m]
          BY <1>14, <5>1, <5>3
        <5>5. Cardinality(S) = 1 /\ X[m] = 0
          BY <1>13, <3>2, <5>4
        <5>6. Cardinality(S \ {c[i + 1]}) = 0
          BY <5>1, <5>3, <5>4, <5>5, SonsFacts
        <5>7. S \ {c[i + 1]} = {}
          BY <5>4, <5>6, SonsFacts
        <5>. QED
          BY <1>13, <1>14, <5>1, <5>2, <5>3, <5>5, <5>7
      <4>. QED
        BY <1>3, <3>2, <4>1, <4>2
    <3>4. ns2[m] = NoNode /\ ns2[m].ref_count = 0
      BY <1>9, <2>1
    <3>. QED
      BY <3>3, <3>4, SonsFacts
  <2>2. CASE p > 0 /\ m = c[p]
    <3>1. /\ m \notin D /\ ns2[m].ref_count = ns[m].ref_count - 1 /\ ns[m].ref_count # 1
          /\ p \in 1 .. len
      BY <1>3, <1>7, <1>10, <2>2
    <3>2. CASE p = len
      <4>1. m = n /\ D = {}
        BY <1>3, <1>7, <2>2, <3>2
      <4>2. Sons(ns2, m) = Sons(ns, m)
        BY <1>14, <4>1
      <4>. QED
        BY <1>13, <1>14, <3>1, <4>1, <4>2
    <3>3. CASE p < len
      <4>1. c[p + 1] \in Sons(ns, m) /\ m # n /\ p + 1 \in (p + 1) .. len
        BY <1>3, <1>15, <2>2, <3>1, <3>3
      <4>2. c[p + 1] \in D
        BY <1>7, <4>1
      <4>3. ASSUME NEW k \in Sons(ns, m) \cap D PROVE k = c[p + 1]
        <5>1. PICK j \in (p + 1) .. len : k = c[j]
          BY <1>7, <4>3
        <5>2. CASE j = p + 1
          BY <5>1, <5>2
        <5>3. CASE j # p + 1
          <6>1. m = c[j - 1] /\ j - 1 \in (p + 1) .. len
            BY <1>3, <1>7, <1>16, <4>3, <5>1, <5>3 DEF Sons
          <6>. QED
            BY <1>7, <3>1, <6>1
        <5>. QED
          BY <5>2, <5>3
      <4>4. Sons(ns2, m) = Sons(ns, m) \ {c[p + 1]}
        BY <1>14, <4>2, <4>3
      <4>5. /\ Cardinality(Sons(ns2, m)) = Cardinality(Sons(ns, m)) - 1
            /\ Cardinality(Sons(ns, m)) # 0
        BY <1>14, <4>1, <4>4, SonsFacts
      <4>. QED
        BY <1>13, <1>14, <3>1, <4>1, <4>5
    <3>. QED
      BY <1>3, <3>1, <3>2, <3>3
  <2>3. CASE m \notin D /\ ~(p > 0 /\ m = c[p])
    <3>1. ns2[m] = ns[m]
      BY <1>9, <2>3
    <3>2. m # n
      <4>1. CASE p = len
        BY <1>3, <2>3, <4>1
      <4>2. CASE p # len
        <5>1. len \in (p + 1) .. len
          BY <1>3, <1>7, <4>2
        <5>. QED
          BY <1>3, <1>7, <2>3, <5>1
      <4>. QED
        BY <4>1, <4>2
    <3>3. ASSUME NEW k \in Sons(ns, m) \cap D PROVE FALSE
      <4>1. PICK j \in (p + 1) .. len : k = c[j]
        BY <1>7, <3>3
      <4>2. CASE j = p + 1
        <5>1. m = c[p]
          BY <1>16, <3>3, <4>1, <4>2 DEF Sons
        <5>2. j \in 1 .. len /\ j # 1
          BY <1>1, <1>3, <1>7, <3>3, <4>1 DEF Sons
        <5>3. p > 0
          BY <1>3, <1>7, <4>2, <5>2
        <5>. QED
          BY <2>3, <5>1, <5>3
      <4>3. CASE j # p + 1
        <5>1. m = c[j - 1] /\ j - 1 \in (p + 1) .. len
          BY <1>3, <1>7, <1>16, <3>3, <4>1, <4>3 DEF Sons
        <5>. QED
          BY <1>7, <2>3, <5>1
      <4>. QED
        BY <4>2, <4>3
    <3>4. Sons(ns2, m) = Sons(ns, m)
      BY <1>14, <3>3
    <3>. QED
      BY <1>13, <1>14, <2>3, <3>1, <3>2, <3>4, CountedFacts
  <2>. QED
    BY <2>1, <2>2, <2>3
<1>18. Chained(ns2, N)
  <2>1. ASSUME NEW m \in Nodes PROVE ns2[m] \in NodeRec(N)
    <3>1. NoNode \in NodeRec(N) /\ ns[m] \in NodeRec(N)
      BY <1>1 DEF NoNode, NodeRec
    <3>2. CASE m \in D \/ ~(p > 0 /\ m = c[p])
      BY <1>9, <3>1, <3>2
    <3>3. CASE m \notin D /\ p > 0 /\ m = c[p]
      <4>1. ns2[m] = [ns[m] EXCEPT !.ref_count = @ - 1]
        BY <1>8, <3>3
      <4>2. ns2[m].ref_count \in Nat
        BY <1>17
      <4>. QED
        BY <3>1, <4>1, <4>2 DEF NodeRec
    <3>. QED
      BY <3>2, <3>3
  <2>2. ns2 \in [Nodes -> NodeRec(N)]
    BY <1>8, <2>1
  <2>3. ASSUME NEW m \in Nodes, ns2[m].prev # Null
        PROVE  ns2[ns2[m].prev].serial < ns2[m].serial
    <3>1. m \notin D
      BY <1>9, <2>3
    <3>2. PICK q \in Nodes : q = ns[m].prev /\ q = ns2[m].prev /\ ns[q].serial < ns[m].serial
      BY <1>1, <1>11, <2>3, <3>1, ListFacts
    <3>3. m \in Sons(ns2, q)
      BY <3>2 DEF Sons
    <3>4. q \notin D
      BY <1>17, <3>3
    <3>. QED
      BY <1>11, <3>1, <3>2, <3>4
  <2>. QED
    BY <1>1, <2>2, <2>3 DEF Chained
<1>19. Counted(ns2, N, Y)
  BY <1>13, <1>17, <1>18 DEF Counted
<1>20. Released(ns, n, ns2, dead)
  <2>1. ASSUME NEW i \in 1 .. (len - p)
        PROVE  dead[i] = c[len + 1 - i] /\ dead[i] \in D /\ dead[i] \in Nodes
    <3>1. len + 1 - i \in (p + 1) .. len /\ len + 1 - i \in 1 .. len
      BY <1>3, <1>7
    <3>. QED
      BY <1>3, <1>7, <1>8, <3>1
  <2>2. dead \in [1 .. (len - p) -> Nodes] /\ len - p \in Nat
    BY <1>3, <1>7, <1>8, <2>1
  <2>3. dead \in Seq(Nodes) /\ Len(dead) = len - p
    BY <2>2, SeqDef, LenProperties
  <2>4. ASSUME NEW i \in 1 .. Len(dead)
        PROVE  /\ ns[dead[i]].ref_count > 0 /\ ns2[dead[i]].ref_count = 0
               /\ \A j \in 1 .. (i - 1) : dead[i] # dead[j]
    <3>1. ns[dead[i]].ref_count = 1 /\ ns2[dead[i]].ref_count = 0
      BY <1>7, <1>9, <2>1, <2>3, <2>4
    <3>2. ASSUME NEW j \in 1 .. (i - 1), dead[i] = dead[j] PROVE FALSE
      <4>1. j \in 1 .. (len - p) /\ i \in 1 .. (len - p) /\ j # i
        BY <1>3, <1>7, <2>3
      <4>2. c[len + 1 - i] = c[len + 1 - j]
        BY <2>1, <3>2, <4>1
      <4>3. len + 1 - i \in 1 .. len /\ len + 1 - j \in 1 .. len /\ len + 1 - i # len + 1 - j
        BY <1>3, <1>7, <4>1
      <4>. QED
        BY <1>4, <4>2, <4>3
    <3>. QED
      BY <3>1, <3>2
  <2>5. ASSUME NEW m \in Nodes, ns2[m].ref_count > 0
        PROVE  /\ ns[m].ref_count > 0 /\ ns2[m].prev = ns[m].prev /\ ns2[m].id = ns[m].id
               /\ ns2[m].serial = ns[m].serial
    <3>1. m \notin D
      BY <1>9, <2>5
    <3>. QED
      BY <1>11, <1>17, <2>5, <3>1
  <2>. QED
    BY <2>3, <2>4, <2>5 DEF Released
<1>. QED
  BY <1>12, <1>19, <1>20

-----------------------------------------------------------------------------
(***************************************************************************)
(* Activations.                                                            *)
(***************************************************************************)
\* The call stack that ends at a node is the one below it, and its activation.
LEMMA ActivationsStep ==
    ASSUME NEW ns, NEW N, Chained(ns, N)
    PROVE  /\ Activations(ns, Null) = <<>>
           /\ \A n \in Nodes \cup {Null} :
                 /\ Activations(ns, n) \in Seq([id : CallIDs \cup {"none"}, serial : 0 .. N])
                 /\ Len(Activations(ns, n)) = Len(Chain(ns, n))
                 /\ \A i \in 1 .. Len(Chain(ns, n)) :
                       Activations(ns, n)[i]
                         = [id |-> ns[Chain(ns, n)[i]].id, serial |-> ns[Chain(ns, n)[i]].serial]
           /\ \A n \in Nodes :
                 Activations(ns, n) = Append(Activations(ns, ns[n].prev),
                                             [id |-> ns[n].id, serial |-> ns[n].serial])
<1>. DEFINE R == [id : CallIDs \cup {"none"}, serial : 0 .. N]
<1>1. Null \notin Nodes /\ ns \in [Nodes -> NodeRec(N)]
      /\ \A n \in Nodes : ns[n].prev \in Nodes \cup {Null}
  BY ListFacts
<1>2. ASSUME NEW n \in Nodes \cup {Null}
      PROVE  /\ Activations(ns, n) \in Seq(R)
             /\ Len(Activations(ns, n)) = Len(Chain(ns, n)) /\ Len(Chain(ns, n)) \in Nat
             /\ \A i \in 1 .. Len(Chain(ns, n)) :
                   Activations(ns, n)[i]
                     = [id |-> ns[Chain(ns, n)[i]].id, serial |-> ns[Chain(ns, n)[i]].serial]
  <2>1. PICK c, len, a : c = Chain(ns, n) /\ len = Len(c) /\ a = Activations(ns, n)
    OBVIOUS
  <2>2. ChainOK(ns, n)
    BY ChainFacts
  <2>3. len \in Nat /\ \A i \in 1 .. len : c[i] \in Nodes
    BY <2>1, <2>2 DEF ChainOK
  <2>4. a = [i \in 1 .. len |-> [id |-> ns[c[i]].id, serial |-> ns[c[i]].serial]]
    BY <2>1 DEF Activations
  <2>5. \A i \in 1 .. len : [id |-> ns[c[i]].id, serial |-> ns[c[i]].serial] \in R
    <3>1. ASSUME NEW i \in 1 .. len PROVE ns[c[i]] \in NodeRec(N)
      BY <1>1, <2>3
    <3>. QED
      BY <3>1 DEF NodeRec
  <2>. HIDE DEF R
  <2>6. a \in [1 .. len -> R]
    BY <2>4, <2>5
  <2>7. a \in Seq(R) /\ Len(a) = len
    BY <2>3, <2>6, SeqDef, LenProperties
  <2>. QED
    BY <2>1, <2>3, <2>4, <2>7
<1>3. Activations(ns, Null) = <<>>
  <2>1. Chain(ns, Null) = <<>> /\ Null \in Nodes \cup {Null}
    BY ChainStep
  <2>2. Activations(ns, Null) \in Seq(R) /\ Len(Activations(ns, Null)) = 0
    BY <1>2, <2>1, EmptySeq
  <2>. HIDE DEF R
  <2>. QED
    BY <2>2, EmptySeq
<1>4. ASSUME NEW n \in Nodes
      PROVE  Activations(ns, n) = Append(Activations(ns, ns[n].prev),
                                         [id |-> ns[n].id, serial |-> ns[n].serial])
  <2>1. PICK p, b, c, ab, a, r :
           /\ p = ns[n].prev /\ b = Chain(ns, p) /\ c = Chain(ns, n)
           /\ ab = Activations(ns, p) /\ a = Activations(ns, n)
           /\ r = [id |-> ns[n].id, serial |-> ns[n].serial]
    OBVIOUS
  <2>2. p \in Nodes \cup {Null} /\ c = Append(b, n) /\ b \in Seq(Nodes)
    BY <1>1, <2>1, ChainStep
  <2>3. /\ ab \in Seq(R) /\ Len(ab) = Len(b) /\ Len(b) \in Nat
        /\ \A i \in 1 .. Len(b) : ab[i] = [id |-> ns[b[i]].id, serial |-> ns[b[i]].serial]
    BY <1>2, <2>1, <2>2
  <2>4. /\ a \in Seq(R) /\ Len(a) = Len(c)
        /\ \A i \in 1 .. Len(c) : a[i] = [id |-> ns[c[i]].id, serial |-> ns[c[i]].serial]
    BY <1>2, <2>1
  <2>5. /\ Len(c) = Len(b) + 1 /\ c[Len(b) + 1] = n
        /\ \A i \in 1 .. Len(b) : c[i] = b[i]
    BY <2>2, AppendProperties
  <2>6. r \in R
    <3>1. ns[n] \in NodeRec(N)
      BY <1>1
    <3>. QED
      BY <2>1, <3>1 DEF NodeRec
  <2>. HIDE DEF R
  <2>7. PICK s : s = Append(ab, r)
    OBVIOUS
  <2>8. /\ s \in Seq(R) /\ Len(s) = Len(ab) + 1 /\ s[Len(ab) + 1] = r
        /\ \A i \in 1 .. Len(ab) : s[i] = ab[i]
    BY <2>3, <2>6, <2>7, AppendProperties
  <2>9. Len(s) = Len(a)
    BY <2>3, <2>4, <2>5, <2>8
  <2>10. ASSUME NEW i \in 1 .. Len(a) PROVE a[i] = s[i]
    <3>1. i \in 1 .. Len(b) \/ i = Len(b) + 1
      BY <2>3, <2>4, <2>5
    <3>2. CASE i \in 1 .. Len(b)
      BY <2>3, <2>4, <2>5, <2>8, <3>2
    <3>3. CASE i = Len(b) + 1
      BY <2>1, <2>3, <2>4, <2>5, <2>8, <3>3
    <3>. QED
      BY <3>1, <3>2, <3>3
  <2>11. a = s
    BY <2>4, <2>8, <2>9, <2>10, SeqEqual
  <2>. QED
    BY <2>1, <2>7, <2>11
<1>. QED
  BY <1>2, <1>3, <1>4

\* The call stack below a node is the one that ends at it, without its last activation.
LEMMA StackBelow ==
    ASSUME NEW ns, NEW N, Chained(ns, N), NEW n \in Nodes
    PROVE  /\ Activations(ns, n) # <<>>
           /\ Activations(ns, ns[n].prev)
                = SubSeq(Activations(ns, n), 1, Len(Activations(ns, n)) - 1)
<1>. DEFINE R == [id : CallIDs \cup {"none"}, serial : 0 .. N]
<1>1. PICK a, b, r : /\ a = Activations(ns, n) /\ b = Activations(ns, ns[n].prev)
                     /\ r = [id |-> ns[n].id, serial |-> ns[n].serial]
  OBVIOUS
<1>2. ns[n].prev \in Nodes \cup {Null} /\ ns[n] \in NodeRec(N)
  BY ListFacts
<1>3. a \in Seq(R) /\ b \in Seq(R) /\ a = Append(b, r)
  BY <1>1, <1>2, ActivationsStep
<1>4. r \in R
  BY <1>1, <1>2 DEF NodeRec
<1>. HIDE DEF R
<1>5. /\ Len(b) \in Nat /\ Len(a) = Len(b) + 1 /\ \A i \in 1 .. Len(b) : a[i] = b[i]
  BY <1>3, <1>4, AppendProperties, LenProperties
<1>6. PICK s : s = SubSeq(a, 1, Len(b))
  OBVIOUS
<1>7. s \in Seq(R) /\ Len(s) = Len(b) /\ \A i \in 1 .. Len(b) : s[i] = a[i]
  BY <1>3, <1>5, <1>6
<1>8. s = b
  BY <1>3, <1>5, <1>7, SeqEqual
<1>9. a # <<>> /\ Len(a) - 1 = Len(b)
  BY <1>5, EmptySeq
<1>. QED
  BY <1>1, <1>6, <1>8, <1>9

\* A call stack whose nodes are alive before and after a change that keeps them is the same.
LEMMA StackPersists ==
    ASSUME NEW ns, NEW N, NEW X, Counted(ns, N, X), NEW ns2, NEW N2, NEW X2, Counted(ns2, N2, X2),
           \A m \in Nodes : ns[m].ref_count > 0 /\ ns2[m].ref_count > 0 =>
              ns2[m].prev = ns[m].prev /\ ns2[m].id = ns[m].id /\ ns2[m].serial = ns[m].serial,
           NEW n \in Nodes \cup {Null},
           n # Null => ns[n].ref_count > 0 /\ ns2[n].ref_count > 0
    PROVE  Activations(ns2, n) = Activations(ns, n)
<1>. DEFINE A == {m \in Nodes : ns[m].ref_count > 0 /\ ns2[m].ref_count > 0}
<1>1. Chained(ns, N) /\ Chained(ns2, N2) /\ A \in SUBSET Nodes /\ n \in A \cup {Null}
  BY DEF Counted
<1>2. ASSUME NEW m \in A
      PROVE  /\ ns2[m].prev = ns[m].prev /\ ns2[m].id = ns[m].id
             /\ ns2[m].serial = ns[m].serial /\ ns[m].prev \in A \cup {Null}
  <2>1. ns[m].prev \in Nodes \cup {Null} /\ ns2[m].prev = ns[m].prev
    BY <1>1, ListFacts
  <2>2. ns[m].prev # Null => ns[ns[m].prev].ref_count > 0
    BY CountedFacts
  <2>3. ns2[m].prev # Null => ns2[ns2[m].prev].ref_count > 0
    BY CountedFacts
  <2>. QED
    BY <2>1, <2>2, <2>3
<1>3. Kept(ns, ns2, A)
  BY <1>2 DEF Kept
<1>. HIDE DEF A
<1>. QED
  BY <1>1, <1>3, SameLists

-----------------------------------------------------------------------------
(***************************************************************************)
(* Pointers from outside: call_stack.tail and the copies of the holders.   *)
(***************************************************************************)
HoldersOf(d, n) == {h \in Holders : d[h] = n}
Held(d, h, n) == [d EXCEPT ![h] = n]
Pointers(t, d) == [n \in Nodes |-> (IF t = n THEN 1 ELSE 0) + Cardinality(HoldersOf(d, n))]

\* Sets of holders are finite.
LEMMA HolderFacts ==
    ASSUME NEW S \in SUBSET Holders
    PROVE  /\ Cardinality(S) \in Nat /\ (Cardinality(S) = 0 <=> S = {})
           /\ \A h \in S : Cardinality(S \ {h}) = Cardinality(S) - 1
           /\ \A h \in Holders \ S : Cardinality(S \cup {h}) = Cardinality(S) + 1
<1>1. IsFiniteSet(S)
  BY ReportsAssumption, FS_Subset
<1>. QED
  BY <1>1, FS_CardinalityType, FS_EmptySet, FS_AddElement, FS_RemoveElement

\* How the counts of pointers change with the tail and with one copy.
LEMMA PointersFacts ==
    ASSUME NEW t \in Nodes \cup {Null}, NEW d \in [Holders -> Nodes \cup {Null}]
    PROVE  /\ Pointers(t, d) \in [Nodes -> Nat]
           /\ t # Null => Pointers(t, d)[t] > 0
           /\ \A h \in Holders : d[h] # Null => Pointers(t, d)[d[h]] > 0
           /\ \A u \in Nodes \cup {Null}, n \in Nodes :
                 Pointers(u, d)[n] = Pointers(t, d)[n] + (IF u = n THEN 1 ELSE 0)
                                                       - (IF t = n THEN 1 ELSE 0)
           /\ \A h \in Holders, n \in Nodes : d[h] = Null =>
                 Pointers(t, Held(d, h, n)) = More(Pointers(t, d), n)
           /\ \A h \in Holders : d[h] # Null =>
                 Pointers(t, Held(d, h, Null)) = Less(Pointers(t, d), d[h])
<1>1. Null \notin Nodes
  BY ReportsAssumption DEF Null
<1>2. \A u, e, n : n \in Nodes =>
         Pointers(u, e)[n] = (IF u = n THEN 1 ELSE 0) + Cardinality(HoldersOf(e, n))
  BY DEF Pointers
<1>3. ASSUME NEW u \in Nodes \cup {Null}, NEW e \in [Holders -> Nodes \cup {Null}]
      PROVE  Pointers(u, e) \in [Nodes -> Nat]
  <2>1. \A n \in Nodes : Cardinality(HoldersOf(e, n)) \in Nat
    BY HolderFacts DEF HoldersOf
  <2>. QED
    BY <2>1 DEF Pointers
<1>4. \A n : HoldersOf(d, n) \in SUBSET Holders /\ Cardinality(HoldersOf(d, n)) \in Nat
  BY HolderFacts DEF HoldersOf
<1>5. ASSUME NEW h \in Holders, d[h] # Null PROVE Cardinality(HoldersOf(d, d[h])) > 0
  <2>1. h \in HoldersOf(d, d[h])
    BY DEF HoldersOf
  <2>. QED
    BY <1>4, <2>1, HolderFacts
<1>6. ASSUME NEW h \in Holders, NEW n \in Nodes, d[h] = Null
      PROVE  Pointers(t, Held(d, h, n)) = More(Pointers(t, d), n)
  <2>1. PICK e : e = [d EXCEPT ![h] = n]
    OBVIOUS
  <2>2. e \in [Holders -> Nodes \cup {Null}]
    BY <2>1
  <2>3. Cardinality(HoldersOf(e, n)) = Cardinality(HoldersOf(d, n)) + 1
    <3>1. HoldersOf(e, n) = HoldersOf(d, n) \cup {h} /\ h \notin HoldersOf(d, n)
      BY <1>1, <1>6, <2>1 DEF HoldersOf
    <3>. QED
      BY <1>4, <3>1, HolderFacts
  <2>4. ASSUME NEW m \in Nodes, m # n PROVE HoldersOf(e, m) = HoldersOf(d, m)
    BY <1>1, <1>6, <2>1, <2>4 DEF HoldersOf
  <2>5. /\ Pointers(t, e) \in [Nodes -> Nat]
        /\ More(Pointers(t, d), n) \in [Nodes -> Nat]
        /\ Pointers(t, d) \in [Nodes -> Nat]
    BY <1>3, <2>2 DEF More
  <2>6. ASSUME NEW m \in Nodes
        PROVE  Pointers(t, e)[m] = More(Pointers(t, d), n)[m]
    <3>1. More(Pointers(t, d), n)[m]
            = IF m = n THEN Pointers(t, d)[m] + 1 ELSE Pointers(t, d)[m]
      BY <2>5 DEF More
    <3>2. CASE m = n
      BY <1>2, <1>4, <2>3, <3>1, <3>2
    <3>3. CASE m # n
      BY <1>2, <2>4, <3>1, <3>3
    <3>. QED
      BY <3>2, <3>3
  <2>. QED
    <3>1. PICK f, g : f = Pointers(t, e) /\ g = More(Pointers(t, d), n)
      OBVIOUS
    <3>2. f = g
      BY <2>5, <2>6, <3>1
    <3>. QED
      BY <2>1, <3>1, <3>2 DEF Held
<1>7. ASSUME NEW h \in Holders, d[h] # Null
      PROVE  Pointers(t, Held(d, h, Null)) = Less(Pointers(t, d), d[h])
  <2>1. PICK e, n : e = [d EXCEPT ![h] = Null] /\ n = d[h]
    OBVIOUS
  <2>2. e \in [Holders -> Nodes \cup {Null}] /\ n \in Nodes
    BY <1>7, <2>1
  <2>3. Cardinality(HoldersOf(e, n)) = Cardinality(HoldersOf(d, n)) - 1
    <3>1. HoldersOf(e, n) = HoldersOf(d, n) \ {h} /\ h \in HoldersOf(d, n)
      BY <1>1, <2>1, <2>2 DEF HoldersOf
    <3>. QED
      BY <1>4, <3>1, HolderFacts
  <2>4. ASSUME NEW m \in Nodes, m # n PROVE HoldersOf(e, m) = HoldersOf(d, m)
    BY <1>1, <2>1, <2>4 DEF HoldersOf
  <2>5. Pointers(t, e) \in [Nodes -> Nat] /\ Pointers(t, d) \in [Nodes -> Nat]
    BY <1>3, <2>2
  <2>6. ASSUME NEW m \in Nodes
        PROVE  Pointers(t, e)[m] = Less(Pointers(t, d), n)[m]
    <3>1. Less(Pointers(t, d), n)[m]
            = IF m = n THEN Pointers(t, d)[m] - 1 ELSE Pointers(t, d)[m]
      BY <2>5 DEF Less
    <3>2. CASE m = n
      BY <1>2, <1>4, <2>3, <3>1, <3>2
    <3>3. CASE m # n
      BY <1>2, <2>4, <3>1, <3>3
    <3>. QED
      BY <3>2, <3>3
  <2>7. Less(Pointers(t, d), n) = Pointers(t, e)
    <3>1. PICK g : g = Less(Pointers(t, d), n)
      OBVIOUS
    <3>2. g = [m \in Nodes |-> g[m]] /\ \A m \in Nodes : g[m] = Pointers(t, e)[m]
      BY <2>5, <2>6, <3>1 DEF Less
    <3>. QED
      BY <2>5, <3>1, <3>2
  <2>. QED
    BY <2>1, <2>7 DEF Held
<1>8. t # Null => Pointers(t, d)[t] > 0
  BY <1>2, <1>4
<1>9. \A h \in Holders : d[h] # Null => Pointers(t, d)[d[h]] > 0
  BY <1>2, <1>4, <1>5
<1>10. ASSUME NEW u \in Nodes \cup {Null}, NEW n \in Nodes
       PROVE  Pointers(u, d)[n] = Pointers(t, d)[n] + (IF u = n THEN 1 ELSE 0)
                                                    - (IF t = n THEN 1 ELSE 0)
  <2>1. /\ Pointers(u, d)[n] = (IF u = n THEN 1 ELSE 0) + Cardinality(HoldersOf(d, n))
        /\ Pointers(t, d)[n] = (IF t = n THEN 1 ELSE 0) + Cardinality(HoldersOf(d, n))
        /\ Cardinality(HoldersOf(d, n)) \in Nat
    BY <1>2, <1>4
  <2>. QED
    BY <2>1
<1>. QED
  BY <1>3, <1>6, <1>7, <1>8, <1>9, <1>10

-----------------------------------------------------------------------------
(***************************************************************************)
(* The invariant of the call stack.                                        *)
(***************************************************************************)
\* What is on the free list is dead, and on it once.
Free(ns, fl) ==
    /\ fl \in Seq(Nodes)
    /\ \A i \in 1 .. Len(fl) :
          ns[fl[i]].ref_count = 0 /\ \A j \in 1 .. (i - 1) : fl[i] # fl[j]

\* Nodes alive are different activations.
Unique(ns) ==
    \A m, n \in Nodes : ns[m].ref_count > 0 /\ ns[n].ref_count > 0 /\ ns[m].serial = ns[n].serial
                          => m = n

ListsInv ==
    /\ tail \in Nodes \cup {Null} /\ data \in [Holders -> Nodes \cup {Null}]
    /\ pushes \in 0 .. MaxPushes
    /\ Counted(nodes, pushes, Pointers(tail, data))
    /\ Free(nodes, free_list) /\ Unique(nodes)
    /\ taken = [h \in Holders |-> Activations(nodes, data[h])]

\* What is pointed at is alive.
LEMMA PointedAtAlive ==
    ASSUME ListsInv
    PROVE  /\ tail # Null => tail \in Nodes /\ nodes[tail].ref_count > 0
           /\ \A h \in Holders : data[h] # Null => data[h] \in Nodes /\ nodes[data[h]].ref_count > 0
<1>1. /\ tail # Null => tail \in Nodes /\ Pointers(tail, data)[tail] > 0
      /\ \A h \in Holders : data[h] # Null => data[h] \in Nodes /\ Pointers(tail, data)[data[h]] > 0
  BY PointersFacts DEF ListsInv
<1>2. \A n \in Nodes : Pointers(tail, data)[n] > 0 => nodes[n].ref_count > 0
  BY CountedFacts DEF ListsInv
<1>. QED
  BY <1>1, <1>2

\* The nodes released join the free list.
LEMMA FreeMore ==
    ASSUME NEW ns, NEW fl, Free(ns, fl), NEW n, NEW ns2, NEW dead, Released(ns, n, ns2, dead),
           \A m \in Nodes : ns[m].ref_count \in Nat /\ ns2[m].ref_count \in Nat
    PROVE  Free(ns2, dead \o fl)
<1>1. /\ fl \in Seq(Nodes) /\ dead \in Seq(Nodes)
      /\ \A i \in 1 .. Len(fl) :
            ns[fl[i]].ref_count = 0 /\ \A j \in 1 .. (i - 1) : fl[i] # fl[j]
      /\ \A i \in 1 .. Len(dead) :
            /\ ns[dead[i]].ref_count > 0 /\ ns2[dead[i]].ref_count = 0
            /\ \A j \in 1 .. (i - 1) : dead[i] # dead[j]
      /\ \A m \in Nodes : ns2[m].ref_count > 0 => ns[m].ref_count > 0
  BY DEF Free, Released
<1>2. PICK a, d, f : a = dead \o fl /\ d = Len(dead) /\ f = Len(fl)
  OBVIOUS
<1>3. /\ a \in Seq(Nodes) /\ Len(a) = d + f /\ d \in Nat /\ f \in Nat
      /\ \A i \in 1 .. (d + f) : a[i] = IF i <= d THEN dead[i] ELSE fl[i - d]
  BY <1>1, <1>2, ConcatProperties, LenProperties
<1>4. \A i \in 1 .. f : fl[i] \in Nodes
  BY <1>1, <1>2, ElementOfSeq
<1>5. ASSUME NEW i \in 1 .. (d + f)
      PROVE  ns2[a[i]].ref_count = 0 /\ \A j \in 1 .. (i - 1) : a[i] # a[j]
  <2>1. CASE i <= d
    <3>1. i \in 1 .. d /\ a[i] = dead[i]
      BY <1>3, <2>1
    <3>2. \A j \in 1 .. (i - 1) : j \in 1 .. (d + f) /\ a[j] = dead[j]
      BY <1>3, <2>1
    <3>. QED
      BY <1>1, <1>2, <3>1, <3>2
  <2>2. CASE i > d
    <3>1. PICK k \in 1 .. f : k = i - d
      BY <1>3, <2>2
    <3>2. a[i] = fl[k] /\ fl[k] \in Nodes /\ ns[fl[k]].ref_count = 0
      BY <1>1, <1>2, <1>3, <1>4, <2>2, <3>1
    <3>3. ns2[fl[k]].ref_count = 0
      <4>1. ns2[fl[k]].ref_count \in Nat /\ ~(ns2[fl[k]].ref_count > 0)
        BY <1>1, <3>2
      <4>. QED
        BY <4>1
    <3>4. ASSUME NEW j \in 1 .. (i - 1) PROVE a[i] # a[j]
      <4>1. CASE j <= d
        <5>1. j \in 1 .. d /\ a[j] = dead[j]
          BY <1>3, <4>1
        <5>2. ns[dead[j]].ref_count > 0
          BY <1>1, <1>2, <5>1
        <5>. QED
          BY <3>2, <5>1, <5>2
      <4>2. CASE j > d
        <5>1. j - d \in 1 .. (k - 1) /\ j \in 1 .. (d + f) /\ ~(j <= d)
          <6>1. k = i - d /\ d \in Nat /\ f \in Nat /\ i \in 1 .. (d + f)
            BY <1>3, <3>1
          <6>. QED
            BY <4>2, <6>1
        <5>2. a[j] = fl[j - d]
          BY <1>3, <5>1
        <5>. QED
          BY <1>1, <1>2, <3>1, <3>2, <5>1, <5>2
      <4>. QED
        BY <1>3, <4>1, <4>2
    <3>. QED
      BY <3>2, <3>3, <3>4
  <2>. QED
    BY <1>3, <2>1, <2>2
<1>. QED
  BY <1>2, <1>3, <1>5 DEF Free

\* Nodes alive that were, and are what they were, stay different activations.
LEMMA UniqueKept ==
    ASSUME NEW ns, Unique(ns), NEW ns2,
           \A m \in Nodes : ns2[m].ref_count > 0 =>
              ns[m].ref_count > 0 /\ ns2[m].serial = ns[m].serial
    PROVE  Unique(ns2)
BY DEF Unique

\* A copy is one of the call stack, and counts.
LEMMA CopyInv ==
    ASSUME ListsInv, NEW h \in Holders, copy(h)
    PROVE  /\ ListsInv'
           /\ Activations(nodes', tail') = Activations(nodes, tail)
           /\ \A g \in Holders : Activations(nodes', data'[g])
                = IF g = h THEN Activations(nodes, tail) ELSE Activations(nodes, data[g])
<1>1. /\ tail \in Nodes \cup {Null} /\ data \in [Holders -> Nodes \cup {Null}]
      /\ pushes \in 0 .. MaxPushes /\ Counted(nodes, pushes, Pointers(tail, data))
      /\ Free(nodes, free_list) /\ Unique(nodes)
      /\ taken = [g \in Holders |-> Activations(nodes, data[g])]
      /\ Null \notin Nodes
  BY ReportsAssumption DEF ListsInv, Null
<1>2. /\ data[h] = Null /\ nodes' = inc_ref_count(nodes, tail) /\ data' = [data EXCEPT ![h] = tail]
      /\ taken' = [taken EXCEPT ![h] = Activations(nodes, tail)]
      /\ free_list' = free_list /\ tail' = tail /\ pushes' = pushes
  BY DEF copy
<1>3. /\ Counted(nodes', pushes, Pointers(tail, data'))
      /\ \A m \in Nodes :
            /\ nodes'[m].prev = nodes[m].prev /\ nodes'[m].id = nodes[m].id
            /\ nodes'[m].serial = nodes[m].serial
            /\ nodes'[m].ref_count > 0 <=> nodes[m].ref_count > 0
            /\ nodes'[m].ref_count = 0 <=> nodes[m].ref_count = 0
  <2>1. CASE tail = Null
    <3>1. nodes' = nodes
      BY <1>2, <2>1 DEF inc_ref_count
    <3>2. data' = data
      BY <1>1, <1>2, <2>1
    <3>. QED
      BY <1>1, <3>1, <3>2
  <2>2. CASE tail # Null
    <3>1. tail \in Nodes /\ nodes[tail].ref_count > 0
      BY <2>2, PointedAtAlive
    <3>2. /\ Counted(nodes', pushes, More(Pointers(tail, data), tail))
          /\ \A m \in Nodes :
                /\ nodes'[m].prev = nodes[m].prev /\ nodes'[m].id = nodes[m].id
                /\ nodes'[m].serial = nodes[m].serial
                /\ nodes'[m].ref_count
                     = IF m = tail THEN nodes[m].ref_count + 1 ELSE nodes[m].ref_count
      BY <1>1, <1>2, <3>1, IncCounted
    <3>3. Pointers(tail, data') = More(Pointers(tail, data), tail)
      <4>1. \A g \in Holders, n \in Nodes : data[g] = Null =>
               Pointers(tail, Held(data, g, n)) = More(Pointers(tail, data), n)
        BY <1>1, PointersFacts
      <4>. QED
        BY <1>2, <3>1, <4>1, Zenon DEF Held
    <3>4. \A m \in Nodes : nodes[m].ref_count \in Nat
      BY <1>1, CountedFacts
    <3>. QED
      BY <3>1, <3>2, <3>3, <3>4
  <2>. QED
    BY <2>1, <2>2
<1>4. data' \in [Holders -> Nodes \cup {Null}]
  BY <1>1, <1>2
<1>5. ASSUME NEW n \in Nodes \cup {Null}, n # Null => nodes[n].ref_count > 0
      PROVE  Activations(nodes', n) = Activations(nodes, n)
  <2>1. n # Null => nodes'[n].ref_count > 0
    BY <1>3, <1>5
  <2>. QED
    BY <1>1, <1>3, <1>5, <2>1, StackPersists
<1>6. Activations(nodes', tail) = Activations(nodes, tail)
  BY <1>1, <1>5, PointedAtAlive
<1>7. ASSUME NEW g \in Holders
      PROVE  Activations(nodes', data'[g])
               = IF g = h THEN Activations(nodes, tail) ELSE Activations(nodes, data[g])
  <2>1. CASE g = h
    BY <1>1, <1>2, <1>6, <2>1
  <2>2. CASE g # h
    <3>1. data'[g] = data[g] /\ data[g] \in Nodes \cup {Null}
      BY <1>1, <1>2, <2>2
    <3>. QED
      BY <1>5, <2>2, <3>1, PointedAtAlive
  <2>. QED
    BY <2>1, <2>2
<1>8. taken' = [g \in Holders |-> Activations(nodes', data'[g])]
  BY <1>1, <1>2, <1>7
<1>9. Free(nodes', free_list) /\ Unique(nodes')
  <2>1. \A i \in 1 .. Len(free_list) : free_list[i] \in Nodes
    BY <1>1, ElementOfSeq DEF Free
  <2>. QED
    BY <1>1, <1>3, <2>1 DEF Free, Unique
<1>. QED
  BY <1>1, <1>2, <1>3, <1>4, <1>6, <1>7, <1>8, <1>9 DEF ListsInv

\* What releasing a pointer from outside does to the invariant, and to the call stacks alive.
LEMMA ReleaseInv ==
    ASSUME NEW ns, NEW N, NEW X, Counted(ns, N, X), NEW fl, Free(ns, fl), Unique(ns),
           NEW n \in Nodes, X[n] > 0,
           NEW ns2, NEW dead, ns2 = release(ns, n).ns, dead = release(ns, n).dead
    PROVE  /\ Counted(ns2, N, Less(X, n))
           /\ Free(ns2, dead \o fl) /\ Unique(ns2)
           /\ \A m \in Nodes \cup {Null} : (m # Null => ns2[m].ref_count > 0) =>
                 Activations(ns2, m) = Activations(ns, m)
<1>1. Counted(ns2, N, Less(X, n)) /\ Released(ns, n, ns2, dead)
  BY ReleaseCounted
<1>2. \A m \in Nodes : ns[m].ref_count \in Nat /\ ns2[m].ref_count \in Nat
  BY <1>1, CountedFacts
<1>3. Free(ns2, dead \o fl)
  BY <1>1, <1>2, FreeMore
<1>4. \A m \in Nodes : ns2[m].ref_count > 0 =>
         /\ ns[m].ref_count > 0 /\ ns2[m].prev = ns[m].prev /\ ns2[m].id = ns[m].id
         /\ ns2[m].serial = ns[m].serial
  BY <1>1 DEF Released
<1>5. Unique(ns2)
  BY <1>4, UniqueKept
<1>6. ASSUME NEW m \in Nodes \cup {Null}, m # Null => ns2[m].ref_count > 0
      PROVE  Activations(ns2, m) = Activations(ns, m)
  <2>1. m # Null => ns[m].ref_count > 0
    BY <1>4, <1>6
  <2>. QED
    BY <1>1, <1>4, <1>6, <2>1, StackPersists
<1>. QED
  BY <1>1, <1>3, <1>5, <1>6

\* A copy that is destroyed is one pointer less.
LEMMA DestroyInv ==
    ASSUME ListsInv, NEW h \in Holders, destroy(h)
    PROVE  /\ ListsInv'
           /\ Activations(nodes', tail') = Activations(nodes, tail)
           /\ \A g \in Holders : Activations(nodes', data'[g])
                = IF g = h THEN <<>> ELSE Activations(nodes, data[g])
<1>1. /\ tail \in Nodes \cup {Null} /\ data \in [Holders -> Nodes \cup {Null}]
      /\ pushes \in 0 .. MaxPushes /\ Counted(nodes, pushes, Pointers(tail, data))
      /\ Free(nodes, free_list) /\ Unique(nodes)
      /\ taken = [g \in Holders |-> Activations(nodes, data[g])]
      /\ Null \notin Nodes
  BY ReportsAssumption DEF ListsInv, Null
<1>2. PICK n, r : n = data[h] /\ r = release(nodes, n)
  OBVIOUS
<1>3. /\ data[h] # Null /\ nodes' = r.ns /\ free_list' = r.dead \o free_list
      /\ data' = [data EXCEPT ![h] = Null] /\ taken' = [taken EXCEPT ![h] = <<>>]
      /\ tail' = tail /\ pushes' = pushes
  BY <1>2 DEF destroy
<1>4. n \in Nodes /\ Pointers(tail, data)[n] > 0
  BY <1>1, <1>2, <1>3, PointersFacts
<1>5. /\ Counted(nodes', pushes, Less(Pointers(tail, data), n))
      /\ Free(nodes', free_list') /\ Unique(nodes')
      /\ \A m \in Nodes \cup {Null} : (m # Null => nodes'[m].ref_count > 0) =>
            Activations(nodes', m) = Activations(nodes, m)
  BY <1>1, <1>2, <1>3, <1>4, ReleaseInv
<1>6. Pointers(tail, data') = Less(Pointers(tail, data), n)
  <2>1. \A g \in Holders : data[g] # Null =>
           Pointers(tail, Held(data, g, Null)) = Less(Pointers(tail, data), data[g])
    BY <1>1, PointersFacts
  <2>. QED
    BY <1>2, <1>3, <2>1, Zenon DEF Held
<1>7. data' \in [Holders -> Nodes \cup {Null}] /\ Counted(nodes', pushes, Pointers(tail, data'))
  BY <1>1, <1>3, <1>5, <1>6
<1>8. /\ tail # Null => nodes'[tail].ref_count > 0
      /\ \A g \in Holders : data'[g] # Null => nodes'[data'[g]].ref_count > 0
  <2>1. /\ tail # Null => Pointers(tail, data')[tail] > 0
        /\ \A g \in Holders : data'[g] # Null =>
              data'[g] \in Nodes /\ Pointers(tail, data')[data'[g]] > 0
    BY <1>1, <1>7, PointersFacts
  <2>2. \A m \in Nodes : Pointers(tail, data')[m] > 0 => nodes'[m].ref_count > 0
    BY <1>7, CountedFacts
  <2>. QED
    BY <1>1, <2>1, <2>2
<1>9. Activations(nodes', tail) = Activations(nodes, tail)
  BY <1>1, <1>5, <1>8
<1>10. ASSUME NEW g \in Holders
       PROVE  Activations(nodes', data'[g]) = IF g = h THEN <<>> ELSE Activations(nodes, data[g])
  <2>1. CASE g = h
    <3>1. data'[g] = Null /\ Chained(nodes', pushes)
      BY <1>1, <1>3, <1>7, <2>1 DEF Counted
    <3>. QED
      BY <2>1, <3>1, ActivationsStep
  <2>2. CASE g # h
    <3>1. data'[g] = data[g] /\ data[g] \in Nodes \cup {Null}
      BY <1>1, <1>3, <2>2
    <3>. QED
      BY <1>5, <1>8, <2>2, <3>1
  <2>. QED
    BY <2>1, <2>2
<1>11. taken' = [g \in Holders |-> Activations(nodes', data'[g])]
  BY <1>1, <1>3, <1>10
<1>. QED
  BY <1>1, <1>3, <1>5, <1>7, <1>9, <1>10, <1>11 DEF ListsInv

\* A pop hands the tail's place to the node before it, and ends the latest activation.
LEMMA PopInv ==
    ASSUME ListsInv, pop
    PROVE  /\ ListsInv'
           /\ Activations(nodes, tail) # <<>>
           /\ Activations(nodes', tail')
                = SubSeq(Activations(nodes, tail), 1, Len(Activations(nodes, tail)) - 1)
           /\ \A g \in Holders : Activations(nodes', data'[g]) = Activations(nodes, data[g])
<1>1. /\ tail \in Nodes \cup {Null} /\ data \in [Holders -> Nodes \cup {Null}]
      /\ pushes \in 0 .. MaxPushes /\ Counted(nodes, pushes, Pointers(tail, data))
      /\ Free(nodes, free_list) /\ Unique(nodes)
      /\ taken = [g \in Holders |-> Activations(nodes, data[g])]
      /\ Null \notin Nodes
  BY ReportsAssumption DEF ListsInv, Null
<1>2. PICK q, ns, r : /\ q = nodes[tail].prev /\ ns = inc_ref_count(nodes, q)
                      /\ r = release(ns, tail)
  OBVIOUS
<1>3. /\ tail # Null /\ nodes' = r.ns /\ free_list' = r.dead \o free_list /\ tail' = q
      /\ data' = data /\ pushes' = pushes /\ taken' = taken
  BY <1>2 DEF pop
<1>4. tail \in Nodes /\ nodes[tail].ref_count > 0 /\ Chained(nodes, pushes)
  BY <1>1, <1>3, PointedAtAlive DEF Counted
<1>5. /\ q \in Nodes \cup {Null} /\ q # tail
      /\ q # Null => q \in Nodes /\ nodes[q].ref_count > 0
  <2>1. /\ q \in Nodes \cup {Null}
        /\ q # Null => q \in Nodes /\ nodes[q].serial < nodes[tail].serial
        /\ nodes[tail].serial \in Nat
    BY <1>2, <1>4, ListFacts
  <2>2. q # Null => nodes[q].ref_count > 0
    BY <1>1, <1>2, <1>4, CountedFacts
  <2>. QED
    BY <1>1, <1>3, <1>4, <2>1, <2>2
<1>6. PICK X, Y : /\ X = Pointers(tail, data)
                  /\ Y = IF q = Null THEN X ELSE More(X, q)
  OBVIOUS
<1>7. X \in [Nodes -> Nat] /\ X[tail] > 0
  BY <1>1, <1>3, <1>6, PointersFacts
<1>8. Y \in [Nodes -> Nat] /\ Y[tail] > 0
  BY <1>4, <1>5, <1>6, <1>7 DEF More
<1>9. /\ Counted(ns, pushes, Y)
      /\ \A m \in Nodes :
            /\ ns[m].prev = nodes[m].prev /\ ns[m].id = nodes[m].id
            /\ ns[m].serial = nodes[m].serial
            /\ ns[m].ref_count > 0 <=> nodes[m].ref_count > 0
            /\ ns[m].ref_count = 0 <=> nodes[m].ref_count = 0
  <2>1. CASE q = Null
    BY <1>1, <1>2, <1>6, <2>1 DEF inc_ref_count
  <2>2. CASE q # Null
    <3>1. /\ Counted(ns, pushes, More(X, q))
          /\ \A m \in Nodes :
                /\ ns[m].prev = nodes[m].prev /\ ns[m].id = nodes[m].id
                /\ ns[m].serial = nodes[m].serial
                /\ ns[m].ref_count = IF m = q THEN nodes[m].ref_count + 1 ELSE nodes[m].ref_count
      BY <1>1, <1>2, <1>5, <1>6, <2>2, IncCounted
    <3>2. \A m \in Nodes : nodes[m].ref_count \in Nat
      BY <1>1, CountedFacts
    <3>. QED
      BY <1>5, <1>6, <2>2, <3>1, <3>2
  <2>. QED
    BY <2>1, <2>2
<1>10. Free(ns, free_list) /\ Unique(ns)
  <2>1. \A i \in 1 .. Len(free_list) : free_list[i] \in Nodes
    BY <1>1, ElementOfSeq DEF Free
  <2>. QED
    BY <1>1, <1>9, <2>1 DEF Free, Unique
<1>11. /\ Counted(nodes', pushes, Less(Y, tail))
       /\ Free(nodes', free_list') /\ Unique(nodes')
       /\ \A m \in Nodes \cup {Null} : (m # Null => nodes'[m].ref_count > 0) =>
             Activations(nodes', m) = Activations(ns, m)
  BY <1>2, <1>3, <1>4, <1>8, <1>9, <1>10, ReleaseInv
<1>12. Less(Y, tail) = Pointers(q, data)
  <2>1. \A m \in Nodes : Pointers(q, data)[m] = X[m] + (IF q = m THEN 1 ELSE 0)
                                                    - (IF tail = m THEN 1 ELSE 0)
    BY <1>1, <1>5, <1>6, PointersFacts
  <2>2. Pointers(q, data) \in [Nodes -> Nat]
    BY <1>1, <1>5, PointersFacts
  <2>3. \A m \in Nodes : Y[m] = X[m] + (IF q = m THEN 1 ELSE 0)
    BY <1>1, <1>5, <1>6, <1>7 DEF More
  <2>4. PICK Z : Z = Less(Y, tail)
    OBVIOUS
  <2>5. Z = [m \in Nodes |-> Z[m]] /\ \A m \in Nodes : Z[m] = IF m = tail THEN Y[m] - 1 ELSE Y[m]
    BY <1>8, <2>4 DEF Less
  <2>6. \A m \in Nodes : Z[m] = Pointers(q, data)[m]
    BY <1>5, <1>7, <1>8, <2>1, <2>3, <2>5
  <2>. QED
    BY <2>2, <2>4, <2>5, <2>6
<1>13. /\ q # Null => nodes'[q].ref_count > 0
       /\ \A g \in Holders : data[g] # Null => nodes'[data[g]].ref_count > 0
  <2>1. /\ q # Null => Pointers(q, data)[q] > 0
        /\ \A g \in Holders : data[g] # Null => data[g] \in Nodes /\ Pointers(q, data)[data[g]] > 0
    BY <1>1, <1>5, PointersFacts
  <2>2. \A m \in Nodes : Pointers(q, data)[m] > 0 => nodes'[m].ref_count > 0
    BY <1>11, <1>12, CountedFacts
  <2>. QED
    BY <1>1, <1>5, <2>1, <2>2
<1>14. ASSUME NEW m \in Nodes \cup {Null},
              m # Null => nodes[m].ref_count > 0 /\ nodes'[m].ref_count > 0
       PROVE  Activations(nodes', m) = Activations(nodes, m)
  <2>1. m # Null => ns[m].ref_count > 0
    BY <1>9, <1>14
  <2>2. Activations(ns, m) = Activations(nodes, m)
    BY <1>1, <1>9, <1>14, <2>1, StackPersists
  <2>. QED
    BY <1>11, <1>14, <2>2
<1>15. ASSUME NEW g \in Holders PROVE Activations(nodes', data[g]) = Activations(nodes, data[g])
  <2>1. data[g] \in Nodes \cup {Null} /\ (data[g] # Null => nodes[data[g]].ref_count > 0)
    BY <1>1, PointedAtAlive
  <2>. QED
    BY <1>13, <1>14, <2>1
<1>16. Activations(nodes', q) = Activations(nodes, q)
  BY <1>5, <1>13, <1>14
<1>17. /\ Activations(nodes, tail) # <<>>
       /\ Activations(nodes', q)
            = SubSeq(Activations(nodes, tail), 1, Len(Activations(nodes, tail)) - 1)
  BY <1>2, <1>4, <1>16, StackBelow
<1>18. taken = [g \in Holders |-> Activations(nodes', data[g])]
  BY <1>1, <1>15
<1>19. ListsInv'
  BY <1>1, <1>3, <1>5, <1>11, <1>12, <1>18 DEF ListsInv
<1>. QED
  BY <1>3, <1>15, <1>17, <1>19

\* The node n of a push.
With(ns, n, r) == [ns EXCEPT ![n] = r]
Frame(id, t, s) == [id |-> id, prev |-> t, ref_count |-> 1, serial |-> s]

\* Y is X with the tail's pointer moved from t to n.
Handed(X, t, n, Y) ==
    /\ Y \in [Nodes -> Nat] /\ (t # Null => X[t] > 0)
    /\ \A m \in Nodes : Y[m] = X[m] + (IF n = m THEN 1 ELSE 0) - (IF t = m THEN 1 ELSE 0)

\* A new node takes the place of the tail, and the tail's reference.
LEMMA PushCounted ==
    ASSUME NEW ns, NEW N, NEW X, Counted(ns, N, X), NEW n \in Nodes, ns[n].ref_count = 0,
           NEW t \in Nodes \cup {Null}, NEW id \in CallIDs,
           NEW N2, N2 = N + 1, NEW r, r = Frame(id, t, N2), NEW ns2, ns2 = With(ns, n, r),
           NEW X2, Handed(X, t, n, X2)
    PROVE  /\ Counted(ns2, N2, X2)
           /\ ns2[n] = r
           /\ \A m \in Nodes : m # n => ns2[m] = ns[m]
<1>1. /\ Chained(ns, N) /\ Null \notin Nodes /\ N \in Nat /\ ns \in [Nodes -> NodeRec(N)]
      /\ X \in [Nodes -> Nat]
  BY ListFacts DEF Counted
<1>2. r = [id |-> id, prev |-> t, ref_count |-> 1, serial |-> N + 1]
  BY DEF Frame
<1>3. ns2[n] = r /\ \A m \in Nodes : m # n => ns2[m] = ns[m]
  BY <1>1, <1>2 DEF With
<1>4. /\ r.id = id /\ r.prev = t /\ r.ref_count = 1 /\ r.serial = N + 1
      /\ r \in NodeRec(N + 1)
  BY <1>1, <1>2 DEF NodeRec
<1>5. /\ X[n] = 0 /\ Sons(ns, n) = {} /\ ns[n].prev = Null
      /\ ns[n] = NoNode
  BY CountedFacts
<1>6. t # n
  BY <1>1, <1>5 DEF Handed
<1>7. Chained(ns2, N + 1)
  <2>1. NodeRec(N) \subseteq NodeRec(N + 1)
    <3>1. 0 .. N \subseteq 0 .. (N + 1)
      BY <1>1
    <3>. QED
      BY <3>1 DEF NodeRec
  <2>2. ns2 \in [Nodes -> NodeRec(N + 1)]
    <3>1. \A m \in Nodes : ns2[m] \in NodeRec(N + 1)
      BY <1>1, <1>3, <1>4, <2>1
    <3>2. ns2 = [m \in Nodes |-> ns2[m]]
      BY <1>1 DEF With
    <3>. QED
      BY <3>1, <3>2
  <2>3. ASSUME NEW m \in Nodes, ns2[m].prev # Null
        PROVE  ns2[ns2[m].prev].serial < ns2[m].serial
    <3>1. CASE m = n
      <4>1. t \in Nodes /\ ns2[m].prev = t /\ ns2[t] = ns[t] /\ ns2[m].serial = N + 1
        BY <1>3, <1>4, <1>6, <2>3, <3>1
      <4>2. ns[t].serial \in 0 .. N
        BY <1>1, <4>1, ListFacts
      <4>. QED
        BY <1>1, <4>1, <4>2
    <3>2. CASE m # n
      <4>1. /\ ns2[m] = ns[m] /\ ns[m].prev \in Nodes
            /\ ns[ns[m].prev].serial < ns[m].serial
        BY <1>1, <1>3, <2>3, <3>2, ListFacts
      <4>2. ns[m].prev # n
        BY <1>5 DEF Sons
      <4>. QED
        BY <1>3, <4>1, <4>2
    <3>. QED
      BY <3>1, <3>2
  <2>. QED
    BY <1>1, <2>2, <2>3 DEF Chained
<1>8. ASSUME NEW m \in Nodes
      PROVE  /\ ns2[m].ref_count = Cardinality(Sons(ns2, m)) + X2[m]
             /\ ns2[m].ref_count = 0 => ns2[m] = NoNode
  <2>1. /\ ns[m].ref_count = Cardinality(Sons(ns, m)) + X[m] /\ X[m] \in Nat
        /\ Cardinality(Sons(ns, m)) \in Nat /\ Sons(ns, m) \in SUBSET Nodes
        /\ ns[m].ref_count \in Nat /\ (ns[m].ref_count = 0 => ns[m] = NoNode)
    BY CountedFacts
  <2>2. X2[m] = X[m] + (IF n = m THEN 1 ELSE 0) - (IF t = m THEN 1 ELSE 0)
    BY DEF Handed
  <2>3. n \notin Sons(ns, m)
    BY <1>1, <1>5 DEF Sons
  <2>4. CASE m = n
    <3>1. Sons(ns2, m) = {}
      BY <1>3, <1>4, <1>5, <1>6, <2>4 DEF Sons
    <3>2. Cardinality(Sons(ns2, m)) = 0
      BY <3>1, FS_EmptySet
    <3>3. X2[m] = 1
      BY <1>5, <1>6, <2>2, <2>4
    <3>4. ns2[m].ref_count = 1
      BY <1>3, <1>4, <2>4
    <3>. QED
      BY <3>2, <3>3, <3>4
  <2>5. CASE m = t
    <3>1. Sons(ns2, m) = Sons(ns, m) \cup {n}
      BY <1>3, <1>4, <2>5 DEF Sons
    <3>2. Cardinality(Sons(ns2, m)) = Cardinality(Sons(ns, m)) + 1
      <4>1. PICK S \in SUBSET Nodes : S = Sons(ns, m) /\ n \in Nodes \ S
        BY <2>1, <2>3
      <4>2. Cardinality(S \cup {n}) = Cardinality(S) + 1
        BY <4>1, SonsFacts
      <4>. QED
        BY <3>1, <4>1, <4>2
    <3>3. ns2[m] = ns[m] /\ X2[m] = X[m] - 1
      BY <1>3, <1>6, <2>1, <2>2, <2>5
    <3>. QED
      BY <2>1, <3>2, <3>3
  <2>6. CASE m # n /\ m # t
    <3>1. Sons(ns2, m) = Sons(ns, m)
      BY <1>3, <1>4, <2>3, <2>6 DEF Sons
    <3>. QED
      <4>1. X2[m] = X[m] /\ ns2[m] = ns[m]
        BY <1>3, <2>1, <2>2, <2>6
      <4>. QED
        BY <2>1, <3>1, <4>1
  <2>. QED
    BY <2>4, <2>5, <2>6
<1>. QED
  BY <1>2, <1>3, <1>7, <1>8 DEF Counted, Handed

\* A push starts an activation no other node alive is, in a node that was dead.
LEMMA PushInv ==
    ASSUME ListsInv, NEW id \in CallIDs, push(id)
    PROVE  /\ ListsInv'
           /\ pushes + 1 \in 1 .. MaxPushes
           /\ Activations(nodes', tail')
                = Append(Activations(nodes, tail), [id |-> id, serial |-> pushes + 1])
           /\ \A g \in Holders : Activations(nodes', data'[g]) = Activations(nodes, data[g])
<1>1. /\ tail \in Nodes \cup {Null} /\ data \in [Holders -> Nodes \cup {Null}]
      /\ pushes \in 0 .. MaxPushes /\ Counted(nodes, pushes, Pointers(tail, data))
      /\ Free(nodes, free_list) /\ Unique(nodes)
      /\ taken = [g \in Holders |-> Activations(nodes, data[g])]
      /\ Null \notin Nodes /\ MaxPushes \in Nat /\ ReportPushes \in 0 .. MaxPushes
  BY ReportsAssumption DEF ListsInv, Null
<1>2. PICK n \in NewNodes :
         /\ nodes' = [nodes EXCEPT ![n] = [id |-> id, prev |-> tail, ref_count |-> 1,
                                           serial |-> pushes + 1]]
         /\ tail' = n
  BY DEF push
<1>3. /\ pushes < (IF races_found = {} THEN MaxPushes ELSE ReportPushes)
      /\ free_list' = (IF free_list # <<>> THEN Tail(free_list) ELSE free_list)
      /\ pushes' = pushes + 1 /\ data' = data /\ taken' = taken
  BY DEF push
<1>4. pushes' \in 0 .. MaxPushes /\ pushes + 1 \in 1 .. MaxPushes /\ pushes \in Nat
  BY <1>1, <1>3
<1>5. /\ free_list \in Seq(Nodes) /\ Len(free_list) \in Nat
      /\ \A i \in 1 .. Len(free_list) :
            /\ free_list[i] \in Nodes /\ nodes[free_list[i]].ref_count = 0
            /\ \A j \in 1 .. (i - 1) : free_list[i] # free_list[j]
  BY <1>1, ElementOfSeq, LenProperties DEF Free
<1>6. n \in Nodes /\ nodes[n].ref_count = 0
  <2>1. CASE free_list = <<>>
    BY <2>1 DEF NewNodes
  <2>2. CASE free_list # <<>>
    <3>1. n = free_list[1] /\ Len(free_list) # 0
      BY <1>2, <1>5, <2>2, EmptySeq DEF NewNodes
    <3>2. 1 \in 1 .. Len(free_list)
      BY <1>5, <3>1
    <3>. QED
      BY <1>5, <3>1, <3>2
  <2>. QED
    BY <2>1, <2>2
<1>7. PICK X, Y : X = Pointers(tail, data) /\ Y = Pointers(n, data)
  OBVIOUS
<1>8. Handed(X, tail, n, Y)
  BY <1>1, <1>6, <1>7, PointersFacts DEF Handed
<1>9. /\ Counted(nodes', pushes + 1, Y)
      /\ nodes'[n] = [id |-> id, prev |-> tail, ref_count |-> 1, serial |-> pushes + 1]
      /\ \A m \in Nodes : m # n => nodes'[m] = nodes[m]
  <2>1. PICK r : r = Frame(id, tail, pushes + 1)
    OBVIOUS
  <2>2. nodes' = With(nodes, n, r)
    BY <1>2, <2>1, Zenon DEF Frame, With
  <2>3. /\ Counted(nodes', pushes + 1, Y) /\ nodes'[n] = r
        /\ \A m \in Nodes : m # n => nodes'[m] = nodes[m]
    <3>1. PICK N : N = pushes + 1
      OBVIOUS
    <3>2. /\ Counted(nodes, pushes, X) /\ tail \in Nodes \cup {Null}
          /\ r = Frame(id, tail, N)
      BY <1>1, <1>7, <2>1, <3>1
    <3>3. /\ Counted(nodes', N, Y) /\ nodes'[n] = r
          /\ \A m \in Nodes : m # n => nodes'[m] = nodes[m]
      BY <1>6, <1>8, <2>2, <3>1, <3>2, PushCounted
    <3>. QED
      BY <3>1, <3>3
  <2>. QED
    BY <2>1, <2>3 DEF Frame
<1>10. Unique(nodes')
  <2>1. ASSUME NEW l \in Nodes, NEW m \in Nodes, nodes'[l].ref_count > 0,
               nodes'[m].ref_count > 0, nodes'[l].serial = nodes'[m].serial
        PROVE  l = m
    <3>1. \A k \in Nodes : nodes[k].serial \in 0 .. pushes
      BY <1>1, ListFacts DEF Counted
    <3>2. \A k \in Nodes : k # n => nodes'[k].serial # nodes'[n].serial
      BY <1>4, <1>9, <3>1
    <3>3. CASE l = n \/ m = n
      BY <2>1, <3>2, <3>3
    <3>4. CASE l # n /\ m # n
      BY <1>1, <1>9, <2>1, <3>4 DEF Unique
    <3>. QED
      BY <3>3, <3>4
  <2>. QED
    BY <2>1 DEF Unique
<1>11. Free(nodes', free_list')
  <2>1. CASE free_list = <<>>
    <3>1. free_list' = <<>> /\ <<>> \in Seq(Nodes) /\ 1 .. Len(<<>>) = {}
      BY <1>3, <2>1, EmptySeq
    <3>. QED
      BY <3>1 DEF Free
  <2>2. CASE free_list # <<>>
    <3>1. PICK f, len : f = free_list' /\ len = Len(free_list)
      OBVIOUS
    <3>2. /\ f \in Seq(Nodes) /\ Len(f) = len - 1 /\ n = free_list[1]
          /\ \A i \in 1 .. (len - 1) : f[i] = free_list[i + 1]
      BY <1>2, <1>3, <1>5, <2>2, <3>1, HeadTailProperties DEF NewNodes
    <3>3. ASSUME NEW i \in 1 .. Len(f)
          PROVE  nodes'[f[i]].ref_count = 0 /\ \A j \in 1 .. (i - 1) : f[i] # f[j]
      <4>1. i + 1 \in 1 .. len /\ 1 \in 1 .. ((i + 1) - 1) /\ f[i] = free_list[i + 1]
        BY <1>5, <3>1, <3>2
      <4>2. /\ f[i] \in Nodes /\ nodes[f[i]].ref_count = 0 /\ f[i] # n
        BY <1>5, <3>1, <3>2, <4>1
      <4>3. ASSUME NEW j \in 1 .. (i - 1) PROVE f[i] # f[j]
        <5>1. j + 1 \in 1 .. ((i + 1) - 1) /\ f[j] = free_list[j + 1]
          BY <1>5, <3>1, <3>2
        <5>. QED
          BY <1>5, <3>1, <4>1, <5>1
      <4>. QED
        BY <1>9, <4>2, <4>3
    <3>. QED
      BY <3>1, <3>2, <3>3 DEF Free
  <2>. QED
    BY <2>1, <2>2
<1>12. ASSUME NEW m \in Nodes \cup {Null}, m # Null => nodes[m].ref_count > 0
       PROVE  Activations(nodes', m) = Activations(nodes, m)
  <2>1. m # Null => nodes'[m].ref_count > 0
    BY <1>6, <1>9, <1>12
  <2>2. \A k \in Nodes : nodes[k].ref_count > 0 /\ nodes'[k].ref_count > 0 =>
           /\ nodes'[k].prev = nodes[k].prev /\ nodes'[k].id = nodes[k].id
           /\ nodes'[k].serial = nodes[k].serial
    BY <1>6, <1>9
  <2>. QED
    BY <1>1, <1>9, <1>12, <2>1, <2>2, StackPersists
<1>13. ASSUME NEW g \in Holders PROVE Activations(nodes', data[g]) = Activations(nodes, data[g])
  <2>1. data[g] \in Nodes \cup {Null} /\ (data[g] # Null => nodes[data[g]].ref_count > 0)
    BY <1>1, PointedAtAlive
  <2>. QED
    BY <1>12, <2>1
<1>14. Activations(nodes', n)
         = Append(Activations(nodes, tail), [id |-> id, serial |-> pushes + 1])
  <2>1. Activations(nodes', tail) = Activations(nodes, tail)
    BY <1>1, <1>12, PointedAtAlive
  <2>2. Chained(nodes', pushes + 1)
    BY <1>9 DEF Counted
  <2>3. nodes'[n].prev = tail /\ nodes'[n].id = id /\ nodes'[n].serial = pushes + 1
    BY <1>9
  <2>. QED
    BY <1>6, <2>1, <2>2, <2>3, ActivationsStep
<1>15. taken = [g \in Holders |-> Activations(nodes', data[g])]
  BY <1>1, <1>13
<1>16. ListsInv'
  BY <1>1, <1>2, <1>3, <1>4, <1>6, <1>7, <1>9, <1>10, <1>11, <1>15 DEF ListsInv
<1>. QED
  BY <1>2, <1>3, <1>4, <1>13, <1>14, <1>16

-----------------------------------------------------------------------------
(***************************************************************************)
(* Reports.                                                                *)
(***************************************************************************)
\* A race is filed under the same key whichever of its accesses came first, and is equivalent
\* to those that are equivalent to it.
LEMMA EquivalentRaces ==
    ASSUME NEW r \in RaceInfo, NEW o \in RaceInfo, is_equivalent_race(r, o)
    PROVE  RaceKey(r) = RaceKey(o) /\ is_equivalent_race(o, r)
<1>1. /\ r.first_acc \in AccessLoc /\ r.second_acc \in AccessLoc
      /\ o.first_acc \in AccessLoc /\ o.second_acc \in AccessLoc
      /\ r.type \in RaceTypes /\ o.type \in RaceTypes
  BY DEF RaceInfo
<1>2. ASSUME NEW a \in AccessLoc PROVE a.acc_loc \in Nat /\ a.type \in Nat
  BY ReportsAssumption DEF AccessLoc
<1>3. CASE r.first_acc = o.first_acc /\ r.second_acc = o.second_acc /\ r.type = o.type
  BY <1>3 DEF is_equivalent_race, RaceKey
<1>4. CASE /\ r.first_acc = o.second_acc /\ r.second_acc = o.first_acc
           /\ r.type = flipRaceType(o.type)
  <2>1. PICK a, b : a = r.first_acc /\ b = r.second_acc
    OBVIOUS
  <2>2. /\ a \in AccessLoc /\ b \in AccessLoc /\ a = o.second_acc /\ b = o.first_acc
        /\ a.acc_loc \in Nat /\ a.type \in Nat /\ b.acc_loc \in Nat /\ b.type \in Nat
    BY <1>1, <1>2, <1>4, <2>1
  <2>3. (IF LessThan(a, b) THEN a.acc_loc ELSE b.acc_loc)
          = (IF LessThan(b, a) THEN b.acc_loc ELSE a.acc_loc)
    BY <2>2 DEF LessThan
  <2>4. RaceKey(r) = RaceKey(o)
    BY <2>1, <2>2, <2>3 DEF RaceKey
  <2>5. o.type = flipRaceType(r.type)
    BY <1>1, <1>4 DEF RaceTypes, flipRaceType
  <2>. QED
    BY <1>4, <2>4, <2>5 DEF is_equivalent_race
<1>. QED
  BY <1>3, <1>4 DEF is_equivalent_race

RacesInv ==
    /\ races_found \subseteq [key : AccIDs, race : RaceInfo] /\ IsFiniteSet(races_found)
    /\ duplicated_races \in Nat /\ Cardinality(races_found) + duplicated_races <= MaxReports
    /\ \A f \in races_found : f.key = RaceKey(f.race)
    /\ \A f, g \in races_found : f # g => ~is_equivalent_race(f.race, g.race)

\* A race is found unless an equivalent one has been.
LEMMA ReportInv ==
    ASSUME RacesInv, NEW race \in RaceInfo, report_race(race)
    PROVE  RacesInv'
<1>1. /\ races_found \subseteq [key : AccIDs, race : RaceInfo] /\ IsFiniteSet(races_found)
      /\ duplicated_races \in Nat /\ Cardinality(races_found) + duplicated_races <= MaxReports
      /\ \A f \in races_found : f.key = RaceKey(f.race)
      /\ \A f, g \in races_found : f # g => ~is_equivalent_race(f.race, g.race)
      /\ MaxReports \in Nat
  BY ReportsAssumption DEF RacesInv
<1>2. Cardinality(races_found) \in Nat
  BY <1>1, FS_CardinalityType
<1>3. Cardinality(races_found) + duplicated_races < MaxReports
  BY DEF report_race
<1>4. CASE \E f \in races_found : f.key = RaceKey(race) /\ is_equivalent_race(race, f.race)
  <2>1. duplicated_races' = duplicated_races + 1 /\ races_found' = races_found
    BY <1>4 DEF report_race
  <2>2. /\ duplicated_races' \in Nat
        /\ Cardinality(races_found) + duplicated_races' <= MaxReports
    BY <1>1, <1>2, <1>3, <2>1
  <2>. QED
    BY <1>1, <2>1, <2>2 DEF RacesInv
<1>5. CASE ~\E f \in races_found : f.key = RaceKey(race) /\ is_equivalent_race(race, f.race)
  <2>1. PICK x : x = [key |-> RaceKey(race), race |-> race]
    OBVIOUS
  <2>2. /\ duplicated_races' = duplicated_races /\ races_found' = races_found \cup {x}
        /\ x.key = RaceKey(race) /\ x.race = race
    BY <1>5, <2>1 DEF report_race
  <2>3. RaceKey(race) \in AccIDs
    BY DEF RaceInfo, AccessLoc, RaceKey
  <2>4. x \in [key : AccIDs, race : RaceInfo]
    BY <2>1, <2>3
  <2>5. ASSUME NEW f \in races_found
        PROVE  ~is_equivalent_race(race, f.race) /\ ~is_equivalent_race(f.race, race)
    <3>1. f.race \in RaceInfo /\ f.key = RaceKey(f.race)
      BY <1>1
    <3>2. is_equivalent_race(race, f.race) => RaceKey(race) = RaceKey(f.race)
      BY <3>1, EquivalentRaces
    <3>3. is_equivalent_race(f.race, race) => is_equivalent_race(race, f.race)
      BY <3>1, EquivalentRaces
    <3>. QED
      BY <1>5, <3>1, <3>2, <3>3
  <2>6. /\ IsFiniteSet(races_found')
        /\ Cardinality(races_found') \in Nat
        /\ Cardinality(races_found') <= Cardinality(races_found) + 1
    BY <1>1, <1>2, <2>2, FS_AddElement
  <2>7. Cardinality(races_found') + duplicated_races' <= MaxReports
    BY <1>1, <1>2, <1>3, <2>2, <2>6
  <2>8. \A f \in races_found' : f.key = RaceKey(f.race)
    BY <1>1, <2>2
  <2>9. \A f, g \in races_found' : f # g => ~is_equivalent_race(f.race, g.race)
    BY <1>1, <2>2, <2>5
  <2>. QED
    BY <1>1, <2>2, <2>4, <2>6, <2>7, <2>8, <2>9 DEF RacesInv
<1>. QED
  BY <1>4, <1>5

-----------------------------------------------------------------------------
(***************************************************************************)
(* The invariant.                                                          *)
(***************************************************************************)
ReportsInv == ListsInv /\ RacesInv

\* The call stack is empty at first, and no race is found.
LEMMA InitReports == Init => ReportsInv
<1>. SUFFICES ASSUME Init PROVE ReportsInv
  OBVIOUS
<1>1. /\ nodes = [n \in Nodes |-> NoNode] /\ free_list = <<>> /\ tail = Null
      /\ data = [h \in Holders |-> Null] /\ taken = [h \in Holders |-> <<>>]
      /\ pushes = 0 /\ races_found = {} /\ duplicated_races = 0
      /\ Null \notin Nodes /\ MaxPushes \in Nat /\ MaxReports \in Nat
  BY ReportsAssumption DEF Init, Null
<1>2. tail \in Nodes \cup {Null} /\ data \in [Holders -> Nodes \cup {Null}]
      /\ pushes \in 0 .. MaxPushes
  BY <1>1
<1>3. /\ \A n \in Nodes : /\ nodes[n] = NoNode /\ nodes[n].prev = Null
                          /\ nodes[n].ref_count = 0 /\ nodes[n].serial = 0
      /\ NoNode \in NodeRec(0)
  BY <1>1 DEF NoNode, NodeRec
<1>4. Chained(nodes, pushes)
  BY <1>1, <1>3 DEF Chained
<1>5. PICK X : X = Pointers(tail, data)
  OBVIOUS
<1>6. X \in [Nodes -> Nat] /\ \A n \in Nodes : X[n] = 0
  <2>1. X \in [Nodes -> Nat]
    BY <1>2, <1>5, PointersFacts
  <2>2. ASSUME NEW n \in Nodes PROVE X[n] = 0
    <3>1. HoldersOf(data, n) = {} /\ tail # n
      BY <1>1 DEF HoldersOf
    <3>2. Cardinality(HoldersOf(data, n)) = 0
      BY <3>1, FS_EmptySet
    <3>. QED
      BY <1>5, <3>1, <3>2 DEF Pointers
  <2>. QED
    BY <2>1, <2>2
<1>7. \A n \in Nodes : Cardinality(Sons(nodes, n)) = 0
  <2>1. \A n \in Nodes : Sons(nodes, n) = {}
    BY <1>1, <1>3 DEF Sons
  <2>. QED
    BY <2>1, FS_EmptySet
<1>8. Counted(nodes, pushes, X)
  BY <1>3, <1>4, <1>6, <1>7 DEF Counted
<1>9. Free(nodes, free_list) /\ Unique(nodes)
  <2>1. free_list \in Seq(Nodes) /\ 1 .. Len(free_list) = {}
    BY <1>1, EmptySeq
  <2>. QED
    BY <1>3, <2>1 DEF Free, Unique
<1>10. taken = [h \in Holders |-> Activations(nodes, data[h])]
  <2>1. \A h \in Holders : data[h] = Null /\ Activations(nodes, data[h]) = <<>>
    BY <1>1, <1>4, ActivationsStep
  <2>. QED
    BY <1>1, <2>1
<1>11. RacesInv
  BY <1>1, FS_EmptySet DEF RacesInv
<1>. QED
  BY <1>2, <1>5, <1>8, <1>9, <1>10, <1>11 DEF ReportsInv, ListsInv

\* Every step keeps the invariant.
LEMMA NextReports == ReportsInv /\ [Next]_vars => ReportsInv'
<1>. SUFFICES ASSUME ReportsInv, [Next]_vars PROVE ReportsInv'
  OBVIOUS
<1>1. ASSUME UNCHANGED found PROVE RacesInv'
  BY <1>1 DEF ReportsInv, RacesInv, found
<1>2. ASSUME UNCHANGED lists PROVE ListsInv'
  BY <1>2 DEF ReportsInv, ListsInv, lists
<1>3. ASSUME NEW id \in CallIDs, push(id) PROVE ReportsInv'
  <2>1. UNCHANGED found
    BY <1>3 DEF push
  <2>. QED
    BY <1>1, <1>3, <2>1, PushInv DEF ReportsInv
<1>4. CASE pop
  <2>1. UNCHANGED found
    BY <1>4 DEF pop
  <2>. QED
    BY <1>1, <1>4, <2>1, PopInv DEF ReportsInv
<1>5. ASSUME NEW h \in Holders, copy(h) PROVE ReportsInv'
  <2>1. UNCHANGED found
    BY <1>5 DEF copy
  <2>. QED
    BY <1>1, <1>5, <2>1, CopyInv DEF ReportsInv
<1>6. ASSUME NEW h \in Holders, destroy(h) PROVE ReportsInv'
  <2>1. UNCHANGED found
    BY <1>6 DEF destroy
  <2>. QED
    BY <1>1, <1>6, <2>1, DestroyInv DEF ReportsInv
<1>7. ASSUME NEW race \in RaceInfo, report_race(race) PROVE ReportsInv'
  <2>1. UNCHANGED lists
    BY <1>7 DEF report_race
  <2>. QED
    BY <1>2, <1>7, <2>1, ReportInv DEF ReportsInv
<1>8. CASE UNCHANGED vars
  BY <1>1, <1>2, <1>8 DEF ReportsInv, vars
<1>. QED
  BY <1>3, <1>4, <1>5, <1>6, <1>7, <1>8 DEF Next

\* The invariant holds throughout.
THEOREM InvariantHolds == Spec => []ReportsInv
<1>. QED
  BY InitReports, NextReports, PTL DEF Spec

\* Every reference count is the number of pointers to its node, what is on the free list is dead
\* and on it once, and no pointer of a node dangles (call_stack_node_t of race_info.h).
THEOREM CountsReflectPointers == Spec => []RefCountsReflectPointers
<1>1. ReportsInv => RefCountsReflectPointers
  <2>. SUFFICES ASSUME ReportsInv PROVE RefCountsReflectPointers
    OBVIOUS
  <2>1. Counted(nodes, pushes, Pointers(tail, data)) /\ Free(nodes, free_list)
    BY DEF ReportsInv, ListsInv
  <2>2. ASSUME NEW n \in Nodes
        PROVE  /\ nodes[n].ref_count = Cardinality(Sons(nodes, n)) + Pointers(tail, data)[n]
               /\ Cardinality(Sons(nodes, n)) \in Nat
               /\ nodes[n].prev \in Alive \cup {Null} /\ (nodes[n].prev # Null => n \in Alive)
    <3>1. nodes[n].prev \in Nodes \cup {Null}
      BY <2>1, ListFacts DEF Counted
    <3>. QED
      BY <2>1, <3>1, CountedFacts DEF Alive
  <2>3. ASSUME NEW n \in Alive
        PROVE  nodes[n].ref_count = (IF tail = n THEN 1 ELSE 0)
                                    + Cardinality({h \in Holders : data[h] = n})
                                    + Cardinality({m \in Alive : nodes[m].prev = n})
    <3>1. n \in Nodes /\ n # Null
      BY ReportsAssumption DEF Alive, Null
    <3>2. Sons(nodes, n) = {m \in Alive : nodes[m].prev = n}
      BY <2>2, <3>1 DEF Sons, Alive
    <3>3. PICK a, b, c : /\ a = (IF tail = n THEN 1 ELSE 0) /\ b = Cardinality(HoldersOf(data, n))
                         /\ c = Cardinality(Sons(nodes, n))
      OBVIOUS
    <3>4. a \in Nat /\ b \in Nat /\ c \in Nat
      BY <2>2, <3>1, <3>3, HolderFacts DEF HoldersOf
    <3>5. nodes[n].ref_count = c + (a + b)
      BY <2>2, <3>1, <3>3 DEF Pointers
    <3>6. nodes[n].ref_count = a + b + c
      BY <3>4, <3>5
    <3>. QED
      BY <3>2, <3>3, <3>6 DEF HoldersOf
  <2>4. ASSUME NEW i \in 1 .. Len(free_list)
        PROVE  free_list[i] \notin Alive /\ \A j \in 1 .. (i - 1) : free_list[i] # free_list[j]
    BY <2>1 DEF Free, Alive
  <2>5. \A n \in Alive : nodes[n].prev \in Alive \cup {Null}
    BY <2>2 DEF Alive
  <2>. QED
    BY <2>3, <2>4, <2>5 DEF RefCountsReflectPointers
<1>. QED
  BY <1>1, InvariantHolds, PTL

\* No two races found are equivalent, whichever of their accesses came first, so the number of
\* distinct races printed is right (print_addr.cpp).
THEOREM RacesAreDistinct == Spec => []DistinctRaces
<1>1. ReportsInv => DistinctRaces
  <2>. SUFFICES ASSUME ReportsInv PROVE DistinctRaces
    OBVIOUS
  <2>1. ListsInv /\ RacesInv /\ MaxReports \in Nat
    BY ReportsAssumption DEF ReportsInv
  <2>2. \A n \in Nodes : nodes[n].prev \in Nodes \cup {Null} /\ nodes[n].ref_count \in Nat
    <3>1. Chained(nodes, pushes)
      BY <2>1 DEF ListsInv, Counted
    <3>. QED
      BY <3>1, ListFacts
  <2>3. duplicated_races \in 0 .. MaxReports
    <3>1. Cardinality(races_found) \in Nat
      BY <2>1, FS_CardinalityType DEF RacesInv
    <3>. QED
      BY <2>1, <3>1 DEF RacesInv
  <2>4. ReportsTypeOK
    BY <2>1, <2>2, <2>3 DEF ReportsTypeOK, ListsInv, RacesInv
  <2>. QED
    BY <2>1, <2>4 DEF DistinctRaces, RacesInv
<1>. QED
  BY <1>1, InvariantHolds, PTL

\* The frames two lists have in common: as many as match from the first on.
Diverge(ns, n1, n2, i) ==
    /\ i \in 0 .. Min2(Len(Chain(ns, n1)), Len(Chain(ns, n2)))
    /\ \A j \in 1 .. i : Chain(ns, n1)[j] = Chain(ns, n2)[j]
    /\ i < Min2(Len(Chain(ns, n1)), Len(Chain(ns, n2))) =>
          Chain(ns, n1)[i + 1] # Chain(ns, n2)[i + 1]

\* The loop of get_call_stack_divergence_pt ends at such a point.
LEMMA DivergencePoint ==
    ASSUME NEW N, Chained(nodes, N), NEW n1 \in Nodes \cup {Null}, NEW n2 \in Nodes \cup {Null}
    PROVE  Diverge(nodes, n1, n2, get_call_stack_divergence_pt(n1, n2))
<1>1. PICK c1, c2, e : c1 = Chain(nodes, n1) /\ c2 = Chain(nodes, n2) /\ e = Min2(Len(c1), Len(c2))
  OBVIOUS
<1>2. e \in Nat
  <2>1. ChainOK(nodes, n1) /\ ChainOK(nodes, n2)
    BY ChainFacts
  <2>2. Len(c1) \in Nat /\ Len(c2) \in Nat
    BY <1>1, <2>1 DEF ChainOK
  <2>. QED
    BY <1>1, <2>2 DEF Min2
<1>. DEFINE Ok(i) == (\A j \in 1 .. i : c1[j] = c2[j]) /\ (i < e => c1[i + 1] # c2[i + 1])
            S == {i \in 0 .. e : i < e => c1[i + 1] # c2[i + 1]}
<1>3. PICK d \in S : \A k \in S : d <= k
  <2>1. S \subseteq Nat /\ e \in S
    BY <1>2
  <2>. HIDE DEF S
  <2>. QED
    BY <2>1, LeastNatural
<1>4. d \in 0 .. e /\ (d < e => c1[d + 1] # c2[d + 1])
  BY <1>3
<1>5. ASSUME NEW j \in 1 .. d PROVE c1[j] = c2[j]
  <2>1. j - 1 \in 0 .. e /\ j - 1 < e /\ (j - 1) + 1 = j /\ ~(d <= j - 1)
    BY <1>2, <1>4
  <2>2. j - 1 \notin S
    <3>. HIDE DEF S
    <3>. QED
      BY <1>3, <2>1
  <2>. QED
    BY <2>1, <2>2
<1>6. \E i \in 0 .. e : Ok(i)
  BY <1>4, <1>5
<1>7. PICK x : x = CHOOSE i \in 0 .. e : Ok(i)
  OBVIOUS
<1>8. x \in 0 .. e /\ Ok(x)
  <2>. HIDE DEF Ok
  <2>. QED
    BY <1>6, <1>7
<1>9. get_call_stack_divergence_pt(n1, n2) = x
  BY <1>1, <1>7, Zenon DEF get_call_stack_divergence_pt
<1>. QED
  BY <1>1, <1>8, <1>9 DEF Diverge

\* What a report prints as the common calling context is the activations the two call stacks
\* have in common: an address that matches is the same activation (print_addr.cpp).
THEOREM ContextIsShared == Spec => []CommonContextIsShared
<1>1. ReportsInv => CommonContextIsShared
  <2>. SUFFICES ASSUME ReportsInv, NEW h \in Holders
       PROVE  LET d == get_call_stack_divergence_pt(data[h], tail)
                  s == Activations(nodes, tail)
                  t == taken[h]
              IN  /\ d <= Len(t) /\ \A i \in 1 .. d : t[i] = s[i]
                  /\ d < Min2(Len(t), Len(s)) => t[d + 1] # s[d + 1]
    BY Zenon DEF CommonContextIsShared
  <2>1. /\ data[h] \in Nodes \cup {Null} /\ tail \in Nodes \cup {Null} /\ Unique(nodes)
        /\ Counted(nodes, pushes, Pointers(tail, data)) /\ Chained(nodes, pushes)
        /\ taken[h] = Activations(nodes, data[h]) /\ ListsInv
    BY DEF ReportsInv, ListsInv, Counted
  <2>2. PICK d, s, t, c1, c2, e :
           /\ d = get_call_stack_divergence_pt(data[h], tail)
           /\ s = Activations(nodes, tail) /\ t = taken[h]
           /\ c1 = Chain(nodes, data[h]) /\ c2 = Chain(nodes, tail) /\ e = Min2(Len(c1), Len(c2))
    OBVIOUS
  <2>3. /\ d \in 0 .. e /\ (\A j \in 1 .. d : c1[j] = c2[j])
        /\ (d < e => c1[d + 1] # c2[d + 1])
    BY <2>1, <2>2, DivergencePoint DEF Diverge
  <2>4. /\ Len(t) = Len(c1) /\ Len(s) = Len(c2)
        /\ t = [i \in 1 .. Len(c1) |-> [id |-> nodes[c1[i]].id, serial |-> nodes[c1[i]].serial]]
        /\ s = [i \in 1 .. Len(c2) |-> [id |-> nodes[c2[i]].id, serial |-> nodes[c2[i]].serial]]
    <3>1. Len(t) = Len(c1) /\ Len(s) = Len(c2)
      BY <2>1, <2>2, ActivationsStep, ZenonT(40)
    <3>. QED
      BY <2>1, <2>2, <3>1 DEF Activations
  <2>5. /\ Len(c1) \in Nat /\ \A i \in 1 .. Len(c1) : c1[i] \in Nodes
        /\ Len(c2) \in Nat /\ \A i \in 1 .. Len(c2) : c2[i] \in Nodes
    <3>1. ChainOK(nodes, data[h]) /\ ChainOK(nodes, tail)
      BY <2>1, ChainFacts
    <3>. QED
      BY <2>2, <3>1 DEF ChainOK
  <2>6. e \in Nat /\ e <= Len(c1) /\ e <= Len(c2)
    BY <2>2, <2>5 DEF Min2
  <2>7. /\ \A i \in 1 .. Len(c1) : nodes[c1[i]].ref_count > 0
        /\ \A i \in 1 .. Len(c2) : nodes[c2[i]].ref_count > 0
    <3>1. /\ data[h] # Null => nodes[data[h]].ref_count > 0
          /\ tail # Null => nodes[tail].ref_count > 0
      BY <2>1, PointedAtAlive
    <3>. QED
      BY <2>1, <2>2, <3>1, AliveKept
  <2>8. ASSUME NEW i \in 1 .. d PROVE t[i] = s[i]
    <3>1. i \in 1 .. Len(c1) /\ i \in 1 .. Len(c2)
      BY <2>3, <2>5, <2>6
    <3>. QED
      BY <2>3, <2>4, <3>1
  <2>9. ASSUME d < e PROVE t[d + 1] # s[d + 1]
    <3>1. d + 1 \in 1 .. Len(c1) /\ d + 1 \in 1 .. Len(c2)
      BY <2>3, <2>5, <2>6, <2>9
    <3>2. nodes[c1[d + 1]].serial # nodes[c2[d + 1]].serial
      BY <2>1, <2>3, <2>5, <2>7, <2>9, <3>1 DEF Unique
    <3>3. t[d + 1].serial = nodes[c1[d + 1]].serial /\ s[d + 1].serial = nodes[c2[d + 1]].serial
      BY <2>4, <3>1
    <3>. QED
      BY <3>2, <3>3
  <2>10. d <= Len(t) /\ Min2(Len(t), Len(s)) = e
    BY <2>2, <2>3, <2>4, <2>5, <2>6
  <2>. QED
    BY <2>2, <2>8, <2>9, <2>10
<1>. QED
  BY <1>1, InvariantHolds, PTL

\* The linked, shared and recycled nodes implement call stacks that persist: a step of them is a
\* call, a return, or a copy taken or dropped, which leaves the other copies alone (race_info.h).
THEOREM StacksPersist == Spec => CallStacksPersist
<1>. DEFINE st == Activations(nodes, tail)
            snaps == [h \in Holders |-> Activations(nodes, data[h])]
<1>1. Init => Stacks!Init
  <2>. SUFFICES ASSUME Init PROVE Stacks!Init
    OBVIOUS
  <2>1. tail = Null /\ data = [h \in Holders |-> Null] /\ Chained(nodes, pushes)
    BY InitReports DEF Init, ReportsInv, ListsInv, Counted
  <2>2. Activations(nodes, Null) = <<>>
    BY <2>1, ActivationsStep
  <2>. QED
    BY <2>1, <2>2 DEF Stacks!Init
<1>2. ReportsInv /\ [Next]_vars => [Stacks!Next]_<<st, snaps>>
  <2>. SUFFICES ASSUME ReportsInv, [Next]_vars PROVE [Stacks!Next]_<<st, snaps>>
    OBVIOUS
  <2>. USE DEF ReportsInv
  <2>1. ASSUME NEW id \in CallIDs, push(id) PROVE Stacks!Next
    <3>1. /\ pushes + 1 \in 1 .. MaxPushes
          /\ st' = Append(st, [id |-> id, serial |-> pushes + 1])
          /\ \A g \in Holders : Activations(nodes', data'[g]) = Activations(nodes, data[g])
      BY <2>1, PushInv
    <3>2. snaps' = snaps
      BY <3>1
    <3>. QED
      BY <3>1, <3>2 DEF Stacks!Next, Stacks!Call
  <2>2. CASE pop
    <3>1. /\ st # <<>> /\ st' = SubSeq(st, 1, Len(st) - 1)
          /\ \A g \in Holders : Activations(nodes', data'[g]) = Activations(nodes, data[g])
      BY <2>2, PopInv
    <3>2. snaps' = snaps
      BY <3>1
    <3>. QED
      BY <3>1, <3>2 DEF Stacks!Next, Stacks!Return
  <2>3. ASSUME NEW h \in Holders, copy(h) PROVE Stacks!Next
    <3>1. /\ st' = st
          /\ \A g \in Holders : Activations(nodes', data'[g])
               = IF g = h THEN st ELSE Activations(nodes, data[g])
      BY <2>3, CopyInv
    <3>2. snaps' = [snaps EXCEPT ![h] = st]
      BY <3>1
    <3>. QED
      BY <3>1, <3>2 DEF Stacks!Next, Stacks!Take
  <2>4. ASSUME NEW h \in Holders, destroy(h) PROVE Stacks!Next
    <3>1. /\ st' = st
          /\ \A g \in Holders : Activations(nodes', data'[g])
               = IF g = h THEN <<>> ELSE Activations(nodes, data[g])
      BY <2>4, DestroyInv
    <3>2. snaps' = [snaps EXCEPT ![h] = <<>>]
      BY <3>1
    <3>. QED
      BY <3>1, <3>2 DEF Stacks!Next, Stacks!Drop
  <2>5. ASSUME UNCHANGED lists PROVE UNCHANGED <<st, snaps>>
    BY <2>5 DEF lists
  <2>6. ASSUME NEW race \in RaceInfo, report_race(race) PROVE UNCHANGED <<st, snaps>>
    <3>1. UNCHANGED lists
      BY <2>6 DEF report_race
    <3>. QED
      BY <2>5, <3>1
  <2>7. CASE UNCHANGED vars
    BY <2>5, <2>7 DEF vars
  <2>. HIDE DEF ReportsInv, st, snaps
  <2>. QED
    BY <2>1, <2>2, <2>3, <2>4, <2>6, <2>7 DEF Next
<1>. QED
  BY <1>1, <1>2, InvariantHolds, PTL DEF Spec, CallStacksPersist, Stacks!Spec

(***************************************************************************)
(* Sequences of sequences.                                                 *)
(***************************************************************************)
\* The partial results of FlattenSeq.
Flattens(g, s, T) ==
    /\ g \in [0..Len(s) -> Seq(T)] /\ g[0] = << >>
    /\ \A n \in 1..Len(s) : g[n] = g[n - 1] \o s[n]

\* There are such partial results.
LEMMA FlattensExist == \A T : \A s \in Seq(Seq(T)) : \E g : Flattens(g, s, T)
<1>. TAKE T
<1>. TAKE s \in Seq(Seq(T))
<1>. DEFINE V == Seq(T)
            G == [p \in (1..Len(s)) \X V |-> p[2] \o s[p[1]]]
<1>1. Len(s) \in Nat /\ << >> \in V /\ \A n \in 1..Len(s) : s[n] \in V
  BY EmptySeq, ElementOfSeq, LenProperties
<1>2. \A n \in 1..Len(s), v \in V : G[<<n, v>>] = v \o s[n]
  <2>. HIDE DEF V
  <2>. QED
    OBVIOUS
<1>3. \A n \in 1..Len(s), v \in V : v \o s[n] \in V
  BY <1>1, ConcatProperties
<1>4. G \in [(1..Len(s)) \X V -> V]
  <2>. HIDE DEF V
  <2>. QED
    BY <1>3
<1>5. PICK g \in [0..Len(s) -> V] : g[0] = << >> /\ \A n \in 1..Len(s) : g[n] = G[<<n, g[n - 1]>>]
  <2>. DEFINE N == Len(s)
              a == << >>
  <2>1. N \in Nat /\ a \in V /\ G \in [(1..N) \X V -> V]
    BY <1>1, <1>4
  <2>. HIDE DEF N, a, G, V
  <2>2. PICK g : Iterates(g, a, G, N, V)
    BY <2>1, Iteration
  <2>. QED
    BY <2>2 DEF N, a, Iterates
<1>. HIDE DEF G, V
<1>6. \A n \in 1..Len(s) : n - 1 \in 0..Len(s) /\ g[n - 1] \in V
  <2>1. \A n \in 1..Len(s) : n - 1 \in 0..Len(s)
    BY <1>1
  <2>. QED
    BY <1>5, <2>1
<1>7. \A n \in 1..Len(s) : g[n] = g[n - 1] \o s[n]
  BY <1>2, <1>5, <1>6
<1>. QED
  BY <1>5, <1>7 DEF Flattens, V

\* They end with its result.
LEMMA FlattensTo ==
    ASSUME NEW T, NEW s \in Seq(Seq(T)), NEW g, Flattens(g, s, T)
    PROVE  FlattenSeq(s) = g[Len(s)]
<1>. DEFINE n == Len(s)
            Is(f) == f = [i \in 1..n |-> IF i = 1 THEN s[i] ELSE f[i - 1] \o s[i]]
            f == CHOOSE f : Is(f)
            h == [i \in 1..n |-> g[i]]
<1>0. n \in Nat /\ \A i \in 1..n : s[i] \in Seq(T)
  BY ElementOfSeq, LenProperties
<1>1. CASE n = 0
  <2>1. s = << >>
    BY <1>1, EmptySeq
  <2>. QED
    BY <1>1, <2>1 DEF FlattenSeq, Flattens
<1>2. CASE n > 0
  <2>1. g[0] = << >> /\ \A i \in 1..n : g[i] = g[i - 1] \o s[i]
    BY DEF Flattens
  <2>2. 1 \in 1..n /\ g[1] = s[1]
    <3>1. 1 \in 1..n
      BY <1>0, <1>2
    <3>2. g[1] = << >> \o s[1]
      <4>. DEFINE m == 1 - 1
      <4>1. m = 0
        OBVIOUS
      <4>2. g[1] = g[m] \o s[1]
        BY <2>1, <3>1
      <4>. HIDE DEF m
      <4>. QED
        BY <2>1, <4>1, <4>2
    <3>. QED
      BY <1>0, <3>1, <3>2, ConcatEmptySeq
  <2>3. Is(h)
    <3>1. \A i \in 1..n : h[i] = IF i = 1 THEN s[i] ELSE h[i - 1] \o s[i]
      <4>. TAKE i \in 1..n
      <4>1. i # 1 => i - 1 \in 1..n
        BY <1>0
      <4>2. i # 1 => h[i] = g[i] /\ h[i - 1] = g[i - 1]
        BY <4>1
      <4>. QED
        BY <2>1, <2>2, <4>2
    <3>. QED
      BY <3>1
  <2>4. Is(f)
    <3>. HIDE DEF Is, h
    <3>. QED
      BY <2>3
  <2>5. \A i \in 1..n : f[i] = IF i = 1 THEN s[i] ELSE f[i - 1] \o s[i]
    <3>. HIDE DEF f
    <3>. QED
      BY <2>4
  <2>. HIDE DEF f, h
  <2>6. \A i \in 0..n : i \in {k \in 0..n : k > 0 => f[k] = g[k]}
    <3>. DEFINE S == {k \in 0..n : k > 0 => f[k] = g[k]}
    <3>1. 0 \in S
      BY <1>0
    <3>2. ASSUME NEW k \in 0..(n - 1), k \in S PROVE k + 1 \in S
      <4>1. k + 1 \in 1..n /\ k + 1 > 0 /\ (k + 1) - 1 = k
        BY <1>0
      <4>2. CASE k = 0
        BY <1>0, <2>2, <2>5, <4>1, <4>2
      <4>3. CASE k > 0
        <5>1. f[k] = g[k]
          BY <3>2, <4>3
        <5>2. f[k + 1] = f[k] \o s[k + 1] /\ g[k + 1] = g[k] \o s[k + 1]
          <6>. DEFINE m == k + 1
          <6>1. m \in 1..n /\ m # 1 /\ m - 1 = k
            BY <4>1, <4>3
          <6>. HIDE DEF m
          <6>2. f[m] = f[m - 1] \o s[m] /\ g[m] = g[m - 1] \o s[m]
            BY <2>1, <2>5, <6>1
          <6>. QED
            BY <6>1, <6>2 DEF m
        <5>3. f[k + 1] = g[k + 1]
          BY <5>1, <5>2
        <5>. QED
          BY <1>0, <4>1, <5>3
      <4>. QED
        BY <1>0, <4>2, <4>3
    <3>. HIDE DEF S
    <3>3. \A k \in 0..n : k \in S
      BY <1>0, <3>1, <3>2, UpTo
    <3>. QED
      BY <3>3 DEF S
  <2>7. f[n] = g[n]
    BY <1>0, <1>2, <2>6
  <2>8. FlattenSeq(s) = f[n]
    BY <1>2 DEF FlattenSeq, f
  <2>. QED
    BY <2>7, <2>8
<1>. QED
  BY <1>0, <1>1, <1>2

\* Flattening one more sequence adds its elements at the end.
LEMMA FlattenFacts ==
    ASSUME NEW T
    PROVE  /\ FlattenSeq(<< >>) = << >>
           /\ \A s \in Seq(Seq(T)) : FlattenSeq(s) \in Seq(T)
           /\ \A s \in Seq(Seq(T)) : \A e \in Seq(T) :
                 FlattenSeq(Append(s, e)) = FlattenSeq(s) \o e
<1>1. FlattenSeq(<< >>) = << >>
  BY DEF FlattenSeq
<1>2. ASSUME NEW s \in Seq(Seq(T)) PROVE FlattenSeq(s) \in Seq(T)
  <2>1. PICK g : Flattens(g, s, T)
    BY FlattensExist
  <2>2. FlattenSeq(s) = g[Len(s)]
    BY <2>1, FlattensTo
  <2>3. g \in [0..Len(s) -> Seq(T)] /\ Len(s) \in 0..Len(s)
    BY <2>1, LenProperties DEF Flattens
  <2>. QED
    BY <2>2, <2>3
<1>3. ASSUME NEW s \in Seq(Seq(T)), NEW e \in Seq(T)
      PROVE  FlattenSeq(Append(s, e)) = FlattenSeq(s) \o e
  <2>. DEFINE t == Append(s, e)
  <2>1. /\ t \in Seq(Seq(T)) /\ Len(t) = Len(s) + 1 /\ Len(s) \in Nat
        /\ \A i \in 1..Len(s) : t[i] = s[i]
        /\ t[Len(s) + 1] = e
    BY AppendProperties, LenProperties
  <2>. HIDE DEF t
  <2>2. PICK g : Flattens(g, t, T)
    BY <2>1, FlattensExist
  <2>. DEFINE h == [i \in 0..Len(s) |-> g[i]]
  <2>3. Flattens(h, s, T)
    <3>1. g[0] = << >> /\ \A i \in 1..Len(s) : g[i] = g[i - 1] \o s[i]
      <4>1. g[0] = << >> /\ \A i \in 1..Len(t) : g[i] = g[i - 1] \o t[i]
        BY <2>2 DEF Flattens
      <4>2. ASSUME NEW i \in 1..Len(s) PROVE g[i] = g[i - 1] \o s[i]
        <5>1. i \in 1..Len(t) /\ t[i] = s[i]
          BY <2>1
        <5>2. g[i] = g[i - 1] \o t[i]
          BY <4>1, <5>1
        <5>. QED
          BY <5>1, <5>2
      <4>. QED
        BY <4>1, <4>2
    <3>2. \A i \in 1..Len(s) : h[i] = g[i] /\ h[i - 1] = g[i - 1]
      BY <2>1
    <3>3. h \in [0..Len(s) -> Seq(T)] /\ h[0] = g[0]
      BY <2>1, <2>2 DEF Flattens
    <3>. HIDE DEF h
    <3>. QED
      BY <3>1, <3>2, <3>3 DEF Flattens
  <2>4. FlattenSeq(s) = g[Len(s)]
    <3>1. h[Len(s)] = g[Len(s)]
      BY <2>1
    <3>. HIDE DEF h
    <3>. QED
      BY <2>3, <3>1, FlattensTo
  <2>5. FlattenSeq(t) = g[Len(s) + 1]
    BY <2>1, <2>2, FlattensTo
  <2>6. g[Len(s) + 1] = g[Len(s)] \o e
    <3>1. \A i \in 1..Len(t) : g[i] = g[i - 1] \o t[i]
      BY <2>2 DEF Flattens
    <3>. DEFINE m == Len(s) + 1
    <3>2. m \in 1..Len(t) /\ m - 1 = Len(s) /\ t[m] = e
      BY <2>1
    <3>. HIDE DEF m
    <3>3. g[m] = g[m - 1] \o t[m]
      BY <3>1, <3>2
    <3>. QED
      BY <3>2, <3>3 DEF m
  <2>. QED
    BY <2>4, <2>5, <2>6 DEF t
<1>. QED
  BY <1>1, <1>2, <1>3

(***************************************************************************)
(* The interpreters, directive by directive.                               *)
(***************************************************************************)
\* The greatest element of a set of places.
LEMMA MaxOfPlaces ==
    ASSUME NEW N \in Nat, NEW s \in SUBSET (1..N), s # {}
    PROVE  Max(s) \in s /\ \A y \in s : Max(s) >= y
<1>. DEFINE T == {N - x : x \in s}
<1>1. T \in SUBSET Nat /\ T # {}
  <2>1. \A x \in s : x \in 1..N /\ N - x \in Nat
    OBVIOUS
  <2>. QED
    BY <2>1
<1>2. PICK m \in T : \A k \in T : m <= k
  <2>. HIDE DEF T
  <2>. QED
    BY <1>1, LeastNatural
<1>3. PICK x \in s : m = N - x
  BY <1>2
<1>4. \A y \in s : x >= y
  <2>. TAKE y \in s
  <2>1. N - y \in T
    OBVIOUS
  <2>2. m <= N - y
    <3>. HIDE DEF T
    <3>. QED
      BY <1>2, <2>1
  <2>. QED
    BY <1>3, <2>2
<1>. QED
  BY <1>4 DEF Max

\* The greatest of the first n places.
LEMMA MaxOfFirst == \A N \in Nat : \A n \in 1..N : Max(1..n) = n /\ (1..n) \ {n} = 1..(n - 1)
<1>. TAKE N \in Nat
<1>. TAKE n \in 1..N
<1>1. 1..n \in SUBSET (1..N) /\ n \in 1..n
  OBVIOUS
<1>2. Max(1..n) \in 1..n /\ Max(1..n) >= n
  <2>1. 1..n # {}
    BY <1>1
  <2>2. Max(1..n) \in 1..n /\ \A y \in 1..n : Max(1..n) >= y
    BY <1>1, <2>1, MaxOfPlaces
  <2>. QED
    BY <1>1, <2>2
<1>3. (1..n) \ {n} = 1..(n - 1)
  OBVIOUS
<1>. QED
  BY <1>2, <1>3

\* A fold from the last place down, over the values of V.
FoldsDown(h, a, G, N, V) ==
    /\ h \in [SUBSET (1..N) -> V]
    /\ \A s \in SUBSET (1..N) : h[s] = IF s = {} THEN a ELSE G[<<Max(s), h[s \ {Max(s)}]>>]

\* There is one.
LEMMA FoldsDownExists ==
    ASSUME NEW N \in Nat, NEW V, NEW a \in V, NEW G \in [(1..N) \X V -> V]
    PROVE  \E h : FoldsDown(h, a, G, N, V)
<1>. DEFINE S == SUBSET (1..N)
            H == [p \in [S -> V] \X S |->
                     IF p[2] = {} THEN a ELSE G[<<Max(p[2]), p[1][p[2] \ {Max(p[2])}]>>]]
            mu == [s \in S |-> Cardinality(s)]
<1>1. \A f \in [S -> V], s \in S :
         H[<<f, s>>] = IF s = {} THEN a ELSE G[<<Max(s), f[s \ {Max(s)}]>>]
  <2>. HIDE DEF S
  <2>. QED
    OBVIOUS
<1>2. \A s \in S : s # {} => Max(s) \in s /\ Max(s) \in 1..N /\ s \ {Max(s)} \in S
  BY MaxOfPlaces
<1>3. H \in [[S -> V] \X S -> V]
  <2>1. \A p \in [S -> V] \X S : \E f \in [S -> V], s \in S : p = <<f, s>>
    <3>. HIDE DEF S
    <3>. QED
      OBVIOUS
  <2>2. ASSUME NEW f \in [S -> V], NEW s \in S PROVE H[<<f, s>>] \in V
    <3>1. s # {} => f[s \ {Max(s)}] \in V
      <4>. HIDE DEF S
      <4>. QED
        BY <1>2
    <3>2. s # {} => G[<<Max(s), f[s \ {Max(s)}]>>] \in V
      BY <1>2, <3>1
    <3>. HIDE DEF H, S
    <3>. QED
      BY <1>1, <3>2
  <2>3. H = [p \in [S -> V] \X S |-> H[p]]
    OBVIOUS
  <2>. HIDE DEF H, S
  <2>4. \A p \in [S -> V] \X S : H[p] \in V
    BY <2>1, <2>2
  <2>. QED
    BY <2>3, <2>4
<1>4. Determines(H, S, V, mu, N)
  <2>1. \A s \in S : IsFiniteSet(s) /\ Cardinality(s) \in 0..N
    <3>. TAKE s \in S
    <3>1. IsFiniteSet(1..N) /\ Cardinality(1..N) = N
      BY FS_Interval
    <3>2. IsFiniteSet(s) /\ Cardinality(s) <= Cardinality(1..N)
      BY <3>1, FS_Subset
    <3>. QED
      BY <3>1, <3>2, FS_CardinalityType
  <2>2. \A s \in S : s # {} => mu[s \ {Max(s)}] < mu[s]
    <3>. TAKE s \in S
    <3>. HAVE s # {}
    <3>1. Max(s) \in s /\ s \ {Max(s)} \in S
      BY <1>2
    <3>2. Cardinality(s \ {Max(s)}) = Cardinality(s) - 1 /\ Cardinality(s) \in Nat
      <4>1. IsFiniteSet(s) /\ Cardinality(s) \in Nat
        BY <2>1
      <4>. QED
        BY <3>1, <4>1, FS_RemoveElement
    <3>3. mu[s \ {Max(s)}] = Cardinality(s \ {Max(s)}) /\ mu[s] = Cardinality(s)
      <4>. HIDE DEF S
      <4>. QED
        BY <3>1
    <3>. QED
      BY <3>2, <3>3
  <2>3. mu \in [S -> 0..N]
    <3>. HIDE DEF S
    <3>. QED
      BY <2>1
  <2>. HIDE DEF H, mu, S
  <2>4. ASSUME NEW x \in S, NEW f \in [S -> V], NEW h \in [S -> V],
               \A y \in S : mu[y] < mu[x] => f[y] = h[y]
        PROVE  H[<<f, x>>] = H[<<h, x>>]
    <3>1. x # {} => f[x \ {Max(x)}] = h[x \ {Max(x)}]
      BY <1>2, <2>2, <2>4
    <3>2. /\ H[<<f, x>>] = IF x = {} THEN a ELSE G[<<Max(x), f[x \ {Max(x)}]>>]
          /\ H[<<h, x>>] = IF x = {} THEN a ELSE G[<<Max(x), h[x \ {Max(x)}]>>]
      BY <1>1
    <3>. QED
      BY <3>1, <3>2
  <2>. QED
    BY <1>3, <2>3, <2>4 DEF Determines
<1>5. PICK f \in [S -> V] : \A s \in S : f[s] = H[<<f, s>>]
  <2>. HIDE DEF H, mu, S
  <2>. QED
    BY <1>4, RecursiveFunction
<1>6. \A s \in S : f[s] = IF s = {} THEN a ELSE G[<<Max(s), f[s \ {Max(s)}]>>]
  <2>. HIDE DEF H, S
  <2>. QED
    BY <1>1, <1>5
<1>. QED
  BY <1>5, <1>6 DEF FoldsDown, S

\* Its values at the first n places, from the first on.
LEMMA FoldsDownIterates ==
    ASSUME NEW N \in Nat, NEW V, NEW a \in V, NEW G \in [(1..N) \X V -> V],
           NEW h, FoldsDown(h, a, G, N, V)
    PROVE  Iterates([n \in 0..N |-> h[1..n]], a, G, N, V)
<1>. DEFINE g == [n \in 0..N |-> h[1..n]]
<1>1. \A n \in 0..N : 1..n \in SUBSET (1..N)
  OBVIOUS
<1>2. g \in [0..N -> V]
  BY <1>1 DEF FoldsDown
<1>3. g[0] = a
  <2>1. 1..0 = {} /\ 1..0 \in SUBSET (1..N)
    OBVIOUS
  <2>2. h[1..0] = a
    BY <2>1 DEF FoldsDown
  <2>. QED
    BY <2>2
<1>4. ASSUME NEW n \in 1..N PROVE g[n] = G[<<n, g[n - 1]>>]
  <2>1. /\ n \in 0..N /\ n - 1 \in 0..N /\ 1..n # {}
        /\ Max(1..n) = n /\ (1..n) \ {n} = 1..(n - 1)
    <3>1. n \in 0..N /\ n - 1 \in 0..N /\ 1 \in 1..n
      OBVIOUS
    <3>. QED
      BY <3>1, MaxOfFirst
  <2>2. h[1..n] = G[<<Max(1..n), h[(1..n) \ {Max(1..n)}]>>]
    BY <1>1, <2>1 DEF FoldsDown
  <2>3. g[n] = h[1..n] /\ g[n - 1] = h[1..(n - 1)]
    BY <2>1
  <2>. HIDE DEF g
  <2>. QED
    BY <2>1, <2>2, <2>3
<1>. HIDE DEF g
<1>5. Iterates(g, a, G, N, V)
  BY <1>2, <1>3, <1>4 DEF Iterates
<1>. QED
  BY <1>5 DEF g

\* The progress of an interpreter over arguments named in A.
Kinds == {"read", "write", "atomic_read", "atomic_write", "nothing"}
Progress(A) ==
    [checks : Seq([kind : Kinds, arg : A, slot : Nat]), used : Nat, inputs : Int, over : BOOLEAN]

\* A check is progress.
LEMMA CheckRangeTyped ==
    \A A : \A count \in Nat, st \in Progress(A), kind \in Kinds, arg \in A :
        CheckRange(count, st, kind, arg) \in Progress(A)
<1>. TAKE A
<1>. TAKE count \in Nat, st \in Progress(A), kind \in Kinds, arg \in A
<1>. DEFINE C == [kind : Kinds, arg : A, slot : Nat]
            c(slot) == [kind |-> kind, arg |-> arg, slot |-> slot]
<1>1. st.checks \in Seq(C) /\ st.used \in Nat /\ st.inputs \in Int /\ st.over \in BOOLEAN
  BY DEF Progress
<1>2. \A n \in Nat : c(n) \in C
  OBVIOUS
<1>3. \A n \in Nat : Append(st.checks, c(n)) \in Seq(C)
  <2>. HIDE DEF C, c
  <2>. QED
    BY <1>1, <1>2, AppendProperties
<1>4. CASE st.used < count
  <2>1. [st EXCEPT !.checks = Append(@, c(st.used + 1)), !.used = @ + 1] \in Progress(A)
    <3>1. Append(st.checks, c(st.used + 1)) \in Seq(C) /\ st.used + 1 \in Nat
      BY <1>1, <1>3
    <3>. HIDE DEF C, c
    <3>. QED
      BY <3>1 DEF Progress, C
  <2>. QED
    BY <1>4, <2>1 DEF CheckRange
<1>5. CASE ~(st.used < count)
  <2>1. [st EXCEPT !.checks = Append(@, c(0))] \in Progress(A)
    <3>1. Append(st.checks, c(0)) \in Seq(C)
      BY <1>3
    <3>. HIDE DEF C, c
    <3>. QED
      BY <3>1 DEF Progress, C
  <2>. QED
    BY <1>5, <2>1 DEF CheckRange
<1>. QED
  BY <1>4, <1>5

\* So is a directive.
LEMMA DirectivesTyped ==
    \A A : \A count \in Nat, st \in Progress(A), d \in Directives(A) :
        /\ printf_directive(count, st, d) \in Progress(A)
        /\ scanf_directive(count, st, d) \in Progress(A)
<1>. TAKE A
<1>. TAKE count \in Nat, st \in Progress(A), d \in Directives(A)
<1>1. d.arg \in A /\ d.conv \in {"d", "p", "s", "ls", "n", "m", "bad", "1$"} /\ d.star \in BOOLEAN
          /\ d.null \in BOOLEAN
  BY DEF Directives
<1>2. [st EXCEPT !.over = TRUE] \in Progress(A) /\ [st EXCEPT !.used = @ + 1] \in Progress(A)
  <2>1. [st EXCEPT !.over = TRUE] \in Progress(A)
    BY DEF Progress
  <2>2. \A n \in Nat : [st EXCEPT !.used = n] \in Progress(A)
    BY DEF Progress
  <2>3. st.used + 1 \in Nat
    BY DEF Progress
  <2>. QED
    BY <2>1, <2>2, <2>3
<1>3. \A k \in Int : [st EXCEPT !.inputs = k] \in Progress(A)
  BY DEF Progress
<1>4. st.inputs \in Int /\ st.inputs - 1 \in Int
  BY DEF Progress
<1>5. "read" \in Kinds /\ "write" \in Kinds /\ "nothing" \in Kinds
  BY DEF Kinds
<1>6. printf_directive(count, st, d) \in Progress(A)
  <2>1. SkipScalarArg(count, st, d.conv) \in Progress(A)
    BY <1>2 DEF SkipScalarArg
  <2>2. \A k \in Kinds : CheckRange(count, st, k, d.arg) \in Progress(A)
    BY <1>1, CheckRangeTyped
  <2>. QED
    BY <1>1, <1>2, <1>5, <2>1, <2>2 DEF printf_directive
<1>7. scanf_directive(count, st, d) \in Progress(A)
  <2>1. \A i \in Int,
            k \in Kinds : CheckRange(count, [st EXCEPT !.inputs = i], k, d.arg) \in Progress(A)
    BY <1>1, <1>3, CheckRangeTyped
  <2>. DEFINE left == IF d.conv = "n" THEN st.inputs ELSE st.inputs - 1
              kind == IF d.conv = "ls" THEN "nothing" ELSE "write"
  <2>2. left \in Int /\ kind \in Kinds
    BY <1>4, <1>5
  <2>3. CheckRange(count, [st EXCEPT !.inputs = left], kind, d.arg) \in Progress(A)
    <3>. HIDE DEF left, kind
    <3>. QED
      BY <2>1, <2>2
  <2>. QED
    BY <1>1, <1>2, <2>3 DEF scanf_directive
<1>. QED
  BY <1>6, <1>7

\* The directive of a format function.
Directed(fmt, count, st, d) ==
    IF fmt = "scanf" THEN scanf_directive(count, st, d) ELSE printf_directive(count, st, d)

\* What an interpreter starts with: it reads the format.
Begun(count, inputs) == CheckRange(count, [Start EXCEPT !.inputs = inputs], "read", "format")

\* The progress of an interpreter from directive to directive.
Runs(g, fmt, count, inputs, dirs, A) ==
    /\ g \in [0..Len(dirs) -> Progress(A)]
    /\ g[0] = Begun(count, inputs)
    /\ \A n \in 1..Len(dirs) : g[n] = Directed(fmt, count, g[n - 1], dirs[n])

\* The same progress as the values of a fold.
RunsDown(h, fmt, count, inputs, dirs, A) ==
    /\ h \in [SUBSET (1..Len(dirs)) -> Progress(A)]
    /\ \A s \in SUBSET (1..Len(dirs)) :
          h[s] = IF s = {} THEN Begun(count, inputs)
                 ELSE Directed(fmt, count, h[s \ {Max(s)}], dirs[Max(s)])
    /\ Runs([n \in 0..Len(dirs) |-> h[1..n]], fmt, count, inputs, dirs, A)

\* The values of a fold over the directives are the progress of an interpreter.
LEMMA FoldRuns ==
    ASSUME NEW A, "format" \in A, NEW fmt, NEW count \in Nat, NEW inputs \in Int,
           NEW dirs \in Seq(Directives(A))
    PROVE  \E h : RunsDown(h, fmt, count, inputs, dirs, A)
<1>. DEFINE N == Len(dirs)
            V == Progress(A)
            a == Begun(count, inputs)
            G == [p \in (1..N) \X V |-> Directed(fmt, count, p[2], dirs[p[1]])]
<1>1. N \in Nat /\ \A n \in 1..N : dirs[n] \in Directives(A)
  BY ElementOfSeq, LenProperties
<1>2. a \in V
  <2>1. [Start EXCEPT !.inputs = inputs] \in Progress(A)
    <3>1. << >> \in Seq([kind : Kinds, arg : A, slot : Nat])
      BY EmptySeq
    <3>. QED
      BY <3>1 DEF Start, Progress
  <2>2. "read" \in Kinds
    BY DEF Kinds
  <2>. QED
    BY <2>1, <2>2, CheckRangeTyped DEF Begun
<1>3. \A n \in 1..N, v \in V : Directed(fmt, count, v, dirs[n]) \in V
  <2>. TAKE n \in 1..N, v \in V
  <2>1. dirs[n] \in Directives(A)
    BY <1>1
  <2>. QED
    BY <2>1, DirectivesTyped DEF Directed
<1>4. \A n \in 1..N, v \in V : G[<<n, v>>] = Directed(fmt, count, v, dirs[n])
  <2>. HIDE DEF V, N
  <2>. QED
    OBVIOUS
<1>5. G \in [(1..N) \X V -> V]
  <2>. HIDE DEF V, N
  <2>. QED
    BY <1>3
<1>. HIDE DEF N, V, a, G
<1>6. PICK h : FoldsDown(h, a, G, N, V)
  BY <1>1, <1>2, <1>5, FoldsDownExists
<1>. DEFINE g == [n \in 0..N |-> h[1..n]]
<1>7. Iterates(g, a, G, N, V)
  BY <1>1, <1>2, <1>5, <1>6, FoldsDownIterates
<1>8. ASSUME NEW s \in SUBSET (1..N)
      PROVE  h[s] = IF s = {} THEN a ELSE Directed(fmt, count, h[s \ {Max(s)}], dirs[Max(s)])
  <2>1. s # {} => Max(s) \in 1..N /\ s \ {Max(s)} \in SUBSET (1..N)
    BY <1>1, MaxOfPlaces
  <2>2. s # {} => h[s \ {Max(s)}] \in V
    BY <1>6, <2>1 DEF FoldsDown
  <2>3. s # {} => G[<<Max(s), h[s \ {Max(s)}]>>]
            = Directed(fmt, count, h[s \ {Max(s)}], dirs[Max(s)])
    BY <1>4, <2>1, <2>2
  <2>4. h[s] = IF s = {} THEN a ELSE G[<<Max(s), h[s \ {Max(s)}]>>]
    BY <1>6 DEF FoldsDown
  <2>. QED
    BY <2>3, <2>4
<1>9. Runs(g, fmt, count, inputs, dirs, A)
  <2>. HIDE DEF g
  <2>1. g \in [0..N -> V] /\ g[0] = a /\ \A n \in 1..N : g[n] = G[<<n, g[n - 1]>>]
    BY <1>7 DEF Iterates
  <2>2. ASSUME NEW n \in 1..N PROVE g[n] = Directed(fmt, count, g[n - 1], dirs[n])
    <3>1. n - 1 \in 0..N
      BY <1>1
    <3>2. g[n - 1] \in V /\ g[n] = G[<<n, g[n - 1]>>]
      BY <2>1, <3>1
    <3>. QED
      BY <1>4, <3>2
  <2>. QED
    BY <2>1, <2>2 DEF Runs, N, V, a
<1>10. h \in [SUBSET (1..N) -> V]
  BY <1>6 DEF FoldsDown
<1>. QED
  BY <1>8, <1>9, <1>10 DEF N, V, a, RunsDown

\* printf_common(count, dirs) makes such progress.
LEMMA PrintfRuns ==
    \A A : "format" \in A => \A count \in Nat, inputs \in Int, dirs \in Seq(Directives(A)) :
        \E g : /\ Runs(g, "printf", count, 0, dirs, A)
               /\ printf_common(count, dirs) = g[Len(dirs)]
<1>. TAKE A
<1>. HAVE "format" \in A
<1>. TAKE count \in Nat, inputs \in Int, dirs \in Seq(Directives(A))
<1>. DEFINE N == Len(dirs)
            a == CheckRange(count, Start, "read", "format")
            Is(f) == f = [s \in SUBSET (1..N) |->
                             IF s = {} THEN a
                             ELSE printf_directive(count, f[s \ {Max(s)}], dirs[Max(s)])]
            f == CHOOSE f : Is(f)
<1>1. N \in Nat /\ DOMAIN dirs = 1..N /\ dirs \in Seq(Directives(A))
  BY LenProperties
<1>2. a = Begun(count, 0)
  BY DEF Begun, Start
<1>3. PICK h : /\ h \in [SUBSET (1..N) -> Progress(A)]
               /\ \A s \in SUBSET (1..N) :
                     h[s] = IF s = {} THEN Begun(count, 0)
                            ELSE Directed("printf", count, h[s \ {Max(s)}], dirs[Max(s)])
               /\ Runs([n \in 0..N |-> h[1..n]], "printf", count, 0, dirs, A)
  <2>1. PICK h : RunsDown(h, "printf", count, 0, dirs, A)
    <3>1. \A i \in Int : \E h : RunsDown(h, "printf", count, i, dirs, A)
      BY FoldRuns
    <3>. QED
      BY <3>1
  <2>. QED
    BY <2>1 DEF RunsDown
<1>4. \A v, d : Directed("printf", count, v, d) = printf_directive(count, v, d)
  BY DEF Directed
<1>. HIDE DEF a
<1>0. \A s \in SUBSET (1..N) :
         h[s] = IF s = {} THEN a ELSE printf_directive(count, h[s \ {Max(s)}], dirs[Max(s)])
  BY <1>2, <1>3, <1>4
<1>5. Is(h)
  <2>1. h = [s \in SUBSET (1..N) |-> h[s]]
    BY <1>3
  <2>. QED
    BY <1>0, <2>1
<1>6. Is(f)
  <2>. HIDE DEF Is
  <2>. QED
    BY <1>5
<1>7. \A s \in SUBSET (1..N) :
         f[s] = IF s = {} THEN a ELSE printf_directive(count, f[s \ {Max(s)}], dirs[Max(s)])
  <2>. HIDE DEF f, N
  <2>. QED
    BY <1>6
<1>8. printf_common(count, dirs) = f[1..N]
  BY <1>1 DEF printf_common, FoldLeft, MapThenFoldSet, a
<1>. HIDE DEF f
<1>9. \A n \in 0..N : n \in {i \in 0..N : f[1..i] = h[1..i]}
  <2>. DEFINE S == {n \in 0..N : f[1..n] = h[1..n]}
  <2>1. 0 \in S
    <3>1. 1..0 = {} /\ 1..0 \in SUBSET (1..N) /\ 0 \in 0..N
      BY <1>1
    <3>2. f[1..0] = a /\ h[1..0] = a
      BY <1>0, <1>7, <3>1
    <3>. QED
      BY <3>1, <3>2
  <2>2. ASSUME NEW n \in 0..(N - 1), n \in S PROVE n + 1 \in S
    <3>1. n + 1 \in 1..N /\ n + 1 \in 0..N /\ (n + 1) - 1 = n /\ n + 1 \in 1..(n + 1)
      BY <1>1
    <3>2. Max(1..(n + 1)) = n + 1 /\ (1..(n + 1)) \ {n + 1} = 1..n
      BY <1>1, <3>1, MaxOfFirst
    <3>3. 1..(n + 1) \in SUBSET (1..N) /\ 1..(n + 1) # {}
      <4>1. 1..(n + 1) \subseteq 1..N
        BY <1>1, <3>1
      <4>. QED
        BY <3>1, <4>1
    <3>4. f[1..(n + 1)] = printf_directive(count, f[1..n], dirs[n + 1])
      BY <1>7, <3>2, <3>3
    <3>5. h[1..(n + 1)] = printf_directive(count, h[1..n], dirs[n + 1])
      BY <1>0, <3>2, <3>3
    <3>. QED
      BY <2>2, <3>1, <3>4, <3>5
  <2>. HIDE DEF S, N
  <2>3. \A n \in 0..N : n \in S
    BY <1>1, <2>1, <2>2, UpTo
  <2>. QED
    BY <2>3 DEF S
<1>. DEFINE g == [n \in 0..N |-> h[1..n]]
<1>10. g[N] = f[1..N]
  BY <1>1, <1>9
<1>. QED
  BY <1>3, <1>8, <1>10

\* scanf_common(count, inputs, dirs) makes such progress.
LEMMA ScanfRuns ==
    \A A : "format" \in A => \A count \in Nat, inputs \in Int, dirs \in Seq(Directives(A)) :
        \E g : /\ Runs(g, "scanf", count, inputs, dirs, A)
               /\ scanf_common(count, inputs, dirs) = g[Len(dirs)]
<1>. TAKE A
<1>. HAVE "format" \in A
<1>. TAKE count \in Nat, inputs \in Int, dirs \in Seq(Directives(A))
<1>. DEFINE N == Len(dirs)
            a == CheckRange(count, [Start EXCEPT !.inputs = inputs], "read", "format")
            Is(f) == f = [s \in SUBSET (1..N) |->
                             IF s = {} THEN a
                             ELSE scanf_directive(count, f[s \ {Max(s)}], dirs[Max(s)])]
            f == CHOOSE f : Is(f)
<1>1. N \in Nat /\ DOMAIN dirs = 1..N /\ dirs \in Seq(Directives(A))
  BY LenProperties
<1>2. a = Begun(count, inputs)
  BY DEF Begun, Start
<1>3. PICK h : /\ h \in [SUBSET (1..N) -> Progress(A)]
               /\ \A s \in SUBSET (1..N) :
                     h[s] = IF s = {} THEN Begun(count, inputs)
                            ELSE Directed("scanf", count, h[s \ {Max(s)}], dirs[Max(s)])
               /\ Runs([n \in 0..N |-> h[1..n]], "scanf", count, inputs, dirs, A)
  <2>1. PICK h : RunsDown(h, "scanf", count, inputs, dirs, A)
    BY FoldRuns
  <2>. QED
    BY <2>1 DEF RunsDown
<1>4. \A v, d : Directed("scanf", count, v, d) = scanf_directive(count, v, d)
  BY DEF Directed
<1>. HIDE DEF a
<1>0. \A s \in SUBSET (1..N) :
         h[s] = IF s = {} THEN a ELSE scanf_directive(count, h[s \ {Max(s)}], dirs[Max(s)])
  BY <1>2, <1>3, <1>4
<1>5. Is(h)
  <2>1. h = [s \in SUBSET (1..N) |-> h[s]]
    BY <1>3
  <2>. QED
    BY <1>0, <2>1
<1>6. Is(f)
  <2>. HIDE DEF Is
  <2>. QED
    BY <1>5
<1>7. \A s \in SUBSET (1..N) :
         f[s] = IF s = {} THEN a ELSE scanf_directive(count, f[s \ {Max(s)}], dirs[Max(s)])
  <2>. HIDE DEF f, N
  <2>. QED
    BY <1>6
<1>8. scanf_common(count, inputs, dirs) = f[1..N]
  BY <1>1 DEF scanf_common, FoldLeft, MapThenFoldSet, a
<1>. HIDE DEF f
<1>9. \A n \in 0..N : n \in {i \in 0..N : f[1..i] = h[1..i]}
  <2>. DEFINE S == {n \in 0..N : f[1..n] = h[1..n]}
  <2>1. 0 \in S
    <3>1. 1..0 = {} /\ 1..0 \in SUBSET (1..N) /\ 0 \in 0..N
      BY <1>1
    <3>2. f[1..0] = a /\ h[1..0] = a
      BY <1>0, <1>7, <3>1
    <3>. QED
      BY <3>1, <3>2
  <2>2. ASSUME NEW n \in 0..(N - 1), n \in S PROVE n + 1 \in S
    <3>1. n + 1 \in 1..N /\ n + 1 \in 0..N /\ (n + 1) - 1 = n /\ n + 1 \in 1..(n + 1)
      BY <1>1
    <3>2. Max(1..(n + 1)) = n + 1 /\ (1..(n + 1)) \ {n + 1} = 1..n
      BY <1>1, <3>1, MaxOfFirst
    <3>3. 1..(n + 1) \in SUBSET (1..N) /\ 1..(n + 1) # {}
      <4>1. 1..(n + 1) \subseteq 1..N
        BY <1>1, <3>1
      <4>. QED
        BY <3>1, <4>1
    <3>4. f[1..(n + 1)] = scanf_directive(count, f[1..n], dirs[n + 1])
      BY <1>7, <3>2, <3>3
    <3>5. h[1..(n + 1)] = scanf_directive(count, h[1..n], dirs[n + 1])
      BY <1>0, <3>2, <3>3
    <3>. QED
      BY <2>2, <3>1, <3>4, <3>5
  <2>. HIDE DEF S, N
  <2>3. \A n \in 0..N : n \in S
    BY <1>1, <2>1, <2>2, UpTo
  <2>. QED
    BY <2>3 DEF S
<1>. DEFINE g == [n \in 0..N |-> h[1..n]]
<1>10. g[N] = f[1..N]
  BY <1>1, <1>9
<1>. QED
  BY <1>3, <1>8, <1>10

(***************************************************************************)
(* The table of hooks.                                                     *)
(***************************************************************************)
\* A sequence, whatever it holds.
Listed(s) == s \in Seq({s[i] : i \in 1..Len(s)})

\* Names of arguments.
Named(a) == a \notin {"_", "ModRef"}

\* Each check is guarded by the MAAP of its argument or by none.
Filtered(c) == c.kind \in Kinds /\ Named(c.arg) /\ c.guard \in {c.arg, "ModRef"}
AllFiltered(checks) == Listed(checks) /\ \A i \in 1..Len(checks) : Filtered(checks[i])

\* The format is the argument after those a format hook names.
FormatIsNext(e) ==
    /\ e.fmt \in {"none", "printf", "scanf"}
    /\ e.fmt # "none" =>
          /\ e.all /\ e.when = "success"
          /\ Len(e.args) = Len(e.named) + 1 /\ e.args[Len(e.args)] = "format"

\* A hook pops into a variable the MAAP of the argument the variable is named for.
HookEntry(e) ==
    /\ Listed(e.args) /\ Listed(e.named) /\ AllFiltered(e.checks)
    /\ \A j \in 1..Len(e.named) :
          e.named[j] # "_" => j <= Len(e.args) /\ e.args[j] = e.named[j]
    /\ FormatIsNext(e)

\* A hook pops what the call pushed: whatever is left, or one MAAP per argument.
PopsItsOwn(e) == e.fmt = "none" => e.all \/ Len(e.named) = Len(e.args) \/ e.args = << >>

\* The hook of fputs keeps a MAAP.
Sound(S) == \A h \in S : HookEntry(h[2]) /\ (h[1] # "fputs" => PopsItsOwn(h[2]))

\* Short sequences.
LEMMA ListedTuples ==
    /\ Listed(<< >>) /\ \A a : Listed(<<a>>)
    /\ \A a, b : Listed(<<a, b>>)
    /\ \A a, b, c : Listed(<<a, b, c>>)
BY DEF Listed

\* Short sequences of checks.
LEMMA FilteredTuples ==
    /\ AllFiltered(<< >>) /\ \A a : Filtered(a) => AllFiltered(<<a>>)
    /\ \A a, b : Filtered(a) /\ Filtered(b) => AllFiltered(<<a, b>>)
    /\ \A a, b, c, d, e : Filtered(a) /\ Filtered(b) /\ Filtered(c) /\ Filtered(d) /\ Filtered(e)
            => AllFiltered(<<a, b, c, d, e>>)
BY DEF Listed, AllFiltered

\* The checks.
LEMMA Guards ==
    \A a : Named(a) =>
        /\ Filtered(Rd(a)) /\ Filtered(Wr(a)) /\ Filtered(RdAny(a)) /\ Filtered(WrAny(a))
        /\ Filtered(Access("atomic_read", a, a)) /\ Filtered(Access("atomic_write", a, a))
BY DEF Filtered, Rd, Wr, RdAny, WrAny, Access, Kinds, Named

\* An entry all of whose arguments are popped, in order.
LEMMA EntryOf ==
    ASSUME NEW args, Listed(args), NEW named, Listed(named), NEW checks, AllFiltered(checks),
           NEW all \in BOOLEAN, NEW when,
           \A j \in 1..Len(named) : named[j] # "_" => j <= Len(args) /\ args[j] = named[j],
           all \/ Len(named) = Len(args) \/ args = << >>
    PROVE  LET e == Entry(args, named, all, when, checks, "none") IN HookEntry(e) /\ PopsItsOwn(e)
<1>. DEFINE e == Entry(args, named, all, when, checks, "none")
<1>1. /\ e.args = args /\ e.named = named /\ e.all = all /\ e.checks = checks /\ e.fmt = "none"
  BY DEF Entry
<1>. HIDE DEF e
<1>2. HookEntry(e)
  BY <1>1 DEF HookEntry, FormatIsNext
<1>3. PopsItsOwn(e)
  BY <1>1 DEF PopsItsOwn
<1>. QED
  BY <1>2, <1>3 DEF e

\* The same entry under several names.
LEMMA OneSound ==
    ASSUME NEW N, NEW e, HookEntry(e), PopsItsOwn(e)
    PROVE  Sound({<<n, e>> : n \in N})
BY DEF Sound

\* Hooks that pop nothing.
LEMMA QuietSound == \A N : Sound(Quiet(N))
<1>. TAKE N
<1>. DEFINE e == Entry(<< >>, << >>, FALSE, "never", << >>, "none")
<1>1. HookEntry(e) /\ PopsItsOwn(e)
  <2>. DEFINE empty == << >>
  <2>1. Listed(empty) /\ AllFiltered(empty) /\ Len(empty) = 0
    BY ListedTuples, FilteredTuples
  <2>. HIDE DEF empty
  <2>2. \A j \in 1..Len(empty) : FALSE
    BY <2>1
  <2>3. HookEntry(Entry(empty, empty, FALSE, "never", empty, "none"))
    BY <2>1, <2>2, EntryOf
  <2>4. PopsItsOwn(Entry(empty, empty, FALSE, "never", empty, "none"))
    BY <2>1, <2>2, EntryOf
  <2>. QED
    BY <2>3, <2>4 DEF empty
<1>. QED
  BY <1>1, OneSound DEF Quiet

\* Hooks that pop everything unseen.
LEMMA UnseenSound ==
    ASSUME NEW N, NEW args, Listed(args), NEW checks, AllFiltered(checks)
    PROVE  Sound(Drops(N, args)) /\ Sound(Blind(N, args, checks))
<1>1. ASSUME NEW c, AllFiltered(c), NEW when
      PROVE  Sound({<<n, Entry(args, << >>, TRUE, when, c, "none")>> : n \in N})
  <2>. DEFINE e == Entry(args, << >>, TRUE, when, c, "none")
  <2>1. Listed(<< >>) /\ \A j \in 1..Len(<< >>) : FALSE
    BY ListedTuples
  <2>2. HookEntry(e) /\ PopsItsOwn(e)
    BY <1>1, <2>1, EntryOf
  <2>. HIDE DEF e
  <2>3. Sound({<<n, e>> : n \in N})
    BY <2>2, OneSound
  <2>. QED
    BY <2>3 DEF e
<1>. QED
  BY <1>1, FilteredTuples DEF Drops, Blind

\* Hooks that pop the MAAP of each argument.
LEMMA ChecksSound ==
    ASSUME NEW N, NEW args, Listed(args), NEW checks, AllFiltered(checks)
    PROVE  Sound(Checks(N, args, checks)) /\ Sound(Result(N, args, checks))
<1>1. ASSUME NEW when
      PROVE Sound({<<n, Entry(args, args, FALSE, when, checks, "none")>> : n \in N})
  <2>. DEFINE e == Entry(args, args, FALSE, when, checks, "none")
  <2>1. \A j \in 1..Len(args) : j <= Len(args) /\ args[j] = args[j]
    BY DEF Listed
  <2>2. HookEntry(e) /\ PopsItsOwn(e)
    BY <2>1, EntryOf
  <2>. HIDE DEF e
  <2>3. Sound({<<n, e>> : n \in N})
    BY <2>2, OneSound
  <2>. QED
    BY <2>3 DEF e
<1>. QED
  BY <1>1 DEF Checks, Result

\* Hooks that keep the MAAP of the first argument.
LEMMA FirstSound ==
    ASSUME NEW N, NEW args, Listed(args), Len(args) > 0, NEW when, NEW checks, AllFiltered(checks)
    PROVE  Sound(First(N, args, when, checks))
<1>. DEFINE e == Entry(args, <<args[1]>>, TRUE, when, checks, "none")
<1>1. Len(args) \in Nat /\ Listed(<<args[1]>>)
  BY ListedTuples DEF Listed
<1>2. HookEntry(e) /\ PopsItsOwn(e)
  <2>. DEFINE named == <<args[1]>>
  <2>1. \A j \in 1..Len(named) : j <= Len(args) /\ args[j] = named[j]
    BY <1>1
  <2>. QED
    BY <1>1, <2>1, EntryOf
<1>. HIDE DEF e
<1>3. Sound({<<n, e>> : n \in N})
  BY <1>2, OneSound
<1>. QED
  BY <1>3 DEF e, First

\* Of one to three arguments.
LEMMA FirstOfSound ==
    ASSUME NEW N, NEW when, NEW checks, AllFiltered(checks)
    PROVE  \A a, b, c : /\ Sound(First(N, <<a>>, when, checks))
                        /\ Sound(First(N, <<a, b>>, when, checks))
                        /\ Sound(First(N, <<a, b, c>>, when, checks))
<1>. TAKE a, b, c
<1>1. Listed(<<a>>) /\ Listed(<<a, b>>) /\ Listed(<<a, b, c>>)
  BY ListedTuples
<1>2. Len(<<a>>) > 0 /\ Len(<<a, b>>) > 0 /\ Len(<<a, b, c>>) > 0
  OBVIOUS
<1>. QED
  BY <1>1, <1>2, FirstSound

\* Hooks that keep the MAAP of their first argument and drop the other.
EndDropped(N, a, b, when, checks) ==
    {<<n, Entry(<<a, b>>, <<a, "_">>, FALSE, when, checks, "none")>> : n \in N}

\* They are sound.
LEMMA EndDroppedSound ==
    ASSUME NEW N, NEW when, NEW checks, AllFiltered(checks), NEW a, NEW b
    PROVE  Sound(EndDropped(N, a, b, when, checks))
<1>. DEFINE e == Entry(<<a, b>>, <<a, "_">>, FALSE, when, checks, "none")
<1>1. HookEntry(e) /\ PopsItsOwn(e)
  <2>. DEFINE args == <<a, b>>
              named == <<a, "_">>
  <2>1. Listed(args) /\ Listed(named)
    BY ListedTuples
  <2>2. Len(args) = 2 /\ Len(named) = 2
    OBVIOUS
  <2>3. args[1] = named[1] /\ named[2] = "_"
    OBVIOUS
  <2>. HIDE DEF args, named
  <2>4. ASSUME NEW j \in 1..Len(named), named[j] # "_" PROVE j <= Len(args) /\ args[j] = named[j]
    <3>1. j = 1 \/ j = 2
      BY <2>2
    <3>2. j = 1
      BY <2>3, <2>4, <3>1
    <3>3. args[j] = named[j]
      BY <2>3, <3>2
    <3>. QED
      BY <2>2, <3>2, <3>3
  <2>5. HookEntry(Entry(args, named, FALSE, when, checks, "none"))
    BY <2>1, <2>2, <2>4, EntryOf
  <2>6. PopsItsOwn(Entry(args, named, FALSE, when, checks, "none"))
    BY <2>1, <2>2, <2>4, EntryOf
  <2>. QED
    BY <2>5, <2>6 DEF args, named
<1>. HIDE DEF e
<1>2. Sound({<<n, e>> : n \in N})
  BY <1>1, OneSound
<1>. QED
  BY <1>2 DEF e, EndDropped

\* The two entries of their own: execvP names two of its arguments, fputs one.
LEMMA OwnEntries ==
    /\ Sound({<<"execvP", Entry(<<"filename", "search_path", "argv">>,
                                <<"filename", "search_path">>, TRUE, "parallel",
                                <<Rd("filename"), Rd("search_path")>>, "none")>>})
    /\ Sound({<<"fputs", Entry(<<"str", "stream">>, <<"str">>, FALSE, "parallel",
                               <<Rd("str")>>, "none")>>})
<1>1. Sound({<<"execvP", Entry(<<"filename", "search_path", "argv">>,
                               <<"filename", "search_path">>, TRUE, "parallel",
                               <<Rd("filename"), Rd("search_path")>>, "none")>>})
  <2>. DEFINE args == <<"filename", "search_path", "argv">>
              named == <<"filename", "search_path">>
              checks == <<Rd("filename"), Rd("search_path")>>
  <2>1. Listed(args) /\ Listed(named) /\ AllFiltered(checks)
    BY ListedTuples, FilteredTuples, Guards DEF Named
  <2>2. Len(args) = 3 /\ Len(named) = 2
    OBVIOUS
  <2>3. args[1] = named[1] /\ args[2] = named[2]
    OBVIOUS
  <2>. HIDE DEF args, named, checks
  <2>4. ASSUME NEW j \in 1..Len(named) PROVE j <= Len(args) /\ args[j] = named[j]
    <3>1. j = 1 \/ j = 2
      BY <2>2
    <3>. QED
      BY <2>2, <2>3, <3>1
  <2>5. HookEntry(Entry(args, named, TRUE, "parallel", checks, "none"))
    BY <2>1, <2>2, <2>4, EntryOf
  <2>6. PopsItsOwn(Entry(args, named, TRUE, "parallel", checks, "none"))
    BY <2>1, <2>2, <2>4, EntryOf
  <2>. DEFINE e == Entry(args, named, TRUE, "parallel", checks, "none")
  <2>7. HookEntry(e) /\ PopsItsOwn(e)
    BY <2>5, <2>6
  <2>. HIDE DEF e
  <2>8. Sound({<<"execvP", e>>})
    BY <2>7 DEF Sound
  <2>. QED
    BY <2>8 DEF args, named, checks, e
<1>2. Sound({<<"fputs", Entry(<<"str", "stream">>, <<"str">>, FALSE, "parallel",
                              <<Rd("str")>>, "none")>>})
  <2>. DEFINE args == <<"str", "stream">>
              named == <<"str">>
              checks == <<Rd("str")>>
              e == Entry(args, named, FALSE, "parallel", checks, "none")
  <2>1. /\ Listed(args) /\ Listed(named) /\ AllFiltered(checks)
        /\ args[1] = named[1]
    BY ListedTuples, FilteredTuples, Guards DEF Named
  <2>2. Len(args) = 2 /\ Len(named) = 1
    OBVIOUS
  <2>3. e.args = args /\ e.named = named /\ e.checks = checks /\ e.fmt = "none"
    BY DEF Entry
  <2>. HIDE DEF args, named, checks, e
  <2>4. ASSUME NEW j \in 1..Len(named) PROVE j <= Len(args) /\ args[j] = named[j]
    <3>1. j = 1
      BY <2>2
    <3>. QED
      BY <2>1, <2>2, <3>1
  <2>5. HookEntry(e)
    BY <2>1, <2>3, <2>4 DEF HookEntry, FormatIsNext
  <2>6. Sound({<<"fputs", e>>})
    BY <2>5 DEF Sound
  <2>. QED
    BY <2>6 DEF args, named, checks, e
<1>. QED
  BY <1>1, <1>2

\* Hooks of allocation functions, of one argument or none.
LEMMA AllocatesSound ==
    ASSUME NEW N, NEW args, Listed(args), Len(args) = 1 \/ args = << >>, NEW checks,
           AllFiltered(checks)
    PROVE  Sound(Allocates(N, args, checks))
<1>. DEFINE e == Entry(args, <<"_">>, FALSE, "always", checks, "none")
<1>1. HookEntry(e) /\ PopsItsOwn(e)
  <2>. DEFINE named == <<"_">>
  <2>1. Listed(named)
    BY ListedTuples
  <2>2. Len(named) = 1
    OBVIOUS
  <2>3. \A j \in 1..Len(named) : named[j] = "_"
    <3>1. named[1] = "_"
      OBVIOUS
    <3>. HIDE DEF named
    <3>2. \A j \in 1..Len(named) : j = 1
      BY <2>2
    <3>. QED
      BY <3>1, <3>2
  <2>. HIDE DEF named
  <2>4. HookEntry(Entry(args, named, FALSE, "always", checks, "none"))
    BY <2>1, <2>2, <2>3, EntryOf
  <2>5. PopsItsOwn(Entry(args, named, FALSE, "always", checks, "none"))
    BY <2>1, <2>2, <2>3, EntryOf
  <2>. QED
    BY <2>4, <2>5 DEF named
<1>. HIDE DEF e
<1>2. Sound({<<n, e>> : n \in N})
  BY <1>1, OneSound
<1>. QED
  BY <1>2 DEF e, Allocates

\* Hooks that interpret a format.
LEMMA FormatsSound ==
    ASSUME NEW N, NEW fmt \in {"printf", "scanf"}, NEW checks, AllFiltered(checks), NEW a
    PROVE  /\ Sound(Formats(N, <<"format">>, << >>, fmt, checks))
           /\ Named(a) => Sound(Formats(N, <<a, "format">>, <<a>>, fmt, checks))
<1>1. ASSUME NEW args, NEW named, Listed(args), Listed(named), Len(args) = Len(named) + 1,
             args[Len(args)] = "format", \A j \in 1..Len(named) : args[j] = named[j]
      PROVE  Sound(Formats(N, args, named, fmt, checks))
  <2>. DEFINE e == Entry(args, named, TRUE, "success", checks, fmt)
  <2>1. /\ e.args = args /\ e.named = named /\ e.all /\ e.checks = checks /\ e.fmt = fmt
        /\ e.when = "success"
    BY DEF Entry
  <2>2. Len(named) \in Nat
    BY <1>1 DEF Listed
  <2>. HIDE DEF e
  <2>3. HookEntry(e) /\ PopsItsOwn(e)
    <3>1. FormatIsNext(e) /\ PopsItsOwn(e)
      BY <1>1, <2>1, <2>2 DEF PopsItsOwn, FormatIsNext
    <3>2. \A j \in 1..Len(named) : j <= Len(args) /\ args[j] = named[j]
      BY <1>1, <2>2
    <3>. QED
      BY <1>1, <2>1, <3>1, <3>2 DEF HookEntry
  <2>4. Sound({<<n, e>> : n \in N})
    BY <2>3, OneSound
  <2>. QED
    BY <2>4 DEF e, Formats
<1>2. Sound(Formats(N, <<"format">>, << >>, fmt, checks))
  <2>. DEFINE args == <<"format">>
              named == << >>
  <2>1. Listed(args) /\ Listed(named) /\ args[Len(args)] = "format"
    BY ListedTuples
  <2>2. Len(args) = 1 /\ Len(named) = 0 /\ Len(args) = Len(named) + 1
    OBVIOUS
  <2>. HIDE DEF args, named
  <2>3. \A j \in 1..Len(named) : args[j] = named[j]
    BY <2>2
  <2>4. Sound(Formats(N, args, named, fmt, checks))
    BY <1>1, <2>1, <2>2, <2>3
  <2>. QED
    BY <2>4 DEF args, named
<1>3. Sound(Formats(N, <<a, "format">>, <<a>>, fmt, checks))
  <2>. DEFINE args == <<a, "format">>
              named == <<a>>
  <2>1. /\ Listed(args) /\ Listed(named)
        /\ args[Len(args)] = "format" /\ args[1] = named[1]
    BY ListedTuples
  <2>2. Len(args) = 2 /\ Len(named) = 1 /\ Len(args) = Len(named) + 1
    OBVIOUS
  <2>. HIDE DEF args, named
  <2>3. \A j \in 1..Len(named) : args[j] = named[j]
    <3>1. \A j \in 1..Len(named) : j = 1
      BY <2>2
    <3>. QED
      BY <2>1, <3>1
  <2>4. Sound(Formats(N, args, named, fmt, checks))
    BY <1>1, <2>1, <2>2, <2>3
  <2>. QED
    BY <2>4 DEF args, named
<1>. QED
  BY <1>2, <1>3

\* The hook of every library function pops what its call pushed, but for fputs.
LEMMA TableSound ==
    \A h \in DOMAIN HookTable :
        HookEntry(HookTable[h]) /\ (h # "fputs" => PopsItsOwn(HookTable[h]))
<1>1. Sound(DefaultHook)
  BY ListedTuples, FilteredTuples, Guards, UnseenSound DEF DefaultHook, Sound, Named
<1>2. Sound(MaskedIntrinsics)
  BY ListedTuples, FilteredTuples, Guards, ChecksSound
  DEF MaskedIntrinsics, MaskedLoads, MaskedStores, Sound, Named
<1>3. Sound(GatherIntrinsics)
  BY ListedTuples, FilteredTuples, Guards, UnseenSound
  DEF GatherIntrinsics, Gathers, Scatters, Sound, Named
<1>4. Sound(X86Intrinsics)
  BY ListedTuples, FilteredTuples, Guards, QuietSound, UnseenSound
  DEF X86Intrinsics, X86Gathers, Sound, Named
<1>5. Sound(NeonLoadIntrinsics)
  BY ListedTuples, FilteredTuples, Guards, ChecksSound, UnseenSound
  DEF NeonLoadIntrinsics, NeonLoads, Ldxr, Stxr, Sound, Named
<1>6. Sound(NeonStoreIntrinsics)
  BY ListedTuples, FilteredTuples, Guards, UnseenSound
  DEF NeonStoreIntrinsics, NeonStores, Sound, Named
<1>7. Sound(StackIntrinsics)
  BY ListedTuples, FilteredTuples, Guards, ChecksSound, QuietSound, UnseenSound
  DEF StackIntrinsics, Sound, Named
<1>8. Sound(HooksAtexitToAsin)
  BY ListedTuples, FilteredTuples, Guards, AllocatesSound, ChecksSound, FormatsSound, QuietSound,
     UnseenSound
  DEF HooksAtexitToAsin, Sound, Named
<1>9. Sound(HooksAsinToAtol)
  BY ListedTuples, FilteredTuples, Guards, ChecksSound, QuietSound
  DEF HooksAsinToAtol, Sound, Named
<1>10. Sound(HooksBcmpToCos)
  BY ListedTuples, FilteredTuples, Guards, AllocatesSound, ChecksSound, QuietSound, UnseenSound
  DEF HooksBcmpToCos, Sound, Named
<1>11. Sound(HooksCoshToExecve)
  BY ListedTuples, FilteredTuples, Guards, OwnEntries, FirstOfSound, QuietSound
  DEF HooksCoshToExecve, Sound, Named
<1>12. Sound(HooksExecvpToFclose)
  BY ListedTuples, FilteredTuples, Guards, FirstOfSound, QuietSound, UnseenSound
  DEF HooksExecvpToFclose, Sound, Named
<1>13. Sound(HooksFdopenToFgetpos)
  BY ListedTuples, FilteredTuples, Guards, ChecksSound, UnseenSound
  DEF HooksFdopenToFgetpos, Sound, Named
<1>14. Sound(HooksFgetsToFmod)
  BY ListedTuples, FilteredTuples, Guards, ChecksSound, QuietSound, UnseenSound
  DEF HooksFgetsToFmod, Sound, Named
<1>15. Sound(HooksFmodToFputs)
  BY ListedTuples, FilteredTuples, Guards, ChecksSound, OwnEntries, FormatsSound, QuietSound,
     UnseenSound
  DEF HooksFmodToFputs, Sound, Named
<1>16. Sound(HooksFreadToFrexp)
  BY ListedTuples, FilteredTuples, Guards, AllocatesSound, ChecksSound, FirstOfSound
  DEF HooksFreadToFrexp, Sound, Named
<1>17. Sound(HooksFscanfToFtell)
  BY ListedTuples, FilteredTuples, Guards, ChecksSound, FormatsSound, UnseenSound
  DEF HooksFscanfToFtell, Sound, Named
<1>18. Sound(HooksFtelloToGetchar)
  BY ListedTuples, FilteredTuples, Guards, ChecksSound, QuietSound, UnseenSound
  DEF HooksFtelloToGetchar, Sound, Named
<1>19. Sound(HooksGetenvToLog)
  BY ListedTuples, FilteredTuples, Guards, ChecksSound, FirstOfSound, QuietSound
  DEF HooksGetenvToLog, Sound, Named
<1>20. Sound(HooksLogToMemcmp)
  BY ListedTuples, FilteredTuples, Guards, AllocatesSound, ChecksSound, QuietSound
  DEF HooksLogToMemcmp, Sound, Named
<1>21. Sound(HooksMemcpyToMemset)
  BY ListedTuples, FilteredTuples, Guards, ChecksSound DEF HooksMemcpyToMemset, Sound, Named
<1>22. Sound(HooksMemsetToOpen)
  BY ListedTuples, FilteredTuples, Guards, ChecksSound, QuietSound
  DEF HooksMemsetToOpen, Sound, Named
<1>23. Sound(HooksOpenToPutc)
  BY ListedTuples, FilteredTuples, Guards, ChecksSound, FirstOfSound, FormatsSound, QuietSound,
     UnseenSound
  DEF HooksOpenToPutc, Sound, Named
<1>24. Sound(HooksPutcharToReadlink)
  BY ListedTuples, FilteredTuples, Guards, ChecksSound, QuietSound
  DEF HooksPutcharToReadlink, Sound, Named
<1>25. Sound(HooksReallocToRename)
  BY ListedTuples, FilteredTuples, Guards, AllocatesSound, ChecksSound, QuietSound
  DEF HooksReallocToRename, Sound, Named
<1>26. Sound(HooksRewindToSinh)
  BY ListedTuples, FilteredTuples, Guards, ChecksSound, FormatsSound, QuietSound, UnseenSound
  DEF HooksRewindToSinh, Sound, Named
<1>27. Sound(HooksSinhToSprintf)
  BY ListedTuples, FilteredTuples, Guards, FormatsSound, QuietSound
  DEF HooksSinhToSprintf, Sound, Named
<1>28. Sound(HooksSscanfToStpncpy)
  BY ListedTuples, FilteredTuples, Guards, ChecksSound, FormatsSound
  DEF HooksSscanfToStpncpy, Sound, Named
<1>29. Sound(HooksStrcasecmpToStrcspn)
  BY ListedTuples, FilteredTuples, Guards, ChecksSound
  DEF HooksStrcasecmpToStrcspn, Sound, Named
<1>30. Sound(HooksStrcmpToStrlcat)
  BY ListedTuples, FilteredTuples, Guards, ChecksSound DEF HooksStrcmpToStrlcat, Sound, Named
<1>31. Sound(HooksStrlcatToStrncasecmp)
  BY ListedTuples, FilteredTuples, Guards, ChecksSound, FirstOfSound
  DEF HooksStrlcatToStrncasecmp, Sound, Named
<1>32. Sound(HooksStrncatToStrncpy)
  BY ListedTuples, FilteredTuples, Guards, ChecksSound DEF HooksStrncatToStrncpy, Sound, Named
<1>33. Sound(HooksStrnlenToStrstr)
  BY ListedTuples, FilteredTuples, Guards, ChecksSound, FirstOfSound
  DEF HooksStrnlenToStrstr, Sound, Named
<1>34. Sound(HooksStrtod)
  <2>1. AllFiltered(<<Rd("nptr"), WrAny("*endptr")>>)
    BY FilteredTuples, Guards DEF Named
  <2>2. Sound(EndDropped({"strtof", "strtod", "strtold"},
                         "nptr", "endptr", "parallel", <<Rd("nptr"), WrAny("*endptr")>>))
    BY <2>1, EndDroppedSound
  <2>. QED
    BY <2>2 DEF HooksStrtod, EndDropped
<1>35. Sound(HooksStrtol)
  <2>1. AllFiltered(<<Rd("nptr"), WrAny("*endptr")>>)
    BY FilteredTuples, Guards DEF Named
  <2>2. Sound(EndDropped({"strtol", "strtoll", "strtoul", "strtoull"},
                         "nptr", "endptr", "success", <<Rd("nptr"), WrAny("*endptr")>>))
    BY <2>1, EndDroppedSound
  <2>. QED
    BY <2>2 DEF HooksStrtol, EndDropped
<1>36. Sound(HooksStrtok)
  BY ListedTuples, FilteredTuples, Guards, ChecksSound DEF HooksStrtok, Sound, Named
<1>37. Sound(HooksStrxfrmToTan)
  BY ListedTuples, FilteredTuples, Guards, ChecksSound, QuietSound
  DEF HooksStrxfrmToTan, Sound, Named
<1>38. Sound(HooksTanToUtime)
  BY ListedTuples, FilteredTuples, Guards, ChecksSound, QuietSound, UnseenSound
  DEF HooksTanToUtime, Sound, Named
<1>39. Sound(HooksUtimesToVsnprintf)
  BY ListedTuples, FilteredTuples, Guards, ChecksSound, FormatsSound
  DEF HooksUtimesToVsnprintf, Sound, Named
<1>40. Sound(HooksVsprintfToWrite)
  BY ListedTuples, FilteredTuples, Guards, ChecksSound, FirstOfSound, FormatsSound
  DEF HooksVsprintfToWrite, Sound, Named
<1>41. Sound(HookEntries)
  BY <1>1, <1>2, <1>3, <1>4, <1>5, <1>6, <1>7, <1>8, <1>9, <1>10, <1>11, <1>12, <1>13,
     <1>14, <1>15, <1>16, <1>17, <1>18, <1>19, <1>20, <1>21, <1>22, <1>23, <1>24, <1>25,
     <1>26, <1>27, <1>28, <1>29, <1>30, <1>31, <1>32, <1>33, <1>34, <1>35, <1>36, <1>37,
     <1>38, <1>39, <1>40
  DEF HookEntries, Sound
<1>42. ASSUME NEW h \in DOMAIN HookTable
      PROVE  \E p \in HookEntries : p[1] = h /\ p[2] = HookTable[h]
  <2>1. \E p \in HookEntries : p[1] = h
    BY <1>42 DEF HookTable
  <2>. DEFINE p == CHOOSE p \in HookEntries : p[1] = h
  <2>2. p \in HookEntries /\ p[1] = h
    BY <2>1
  <2>3. HookTable[h] = p[2]
    BY <1>42 DEF HookTable
  <2>. QED
    BY <2>2, <2>3
<1>. QED
  BY <1>41, <1>42 DEF Sound

\* The comparator of a sort is a pointer argument, after the array.
Sorts(S) == \A h \in S : h[1] = "qsort" => Len(h[2].args) = 2

\* Other functions sort nothing, whatever their entry is.
LEMMA OthersSort == \A N, e : "qsort" \notin N => Sorts({<<n, e>> : n \in N})
<1>. SUFFICES ASSUME NEW N, NEW e, "qsort" \notin N, NEW h \in {<<n, e>> : n \in N}
              PROVE h[1] # "qsort"
  BY DEF Sorts
<1>1. PICK n \in N : h = <<n, e>>
  OBVIOUS
<1>. QED
  BY <1>1

\* Two parts of the table.
LEMMA BothSort == \A S, R : Sorts(S) /\ Sorts(R) => Sorts(S \cup R)
BY DEF Sorts

\* A single entry of another function.
LEMMA OtherSorts == \A n, e : n # "qsort" => Sorts({<<n, e>>})
BY DEF Sorts

\* The entry of qsort has both arguments.
LEMMA QsortEntry == "qsort" \in DOMAIN HookTable /\ Len(HookTable["qsort"].args) = 2
<1>1. ASSUME NEW N, "qsort" \notin N
      PROVE  /\ Sorts(Quiet(N))
             /\ \A args : Sorts(Drops(N, args))
             /\ \A args, checks : /\ Sorts(Checks(N, args, checks))
                                  /\ Sorts(Result(N, args, checks))
                                  /\ Sorts(Blind(N, args, checks))
                                  /\ Sorts(Allocates(N, args, checks))
             /\ \A args, when, checks : Sorts(First(N, args, when, checks))
             /\ \A args, named, fmt, checks : Sorts(Formats(N, args, named, fmt, checks))
  BY <1>1, OthersSort DEF Quiet, Drops, Checks, Result, Blind, Allocates, First, Formats
<1>2. Sorts(Checks({"qsort"}, <<"ptr", "comp">>, <<Rd("comp"), Wr("ptr")>>))
  BY DEF Sorts, Checks, Entry
<1>3. Sorts(DefaultHook)
  BY <1>1, BothSort DEF DefaultHook
<1>4. Sorts(MaskedIntrinsics)
  BY <1>1, BothSort DEF MaskedIntrinsics, MaskedLoads, MaskedStores
<1>5. Sorts(GatherIntrinsics)
  BY <1>1, BothSort DEF GatherIntrinsics, Gathers, Scatters
<1>6. Sorts(X86Intrinsics)
  BY <1>1, BothSort DEF X86Intrinsics, X86Gathers
<1>7. Sorts(NeonLoadIntrinsics)
  BY <1>1, BothSort DEF NeonLoadIntrinsics, Ldxr, Stxr, NeonLoads
<1>8. Sorts(NeonStoreIntrinsics)
  BY <1>1, BothSort DEF NeonStoreIntrinsics, NeonStores
<1>9. Sorts(StackIntrinsics)
  BY <1>1, BothSort DEF StackIntrinsics
<1>10. Sorts(HooksAtexitToAsin)
  BY <1>1, BothSort DEF HooksAtexitToAsin
<1>11. Sorts(HooksAsinToAtol)
  BY <1>1, BothSort DEF HooksAsinToAtol
<1>12. Sorts(HooksBcmpToCos)
  BY <1>1, BothSort DEF HooksBcmpToCos
<1>13. Sorts(HooksCoshToExecve)
  BY <1>1, OtherSorts, BothSort DEF HooksCoshToExecve
<1>14. Sorts(HooksExecvpToFclose)
  BY <1>1, BothSort DEF HooksExecvpToFclose
<1>15. Sorts(HooksFdopenToFgetpos)
  BY <1>1, BothSort DEF HooksFdopenToFgetpos
<1>16. Sorts(HooksFgetsToFmod)
  BY <1>1, OthersSort, BothSort DEF HooksFgetsToFmod
<1>17. Sorts(HooksFmodToFputs)
  BY <1>1, OtherSorts, BothSort DEF HooksFmodToFputs
<1>18. Sorts(HooksFreadToFrexp)
  BY <1>1, BothSort DEF HooksFreadToFrexp
<1>19. Sorts(HooksFscanfToFtell)
  BY <1>1, BothSort DEF HooksFscanfToFtell
<1>20. Sorts(HooksFtelloToGetchar)
  BY <1>1, BothSort DEF HooksFtelloToGetchar
<1>21. Sorts(HooksGetenvToLog)
  BY <1>1, BothSort DEF HooksGetenvToLog
<1>22. Sorts(HooksLogToMemcmp)
  BY <1>1, BothSort DEF HooksLogToMemcmp
<1>23. Sorts(HooksMemcpyToMemset)
  BY <1>1, BothSort DEF HooksMemcpyToMemset
<1>24. Sorts(HooksMemsetToOpen)
  BY <1>1, BothSort DEF HooksMemsetToOpen
<1>25. Sorts(HooksOpenToPutc)
  BY <1>1, BothSort DEF HooksOpenToPutc
<1>26. Sorts(HooksPutcharToReadlink)
  BY <1>1, <1>2, BothSort DEF HooksPutcharToReadlink
<1>27. Sorts(HooksReallocToRename)
  BY <1>1, BothSort DEF HooksReallocToRename
<1>28. Sorts(HooksRewindToSinh)
  BY <1>1, BothSort DEF HooksRewindToSinh
<1>29. Sorts(HooksSinhToSprintf)
  BY <1>1, BothSort DEF HooksSinhToSprintf
<1>30. Sorts(HooksSscanfToStpncpy)
  BY <1>1, BothSort DEF HooksSscanfToStpncpy
<1>31. Sorts(HooksStrcasecmpToStrcspn)
  BY <1>1, BothSort DEF HooksStrcasecmpToStrcspn
<1>32. Sorts(HooksStrcmpToStrlcat)
  BY <1>1, BothSort DEF HooksStrcmpToStrlcat
<1>33. Sorts(HooksStrlcatToStrncasecmp)
  BY <1>1, BothSort DEF HooksStrlcatToStrncasecmp
<1>34. Sorts(HooksStrncatToStrncpy)
  BY <1>1, BothSort DEF HooksStrncatToStrncpy
<1>35. Sorts(HooksStrnlenToStrstr)
  BY <1>1, BothSort DEF HooksStrnlenToStrstr
<1>36. Sorts(HooksStrtod)
  BY <1>1, OthersSort, BothSort DEF HooksStrtod
<1>37. Sorts(HooksStrtol)
  BY <1>1, OthersSort, BothSort DEF HooksStrtol
<1>38. Sorts(HooksStrtok)
  BY <1>1, BothSort DEF HooksStrtok
<1>39. Sorts(HooksStrxfrmToTan)
  BY <1>1, BothSort DEF HooksStrxfrmToTan
<1>40. Sorts(HooksTanToUtime)
  BY <1>1, BothSort DEF HooksTanToUtime
<1>41. Sorts(HooksUtimesToVsnprintf)
  BY <1>1, BothSort DEF HooksUtimesToVsnprintf
<1>42. Sorts(HooksVsprintfToWrite)
  BY <1>1, BothSort DEF HooksVsprintfToWrite
<1>43. Sorts(HookEntries)
  BY <1>3, <1>4, <1>5, <1>6, <1>7, <1>8, <1>9, <1>10, <1>11, <1>12, <1>13, <1>14, <1>15, <1>16,
     <1>17, <1>18, <1>19, <1>20, <1>21, <1>22, <1>23, <1>24, <1>25, <1>26, <1>27, <1>28, <1>29,
     <1>30, <1>31, <1>32, <1>33, <1>34, <1>35, <1>36, <1>37, <1>38, <1>39, <1>40, <1>41, <1>42
  DEF HookEntries, Sorts
<1>44. \E p \in HookEntries : p[1] = "qsort"
  <2>. DEFINE p == <<"qsort", Entry(<<"ptr", "comp">>, <<"ptr", "comp">>, FALSE, "parallel",
                                  <<Rd("comp"), Wr("ptr")>>, "none")>>
  <2>1. p \in HooksPutcharToReadlink
    BY DEF HooksPutcharToReadlink, Checks
  <2>2. p \in HookEntries /\ p[1] = "qsort"
    BY <2>1 DEF HookEntries
  <2>. HIDE DEF p
  <2>. QED
    BY <2>2
<1>. DEFINE q == CHOOSE p \in HookEntries : p[1] = "qsort"
<1>45. q \in HookEntries /\ q[1] = "qsort"
  BY <1>44
<1>46. "qsort" \in DOMAIN HookTable /\ HookTable["qsort"] = q[2]
  BY <1>44 DEF HookTable
<1>. QED
  BY <1>43, <1>45, <1>46 DEF Sorts

(***************************************************************************)
(* The stacks of MAAPs and counts. Each is the concatenation of what the   *)
(* frames of the program pushed, so what a return or a hook pops is what   *)
(* its own call pushed.                                                    *)
(***************************************************************************)
\* The frames of a program.
FrameNames == Funcs \cup LibCalls \cup {"ext"}

\* The formats a call may pass, the variable arguments they speak of and all its arguments.
Formatted(h) == IF FmtOf(h) = "none" THEN {<< >>} ELSE DirSeqs
VarPointers(h, ds) == FlattenSeq([i \in 1..Len(ds) |-> PointerArgs(FmtOf(h), ds[i])])
LibArgs(h, ds) == HookTable[h].args \o VarPointers(h, ds)

\* A frame is of a kind, with the arguments of that kind.
FrameFits(f) ==
    \/ f.kind = "user" /\ f.name \in Funcs /\ f.args \in {<< >>, Arg}
    \/ f.kind = "ext" /\ f.name = "ext" /\ f.args \in {<< >>, Arg}
    \/ f.kind = "callback" /\ f.name \in Funcs /\ f.args = << >>
    \/ /\ f.kind = "lib" /\ f.name \in LibCalls
       /\ f.dirs \in Formatted(f.name) /\ f.args \in {<< >>, LibArgs(f.name, f.dirs)}
FrameType ==
    [kind : {"user", "ext", "callback", "lib"}, name : FrameNames, args : Seq(ArgNames),
     dirs : {<< >>} \cup DirSeqs, off : BOOLEAN]
ProgramFrames == {f \in FrameType : FrameFits(f)}

\* What a frame has on the two stacks, at depth d.
FramePushes(f, d) ==
    IF f.off THEN << >>
    ELSE [i \in 1..Len(f.args) |-> [id |-> f.name, depth |-> d,
                                    arg |-> f.args[Len(f.args) + 1 - i]]]
FrameCounts(f) == IF f.off \/ f.kind \notin {"user", "ext"} THEN << >> ELSE <<Len(f.args)>>

\* What a stack of frames has on them.
PushesOf(F) == FlattenSeq([d \in 1..Len(F) |-> FramePushes(F[d], d)])
CountsOf(F) == FlattenSeq([d \in 1..Len(F) |-> FrameCounts(F[d])])

\* What a function sees of a sequence is a sequence.
LEMMA MappedSeq ==
    ASSUME NEW n \in Nat, NEW T, NEW f, \A i \in 1..n : f[i] \in T
    PROVE  [i \in 1..n |-> f[i]] \in Seq(T)
OBVIOUS

\* The names of arguments.
LEMMA ArgNamesHold ==
    /\ \A i \in 1..NArgs : Arg[i] \in ArgNames
    /\ \A h \in LibCalls : ArgsOf(h) \subseteq ArgNames
    /\ \A ds \in DirSeqs : DirArgs(ds) \subseteq ArgNames
<1>1. \A i \in 1..NArgs : Arg[i] \in ArgNames
  BY DEF ArgNames
<1>2. \A h \in LibCalls : ArgsOf(h) \subseteq ArgNames
  BY DEF ArgNames
<1>3. \A ds \in DirSeqs : DirArgs(ds) \subseteq ArgNames
  BY DEF ArgNames
<1>. QED
  BY <1>1, <1>2, <1>3

\* The format of a call.
LEMMA FormatsTyped ==
    ASSUME NEW h \in LibCalls, NEW ds \in Formatted(h)
    PROVE  /\ ds \in Seq(Directives(DirArgs(ds)))
           /\ DirArgs(ds) \subseteq ArgNames
           /\ (FmtOf(h) = "none" => ds = << >>)
<1>1. CASE FmtOf(h) = "none"
  <2>1. ds = << >> /\ Len(ds) = 0
    BY <1>1 DEF Formatted
  <2>2. DirArgs(ds) = {}
    BY <2>1 DEF DirArgs
  <2>. QED
    BY <2>1, <2>2, EmptySeq
<1>2. CASE FmtOf(h) # "none"
  <2>1. ds \in DirSeqs
    BY <1>2 DEF Formatted
  <2>. QED
    BY <1>2, <2>1, LibHooksAssumption, ArgNamesHold
<1>. QED
  BY <1>1, <1>2

\* The pointers among the variable arguments.
LEMMA VarPointersTyped ==
    ASSUME NEW h \in LibCalls, NEW ds \in Formatted(h)
    PROVE  /\ VarPointers(h, ds) \in Seq(DirArgs(ds))
           /\ (FmtOf(h) = "none" => VarPointers(h, ds) = << >>)
<1>. DEFINE A == DirArgs(ds)
            p == [i \in 1..Len(ds) |-> PointerArgs(FmtOf(h), ds[i])]
<1>1. ds \in Seq(Directives(A)) /\ Len(ds) \in Nat
  BY FormatsTyped, LenProperties
<1>2. \A i \in 1..Len(ds) : PointerArgs(FmtOf(h), ds[i]) \in Seq(A)
  <2>. TAKE i \in 1..Len(ds)
  <2>1. ds[i].arg \in A
    BY DEF DirArgs
  <2>. HIDE DEF A
  <2>2. << >> \in Seq(A) /\ <<ds[i].arg>> \in Seq(A)
    BY <2>1
  <2>. QED
    BY <2>2 DEF PointerArgs
<1>3. p \in Seq(Seq(A))
  BY <1>1, <1>2
<1>4. FmtOf(h) = "none" => p = << >>
  <2>. HAVE FmtOf(h) = "none"
  <2>1. ds = << >>
    BY FormatsTyped
  <2>2. Len(ds) = 0
    BY <2>1
  <2>. QED
    BY <2>2
<1>. HIDE DEF p, A
<1>5. FlattenSeq(p) \in Seq(A) /\ (p = << >> => FlattenSeq(p) = << >>)
  BY <1>3, FlattenFacts
<1>. QED
  BY <1>4, <1>5 DEF p, A, VarPointers

\* The arguments of a library call.
LEMMA LibArgsTyped ==
    ASSUME NEW h \in LibCalls, NEW ds \in Formatted(h)
    PROVE  /\ LibArgs(h, ds) \in Seq(ArgNames)
           /\ HookTable[h].args \in Seq(ArgNames)
           /\ (FmtOf(h) = "none" => LibArgs(h, ds) = HookTable[h].args)
<1>1. HookTable[h].args \in Seq(ArgsOf(h))
  <2>1. h \in DOMAIN HookTable
    BY LibHooksAssumption
  <2>. QED
    BY <2>1, TableSound DEF HookEntry, Listed, ArgsOf
<1>2. ArgsOf(h) \subseteq ArgNames
  BY ArgNamesHold
<1>3. HookTable[h].args \in Seq(ArgNames)
  BY <1>1, <1>2
<1>4. VarPointers(h, ds) \in Seq(ArgNames)
  <2>. DEFINE A == DirArgs(ds)
  <2>1. VarPointers(h, ds) \in Seq(A) /\ A \subseteq ArgNames
    BY VarPointersTyped, FormatsTyped
  <2>. HIDE DEF A
  <2>. QED
    BY <2>1
<1>5. LibArgs(h, ds) \in Seq(ArgNames)
  BY <1>3, <1>4, ConcatProperties DEF LibArgs
<1>6. FmtOf(h) = "none" => LibArgs(h, ds) = HookTable[h].args
  BY <1>3, VarPointersTyped, ConcatEmptySeq DEF LibArgs
<1>. QED
  BY <1>3, <1>5, <1>6

\* What a frame pushes.
LEMMA FramePushesTyped ==
    ASSUME NEW f \in ProgramFrames, NEW d \in 1..MaxDepth
    PROVE  /\ FramePushes(f, d) \in Seq(MAAPEntry)
           /\ FrameCounts(f) \in Seq(0..NArgs)
           /\ Len(FramePushes(f, d)) = IF f.off THEN 0 ELSE Len(f.args)
<1>1. f \in FrameType /\ FrameFits(f)
  BY DEF ProgramFrames
<1>2. f.args \in Seq(ArgNames) /\ f.name \in FrameNames /\ Len(f.args) \in Nat
  BY <1>1, LenProperties DEF FrameType
<1>3. \A i \in 1..Len(f.args) : Len(f.args) + 1 - i \in 1..Len(f.args)
          /\ f.args[Len(f.args) + 1 - i] \in ArgNames
  <2>1. \A i \in 1..Len(f.args) : Len(f.args) + 1 - i \in 1..Len(f.args)
    BY <1>2
  <2>. QED
    BY <1>2, <2>1, ElementOfSeq
<1>4. \A i \in 1..Len(f.args) :
         [id |-> f.name, depth |-> d, arg |-> f.args[Len(f.args) + 1 - i]] \in MAAPEntry
  BY <1>2, <1>3 DEF MAAPEntry, FrameNames
<1>. DEFINE s == [i \in 1..Len(f.args) |->
                     [id |-> f.name, depth |-> d, arg |-> f.args[Len(f.args) + 1 - i]]]
<1>5. s \in Seq(MAAPEntry) /\ Len(s) = Len(f.args)
  BY <1>2, <1>4
<1>6. Len(<< >>) = 0 /\ << >> \in Seq(MAAPEntry) /\ << >> \in Seq(0..NArgs)
  OBVIOUS
<1>7. FrameCounts(f) \in Seq(0..NArgs)
  <2>1. f.kind \in {"user", "ext"} => Len(f.args) \in 0..NArgs
    <3>1. Arg \in Seq(STRING) /\ Len(Arg) \in Nat
      BY LibHooksAssumption, LenProperties
    <3>2. f.kind \in {"user", "ext"} => f.args \in {<< >>, Arg}
      BY <1>1 DEF FrameFits
    <3>. QED
      BY <3>1, <3>2 DEF NArgs
  <2>2. \A n \in 0..NArgs : <<n>> \in Seq(0..NArgs)
    OBVIOUS
  <2>. QED
    BY <1>6, <2>1, <2>2 DEF FrameCounts
<1>. HIDE DEF s
<1>. QED
  BY <1>5, <1>6, <1>7 DEF FramePushes, s

\* One more frame.
LEMMA PushesGrow ==
    ASSUME NEW F \in Seq(ProgramFrames), Len(F) < MaxDepth, NEW f \in ProgramFrames
    PROVE  /\ PushesOf(F) \in Seq(MAAPEntry)
           /\ CountsOf(F) \in Seq(0..NArgs)
           /\ PushesOf(Append(F, f)) = PushesOf(F) \o FramePushes(f, Len(F) + 1)
           /\ CountsOf(Append(F, f)) = CountsOf(F) \o FrameCounts(f)
<1>. DEFINE E == Append(F, f)
            p == [d \in 1..Len(F) |-> FramePushes(F[d], d)]
            q == [d \in 1..Len(E) |-> FramePushes(E[d], d)]
            c == [d \in 1..Len(F) |-> FrameCounts(F[d])]
            b == [d \in 1..Len(E) |-> FrameCounts(E[d])]
<1>1. MaxDepth \in Nat /\ Len(F) \in Nat /\ Len(F) + 1 \in 1..MaxDepth
  BY LibHooksAssumption, LenProperties
<1>2. /\ Len(E) = Len(F) + 1 /\ E[Len(F) + 1] = f
      /\ \A d \in 1..Len(F) : E[d] = F[d]
  BY AppendProperties
<1>. HIDE DEF E
<1>3. \A d \in 1..Len(F) : d \in 1..MaxDepth /\ F[d] \in ProgramFrames
  BY <1>1, ElementOfSeq
<1>4. p \in Seq(Seq(MAAPEntry))
  BY <1>1, <1>3, FramePushesTyped
<1>5. c \in Seq(Seq(0..NArgs))
  BY <1>1, <1>3, FramePushesTyped
<1>6. q = Append(p, FramePushes(f, Len(F) + 1))
  <2>1. \A d \in 1..Len(F) : FramePushes(E[d], d) = FramePushes(F[d], d)
    BY <1>2
  <2>. QED
    BY <1>1, <1>2, <2>1
<1>7. b = Append(c, FrameCounts(f))
  <2>1. \A d \in 1..Len(F) : FrameCounts(E[d]) = FrameCounts(F[d])
    BY <1>2
  <2>. QED
    BY <1>1, <1>2, <2>1
<1>8. FramePushes(f, Len(F) + 1) \in Seq(MAAPEntry) /\ FrameCounts(f) \in Seq(0..NArgs)
  BY <1>1, FramePushesTyped
<1>. HIDE DEF p, q, c, b
<1>9. FlattenSeq(p) \in Seq(MAAPEntry) /\ FlattenSeq(q) = FlattenSeq(p)
          \o FramePushes(f, Len(F) + 1)
  BY <1>4, <1>6, <1>8, FlattenFacts
<1>10. FlattenSeq(c) \in Seq(0..NArgs) /\ FlattenSeq(b) = FlattenSeq(c) \o FrameCounts(f)
  BY <1>5, <1>7, <1>8, FlattenFacts
<1>. QED
  BY <1>9, <1>10 DEF E, p, q, c, b, PushesOf, CountsOf

\* A stack without its top entries.
LEMMA PopFacts ==
    /\ \A T : \A A, B \in Seq(T) : PopN(A \o B, Len(B)) = A
    /\ \A T : \A s \in Seq(T) : PopN(s, 0) = s
    /\ \A T : \A s \in Seq(T) : s # << >> =>
          /\ PopN(s, 1) \in Seq(T) /\ Len(PopN(s, 1)) = Len(s) - 1
          /\ Back(s) \in T /\ s = Append(PopN(s, 1), Back(s))
          /\ \A i \in 1..(Len(s) - 1) : PopN(s, 1)[i] = s[i]
<1>1. ASSUME NEW T, NEW A \in Seq(T), NEW B \in Seq(T) PROVE PopN(A \o B, Len(B)) = A
  <2>. DEFINE s == A \o B
  <2>1. /\ s \in Seq(T) /\ Len(s) = Len(A) + Len(B) /\ Len(A) \in Nat /\ Len(B) \in Nat
        /\ \A i \in 1..Len(A) : s[i] = A[i]
    BY ConcatProperties, LenProperties
  <2>2. PopN(s, Len(B)) = SubSeq(s, 1, Len(A))
    <3>1. ~(Len(B) > Len(s)) /\ Len(s) - Len(B) = Len(A)
      BY <2>1
    <3>. HIDE DEF s
    <3>. QED
      BY <3>1 DEF PopN
  <2>. HIDE DEF s
  <2>3. SubSeq(s, 1, Len(A)) = [i \in 1..Len(A) |-> s[i]]
    BY <2>1
  <2>4. A = [i \in 1..Len(A) |-> A[i]]
    BY LenProperties
  <2>. QED
    BY <2>1, <2>2, <2>3, <2>4 DEF s
<1>2. ASSUME NEW T, NEW s \in Seq(T) PROVE PopN(s, 0) = s
  BY LenProperties DEF PopN
<1>3. ASSUME NEW T, NEW s \in Seq(T), s # << >>
      PROVE  /\ PopN(s, 1) \in Seq(T) /\ Len(PopN(s, 1)) = Len(s) - 1
             /\ Back(s) \in T /\ s = Append(PopN(s, 1), Back(s))
             /\ \A i \in 1..(Len(s) - 1) : PopN(s, 1)[i] = s[i]
  <2>1. Len(s) \in Nat /\ Len(s) > 0
    BY <1>3, EmptySeq, LenProperties
  <2>2. PopN(s, 1) = [i \in 1..(Len(s) - 1) |-> s[i]]
    BY <2>1 DEF PopN
  <2>3. \A i \in 1..Len(s) : s[i] \in T
    BY ElementOfSeq
  <2>4. PopN(s, 1) \in Seq(T) /\ Len(PopN(s, 1)) = Len(s) - 1
    BY <2>1, <2>2, <2>3
  <2>5. s = Append(PopN(s, 1), s[Len(s)])
    BY <2>1, <2>2, <2>3, <2>4
  <2>. QED
    BY <2>1, <2>2, <2>3, <2>4, <2>5 DEF Back
<1>. QED
  BY <1>1, <1>2, <1>3

\* The frames.
FramesGood == frames \in Seq(ProgramFrames) /\ Len(frames) <= MaxDepth

\* Checking is turned off and on by the code of instrumented functions.
DisabledGood ==
    /\ disabled_at \in Seq(Nat)
    /\ \A i \in 1..Len(disabled_at) :
          /\ disabled_at[i] <= Len(frames)
          /\ disabled_at[i] > 0 => frames[disabled_at[i]].kind \in {"user", "callback"}

\* A frame was entered with checking off if an outer one has turned it off.
OffExact ==
    \A d \in 1..Len(frames) :
        frames[d].off <=> \E i \in 1..Len(disabled_at) : disabled_at[i] < d

\* The stacks hold what the frames pushed.
StacksExact == MAAPs = PushesOf(frames) /\ MAAP_counts = <<0>> \o CountsOf(frames)

\* The checks of a hook are of the known kinds.
HookedKinds == \A i \in 1..Len(hooked.made) : hooked.made[i].kind \in Kinds

\* The invariant of the stacks.
StackInv == FramesGood /\ DisabledGood /\ OffExact /\ StacksExact

\* The stacks are empty at first.
LEMMA StackInvInit == LibInit => StackInv /\ HookedKinds
<1>. HAVE LibInit
<1>1. frames = << >> /\ Len(frames) = 0 /\ disabled_at = << >> /\ Len(disabled_at) = 0
  BY DEF LibInit
<1>2. MaxDepth \in Nat
  BY LibHooksAssumption
<1>3. FramesGood /\ DisabledGood /\ OffExact
  BY <1>1, <1>2, EmptySeq DEF FramesGood, DisabledGood, OffExact
<1>4. PushesOf(<< >>) = << >> /\ CountsOf(<< >>) = << >>
  <2>1. [d \in 1..Len(<< >>) |-> FramePushes(<< >>[d], d)] = << >>
    OBVIOUS
  <2>2. [d \in 1..Len(<< >>) |-> FrameCounts(<< >>[d])] = << >>
    OBVIOUS
  <2>. QED
    BY <2>1, <2>2, FlattenFacts DEF PushesOf, CountsOf
<1>5. StacksExact
  <2>1. <<0>> \o << >> = <<0>>
    OBVIOUS
  <2>. QED
    BY <1>1, <1>4, <2>1 DEF StacksExact, LibInit
<1>6. HookedKinds
  <2>1. hooked.made = << >>
    BY DEF LibInit, NoChecks
  <2>2. Len(hooked.made) = 0
    BY <2>1
  <2>. QED
    BY <2>2 DEF HookedKinds
<1>. QED
  BY <1>3, <1>5, <1>6 DEF StackInv

\* The frame on top and what lies below it.
LEMMA TopFrame ==
    ASSUME StackInv, frames # << >>
    PROVE  /\ PopN(frames, 1) \in Seq(ProgramFrames) /\ Back(frames) \in ProgramFrames
           /\ Len(frames) \in 1..MaxDepth /\ Len(PopN(frames, 1)) = Len(frames) - 1
           /\ Back(frames) = frames[Len(frames)]
           /\ \A i \in 1..(Len(frames) - 1) : PopN(frames, 1)[i] = frames[i]
           /\ PushesOf(PopN(frames, 1)) \in Seq(MAAPEntry)
           /\ CountsOf(PopN(frames, 1)) \in Seq(0..NArgs)
           /\ MAAPs = PushesOf(PopN(frames, 1)) \o FramePushes(Back(frames), Len(frames))
           /\ MAAP_counts = (<<0>> \o CountsOf(PopN(frames, 1))) \o FrameCounts(Back(frames))
<1>. DEFINE F == PopN(frames, 1)
            f == Back(frames)
<1>1. frames \in Seq(ProgramFrames) /\ Len(frames) <= MaxDepth /\ MaxDepth \in Nat
  BY LibHooksAssumption DEF StackInv, FramesGood
<1>2. /\ F \in Seq(ProgramFrames) /\ Len(F) = Len(frames) - 1 /\ f \in ProgramFrames
      /\ frames = Append(F, f) /\ \A i \in 1..(Len(frames) - 1) : F[i] = frames[i]
  BY <1>1, PopFacts
<1>3. Len(frames) \in 1..MaxDepth /\ Len(F) < MaxDepth /\ Len(F) + 1 = Len(frames)
  BY <1>1, <1>2, LenProperties, EmptySeq
<1>4. f = frames[Len(frames)]
  BY DEF Back
<1>. HIDE DEF F, f
<1>5. /\ PushesOf(F) \in Seq(MAAPEntry) /\ CountsOf(F) \in Seq(0..NArgs)
      /\ PushesOf(frames) = PushesOf(F) \o FramePushes(f, Len(frames))
      /\ CountsOf(frames) = CountsOf(F) \o FrameCounts(f)
  BY <1>2, <1>3, PushesGrow
<1>6. MAAPs = PushesOf(F) \o FramePushes(f, Len(frames))
  BY <1>5 DEF StackInv, StacksExact
<1>7. MAAP_counts = (<<0>> \o CountsOf(F)) \o FrameCounts(f)
  <2>1. FrameCounts(f) \in Seq(0..NArgs) /\ NArgs \in Nat
    <3>1. NArgs \in Nat
      BY LibHooksAssumption, LenProperties DEF NArgs
    <3>. QED
      BY <1>2, <1>3, <3>1, FramePushesTyped
  <2>2. <<0>> \in Seq(0..NArgs)
    BY <2>1
  <2>3. <<0>> \o (CountsOf(F) \o FrameCounts(f)) = (<<0>> \o CountsOf(F)) \o FrameCounts(f)
    <3>1. \A T : \A a, b, c \in Seq(T) : a \o (b \o c) = (a \o b) \o c
      OBVIOUS
    <3>. DEFINE z == <<0>>
                T == 0..NArgs
    <3>2. z \in Seq(T) /\ CountsOf(F) \in Seq(T) /\ FrameCounts(f) \in Seq(T)
      BY <1>5, <2>1, <2>2
    <3>. HIDE DEF z, T
    <3>3. z \o (CountsOf(F) \o FrameCounts(f)) = (z \o CountsOf(F)) \o FrameCounts(f)
      BY <3>1, <3>2
    <3>. QED
      BY <3>3 DEF z
  <2>. QED
    BY <1>5, <2>3 DEF StackInv, StacksExact
<1>. QED
  BY <1>2, <1>3, <1>4, <1>5, <1>6, <1>7 DEF F, f

\* Entering a frame keeps the invariant.
LEMMA EnterFrame ==
    ASSUME StackInv, NEW f \in ProgramFrames, Len(frames) < MaxDepth,
           f.off <=> ~should_check, frames' = Append(frames, f), disabled_at' = disabled_at,
           MAAPs' = MAAPs \o FramePushes(f, Len(frames) + 1),
           MAAP_counts' = MAAP_counts \o FrameCounts(f)
    PROVE  StackInv'
<1>. DEFINE n == Len(frames)
<1>1. frames \in Seq(ProgramFrames) /\ n \in Nat /\ MaxDepth \in Nat
  BY LibHooksAssumption, LenProperties DEF StackInv, FramesGood
<1>2. /\ frames' \in Seq(ProgramFrames) /\ Len(frames') = n + 1 /\ frames'[n + 1] = f
      /\ \A i \in 1..n : frames'[i] = frames[i]
  BY <1>1, AppendProperties
<1>3. FramesGood'
  BY <1>1, <1>2 DEF FramesGood
<1>4. /\ disabled_at \in Seq(Nat) /\ Len(disabled_at) \in Nat
      /\ \A i \in 1..Len(disabled_at) :
            /\ disabled_at[i] \in Nat /\ disabled_at[i] <= n
            /\ disabled_at[i] > 0 => frames[disabled_at[i]].kind \in {"user", "callback"}
  BY ElementOfSeq, LenProperties DEF StackInv, DisabledGood
<1>. HIDE DEF n
<1>5. DisabledGood'
  <2>1. ASSUME NEW i \in 1..Len(disabled_at), disabled_at[i] > 0
        PROVE  frames'[disabled_at[i]].kind \in {"user", "callback"}
    <3>1. disabled_at[i] \in 1..n
      BY <1>1, <1>4, <2>1
    <3>. QED
      BY <1>2, <1>4, <2>1, <3>1
  <2>2. \A i \in 1..Len(disabled_at) : disabled_at[i] <= Len(frames')
    BY <1>1, <1>2, <1>4
  <2>. QED
    BY <1>4, <2>1, <2>2 DEF DisabledGood
<1>6. OffExact'
  <2>1. ASSUME NEW d \in 1..n PROVE frames'[d].off <=> \E i \in 1..Len(disabled_at) :
            disabled_at[i] < d
    <3>1. frames[d].off <=> \E i \in 1..Len(disabled_at) : disabled_at[i] < d
      BY DEF StackInv, OffExact, n
    <3>. QED
      BY <1>2, <3>1
  <2>2. should_check <=> Len(disabled_at) = 0
    BY <1>4, EmptySeq DEF should_check
  <2>3. ~should_check <=> \E i \in 1..Len(disabled_at) : disabled_at[i] < n + 1
    <3>1. ASSUME Len(disabled_at) # 0 PROVE \E i \in 1..Len(disabled_at) : disabled_at[i] < n + 1
      <4>1. 1 \in 1..Len(disabled_at)
        BY <1>4, <3>1
      <4>2. disabled_at[1] < n + 1
        BY <1>1, <1>4, <4>1
      <4>. QED
        BY <4>1, <4>2
    <3>. QED
      BY <1>4, <2>2, <3>1
  <2>4. \A d \in 1..(n + 1) : d \in 1..n \/ d = n + 1
    BY <1>1
  <2>. QED
    BY <1>2, <2>1, <2>3, <2>4 DEF OffExact
<1>7. StacksExact'
  <2>1. /\ PushesOf(frames) \in Seq(MAAPEntry) /\ CountsOf(frames) \in Seq(0..NArgs)
        /\ PushesOf(frames') = PushesOf(frames) \o FramePushes(f, Len(frames) + 1)
        /\ CountsOf(frames') = CountsOf(frames) \o FrameCounts(f)
    BY <1>1, PushesGrow DEF n
  <2>2. MAAPs = PushesOf(frames) /\ MAAP_counts = <<0>> \o CountsOf(frames)
    BY DEF StackInv, StacksExact
  <2>3. NArgs \in Nat
    BY LibHooksAssumption, LenProperties DEF NArgs
  <2>4. <<0>> \in Seq(0..NArgs) /\ FrameCounts(f) \in Seq(0..NArgs)
    <3>1. 1 \in 1..MaxDepth
      BY <1>1 DEF n
    <3>. QED
      BY <2>3, <3>1, FramePushesTyped
  <2>5. <<0>> \o (CountsOf(frames) \o FrameCounts(f)) = (<<0>> \o CountsOf(frames))
            \o FrameCounts(f)
    <3>1. ASSUME NEW T, NEW a \in Seq(T), NEW b \in Seq(T), NEW c \in Seq(T)
          PROVE  a \o (b \o c) = (a \o b) \o c
      OBVIOUS
    <3>2. CountsOf(frames) \in Seq(0..NArgs)
      BY <2>1
    <3>. HIDE DEF n
    <3>. QED
      BY <2>4, <3>1, <3>2
  <2>6. MAAPs' = PushesOf(frames') /\ MAAP_counts' = <<0>> \o CountsOf(frames')
    BY <2>1, <2>2, <2>5
  <2>. QED
    BY <2>6 DEF StacksExact, PushesOf, CountsOf
<1>. QED
  BY <1>3, <1>5, <1>6, <1>7 DEF StackInv

\* Leaving one that has not turned checking off keeps it, if it takes along what it pushed.
LEMMA LeaveFrame ==
    ASSUME StackInv, frames # << >>,
           \A i \in 1..Len(disabled_at) : disabled_at[i] # Len(frames),
           frames' = PopN(frames, 1), disabled_at' = disabled_at,
           MAAPs' = PushesOf(PopN(frames, 1)),
           MAAP_counts' = << 0 >> \o CountsOf(PopN(frames, 1))
    PROVE  StackInv'
<1>. DEFINE n == Len(frames)
<1>1. /\ frames' \in Seq(ProgramFrames) /\ n \in 1..MaxDepth /\ Len(frames') = n - 1
      /\ MaxDepth \in Nat
      /\ \A i \in 1..(n - 1) : frames'[i] = frames[i]
  BY TopFrame, LibHooksAssumption
<1>2. FramesGood'
  BY <1>1 DEF FramesGood
<1>3. /\ disabled_at \in Seq(Nat) /\ Len(disabled_at) \in Nat
      /\ \A i \in 1..Len(disabled_at) :
            /\ disabled_at[i] \in Nat /\ disabled_at[i] <= n /\ disabled_at[i] # n
            /\ disabled_at[i] > 0 => frames[disabled_at[i]].kind \in {"user", "callback"}
  BY ElementOfSeq, LenProperties DEF StackInv, DisabledGood
<1>. HIDE DEF n
<1>4. DisabledGood'
  <2>1. ASSUME NEW i \in 1..Len(disabled_at), disabled_at[i] > 0
        PROVE  frames'[disabled_at[i]].kind \in {"user", "callback"}
    <3>1. disabled_at[i] \in 1..(n - 1)
      BY <1>1, <1>3, <2>1
    <3>. QED
      BY <1>1, <1>3, <2>1, <3>1
  <2>2. \A i \in 1..Len(disabled_at) : disabled_at[i] <= Len(frames')
    BY <1>1, <1>3
  <2>. QED
    BY <1>3, <2>1, <2>2 DEF DisabledGood
<1>5. OffExact'
  <2>1. ASSUME NEW d \in 1..(n - 1)
        PROVE  frames'[d].off <=> \E i \in 1..Len(disabled_at) : disabled_at[i] < d
    <3>1. d \in 1..n
      BY <1>1
    <3>2. frames[d].off <=> \E i \in 1..Len(disabled_at) : disabled_at[i] < d
      BY <3>1 DEF StackInv, OffExact, n
    <3>. QED
      BY <1>1, <3>2
  <2>. QED
    BY <1>1, <2>1 DEF OffExact
<1>6. StacksExact'
  BY DEF StacksExact, PushesOf, CountsOf
<1>. QED
  BY <1>2, <1>4, <1>5, <1>6 DEF StackInv

\* The frame on top was entered as checking is now.
LEMMA TopOff ==
    ASSUME StackInv, frames # << >>,
           \A i \in 1..Len(disabled_at) : disabled_at[i] # Len(frames)
    PROVE  Back(frames).off <=> ~should_check
<1>. DEFINE n == Len(frames)
<1>1. n \in 1..MaxDepth /\ Back(frames) = frames[n] /\ MaxDepth \in Nat
  BY TopFrame, LibHooksAssumption
<1>2. /\ disabled_at \in Seq(Nat) /\ Len(disabled_at) \in Nat
      /\ \A i \in 1..Len(disabled_at) : disabled_at[i] \in Nat /\ disabled_at[i] < n
  BY <1>1, ElementOfSeq, LenProperties DEF StackInv, DisabledGood
<1>3. frames[n].off <=> \E i \in 1..Len(disabled_at) : disabled_at[i] < n
  BY <1>1 DEF StackInv, OffExact
<1>4. should_check <=> Len(disabled_at) = 0
  BY <1>2, EmptySeq DEF should_check
<1>5. Len(disabled_at) # 0 => 1 \in 1..Len(disabled_at)
  BY <1>2
<1>. QED
  BY <1>1, <1>2, <1>3, <1>4, <1>5

\* The entries of the stacks.
LEMMA StacksTyped ==
    ASSUME StackInv
    PROVE  MAAPs \in Seq(MAAPEntry) /\ MAAP_counts \in Seq(0..NArgs)
<1>1. NArgs \in Nat
  BY LibHooksAssumption, LenProperties DEF NArgs
<1>2. <<0>> \in Seq(0..NArgs)
  BY <1>1
<1>3. CASE frames = << >>
  <2>1. PushesOf(<< >>) = << >> /\ CountsOf(<< >>) = << >>
    <3>1. [d \in 1..Len(<< >>) |-> FramePushes(<< >>[d], d)] = << >>
      OBVIOUS
    <3>2. [d \in 1..Len(<< >>) |-> FrameCounts(<< >>[d])] = << >>
      OBVIOUS
    <3>. QED
      BY <3>1, <3>2, FlattenFacts DEF PushesOf, CountsOf
  <2>2. MAAPs = << >> /\ MAAP_counts = <<0>> \o << >>
    BY <1>3, <2>1 DEF StackInv, StacksExact
  <2>3. <<0>> \o << >> = <<0>>
    OBVIOUS
  <2>. QED
    BY <1>2, <2>2, <2>3, EmptySeq
<1>4. CASE frames # << >>
  <2>. DEFINE F == PopN(frames, 1)
              f == Back(frames)
  <2>1. /\ f \in ProgramFrames /\ Len(frames) \in 1..MaxDepth
        /\ PushesOf(F) \in Seq(MAAPEntry) /\ CountsOf(F) \in Seq(0..NArgs)
        /\ MAAPs = PushesOf(F) \o FramePushes(f, Len(frames))
        /\ MAAP_counts = (<<0>> \o CountsOf(F)) \o FrameCounts(f)
    BY <1>4, TopFrame
  <2>. HIDE DEF F, f
  <2>2. FramePushes(f, Len(frames)) \in Seq(MAAPEntry) /\ FrameCounts(f) \in Seq(0..NArgs)
    BY <2>1, FramePushesTyped
  <2>3. <<0>> \o CountsOf(F) \in Seq(0..NArgs)
    BY <1>2, <2>1, ConcatProperties
  <2>. QED
    BY <2>1, <2>2, <2>3, ConcatProperties
<1>. QED
  BY <1>3, <1>4

\* The arguments a caller passes MAAPs for.
LEMMA PassedArgsAre == PassedArgs \in {<< >>, Arg} /\ << >> \in Seq(ArgNames)
    /\ Arg \in Seq(ArgNames)
<1>1. Arg \in Seq(STRING) /\ Len(Arg) \in Nat
  BY LibHooksAssumption, LenProperties
<1>2. \A i \in 1..Len(Arg) : Arg[i] \in ArgNames
  BY ArgNamesHold DEF NArgs
<1>3. Arg = [i \in 1..Len(Arg) |-> Arg[i]]
  BY <1>1
<1>4. Arg \in Seq(ArgNames)
  <2>1. [i \in 1..Len(Arg) |-> Arg[i]] \in Seq(ArgNames)
    BY <1>1, <1>2
  <2>. QED
    BY <1>3, <2>1
<1>. QED
  BY <1>4, EmptySeq DEF PassedArgs

\* What before_call and its MAAPs push is what the new frame has on the stacks.
LEMMA PushesAre ==
    ASSUME StackInv, NEW f, f.off <=> ~should_check
    PROVE  /\ set_MAAPs(f.name, f.args) = MAAPs \o FramePushes(f, Len(frames) + 1)
           /\ f.kind \in {"user", "ext"} =>
                 (IF should_check THEN Append(MAAP_counts, Len(f.args)) ELSE MAAP_counts)
                    = MAAP_counts \o FrameCounts(f)
           /\ f.kind \notin {"user", "ext"} => MAAP_counts = MAAP_counts \o FrameCounts(f)
           /\ f.args = << >> => MAAPs = MAAPs \o FramePushes(f, Len(frames) + 1)
<1>2. MAAPs \in Seq(MAAPEntry) /\ MAAP_counts \in Seq(0..NArgs)
  BY StacksTyped
<1>3. MAAPs = MAAPs \o << >> /\ MAAP_counts = MAAP_counts \o << >>
  BY <1>2, ConcatEmptySeq
<1>4. \A n : Append(MAAP_counts, n) = MAAP_counts \o <<n>>
  BY <1>2
<1>5. set_MAAPs(f.name, f.args) = MAAPs \o FramePushes(f, Len(frames) + 1)
  BY <1>3 DEF set_MAAPs, FramePushes, Depth
<1>6. f.kind \in {"user", "ext"} =>
          (IF should_check THEN Append(MAAP_counts, Len(f.args)) ELSE MAAP_counts)
             = MAAP_counts \o FrameCounts(f)
  BY <1>3, <1>4 DEF FrameCounts
<1>7. f.kind \notin {"user", "ext"} => MAAP_counts = MAAP_counts \o FrameCounts(f)
  BY <1>3 DEF FrameCounts
<1>8. ASSUME f.args = << >> PROVE MAAPs = MAAPs \o FramePushes(f, Len(frames) + 1)
  <2>1. Len(f.args) = 0
    BY <1>8
  <2>2. FramePushes(f, Len(frames) + 1) = << >>
    BY <2>1 DEF FramePushes
  <2>. QED
    BY <1>3, <2>2
<1>. QED
  BY <1>5, <1>6, <1>7, <1>8

\* Calls.
LEMMA CallsKeep ==
    ASSUME StackInv, \/ \E g \in Funcs : CallUser(g) \/ Callback(g)
                     \/ CallExternal
                     \/ \E h \in LibCalls : \E ds \in Formatted(h) : CallLib(h, ds)
    PROVE  StackInv'
<1>. DEFINE fr(kind, name, args, dirs) ==
                [kind |-> kind, name |-> name, args |-> args, dirs |-> dirs,
                 off |-> ~should_check]
<1>1. << >> \in Seq(ArgNames) /\ Arg \in Seq(ArgNames) /\ PassedArgs \in {<< >>, Arg}
      /\ Len(<< >>) \in Nat /\ Len(Arg) \in Nat
  BY PassedArgsAre, LenProperties
<1>2. \A kind \in {"user", "ext", "callback", "lib"}, name \in FrameNames, args \in Seq(ArgNames),
          dirs \in {<< >>} \cup DirSeqs :
         FrameFits(fr(kind, name, args, dirs)) => fr(kind, name, args, dirs) \in ProgramFrames
  BY DEF ProgramFrames, FrameType
<1>3. CASE \E g \in Funcs : CallUser(g)
  <2>1. PICK g \in Funcs : CallUser(g)
    BY <1>3
  <2>. DEFINE f == fr("user", g, PassedArgs, << >>)
  <2>2. /\ f \in ProgramFrames
        <3>1. FrameFits(f)
          BY <1>1 DEF FrameFits
        <3>. QED
          BY <1>1, <1>2, <3>1 DEF FrameNames
  <2>4. /\ Len(frames) < MaxDepth /\ MAAPs' = set_MAAPs(g, PassedArgs)
        /\ frames' = Append(frames, f)
        /\ disabled_at' = disabled_at
        /\ MAAP_counts' = IF should_check THEN Append(MAAP_counts, Len(PassedArgs))
             ELSE MAAP_counts
    BY <2>1 DEF CallUser, Push, before_call, Depth
  <2>5. f.kind = "user" /\ f.name = g /\ f.args = PassedArgs /\ (f.off <=> ~should_check)
    OBVIOUS
  <2>. HIDE DEF f
  <2>3. /\ set_MAAPs(g, PassedArgs) = MAAPs \o FramePushes(f, Len(frames) + 1)
        /\ (IF should_check THEN Append(MAAP_counts, Len(PassedArgs)) ELSE MAAP_counts)
               = MAAP_counts \o FrameCounts(f)
    BY <2>5, PushesAre
  <2>. QED
    BY <2>2, <2>3, <2>4, <2>5, EnterFrame
<1>4. CASE \E g \in Funcs : Callback(g)
  <2>1. PICK g \in Funcs : Callback(g)
    BY <1>4
  <2>. DEFINE f == fr("callback", g, << >>, << >>)
  <2>2. f \in ProgramFrames
    <3>1. FrameFits(f)
      BY <1>1 DEF FrameFits
    <3>. QED
      BY <1>1, <1>2, <3>1 DEF FrameNames
  <2>4. /\ Len(frames) < MaxDepth /\ MAAPs' = MAAPs /\ frames' = Append(frames, f)
        /\ disabled_at' = disabled_at /\ MAAP_counts' = MAAP_counts
    BY <2>1 DEF Callback, Depth
  <2>5. f.kind = "callback" /\ f.name = g /\ f.args = << >> /\ (f.off <=> ~should_check)
    OBVIOUS
  <2>. HIDE DEF f
  <2>3. MAAPs = MAAPs \o FramePushes(f, Len(frames) + 1)
            /\ MAAP_counts = MAAP_counts \o FrameCounts(f)
    BY <2>5, PushesAre
  <2>. QED
    BY <2>2, <2>3, <2>4, <2>5, EnterFrame
<1>5. CASE CallExternal
  <2>. DEFINE f == fr("ext", "ext", PassedArgs, << >>)
  <2>2. f \in ProgramFrames
    <3>1. FrameFits(f)
      BY <1>1 DEF FrameFits
    <3>. QED
      BY <1>1, <1>2, <3>1 DEF FrameNames
  <2>4. /\ Len(frames) < MaxDepth /\ MAAPs' = set_MAAPs("ext", PassedArgs)
        /\ frames' = Append(frames, f)
        /\ disabled_at' = disabled_at
        /\ MAAP_counts' = IF should_check THEN Append(MAAP_counts, Len(PassedArgs))
             ELSE MAAP_counts
    BY <1>5 DEF CallExternal, Push, before_call, Depth
  <2>5. f.kind = "ext" /\ f.name = "ext" /\ f.args = PassedArgs /\ (f.off <=> ~should_check)
    OBVIOUS
  <2>. HIDE DEF f
  <2>3. /\ set_MAAPs("ext", PassedArgs) = MAAPs \o FramePushes(f, Len(frames) + 1)
        /\ (IF should_check THEN Append(MAAP_counts, Len(PassedArgs)) ELSE MAAP_counts)
               = MAAP_counts \o FrameCounts(f)
    BY <2>5, PushesAre
  <2>. QED
    BY <2>2, <2>3, <2>4, <2>5, EnterFrame
<1>6. CASE \E h \in LibCalls : \E ds \in Formatted(h) : CallLib(h, ds)
  <2>0. PICK h \in LibCalls : \E ds \in Formatted(h) : CallLib(h, ds)
    BY <1>6
  <2>1. PICK ds \in Formatted(h) : CallLib(h, ds)
    BY <2>0
  <2>. DEFINE args == IF Aware THEN LibArgs(h, ds) ELSE << >>
              f == fr("lib", h, args, ds)
  <2>2. LibArgs(h, ds) \in Seq(ArgNames) /\ ds \in {<< >>} \cup DirSeqs
    BY LibArgsTyped DEF Formatted
  <2>3. args \in Seq(ArgNames) /\ args \in {<< >>, LibArgs(h, ds)} /\ Len(args) \in Nat
    BY <1>1, <2>2, LenProperties
  <2>4. /\ Len(frames) < MaxDepth /\ MAAPs' = set_MAAPs(h, args) /\ frames' = Append(frames, f)
        /\ disabled_at' = disabled_at /\ MAAP_counts' = MAAP_counts
    BY <2>1 DEF CallLib, Push, Depth, LibArgs, VarPointers
  <2>. HIDE DEF args
  <2>5. f \in ProgramFrames
    <3>1. FrameFits(f)
      BY <2>3 DEF FrameFits
    <3>. QED
      BY <1>2, <2>2, <2>3, <3>1 DEF FrameNames
  <2>7. f.kind = "lib" /\ f.name = h /\ f.args = args /\ (f.off <=> ~should_check)
    OBVIOUS
  <2>. HIDE DEF f
  <2>6. set_MAAPs(h, args) = MAAPs \o FramePushes(f, Len(frames) + 1)
            /\ MAAP_counts = MAAP_counts \o FrameCounts(f)
    BY <2>7, PushesAre
  <2>. QED
    BY <2>4, <2>5, <2>6, <2>7, EnterFrame
<1>. QED
  BY <1>3, <1>4, <1>5, <1>6

\* A hook pops one MAAP for each argument of its call.
LEMMA PoppedIsArgs ==
    ASSUME NEW f \in ProgramFrames, f.kind = "lib", f.name \notin {"fputs", "sscanf"}
    PROVE  Popped(HookTable[f.name], Len(f.args)) = Len(f.args)
<1>. DEFINE h == f.name
            e == HookTable[h]
            n == Len(f.args)
<1>1. /\ h \in LibCalls /\ f.dirs \in Formatted(h) /\ f.args \in {<< >>, LibArgs(h, f.dirs)}
      /\ f.args \in Seq(ArgNames) /\ n \in Nat
  BY LenProperties DEF ProgramFrames, FrameType, FrameFits
<1>2. h \in DOMAIN HookTable
  BY <1>1, LibHooksAssumption
<1>3. HookEntry(e) /\ PopsItsOwn(e)
  BY <1>2, TableSound
<1>4. CASE n = 0
  BY <1>4 DEF Popped
<1>5. CASE n # 0
  <2>1. f.args = LibArgs(h, f.dirs)
    BY <1>1, <1>5
  <2>. HIDE DEF h, e
  <2>2. e.all => Popped(e, n) = n
    BY <1>5 DEF Popped
  <2>3. ASSUME ~e.all PROVE Popped(e, n) = n
    <3>1. e.fmt = "none" /\ (Len(e.named) = Len(e.args) \/ e.args = << >>)
      BY <1>3, <2>3 DEF HookEntry, FormatIsNext, PopsItsOwn
    <3>2. h # "sscanf"
      BY DEF h
    <3>3. FmtOf(h) = "none"
      BY <3>1, <3>2 DEF FmtOf, e
    <3>4. f.args = e.args
      BY <1>1, <2>1, <3>3, LibArgsTyped DEF e
    <3>5. e.args # << >>
      BY <1>5, <3>4
    <3>. QED
      BY <1>5, <2>3, <3>1, <3>4, <3>5 DEF Popped
  <2>. QED
    BY <2>2, <2>3 DEF h, e
<1>. QED
  BY <1>4, <1>5

\* A return takes along what the call pushed.
LEMMA ReturnKeeps == StackInv /\ Return => StackInv'
<1>. HAVE StackInv /\ Return
<1>. DEFINE F == PopN(frames, 1)
            f == Back(frames)
            A == PushesOf(F)
            B == FramePushes(f, Len(frames))
            C == <<0>> \o CountsOf(F)
            D == FrameCounts(f)
<1>1. /\ frames # << >> /\ frames' = F /\ disabled_at' = disabled_at
      /\ \A i \in 1..Len(disabled_at) : disabled_at[i] # Len(frames)
      /\ IF f.kind \in {"user", "ext"} THEN after_call(f)
         ELSE f.kind = "callback" /\ UNCHANGED <<MAAPs, MAAP_counts>>
  BY DEF Return, Depth
<1>2. /\ f \in ProgramFrames /\ Len(frames) \in 1..MaxDepth
      /\ A \in Seq(MAAPEntry) /\ CountsOf(F) \in Seq(0..NArgs)
      /\ MAAPs = A \o B /\ MAAP_counts = C \o D
  BY <1>1, TopFrame
<1>3. f.off <=> ~should_check
  BY <1>1, TopOff
<1>. HIDE DEF F, f
<1>4. B \in Seq(MAAPEntry) /\ D \in Seq(0..NArgs) /\ Len(B) = IF f.off THEN 0 ELSE Len(f.args)
  BY <1>2, FramePushesTyped
<1>5. C \in Seq(0..NArgs)
  <2>1. <<0>> \in Seq(0..NArgs)
    BY LibHooksAssumption, LenProperties DEF NArgs
  <2>. QED
    BY <1>2, <2>1, ConcatProperties
<1>6. Len(D) = IF f.off \/ f.kind \notin {"user", "ext"} THEN 0 ELSE 1
  BY DEF FrameCounts
<1>. HIDE DEF A, B, C, D
<1>7. PopN(A \o B, Len(B)) = A /\ PopN(C \o D, Len(D)) = C
  BY <1>2, <1>4, <1>5, PopFacts
<1>8. (Len(B) = 0 => A \o B = A) /\ (Len(D) = 0 => C \o D = C)
  <2>1. (Len(B) = 0 => B = << >>) /\ (Len(D) = 0 => D = << >>)
    BY <1>4, EmptySeq
  <2>. QED
    BY <1>2, <1>5, <2>1, ConcatEmptySeq
<1>9. MAAPs' = A /\ MAAP_counts' = C
  <2>1. CASE f.kind \in {"user", "ext"} /\ should_check
    BY <1>1, <1>2, <1>3, <1>4, <1>6, <1>7, <2>1 DEF after_call
  <2>2. CASE f.kind \in {"user", "ext"} /\ ~should_check
    BY <1>1, <1>2, <1>3, <1>4, <1>6, <1>8, <2>2 DEF after_call
  <2>3. CASE f.kind \notin {"user", "ext"}
    <3>1. f.kind = "callback" /\ MAAPs' = MAAPs /\ MAAP_counts' = MAAP_counts
      BY <1>1, <2>3
    <3>2. f.args = << >>
      BY <1>2, <3>1 DEF ProgramFrames, FrameFits
    <3>3. Len(f.args) = 0
      BY <3>2
    <3>. QED
      BY <1>2, <1>4, <1>6, <1>8, <2>3, <3>1, <3>3
  <2>. QED
    BY <2>1, <2>2, <2>3
<1>. QED
  BY <1>1, <1>9, LeaveFrame DEF A, C, F

\* So does a hook.
LEMMA HookKeeps ==
    ASSUME StackInv, LibCalls \cap {"fputs", "sscanf"} = {},
           NEW par, NEW ok, NEW n, LibHook(par, ok, n)
    PROVE  StackInv'
<1>. DEFINE F == PopN(frames, 1)
            f == Back(frames)
            A == PushesOf(F)
            B == FramePushes(f, Len(frames))
            C == <<0>> \o CountsOf(F)
            D == FrameCounts(f)
<1>1. /\ frames # << >> /\ f.kind = "lib" /\ frames' = F
      /\ disabled_at' = disabled_at /\ MAAP_counts' = MAAP_counts
      /\ MAAPs' = IF should_check THEN PopN(MAAPs, Popped(HookTable[f.name], Len(f.args)))
           ELSE MAAPs
  BY DEF LibHook
<1>2. /\ f \in ProgramFrames /\ Len(frames) \in 1..MaxDepth /\ f = frames[Len(frames)]
      /\ A \in Seq(MAAPEntry) /\ CountsOf(F) \in Seq(0..NArgs)
      /\ MAAPs = A \o B /\ MAAP_counts = C \o D
  BY <1>1, TopFrame
<1>3. \A i \in 1..Len(disabled_at) : disabled_at[i] # Len(frames)
  <2>. SUFFICES ASSUME NEW i \in 1..Len(disabled_at), disabled_at[i] = Len(frames) PROVE FALSE
    OBVIOUS
  <2>1. frames[disabled_at[i]].kind \in {"user", "callback"}
    <3>1. Len(frames) > 0
      BY <1>2, LibHooksAssumption
    <3>. QED
      BY <3>1 DEF StackInv, DisabledGood
  <2>. QED
    BY <1>1, <1>2, <2>1
<1>4. f.off <=> ~should_check
  BY <1>1, <1>3, TopOff
<1>. HIDE DEF F, f
<1>5. B \in Seq(MAAPEntry) /\ Len(B) = IF f.off THEN 0 ELSE Len(f.args)
  BY <1>2, FramePushesTyped
<1>6. C \in Seq(0..NArgs)
  <2>1. <<0>> \in Seq(0..NArgs)
    BY LibHooksAssumption, LenProperties DEF NArgs
  <2>. QED
    BY <1>2, <2>1, ConcatProperties
<1>7. D = << >>
  BY <1>1 DEF FrameCounts
<1>8. Popped(HookTable[f.name], Len(f.args)) = Len(f.args)
  <2>1. f.name \in LibCalls
    BY <1>1, <1>2 DEF ProgramFrames, FrameFits
  <2>. QED
    BY <1>1, <1>2, <2>1, PoppedIsArgs
<1>. HIDE DEF A, B, C, D
<1>9. PopN(A \o B, Len(B)) = A
  BY <1>2, <1>5, PopFacts
<1>10. (Len(B) = 0 => A \o B = A) /\ C \o << >> = C
  <2>1. Len(B) = 0 => B = << >>
    BY <1>5, EmptySeq
  <2>. QED
    BY <1>2, <1>6, <2>1, ConcatEmptySeq
<1>11. MAAPs' = A /\ MAAP_counts' = C
  <2>1. CASE should_check
    BY <1>1, <1>2, <1>4, <1>5, <1>7, <1>8, <1>9, <1>10, <2>1
  <2>2. CASE ~should_check
    BY <1>1, <1>2, <1>4, <1>5, <1>7, <1>10, <2>2
  <2>. QED
    BY <2>1, <2>2
<1>. QED
  BY <1>1, <1>3, <1>11, LeaveFrame DEF A, C, F

\* Turning checking off and on again touches no frame of an outer scope.
LEMMA TogglesKeep == StackInv /\ (disable_checking \/ enable_checking) => StackInv'
<1>. HAVE StackInv /\ (disable_checking \/ enable_checking)
<1>. DEFINE n == Len(frames)
<1>1. frames' = frames /\ MAAPs' = MAAPs /\ MAAP_counts' = MAAP_counts /\ InUserCode
  BY DEF disable_checking, enable_checking
<1>2. /\ disabled_at \in Seq(Nat) /\ Len(disabled_at) \in Nat /\ n \in Nat
      /\ \A i \in 1..Len(disabled_at) :
            /\ disabled_at[i] \in Nat /\ disabled_at[i] <= n
            /\ disabled_at[i] > 0 => frames[disabled_at[i]].kind \in {"user", "callback"}
  BY ElementOfSeq, LenProperties DEF StackInv, DisabledGood, FramesGood
<1>3. n > 0 => frames[n].kind \in {"user", "callback"}
  <2>. HAVE n > 0
  <2>1. frames # << >>
    OBVIOUS
  <2>. QED
    BY <1>1, <2>1 DEF InUserCode, Back
<1>4. \A d \in 1..n : frames[d].off <=> \E i \in 1..Len(disabled_at) : disabled_at[i] < d
  BY DEF StackInv, OffExact
<1>5. CASE disable_checking
  <2>1. /\ disabled_at' \in Seq(Nat) /\ Len(disabled_at') = Len(disabled_at) + 1
        /\ disabled_at'[Len(disabled_at) + 1] = n
        /\ \A i \in 1..Len(disabled_at) : disabled_at'[i] = disabled_at[i]
    <3>1. disabled_at' = Append(disabled_at, n)
      BY <1>5 DEF disable_checking, Depth
    <3>. QED
      BY <1>2, <3>1, AppendProperties
  <2>. HIDE DEF n
  <2>2. \A i \in 1..Len(disabled_at') : i \in 1..Len(disabled_at) \/ i = Len(disabled_at) + 1
    BY <1>2, <2>1
  <2>3. \A i \in 1..Len(disabled_at') :
            /\ disabled_at'[i] <= n
            /\ disabled_at'[i] > 0 => frames[disabled_at'[i]].kind \in {"user", "callback"}
    BY <1>2, <1>3, <2>1, <2>2
  <2>4. DisabledGood'
    BY <1>1, <2>1, <2>3 DEF DisabledGood, n
  <2>5. ASSUME NEW d \in 1..n
        PROVE  (\E i \in 1..Len(disabled_at) : disabled_at[i] < d)
                  <=> \E i \in 1..Len(disabled_at') : disabled_at'[i] < d
    <3>1. \A i \in 1..Len(disabled_at) : i \in 1..Len(disabled_at')
              /\ disabled_at'[i] = disabled_at[i]
      BY <1>2, <2>1
    <3>2. \A i \in 1..Len(disabled_at') : disabled_at'[i] < d => i \in 1..Len(disabled_at)
      BY <1>2, <2>1, <2>2
    <3>. QED
      BY <3>1, <3>2
  <2>6. OffExact'
    <3>1. \A d \in 1..n : frames[d].off <=> \E i \in 1..Len(disabled_at') : disabled_at'[i] < d
      BY <1>4, <2>5
    <3>. QED
      BY <1>1, <3>1 DEF OffExact, n
  <2>7. FramesGood' /\ StacksExact'
    BY <1>1 DEF StackInv, FramesGood, StacksExact, PushesOf, CountsOf
  <2>. QED
    BY <2>4, <2>6, <2>7 DEF StackInv
<1>6. CASE enable_checking
  <2>0. disabled_at # << >> /\ Back(disabled_at) = n /\ disabled_at' = PopN(disabled_at, 1)
    BY <1>6 DEF enable_checking, Depth
  <2>1. /\ disabled_at' \in Seq(Nat) /\ Len(disabled_at') = Len(disabled_at) - 1
        /\ disabled_at[Len(disabled_at)] = n /\ Len(disabled_at) > 0
        /\ \A i \in 1..(Len(disabled_at) - 1) : disabled_at'[i] = disabled_at[i]
    BY <1>2, <2>0, PopFacts, EmptySeq DEF Back
  <2>. HIDE DEF n
  <2>2. \A i \in 1..Len(disabled_at') : i \in 1..Len(disabled_at)
            /\ disabled_at'[i] = disabled_at[i]
    BY <1>2, <2>1
  <2>3. \A i \in 1..Len(disabled_at') :
            /\ disabled_at'[i] <= n
            /\ disabled_at'[i] > 0 => frames[disabled_at'[i]].kind \in {"user", "callback"}
    BY <1>2, <2>2
  <2>4. DisabledGood'
    BY <1>1, <2>1, <2>3 DEF DisabledGood, n
  <2>5. ASSUME NEW d \in 1..n
        PROVE  (\E i \in 1..Len(disabled_at) : disabled_at[i] < d)
                  <=> \E i \in 1..Len(disabled_at') : disabled_at'[i] < d
    <3>1. \A i \in 1..Len(disabled_at) : disabled_at[i] < d => i \in 1..Len(disabled_at')
      BY <1>2, <2>1
    <3>. QED
      BY <2>2, <3>1
  <2>6. OffExact'
    <3>1. \A d \in 1..n : frames[d].off <=> \E i \in 1..Len(disabled_at') : disabled_at'[i] < d
      BY <1>4, <2>5
    <3>. QED
      BY <1>1, <3>1 DEF OffExact, n
  <2>7. FramesGood' /\ StacksExact'
    BY <1>1 DEF StackInv, FramesGood, StacksExact, PushesOf, CountsOf
  <2>. QED
    BY <2>4, <2>6, <2>7 DEF StackInv
<1>. QED
  BY <1>5, <1>6

(***************************************************************************)
(* The checks of a hook: those of its entry in the table, and those its    *)
(* interpreter makes of the variable arguments.                            *)
(***************************************************************************)
\* The MAAPs a call leaves to the interpreter of its format.
LeftOver(e, count) == count - (IF count = 0 THEN 0 ELSE Len(e.named))

\* What the interpreter of a hook makes of it, and the checks of the two.
RunOf(e, count, inputs, dirs) ==
    IF e.fmt = "scanf" THEN scanf_common(LeftOver(e, count), inputs, dirs)
    ELSE printf_common(LeftOver(e, count), dirs)
OwnCheck(e, count, c) == [kind |-> c.kind, arg |-> c.arg, maap |-> HeldMAAP(e, count, c.guard)]
FormatCheck(e, count, c) ==
    [kind |-> c.kind, arg |-> c.arg,
     maap |-> IF c.slot = 0 THEN ModRef
              ELSE Ancestor(MAAPs, (IF count = 0 THEN 0 ELSE Len(e.named)) + c.slot - 1)]

\* A function of the first n places lists what it holds.
LEMMA ListedMap ==
    ASSUME NEW n \in Nat, NEW f, f = [i \in 1..n |-> f[i]]
    PROVE  Listed(f) /\ Len(f) = n
<1>. DEFINE T == {f[i] : i \in 1..n}
<1>1. \A i \in 1..n : f[i] \in T
  OBVIOUS
<1>. HIDE DEF T
<1>2. [i \in 1..n |-> f[i]] \in Seq(T)
  BY <1>1
<1>3. f \in Seq(T) /\ Len(f) = n
  <2>1. f \in Seq(T) /\ f \in [1..n -> T]
    BY <1>1, <1>2
  <2>. QED
    BY <2>1, LenProperties
<1>. QED
  BY <1>3 DEF Listed, T

\* One list after another.
LEMMA ListedConcat ==
    ASSUME NEW a, NEW b, Listed(a), Listed(b)
    PROVE  /\ Len(a \o b) = Len(a) + Len(b) /\ Len(a) \in Nat /\ Len(b) \in Nat
           /\ \A i \in 1..Len(a) : (a \o b)[i] = a[i]
           /\ \A i \in 1..Len(b) : (a \o b)[Len(a) + i] = b[i]
<1>. DEFINE S == {a[i] : i \in 1..Len(a)}
            R == {b[i] : i \in 1..Len(b)}
            T == S \cup R
<1>1. a \in Seq(S) /\ b \in Seq(R)
  BY DEF Listed
<1>2. a \in Seq(T) /\ b \in Seq(T)
  <2>1. S \subseteq T /\ R \subseteq T
    OBVIOUS
  <2>. HIDE DEF S, R, T
  <2>. QED
    BY <1>1, <2>1
<1>. HIDE DEF T
<1>. QED
  BY <1>2, ConcatProperties, LenProperties

\* A hook makes the checks of its entry and those of its interpreter.
LEMMA HookMakes ==
    ASSUME NEW e, NEW count, NEW inputs, NEW dirs, Listed(e.checks),
           e.fmt # "none" => Listed(RunOf(e, count, inputs, dirs).checks)
    PROVE  LET made == HookChecks(e, count, inputs, dirs)
               run == RunOf(e, count, inputs, dirs)
           IN  /\ \A i \in 1..Len(made) :
                     \/ \E j \in 1..Len(e.checks) : made[i] = OwnCheck(e, count, e.checks[j])
                     \/ e.fmt # "none" /\ \E j \in 1..Len(run.checks) :
                          made[i] = FormatCheck(e, count, run.checks[j])
               /\ e.fmt # "none" =>
                     \A j \in 1..Len(run.checks) : \E i \in 1..Len(made) :
                         made[i] = FormatCheck(e, count, run.checks[j])
<1>. DEFINE made == HookChecks(e, count, inputs, dirs)
            run == RunOf(e, count, inputs, dirs)
            own == [i \in 1..Len(e.checks) |-> OwnCheck(e, count, e.checks[i])]
            fmt == [i \in 1..Len(run.checks) |-> FormatCheck(e, count, run.checks[i])]
<1>1. Len(e.checks) \in Nat
  BY LenProperties DEF Listed
<1>2. Listed(own) /\ Len(own) = Len(e.checks)
  <2>1. own = [i \in 1..Len(e.checks) |-> own[i]]
    OBVIOUS
  <2>. HIDE DEF own
  <2>. QED
    BY <1>1, <2>1, ListedMap
<1>3. made = IF e.fmt = "none" THEN own ELSE own \o fmt
  <2>1. own = [i \in 1..Len(e.checks) |->
                  [kind |-> e.checks[i].kind, arg |-> e.checks[i].arg,
                   maap |-> HeldMAAP(e, count, e.checks[i].guard)]]
    BY DEF OwnCheck
  <2>2. fmt = FormatChecks(e, count, inputs, dirs)
    BY DEF FormatChecks, FormatCheck, RunOf, LeftOver
  <2>. QED
    BY <2>1, <2>2 DEF HookChecks
<1>4. CASE e.fmt = "none"
  <2>1. made = own
    BY <1>3, <1>4
  <2>2. \A i \in 1..Len(made) : made[i] = OwnCheck(e, count, e.checks[i])
            /\ i \in 1..Len(e.checks)
    BY <1>2, <2>1
  <2>. HIDE DEF made, own, run
  <2>3. \A i \in 1..Len(made) : \E j \in 1..Len(e.checks) :
            made[i] = OwnCheck(e, count, e.checks[j])
    BY <2>2
  <2>. QED
    BY <1>4, <2>3 DEF made
<1>5. CASE e.fmt # "none"
  <2>1. made = own \o fmt
    BY <1>3, <1>5
  <2>2. Len(run.checks) \in Nat
    BY <1>5, LenProperties DEF Listed
  <2>3. Listed(fmt) /\ Len(fmt) = Len(run.checks)
    <3>. HIDE DEF run
    <3>1. fmt = [i \in 1..Len(run.checks) |-> fmt[i]]
      OBVIOUS
    <3>. HIDE DEF fmt
    <3>. QED
      BY <2>2, <3>1, ListedMap
  <2>4. /\ Len(made) = Len(own) + Len(fmt)
        /\ \A i \in 1..Len(own) : made[i] = own[i]
        /\ \A i \in 1..Len(fmt) : made[Len(own) + i] = fmt[i]
    <3>. HIDE DEF own, fmt, made, run
    <3>1. Listed(own) /\ Listed(fmt)
      BY <1>2, <2>3
    <3>2. /\ Len(own \o fmt) = Len(own) + Len(fmt)
          /\ \A i \in 1..Len(own) : (own \o fmt)[i] = own[i]
          /\ \A i \in 1..Len(fmt) : (own \o fmt)[Len(own) + i] = fmt[i]
      BY <3>1, ListedConcat
    <3>. QED
      BY <2>1, <3>2
  <2>5. \A i \in 1..Len(e.checks) : own[i] = OwnCheck(e, count, e.checks[i])
    OBVIOUS
  <2>6. \A i \in 1..Len(run.checks) : fmt[i] = FormatCheck(e, count, run.checks[i])
    <3>. HIDE DEF run
    <3>. QED
      OBVIOUS
  <2>. HIDE DEF own, fmt, made, run
  <2>7. ASSUME NEW i \in 1..Len(made)
        PROVE  \/ \E j \in 1..Len(e.checks) : made[i] = OwnCheck(e, count, e.checks[j])
               \/ \E j \in 1..Len(run.checks) : made[i] = FormatCheck(e, count, run.checks[j])
    <3>0. Len(made) \in Nat /\ Len(made) = Len(own) + Len(fmt) /\ Len(own) \in Nat
              /\ Len(fmt) \in Nat
      <4>1. Len(own) \in Nat /\ Len(fmt) \in Nat
        BY <1>1, <1>2, <2>2, <2>3
      <4>. QED
        BY <2>4, <4>1
    <3>1. i \in 1..Len(own) \/ i - Len(own) \in 1..Len(fmt)
      BY <3>0
    <3>2. CASE i \in 1..Len(own)
      BY <1>2, <2>4, <2>5, <3>2
    <3>3. CASE i - Len(own) \in 1..Len(fmt)
      <4>1. Len(own) + (i - Len(own)) = i
        BY <1>1, <1>2, <2>2, <2>3, <2>4
      <4>. QED
        BY <2>3, <2>4, <2>6, <3>3, <4>1
    <3>. QED
      BY <3>1, <3>2, <3>3
  <2>8. ASSUME NEW j \in 1..Len(run.checks)
        PROVE  \E i \in 1..Len(made) : made[i] = FormatCheck(e, count, run.checks[j])
    <3>0. Len(made) = Len(own) + Len(fmt) /\ Len(own) \in Nat /\ Len(fmt) \in Nat
              /\ j \in 1..Len(fmt)
      BY <1>1, <1>2, <2>2, <2>3, <2>4
    <3>1. Len(own) + j \in 1..Len(made)
      BY <3>0
    <3>2. made[Len(own) + j] = FormatCheck(e, count, run.checks[j])
      BY <2>4, <2>6, <3>0
    <3>. QED
      BY <3>1, <3>2
  <2>. QED
    BY <1>5, <2>7, <2>8 DEF made, run
<1>. QED
  BY <1>4, <1>5

\* The frame of a library call, and its entry in the table.
LEMMA LibFrame ==
    ASSUME NEW f \in ProgramFrames, f.kind = "lib", f.name \notin {"fputs", "sscanf"}
    PROVE  LET e == HookTable[f.name]
           IN  /\ f.name \in LibCalls /\ f.dirs \in Formatted(f.name)
               /\ f.args \in {<< >>, LibArgs(f.name, f.dirs)} /\ Len(f.args) \in Nat
               /\ HookEntry(e) /\ FmtOf(f.name) = e.fmt
               /\ Len(e.args) \in Nat /\ Len(e.named) \in Nat
               /\ VarPointers(f.name, f.dirs) \in Seq(DirArgs(f.dirs))
               /\ f.args # << >> =>
                     /\ Len(f.args) = Len(e.args) + Len(VarPointers(f.name, f.dirs))
                     /\ \A i \in 1..Len(e.args) : f.args[i] = e.args[i]
                     /\ \A i \in 1..Len(VarPointers(f.name, f.dirs)) :
                           f.args[Len(e.args) + i] = VarPointers(f.name, f.dirs)[i]
               /\ e.fmt # "none" =>
                     /\ LeftOver(e, Len(f.args)) =
                           IF f.args = << >> THEN 0 ELSE Len(VarPointers(f.name, f.dirs)) + 1
                     /\ LeftOver(e, Len(f.args)) \in Nat
<1>. DEFINE e == HookTable[f.name]
            h == f.name
            v == VarPointers(h, f.dirs)
<1>1. /\ h \in LibCalls /\ f.dirs \in Formatted(h) /\ f.args \in {<< >>, LibArgs(h, f.dirs)}
      /\ f.args \in Seq(ArgNames) /\ Len(f.args) \in Nat
  BY LenProperties DEF ProgramFrames, FrameType, FrameFits
<1>2. HookEntry(e)
  BY <1>1, TableSound, LibHooksAssumption
<1>3. FmtOf(h) = e.fmt
  BY DEF FmtOf
<1>4. e.args \in Seq(ArgNames) /\ v \in Seq(DirArgs(f.dirs)) /\ DirArgs(f.dirs) \subseteq ArgNames
  BY <1>1, LibArgsTyped, VarPointersTyped, FormatsTyped
<1>5. Len(e.args) \in Nat /\ Len(e.named) \in Nat
  BY <1>2, LenProperties DEF HookEntry, Listed
<1>6. ASSUME f.args # << >>
      PROVE  /\ Len(f.args) = Len(e.args) + Len(v) /\ Len(v) \in Nat
             /\ \A i \in 1..Len(e.args) : f.args[i] = e.args[i]
             /\ \A i \in 1..Len(v) : f.args[Len(e.args) + i] = v[i]
  <2>1. f.args = e.args \o v
    BY <1>1, <1>6 DEF LibArgs
  <2>2. v \in Seq(ArgNames)
    <3>. HIDE DEF v
    <3>. QED
      BY <1>4
  <2>. HIDE DEF v, e
  <2>. QED
    BY <1>4, <2>1, <2>2, ConcatProperties, LenProperties
<1>7. ASSUME e.fmt # "none"
      PROVE  /\ LeftOver(e, Len(f.args)) = IF f.args = << >> THEN 0 ELSE Len(v) + 1
             /\ LeftOver(e, Len(f.args)) \in Nat
  <2>1. Len(e.args) = Len(e.named) + 1
    BY <1>2, <1>7 DEF HookEntry, FormatIsNext
  <2>. HIDE DEF v, e
  <2>2. CASE f.args = << >>
    BY <2>2 DEF LeftOver
  <2>3. CASE f.args # << >>
    <3>1. Len(f.args) = Len(e.named) + 1 + Len(v) /\ Len(v) \in Nat
      BY <1>5, <1>6, <2>1, <2>3
    <3>2. Len(f.args) # 0
      BY <1>5, <3>1
    <3>3. LeftOver(e, Len(f.args)) = Len(f.args) - Len(e.named)
      BY <3>2 DEF LeftOver
    <3>4. LeftOver(e, Len(f.args)) = Len(v) + 1
      BY <1>5, <3>1, <3>3
    <3>. QED
      BY <2>3, <3>1, <3>4
  <2>. QED
    BY <2>2, <2>3
<1>. HIDE DEF e, v
<1>. QED
  BY <1>1, <1>2, <1>3, <1>4, <1>5, <1>6, <1>7 DEF e, v

\* The interpreter a hook runs.
LEMMA HookRuns ==
    ASSUME NEW f \in ProgramFrames, f.kind = "lib", f.name \notin {"fputs", "sscanf"},
           HookTable[f.name].fmt # "none", NEW inputs \in Int
    PROVE  LET e == HookTable[f.name]
               A == DirArgs(f.dirs) \cup {"format"}
           IN  \E g :
               /\ Runs(g, e.fmt, LeftOver(e, Len(f.args)), IF e.fmt = "scanf" THEN inputs
                       ELSE 0, f.dirs, A)
                      /\ RunOf(e, Len(f.args), inputs, f.dirs) = g[Len(f.dirs)]
<1>. DEFINE e == HookTable[f.name]
            A == DirArgs(f.dirs) \cup {"format"}
            n == LeftOver(e, Len(f.args))
<1>1. e.fmt \in {"printf", "scanf"} /\ n \in Nat /\ f.dirs \in Formatted(f.name)
          /\ f.name \in LibCalls
  BY LibFrame DEF HookEntry, FormatIsNext
<1>2. f.dirs \in Seq(Directives(A)) /\ "format" \in A
  <2>1. f.dirs \in Seq(Directives(DirArgs(f.dirs)))
    BY <1>1, FormatsTyped
  <2>2. Directives(DirArgs(f.dirs)) \subseteq Directives(A)
    BY DEF Directives
  <2>. HIDE DEF A
  <2>3. f.dirs \in Seq(Directives(A))
    BY <2>1, <2>2
  <2>. QED
    BY <2>3 DEF A
<1>. HIDE DEF A, e, n
<1>3. CASE e.fmt = "printf"
  <2>1. PICK g : Runs(g, "printf", n, 0, f.dirs, A) /\ printf_common(n, f.dirs) = g[Len(f.dirs)]
    BY <1>1, <1>2, PrintfRuns
  <2>2. RunOf(e, Len(f.args), inputs, f.dirs) = g[Len(f.dirs)]
    BY <1>3, <2>1 DEF RunOf, n
  <2>3. Runs(g, e.fmt, n, IF e.fmt = "scanf" THEN inputs ELSE 0, f.dirs, A)
    BY <1>3, <2>1
  <2>. QED
    BY <2>2, <2>3 DEF n, e, A
<1>4. CASE e.fmt = "scanf"
  <2>1. PICK g : Runs(g, "scanf", n, inputs, f.dirs, A)
            /\ scanf_common(n, inputs, f.dirs) = g[Len(f.dirs)]
    BY <1>1, <1>2, ScanfRuns
  <2>2. RunOf(e, Len(f.args), inputs, f.dirs) = g[Len(f.dirs)]
    BY <1>4, <2>1 DEF RunOf, n
  <2>3. Runs(g, e.fmt, n, IF e.fmt = "scanf" THEN inputs ELSE 0, f.dirs, A)
    BY <1>4, <2>1
  <2>. QED
    BY <2>2, <2>3 DEF n, e, A
<1>. QED
  BY <1>1, <1>3, <1>4

\* What a hook leaves in hooked: nothing, or the checks of the call on top.
LEMMA HookedAre ==
    ASSUME NEW par, NEW ok, NEW n \in Int, LibHook(par, ok, n)
    PROVE  LET f == Back(frames)
           IN  /\ frames # << >> /\ f.kind = "lib" /\ answer' = Nobody
               /\ n \in IF FmtOf(f.name) = "scanf" /\ ok THEN 1..Len(f.dirs) ELSE {0}
               /\ \/ hooked' = NoChecks
                  \/ /\ should_check /\ ChecksNow(HookTable[f.name], par, ok)
                     /\ hooked'.call.name = f.name /\ hooked'.call.depth = Len(frames)
                     /\ hooked'.call.dirs = f.dirs /\ hooked'.call.stored = n
                     /\ hooked'.made = HookChecks(HookTable[f.name], Len(f.args), n, f.dirs)
<1>1. CASE ~(should_check /\ ChecksNow(HookTable[Back(frames).name], par, ok))
  BY <1>1 DEF LibHook
<1>2. CASE should_check /\ ChecksNow(HookTable[Back(frames).name], par, ok)
  BY <1>2 DEF LibHook, Depth
<1>. QED
  BY <1>1, <1>2

\* The checks of the hook of a call.
LEMMA ChecksOfCall ==
    ASSUME NEW f \in ProgramFrames, f.kind = "lib", f.name \notin {"fputs", "sscanf"},
           NEW n \in Int
    PROVE  LET e == HookTable[f.name]
               made == HookChecks(e, Len(f.args), n, f.dirs)
               run == RunOf(e, Len(f.args), n, f.dirs)
           IN  /\ e.fmt # "none" => Listed(run.checks)
                    /\ \A j \in 1..Len(run.checks) : run.checks[j].kind \in Kinds
               /\ \A i \in 1..Len(made) :
                     \/ \E j \in 1..Len(e.checks) :
                          made[i] = OwnCheck(e, Len(f.args), e.checks[j])
                     \/ e.fmt # "none" /\ \E j \in 1..Len(run.checks) :
                          made[i] = FormatCheck(e, Len(f.args), run.checks[j])
               /\ e.fmt # "none" =>
                     \A j \in 1..Len(run.checks) :
                        \E i \in 1..Len(made) :
                            made[i] = FormatCheck(e, Len(f.args), run.checks[j])
               /\ \A i \in 1..Len(made) : made[i].kind \in Kinds
<1>. DEFINE e == HookTable[f.name]
            made == HookChecks(e, Len(f.args), n, f.dirs)
            run == RunOf(e, Len(f.args), n, f.dirs)
            A == DirArgs(f.dirs) \cup {"format"}
<1>1. AllFiltered(e.checks)
  BY LibFrame DEF HookEntry
<1>2. ASSUME e.fmt # "none"
      PROVE  Listed(run.checks) /\ \A j \in 1..Len(run.checks) : run.checks[j].kind \in Kinds
  <2>1. PICK g : /\ Runs(g, e.fmt, LeftOver(e, Len(f.args)), IF e.fmt = "scanf" THEN n
                         ELSE 0, f.dirs, A)
                 /\ run = g[Len(f.dirs)]
    BY <1>2, HookRuns
  <2>2. Len(f.dirs) \in 0..Len(f.dirs)
    <3>1. f.dirs \in Seq(Directives(DirArgs(f.dirs)))
      BY LibFrame, FormatsTyped
    <3>. QED
      BY <3>1, LenProperties
  <2>. HIDE DEF run, e, A
  <2>3. run \in Progress(A)
    BY <2>1, <2>2 DEF Runs
  <2>4. run.checks \in Seq([kind : Kinds, arg : A, slot : Nat])
    BY <2>3 DEF Progress
  <2>5. \A j \in 1..Len(run.checks) : run.checks[j] \in [kind : Kinds, arg : A, slot : Nat]
    BY <2>4, ElementOfSeq
  <2>6. Listed(run.checks)
    <3>. DEFINE s == run.checks
    <3>1. s = [i \in 1..Len(s) |-> s[i]] /\ Len(s) \in Nat
      BY <2>4, LenProperties
    <3>. HIDE DEF s
    <3>. QED
      BY <3>1, ListedMap DEF s
  <2>. QED
    BY <2>5, <2>6
<1>. HIDE DEF run, e, made
<1>3. /\ \A i \in 1..Len(made) :
            \/ \E j \in 1..Len(e.checks) : made[i] = OwnCheck(e, Len(f.args), e.checks[j])
            \/ e.fmt # "none" /\ \E j \in 1..Len(run.checks) :
                 made[i] = FormatCheck(e, Len(f.args), run.checks[j])
      /\ e.fmt # "none" =>
            \A j \in 1..Len(run.checks) : \E i \in 1..Len(made) :
                made[i] = FormatCheck(e, Len(f.args), run.checks[j])
  BY <1>1, <1>2, HookMakes DEF made, run, AllFiltered
<1>4. \A j \in 1..Len(e.checks) : e.checks[j].kind \in Kinds
  BY <1>1 DEF AllFiltered, Filtered
<1>5. /\ \A c : OwnCheck(e, Len(f.args), c).kind = c.kind
      /\ \A c : FormatCheck(e, Len(f.args), c).kind = c.kind
  BY DEF OwnCheck, FormatCheck
<1>6. \A i \in 1..Len(made) : made[i].kind \in Kinds
  <2>. TAKE i \in 1..Len(made)
  <2>1. CASE \E j \in 1..Len(e.checks) : made[i] = OwnCheck(e, Len(f.args), e.checks[j])
    <3>1. PICK j \in 1..Len(e.checks) : made[i] = OwnCheck(e, Len(f.args), e.checks[j])
      BY <2>1
    <3>2. made[i].kind = e.checks[j].kind
      BY <1>5, <3>1
    <3>. QED
      BY <1>4, <3>2
  <2>2. CASE e.fmt # "none" /\ \E j \in 1..Len(run.checks) :
            made[i] = FormatCheck(e, Len(f.args), run.checks[j])
    <3>1. PICK j \in 1..Len(run.checks) : made[i] = FormatCheck(e, Len(f.args), run.checks[j])
      BY <2>2
    <3>2. made[i].kind = run.checks[j].kind
      BY <1>5, <3>1
    <3>. QED
      BY <1>2, <2>2, <3>2
  <2>. QED
    BY <1>3, <2>1, <2>2
<1>. QED
  BY <1>2, <1>3, <1>6 DEF run, e, made

\* The calls the theorems are about: README.md, "Known disagreements".
KnownHooks == LibCalls \cap {"fputs", "sscanf"} = {}

\* Every step keeps the invariant of the stacks.
LEMMA StackInvStep ==
    ASSUME KnownHooks
    PROVE  StackInv /\ HookedKinds /\ [LibNext]_lvars => (StackInv /\ HookedKinds)'
<1>. HAVE StackInv /\ HookedKinds /\ [LibNext]_lvars
<1>1. ASSUME hooked' = NoChecks PROVE HookedKinds'
  <2>1. Len(NoChecks.made) = 0
    BY DEF NoChecks
  <2>. QED
    BY <1>1, <2>1 DEF HookedKinds
<1>2. CASE \/ \E g \in Funcs : CallUser(g) \/ Callback(g)
           \/ CallExternal
           \/ \E h \in LibCalls : \E ds \in Formatted(h) : CallLib(h, ds)
  <2>1. hooked' = NoChecks
    BY <1>2 DEF CallUser, Callback, CallExternal, CallLib, Push, Forget
  <2>. QED
    BY <1>1, <1>2, <2>1, CallsKeep
<1>3. CASE Return
  <2>1. hooked' = NoChecks
    BY <1>3 DEF Return, Forget
  <2>. QED
    BY <1>1, <1>3, <2>1, ReturnKeeps
<1>4. CASE disable_checking \/ enable_checking
  <2>1. hooked' = NoChecks
    BY <1>4 DEF disable_checking, enable_checking, Forget
  <2>. QED
    BY <1>1, <1>4, <2>1, TogglesKeep
<1>5. CASE \E i \in 0..NArgs - 1 : AskMAAP(i)
  <2>1. hooked' = NoChecks /\ UNCHANGED <<MAAPs, MAAP_counts, frames, disabled_at>>
    BY <1>5 DEF AskMAAP
  <2>2. StackInv'
    BY <2>1 DEF StackInv, FramesGood, DisabledGood, OffExact, StacksExact, PushesOf, CountsOf
  <2>. QED
    BY <1>1, <2>1, <2>2
<1>6. CASE \E par, ok \in BOOLEAN, n \in 0..2 : LibHook(par, ok, n)
  <2>1. PICK par \in BOOLEAN, ok \in BOOLEAN, n \in 0..2 : LibHook(par, ok, n)
    BY <1>6
  <2>2. StackInv'
    BY <2>1, HookKeeps DEF KnownHooks
  <2>. DEFINE f == Back(frames)
  <2>3. /\ frames # << >> /\ f.kind = "lib"
        /\ \/ hooked' = NoChecks
           \/ hooked'.made = HookChecks(HookTable[f.name], Len(f.args), n, f.dirs)
    BY <2>1, HookedAre
  <2>4. f \in ProgramFrames
    BY <2>3, TopFrame
  <2>. HIDE DEF f
  <2>5. f.name \notin {"fputs", "sscanf"}
    BY <2>3, <2>4 DEF ProgramFrames, FrameFits, KnownHooks
  <2>6. \A i \in 1..Len(HookChecks(HookTable[f.name], Len(f.args), n, f.dirs)) :
            HookChecks(HookTable[f.name], Len(f.args), n, f.dirs)[i].kind \in Kinds
    BY <2>3, <2>4, <2>5, ChecksOfCall
  <2>7. HookedKinds'
    BY <1>1, <2>3, <2>6 DEF HookedKinds
  <2>. QED
    BY <2>2, <2>7
<1>7. CASE UNCHANGED lvars
  BY <1>7
  DEF lvars, StackInv, FramesGood, DisabledGood, OffExact, StacksExact, HookedKinds, PushesOf,
      CountsOf
<1>. QED
  BY <1>2, <1>3, <1>4, <1>5, <1>6, <1>7 DEF LibNext, Formatted

\* MAAPsBalanced follows.
LEMMA StackInvBalanced == StackInv /\ HookedKinds => MAAPsBalanced
<1>. HAVE StackInv /\ HookedKinds
<1>1. MAAPs \in Seq(MAAPEntry) /\ MAAP_counts \in Seq(0..NArgs)
  BY StacksTyped
<1>2. (\A i \in 1..Len(MAAPs) : MAAPs[i] \in MAAPEntry)
          /\ \A i \in 1..Len(MAAP_counts) : MAAP_counts[i] \in 0..NArgs
  BY <1>1, ElementOfSeq
<1>3. /\ Len(frames) <= MaxDepth /\ Len(frames) \in Nat
      /\ \A i \in 1..Len(disabled_at) : disabled_at[i] \in 0..Len(frames)
  <2>1. Len(frames) <= MaxDepth /\ Len(frames) \in Nat
    BY LenProperties DEF StackInv, FramesGood
  <2>2. \A i \in 1..Len(disabled_at) : disabled_at[i] \in Nat /\ disabled_at[i] <= Len(frames)
    BY ElementOfSeq DEF StackInv, DisabledGood
  <2>. QED
    BY <2>1, <2>2
<1>4. LibTypeOK
  BY <1>2, <1>3 DEF LibTypeOK, Depth, HookedKinds, Kinds
<1>5. MAAPs = FlattenSeq([d \in 1..Depth |-> PushedFor(d)])
  <2>1. PushesOf(frames) = FlattenSeq([d \in 1..Depth |-> PushedFor(d)])
    BY DEF PushesOf, PushedFor, FramePushes, Depth
  <2>. QED
    BY <2>1 DEF StackInv, StacksExact
<1>6. MAAP_counts = <<0>> \o FlattenSeq([d \in 1..Depth |-> CountsFor(d)])
  <2>1. CountsOf(frames) = FlattenSeq([d \in 1..Depth |-> CountsFor(d)])
    BY DEF CountsOf, CountsFor, FrameCounts, Depth
  <2>. QED
    BY <2>1 DEF StackInv, StacksExact
<1>. QED
  BY <1>4, <1>5, <1>6 DEF MAAPsBalanced

\* The stacks of MAAPs and counts hold those of the calls in progress and nothing else: what a hook
\* of libhooks.cpp or after_call (driver.cpp) pops is what its own call pushed.
THEOREM StacksBalanced ==
    ASSUME KnownHooks
    PROVE  LibSpec => []MAAPsBalanced
<1>1. LibInit => StackInv /\ HookedKinds
  BY StackInvInit
<1>2. StackInv /\ HookedKinds /\ [LibNext]_lvars => (StackInv /\ HookedKinds)'
  BY StackInvStep
<1>3. StackInv /\ HookedKinds => MAAPsBalanced
  BY StackInvBalanced
<1>. QED
  BY <1>1, <1>2, <1>3, PTL DEF LibSpec

(***************************************************************************)
(* The MAAPs an interpreter takes. As long as no string is null it takes   *)
(* one for each pointer argument, so each check holds the one of its       *)
(* argument.                                                               *)
(***************************************************************************)
\* Prefixes.
Begins(x, y) == Len(x) <= Len(y) /\ \A k \in 1..Len(x) : y[k] = x[k]

\* They stay prefixes when something is added at the end.
LEMMA BeginsConcat ==
    ASSUME NEW T, NEW x \in Seq(T), NEW a \in Seq(T), NEW b \in Seq(T), Begins(x, a)
    PROVE  Begins(x, a \o b)
<1>1. /\ Len(a \o b) = Len(a) + Len(b) /\ Len(a) \in Nat /\ Len(b) \in Nat /\ Len(x) \in Nat
      /\ \A k \in 1..Len(a) : (a \o b)[k] = a[k]
  BY ConcatProperties, LenProperties
<1>2. Len(x) <= Len(a)
  BY DEF Begins
<1>3. \A k \in 1..Len(x) : k \in 1..Len(a)
  BY <1>1, <1>2
<1>4. Len(x) <= Len(a \o b)
  BY <1>1, <1>2
<1>. QED
  BY <1>1, <1>3, <1>4 DEF Begins

\* Partial results of FlattenSeq are prefixes of the later ones.
LEMMA FlattensPrefix ==
    ASSUME NEW T, NEW s \in Seq(Seq(T)), NEW q, Flattens(q, s, T), NEW n \in 0..Len(s)
    PROVE  \A m \in n..Len(s) : Begins(q[n], q[m])
<1>. DEFINE N == Len(s)
            S == {i \in 0..(N - n) : Begins(q[n], q[n + i])}
<1>1. N \in Nat /\ N - n \in Nat /\ n \in Nat
  BY LenProperties
<1>2. /\ \A m \in 0..N : q[m] \in Seq(T) /\ Len(q[m]) \in Nat
      /\ \A m \in 1..N : q[m] = q[m - 1] \o s[m]
  BY LenProperties DEF Flattens
<1>3. 0 \in S
  <2>1. n + 0 = n /\ 0 \in 0..(N - n)
    BY <1>1
  <2>2. Begins(q[n], q[n])
    BY <1>2 DEF Begins
  <2>. QED
    BY <2>1, <2>2
<1>4. ASSUME NEW i \in 0..((N - n) - 1), i \in S PROVE i + 1 \in S
  <2>. DEFINE m == n + i
              l == m + 1
  <2>1. l \in 1..N /\ m \in 0..N /\ l - 1 = m /\ n + (i + 1) = l /\ i + 1 \in 0..(N - n)
    BY <1>1
  <2>2. Begins(q[n], q[m])
    BY <1>4
  <2>3. i + 1 \in S <=> Begins(q[n], q[l])
    <3>. HIDE DEF l
    <3>. QED
      BY <2>1
  <2>. HIDE DEF m, l, S
  <2>4. q[l] = q[m] \o s[l] /\ s[l] \in Seq(T) /\ q[m] \in Seq(T) /\ q[n] \in Seq(T)
    BY <1>2, <2>1, ElementOfSeq
  <2>5. Begins(q[n], q[m] \o s[l])
    BY <2>2, <2>4, BeginsConcat
  <2>. QED
    BY <2>3, <2>4, <2>5
<1>5. \A i \in 0..(N - n) : i \in S
  <2>. HIDE DEF S
  <2>. QED
    BY <1>1, <1>3, <1>4, UpTo
<1>6. ASSUME NEW m \in n..N PROVE Begins(q[n], q[m])
  <2>1. m - n \in 0..(N - n) /\ n + (m - n) = m
    BY <1>1
  <2>2. Begins(q[n], q[n + (m - n)])
    BY <1>5, <2>1
  <2>. QED
    BY <2>1, <2>2
<1>. QED
  BY <1>6

\* A check of the format, or of a variable argument, holds the MAAP of that argument.
SlotFits(c, v) ==
    \/ c.slot = 0
    \/ c.slot = 1 /\ c.arg = "format"
    \/ c.slot - 1 \in 1..Len(v) /\ v[c.slot - 1] = c.arg

\* All of them.
SlotsFit(checks, v) == \A j \in 1..Len(checks) : SlotFits(checks[j], v)

\* What CHECK_READ_RANGE and CHECK_WRITE_RANGE leave.
RangeChecked(t, st, count, kind, arg) ==
    /\ t.over = st.over /\ t.inputs = st.inputs
    /\ t.used = IF st.used < count THEN st.used + 1 ELSE st.used
    /\ Len(t.checks) = Len(st.checks) + 1 /\ Len(st.checks) \in Nat
    /\ t.checks[Len(st.checks) + 1] =
           [kind |-> kind, arg |-> arg, slot |-> IF st.used < count THEN st.used + 1 ELSE 0]
    /\ \A j \in 1..Len(st.checks) : t.checks[j] = st.checks[j]

\* They leave it.
LEMMA CheckRangeIs ==
    ASSUME NEW A, NEW count \in Nat, NEW st \in Progress(A), NEW kind, NEW arg
    PROVE  RangeChecked(CheckRange(count, st, kind, arg), st, count, kind, arg)
<1>. DEFINE t == CheckRange(count, st, kind, arg)
            slot == IF st.used < count THEN st.used + 1 ELSE 0
            c == [kind |-> kind, arg |-> arg, slot |-> slot]
<1>1. st.checks \in Seq([kind : Kinds, arg : A, slot : Nat])
  BY DEF Progress
<1>2. /\ t.checks = Append(st.checks, c)
      /\ t.over = st.over /\ t.inputs = st.inputs
      /\ t.used = IF st.used < count THEN st.used + 1 ELSE st.used
  BY DEF CheckRange, Progress
<1>. HIDE DEF t, c
<1>3. /\ Len(Append(st.checks, c)) = Len(st.checks) + 1 /\ Len(st.checks) \in Nat
      /\ Append(st.checks, c)[Len(st.checks) + 1] = c
      /\ \A j \in 1..Len(st.checks) : Append(st.checks, c)[j] = st.checks[j]
  BY <1>1
<1>. QED
  BY <1>2, <1>3 DEF t, c, RangeChecked

\* An interpreter that got through its arguments has used up the MAAPs of these.
Consumed(t, v, k, P) == SlotsFit(t.checks, v) /\ (~t.over => t.used = 1 + k + Len(P))

\* A directive uses up the MAAP of its argument.
LEMMA DirectiveSlots ==
    ASSUME NEW A, NEW fmt \in {"printf", "scanf"}, NEW v, Len(v) \in Nat, NEW st \in Progress(A),
           NEW d \in Directives(A),
           NEW k \in Nat, ~(d.null /\ d.conv \in {"s", "ls"}),
           SlotsFit(st.checks, v), ~st.over => st.used = 1 + k,
           PointerArgs(fmt, d) = <<d.arg>> => k + 1 \in 1..Len(v) /\ v[k + 1] = d.arg
    PROVE  Consumed(Directed(fmt, Len(v) + 1, st, d), v, k, PointerArgs(fmt, d))
<1>. DEFINE count == Len(v) + 1
            t == Directed(fmt, count, st, d)
            P == PointerArgs(fmt, d)
            Fine(x) == SlotsFit(x.checks, v) /\ (~x.over => x.used = 1 + k + Len(P))
<1>0. /\ d.conv \in {"d", "p", "s", "ls", "n", "m", "bad", "1$"} /\ d.star \in BOOLEAN
      /\ d.null \in BOOLEAN
      /\ st.used \in Nat /\ st.inputs \in Int /\ st.over \in BOOLEAN /\ count \in Nat
  BY DEF Directives, Progress
<1>1. P \in {<< >>, <<d.arg>>} /\ Len(<< >>) = 0 /\ Len(<<d.arg>>) = 1
  BY DEF PointerArgs
<1>2. [st EXCEPT !.over = TRUE].checks = st.checks /\ [st EXCEPT !.over = TRUE].over = TRUE
  BY DEF Progress
<1>3. Fine([st EXCEPT !.over = TRUE])
  BY <1>2
<1>4. st.over => Fine(st)
  OBVIOUS
<1>5. P = << >> => Fine(st)
  BY <1>1
<1>6. ASSUME P = <<d.arg>>, ~st.over, NEW kind \in Kinds, NEW i \in Int
      PROVE  Fine(CheckRange(count, [st EXCEPT !.inputs = i], kind, d.arg))
  <2>. DEFINE s == [st EXCEPT !.inputs = i]
              x == CheckRange(count, s, kind, d.arg)
  <2>1. s \in Progress(A) /\ s.checks = st.checks /\ s.used = st.used /\ s.over = st.over
    BY DEF Progress
  <2>2. s.used < count /\ s.used + 1 = k + 2 /\ k + 1 \in 1..Len(v) /\ v[k + 1] = d.arg
            /\ s.used = 1 + k
    BY <1>0, <1>6, <2>1
  <2>. HIDE DEF s, count
  <2>3. /\ x.over = s.over /\ x.used = s.used + 1
        /\ Len(x.checks) = Len(s.checks) + 1 /\ Len(s.checks) \in Nat
        /\ x.checks[Len(s.checks) + 1] = [kind |-> kind, arg |-> d.arg, slot |-> s.used + 1]
        /\ \A j \in 1..Len(s.checks) : x.checks[j] = s.checks[j]
    <3>1. RangeChecked(x, s, count, kind, d.arg)
      BY <1>0, <2>1, CheckRangeIs
    <3>. HIDE DEF x
    <3>. QED
      BY <2>2, <3>1 DEF RangeChecked
  <2>. HIDE DEF x
  <2>4. SlotFits(x.checks[Len(s.checks) + 1], v)
    <3>1. x.checks[Len(s.checks) + 1].slot = k + 2 /\ x.checks[Len(s.checks) + 1].arg = d.arg
      BY <2>2, <2>3
    <3>2. (k + 2) - 1 = k + 1
      OBVIOUS
    <3>. QED
      BY <2>2, <3>1, <3>2 DEF SlotFits
  <2>5. \A j \in 1..Len(x.checks) : j \in 1..Len(s.checks) \/ j = Len(s.checks) + 1
    BY <2>3
  <2>6. SlotsFit(x.checks, v)
    BY <2>1, <2>3, <2>4, <2>5 DEF SlotsFit
  <2>7. x.used = 1 + k + Len(P)
    BY <1>1, <1>6, <2>2, <2>3
  <2>. QED
    BY <2>6, <2>7 DEF x, s
<1>7. ASSUME P = <<d.arg>>, ~st.over, NEW kind \in Kinds
      PROVE Fine(CheckRange(count, st, kind, d.arg))
  <2>1. [st EXCEPT !.inputs = st.inputs] = st
    BY DEF Progress
  <2>. HIDE DEF Fine, P
  <2>. QED
    BY <1>0, <1>6, <1>7, <2>1
<1>8. "write" \in Kinds /\ "read" \in Kinds /\ "nothing" \in Kinds
  BY DEF Kinds
<1>9. ASSUME P = <<d.arg>>, ~st.over, d.conv = "p" PROVE Fine(SkipScalarArg(count, st, d.conv))
  <2>1. st.used < count
    BY <1>0, <1>9
  <2>2. SkipScalarArg(count, st, d.conv) = [st EXCEPT !.used = @ + 1]
    BY <1>9, <2>1 DEF SkipScalarArg
  <2>3. LET x == [st EXCEPT !.used = @ + 1] IN x.checks = st.checks /\ x.used = st.used + 1
    BY DEF Progress
  <2>4. st.used + 1 = 1 + k + Len(P)
    BY <1>0, <1>1, <1>9
  <2>. QED
    BY <2>2, <2>3, <2>4
<1>10. ASSUME fmt = "printf" PROVE Fine(t)
  <2>1. t = printf_directive(count, st, d)
    BY <1>10 DEF Directed
  <2>2. d.conv \in {"bad", "1$", "m"} => P = << >>
    BY DEF PointerArgs
  <2>3. d.conv = "d" => P = << >>
    BY <1>10 DEF PointerArgs
  <2>4. d.conv \in {"n", "s", "ls", "p"} => P = <<d.arg>>
    BY <1>10 DEF PointerArgs
  <2>5. d.conv = "d" => SkipScalarArg(count, st, d.conv) = st
    BY DEF SkipScalarArg
  <2>. HIDE DEF Fine, P, count, t
  <2>6. ASSUME st.over PROVE Fine(t)
    BY <1>4, <2>1, <2>6 DEF printf_directive
  <2>7. ASSUME ~st.over /\ d.conv \in {"bad", "1$"} PROVE Fine(t)
    BY <1>3, <2>1, <2>7 DEF printf_directive
  <2>8. ASSUME ~st.over /\ d.conv = "m" PROVE Fine(t)
    BY <1>5, <2>1, <2>2, <2>8 DEF printf_directive
  <2>9. ASSUME ~st.over /\ d.conv = "n" PROVE Fine(t)
    BY <1>7, <1>8, <2>1, <2>4, <2>9 DEF printf_directive
  <2>10. ASSUME ~st.over /\ d.conv = "s" PROVE Fine(t)
    BY <1>7, <1>8, <2>1, <2>4, <2>10 DEF printf_directive
  <2>11. ASSUME ~st.over /\ d.conv = "ls" PROVE Fine(t)
    <3>1. t = CheckRange(count, st, "nothing", d.arg)
      BY <2>1, <2>11 DEF printf_directive
    <3>. QED
      BY <1>7, <1>8, <2>4, <2>11, <3>1
  <2>12. ASSUME ~st.over /\ d.conv = "d" PROVE Fine(t)
    BY <1>5, <2>1, <2>3, <2>5, <2>12 DEF printf_directive
  <2>13. ASSUME ~st.over /\ d.conv = "p" PROVE Fine(t)
    BY <1>9, <2>1, <2>4, <2>13 DEF printf_directive
  <2>14. Fine(t)
    BY <1>0, <2>6, <2>7, <2>8, <2>9, <2>10, <2>11, <2>12, <2>13
  <2>. QED
    BY <2>14 DEF Fine, P, count, t
<1>11. ASSUME fmt = "scanf" PROVE Fine(t)
  <2>. DEFINE left == IF d.conv = "n" THEN st.inputs ELSE st.inputs - 1
              kind == IF d.conv = "ls" THEN "nothing" ELSE "write"
  <2>1. t = scanf_directive(count, st, d)
    BY <1>11 DEF Directed
  <2>2. d.star => P = << >>
    BY <1>11 DEF PointerArgs
  <2>3. d.conv \notin {"bad", "1$", "m"} /\ ~d.star => P = <<d.arg>>
    BY <1>11 DEF PointerArgs
  <2>4. left \in Int /\ kind \in Kinds
    BY <1>0, <1>8
  <2>5. ASSUME ~st.over, ~d.star, d.conv \notin {"bad", "1$", "m"}
        PROVE  Fine(CheckRange(count, [st EXCEPT !.inputs = left], kind, d.arg))
    <3>. HIDE DEF Fine, P, count, left, kind
    <3>. QED
      BY <1>6, <2>3, <2>4, <2>5
  <2>. HIDE DEF Fine, P, count, t
  <2>6. ASSUME st.over PROVE Fine(t)
    <3>1. t = st
      BY <2>1, <2>6 DEF scanf_directive
    <3>. QED
      BY <1>4, <2>6, <3>1
  <2>7. ASSUME ~st.over /\ d.conv = "1$" PROVE Fine(t)
    BY <1>3, <2>1, <2>7 DEF scanf_directive
  <2>8. ASSUME ~st.over /\ d.conv # "1$" /\ d.star PROVE Fine(t)
    BY <1>5, <2>1, <2>2, <2>8 DEF scanf_directive
  <2>9. ASSUME ~st.over /\ d.conv \in {"bad", "m"} /\ ~d.star PROVE Fine(t)
    BY <1>3, <2>1, <2>9 DEF scanf_directive
  <2>10. ASSUME ~st.over /\ ~d.star /\ d.conv \notin {"bad", "1$", "m"} PROVE Fine(t)
    <3>1. t = IF left < 0 THEN [st EXCEPT !.over = TRUE]
              ELSE CheckRange(count, [st EXCEPT !.inputs = left], kind, d.arg)
      BY <2>1, <2>10 DEF scanf_directive
    <3>. HIDE DEF left, kind
    <3>. QED
      BY <1>3, <2>5, <2>10, <3>1
  <2>11. Fine(t)
    BY <1>0, <2>6, <2>7, <2>8, <2>9, <2>10
  <2>. QED
    BY <2>11 DEF Fine, P, count, t
<1>12. Fine(t)
  <2>. HIDE DEF t, P, count
  <2>. QED
    BY <1>10, <1>11
<1>. QED
  BY <1>12 DEF Consumed

\* Without MAAPs no check holds one.
LEMMA RunWithoutMAAPs ==
    ASSUME NEW A, NEW fmt \in {"printf", "scanf"}, NEW inputs \in Int,
           NEW dirs \in Seq(Directives(A)),
           NEW g, Runs(g, fmt, 0, inputs, dirs, A)
    PROVE  \A j \in 1..Len(g[Len(dirs)].checks) : g[Len(dirs)].checks[j].slot = 0
<1>. DEFINE N == Len(dirs)
            Bare(st) == \A j \in 1..Len(st.checks) : st.checks[j].slot = 0
            S == {n \in 0..N : Bare(g[n])}
<1>1. N \in Nat /\ \A n \in 1..N : dirs[n] \in Directives(A)
  BY ElementOfSeq, LenProperties
<1>2. ASSUME NEW st \in Progress(A), Bare(st), NEW kind, NEW arg
      PROVE Bare(CheckRange(0, st, kind, arg))
  <2>. DEFINE t == CheckRange(0, st, kind, arg)
  <2>1. RangeChecked(t, st, 0, kind, arg)
    BY CheckRangeIs
  <2>2. ~(st.used < 0)
    BY DEF Progress
  <2>. HIDE DEF t
  <2>3. /\ Len(t.checks) = Len(st.checks) + 1 /\ Len(st.checks) \in Nat
        /\ t.checks[Len(st.checks) + 1].slot = 0
        /\ \A j \in 1..Len(st.checks) : t.checks[j] = st.checks[j]
    BY <2>1, <2>2 DEF RangeChecked
  <2>4. \A j \in 1..Len(t.checks) : j \in 1..Len(st.checks) \/ j = Len(st.checks) + 1
    BY <2>3
  <2>5. Bare(t)
    BY <1>2, <2>3, <2>4
  <2>. QED
    BY <2>5 DEF t
<1>3. ASSUME NEW st \in Progress(A), Bare(st), NEW d \in Directives(A)
      PROVE Bare(Directed(fmt, 0, st, d))
  <2>1. Bare([st EXCEPT !.over = TRUE]) /\ Bare([st EXCEPT !.used = @ + 1])
    BY <1>3 DEF Progress
  <2>2. \A i \in Int : [st EXCEPT !.inputs = i] \in Progress(A) /\ Bare([st EXCEPT !.inputs = i])
    BY <1>3 DEF Progress
  <2>3. st.inputs \in Int
    BY DEF Progress
  <2>. HIDE DEF Bare
  <2>4. \A i \in Int : \A kind : Bare(CheckRange(0, [st EXCEPT !.inputs = i], kind, d.arg))
    BY <1>2, <2>2
  <2>5. \A kind : Bare(CheckRange(0, st, kind, d.arg))
    BY <1>2, <1>3
  <2>6. Bare(printf_directive(0, st, d))
    <3>1. Bare(SkipScalarArg(0, st, d.conv))
      BY <1>3, <2>1 DEF SkipScalarArg
    <3>. QED
      BY <1>3, <2>1, <2>5, <3>1 DEF printf_directive
  <2>7. Bare(scanf_directive(0, st, d))
    <3>. DEFINE left == IF d.conv = "n" THEN st.inputs ELSE st.inputs - 1
                kind == IF d.conv = "ls" THEN "nothing" ELSE "write"
    <3>1. left \in Int
      BY <2>3
    <3>2. Bare(CheckRange(0, [st EXCEPT !.inputs = left], kind, d.arg))
      <4>. HIDE DEF left, kind
      <4>. QED
        BY <2>4, <3>1
    <3>. QED
      BY <1>3, <2>1, <3>2 DEF scanf_directive
  <2>. QED
    BY <2>6, <2>7 DEF Directed
<1>4. /\ \A n \in 0..N : g[n] \in Progress(A)
      /\ g[0] = Begun(0, inputs) /\ \A n \in 1..N : g[n] = Directed(fmt, 0, g[n - 1], dirs[n])
  BY DEF Runs
<1>5. 0 \in S
  <2>1. [Start EXCEPT !.inputs = inputs].checks = << >> /\ Len(<< >>) = 0
    BY DEF Start
  <2>2. [Start EXCEPT !.inputs = inputs] \in Progress(A)
    <3>1. << >> \in Seq([kind : Kinds, arg : A, slot : Nat])
      BY EmptySeq
    <3>. QED
      BY <3>1 DEF Start, Progress
  <2>3. Bare([Start EXCEPT !.inputs = inputs])
    BY <2>1
  <2>. HIDE DEF Bare
  <2>4. Bare(g[0])
    BY <1>2, <1>4, <2>2, <2>3 DEF Begun
  <2>. QED
    BY <1>1, <2>4
<1>6. ASSUME NEW n \in 0..(N - 1), n \in S PROVE n + 1 \in S
  <2>. DEFINE m == n + 1
  <2>1. m \in 1..N /\ m \in 0..N /\ m - 1 = n /\ n \in 0..N
    BY <1>1
  <2>2. Bare(g[n])
    BY <1>6
  <2>. HIDE DEF Bare, m
  <2>3. Bare(g[m])
    BY <1>1, <1>3, <1>4, <2>1, <2>2
  <2>4. m \in S
    BY <2>1, <2>3
  <2>. QED
    BY <2>4 DEF m
<1>7. N \in S
  <2>. HIDE DEF S
  <2>1. \A n \in 0..N : n \in S
    BY <1>1, <1>5, <1>6, UpTo
  <2>. QED
    BY <1>1, <2>1
<1>. QED
  BY <1>7

\* With one for each pointer argument, each check holds the one of its argument.
LEMMA RunSlots ==
    ASSUME NEW A, NEW fmt \in {"printf", "scanf"}, NEW inputs \in Int,
           NEW dirs \in Seq(Directives(A)),
           ~NullString(dirs), NEW v,
           v = FlattenSeq([i \in 1..Len(dirs) |-> PointerArgs(fmt, dirs[i])]),
           NEW g, Runs(g, fmt, Len(v) + 1, inputs, dirs, A)
    PROVE  SlotsFit(g[Len(dirs)].checks, v)
<1>. DEFINE N == Len(dirs)
            p == [i \in 1..N |-> PointerArgs(fmt, dirs[i])]
<1>1. N \in Nat /\ \A n \in 1..N : dirs[n] \in Directives(A)
  BY ElementOfSeq, LenProperties
<1>2. p \in Seq(Seq(A)) /\ Len(p) = N /\ \A i \in 1..N : p[i] = PointerArgs(fmt, dirs[i])
          /\ p[i] \in Seq(A)
  <2>1. \A i \in 1..N : PointerArgs(fmt, dirs[i]) \in Seq(A)
    <3>. TAKE i \in 1..N
    <3>1. dirs[i].arg \in A
      BY <1>1 DEF Directives
    <3>2. << >> \in Seq(A) /\ <<dirs[i].arg>> \in Seq(A)
      BY <3>1
    <3>. QED
      BY <3>2 DEF PointerArgs
  <2>. QED
    BY <1>1, <2>1
<1>. HIDE DEF p
<1>3. PICK q : Flattens(q, p, A)
  BY <1>2, FlattensExist
<1>4. v = q[N] /\ v \in Seq(A) /\ Len(v) \in Nat
  <2>1. v = q[N]
    BY <1>2, <1>3, FlattensTo DEF p
  <2>2. q[N] \in Seq(A)
    BY <1>1, <1>2, <1>3 DEF Flattens
  <2>. QED
    BY <2>1, <2>2, LenProperties
<1>5. /\ \A n \in 0..N : q[n] \in Seq(A) /\ Len(q[n]) \in Nat /\ Begins(q[n], v)
      /\ q[0] = << >> /\ \A n \in 1..N : q[n] = q[n - 1] \o p[n]
  <2>1. \A n \in 0..N : Begins(q[n], v)
    <3>. TAKE n \in 0..N
    <3>1. N \in n..N
      BY <1>1
    <3>. QED
      BY <1>2, <1>3, <1>4, <3>1, FlattensPrefix
  <2>. QED
    BY <1>2, <1>3, <2>1, LenProperties DEF Flattens
<1>. DEFINE Good(n) == SlotsFit(g[n].checks, v) /\ (~g[n].over => g[n].used = 1 + Len(q[n]))
            S == {n \in 0..N : Good(n)}
<1>6. /\ \A n \in 0..N : g[n] \in Progress(A)
      /\ g[0] = Begun(Len(v) + 1, inputs)
      /\ \A n \in 1..N : g[n] = Directed(fmt, Len(v) + 1, g[n - 1], dirs[n])
  BY DEF Runs
<1>7. 0 \in S
  <2>. DEFINE st == [Start EXCEPT !.inputs = inputs]
              c == Len(v) + 1
  <2>1. st.checks = << >> /\ Len(<< >>) = 0 /\ st.used = 0 /\ ~st.over
    BY DEF Start
  <2>2. st \in Progress(A)
    <3>1. << >> \in Seq([kind : Kinds, arg : A, slot : Nat])
      BY EmptySeq
    <3>. QED
      BY <3>1 DEF Start, Progress
  <2>3. c \in Nat /\ c > 0
    BY <1>4
  <2>. HIDE DEF st, c
  <2>4. RangeChecked(g[0], st, c, "read", "format")
    BY <1>6, <2>2, <2>3, CheckRangeIs DEF Begun, st, c
  <2>5. /\ Len(g[0].checks) = 1 /\ g[0].used = 1
        /\ g[0].checks[1] = [kind |-> "read", arg |-> "format", slot |-> 1]
    BY <2>1, <2>3, <2>4 DEF RangeChecked
  <2>6. SlotsFit(g[0].checks, v)
    <3>1. \A j \in 1..Len(g[0].checks) : j = 1
      BY <2>5
    <3>2. g[0].checks[1].slot = 1 /\ g[0].checks[1].arg = "format"
      BY <2>5
    <3>. QED
      BY <3>1, <3>2 DEF SlotsFit, SlotFits
  <2>7. g[0].used = 1 + Len(q[0])
    BY <1>5, <2>1, <2>5
  <2>. QED
    BY <1>1, <2>6, <2>7
<1>8. ASSUME NEW n \in 0..(N - 1), n \in S PROVE n + 1 \in S
  <2>. DEFINE m == n + 1
              d == dirs[m]
              k == Len(q[n])
  <2>1. m \in 1..N /\ m \in 0..N /\ m - 1 = n /\ n \in 0..N
    BY <1>1
  <2>2. Good(n)
    BY <1>8
  <2>. HIDE DEF m, S
  <2>3. d \in Directives(A) /\ ~(d.null /\ d.conv \in {"s", "ls"})
    BY <1>1, <2>1 DEF NullString
  <2>4. q[m] = q[n] \o PointerArgs(fmt, d) /\ PointerArgs(fmt, d) \in Seq(A) /\ q[n] \in Seq(A)
            /\ k \in Nat
    BY <1>2, <1>5, <2>1
  <2>. HIDE DEF d, k
  <2>5. /\ Len(q[m]) = k + Len(PointerArgs(fmt, d)) /\ Len(PointerArgs(fmt, d)) \in Nat
        /\ \A i \in 1..Len(PointerArgs(fmt, d)) : q[m][k + i] = PointerArgs(fmt, d)[i]
    <3>1. \A a, b \in Seq(A) :
             /\ Len(a \o b) = Len(a) + Len(b) /\ Len(b) \in Nat
             /\ \A i \in 1..Len(b) : (a \o b)[Len(a) + i] = b[i]
      BY ConcatProperties, LenProperties
    <3>. DEFINE a == q[n]
                b == PointerArgs(fmt, d)
                c == q[m]
    <3>2. a \in Seq(A) /\ b \in Seq(A) /\ c = a \o b /\ k = Len(a)
      BY <2>4 DEF k
    <3>. HIDE DEF a, b, c
    <3>3. Len(c) = Len(a) + Len(b) /\ Len(b) \in Nat /\ \A i \in 1..Len(b) : c[Len(a) + i] = b[i]
      BY <3>1, <3>2
    <3>4. Len(c) = k + Len(b) /\ Len(b) \in Nat /\ \A i \in 1..Len(b) : c[k + i] = b[i]
      BY <3>2, <3>3
    <3>. QED
      BY <3>4 DEF a, b, c
  <2>6. ASSUME PointerArgs(fmt, d) = <<d.arg>> PROVE k + 1 \in 1..Len(v) /\ v[k + 1] = d.arg
    <3>1. Len(<<d.arg>>) = 1 /\ <<d.arg>>[1] = d.arg
      OBVIOUS
    <3>2. Len(q[m]) = k + 1 /\ q[m][k + 1] = d.arg
      BY <2>5, <2>6, <3>1
    <3>3. Len(q[m]) <= Len(v) /\ \A j \in 1..Len(q[m]) : v[j] = q[m][j]
      BY <1>5, <2>1 DEF Begins
    <3>4. k + 1 \in 1..Len(q[m])
      BY <2>4, <3>2
    <3>5. v[k + 1] = q[m][k + 1]
      BY <3>3, <3>4
    <3>6. k + 1 \in 1..Len(v)
      <4>1. Len(v) \in Nat /\ k \in Nat /\ k + 1 <= Len(v)
        BY <1>4, <2>4, <3>2, <3>3
      <4>. QED
        BY <4>1
    <3>. QED
      BY <3>2, <3>5, <3>6
  <2>7. Consumed(Directed(fmt, Len(v) + 1, g[n], d), v, k, PointerArgs(fmt, d))
    <3>1. g[n] \in Progress(A) /\ SlotsFit(g[n].checks, v) /\ (~g[n].over => g[n].used = 1 + k)
      BY <1>6, <2>1, <2>2 DEF k
    <3>. QED
      BY <1>4, <2>3, <2>4, <2>6, <3>1, DirectiveSlots
  <2>8. g[m] = Directed(fmt, Len(v) + 1, g[n], d)
    BY <1>6, <2>1 DEF d
  <2>9. Good(m)
    <3>1. 1 + k + Len(PointerArgs(fmt, d)) = 1 + Len(q[m])
      BY <2>4, <2>5
    <3>. QED
      BY <2>7, <2>8, <3>1 DEF Consumed
  <2>. HIDE DEF Good
  <2>10. m \in S
    BY <2>1, <2>9 DEF S
  <2>. QED
    BY <2>10 DEF m
<1>9. N \in S
  <2>. HIDE DEF S
  <2>1. \A n \in 0..N : n \in S
    BY <1>1, <1>7, <1>8, UpTo
  <2>. QED
    BY <1>1, <2>1
<1>. QED
  BY <1>9

(***************************************************************************)
(* The MAAPs of a hook are those of its own call.                          *)
(***************************************************************************)
\* The entries on top of a stack are those of the frame on top, first argument on top.
LEMMA AncestorOnTop ==
    ASSUME NEW f \in ProgramFrames, NEW d \in 1..MaxDepth, ~f.off, NEW A \in Seq(MAAPEntry)
    PROVE  \A k \in Nat : k < Len(f.args) =>
               Ancestor(A \o FramePushes(f, d), k)
                   = [id |-> f.name, depth |-> d, arg |-> f.args[k + 1]]
<1>. DEFINE B == FramePushes(f, d)
            n == Len(f.args)
            s == A \o B
<1>1. n \in Nat
  BY LenProperties DEF ProgramFrames, FrameType
<1>2. B \in Seq(MAAPEntry) /\ Len(B) = n
  BY FramePushesTyped
<1>3. \A i \in 1..n : B[i] = [id |-> f.name, depth |-> d, arg |-> f.args[n + 1 - i]]
  BY <1>1 DEF FramePushes
<1>. HIDE DEF B, n
<1>4. /\ Len(s) = Len(A) + n /\ Len(A) \in Nat
      /\ \A i \in 1..n : s[Len(A) + i] = B[i]
  <2>1. \A a, b \in Seq(MAAPEntry) :
           /\ Len(a \o b) = Len(a) + Len(b) /\ Len(a) \in Nat
           /\ \A i \in 1..Len(b) : (a \o b)[Len(a) + i] = b[i]
    BY ConcatProperties, LenProperties
  <2>. QED
    BY <1>2, <2>1
<1>. HIDE DEF s
<1>5. ASSUME NEW k \in Nat, k < n
      PROVE  Ancestor(s, k) = [id |-> f.name, depth |-> d, arg |-> f.args[k + 1]]
  <2>. DEFINE i == n - k
  <2>1. i \in 1..n /\ Len(s) > k /\ Len(s) - k = Len(A) + i /\ n + 1 - i = k + 1
    BY <1>1, <1>4, <1>5
  <2>. HIDE DEF i
  <2>2. Ancestor(s, k) = B[i]
    BY <1>4, <2>1 DEF Ancestor
  <2>. QED
    BY <1>3, <2>1, <2>2
<1>. QED
  BY <1>5 DEF n, s, B

\* On the stack, they are those of the call in progress.
LEMMA TopMAAPs ==
    ASSUME StackInv, frames # << >>, ~Back(frames).off
    PROVE  \A k \in Nat : k < Len(Back(frames).args) =>
               Ancestor(MAAPs, k) = [id |-> Back(frames).name, depth |-> Len(frames),
                                     arg |-> Back(frames).args[k + 1]]
BY TopFrame, AncestorOnTop

\* A MAAP that may filter a check of an argument of the call at depth D.
OwnMAAP(m, D, arg) == m = ModRef \/ (m.depth = D /\ m.arg = arg)

\* The checks a hook makes itself use the MAAPs of their arguments.
LEMMA OwnChecksFit ==
    ASSUME StackInv, frames # << >>, ~Back(frames).off, Back(frames).kind = "lib",
           Back(frames).name \notin {"fputs", "sscanf"}, NEW c, Filtered(c)
    PROVE  OwnMAAP(HeldMAAP(HookTable[Back(frames).name], Len(Back(frames).args), c.guard),
                   Len(frames), c.arg)
<1>. DEFINE f == Back(frames)
            e == HookTable[f.name]
            m == HeldMAAP(e, Len(f.args), c.guard)
            a == c.guard
<1>1. f \in ProgramFrames
  BY TopFrame
<1>2. /\ HookEntry(e) /\ Len(f.args) \in Nat /\ Len(e.args) \in Nat /\ Len(e.named) \in Nat
      /\ VarPointers(f.name, f.dirs) \in Seq(DirArgs(f.dirs))
      /\ f.args # << >> =>
            /\ Len(f.args) = Len(e.args) + Len(VarPointers(f.name, f.dirs))
            /\ \A i \in 1..Len(e.args) : f.args[i] = e.args[i]
  BY <1>1, LibFrame
<1>3. Len(VarPointers(f.name, f.dirs)) \in Nat
  BY <1>2, LenProperties
<1>4. \A k \in Nat : k < Len(f.args) =>
          Ancestor(MAAPs, k) = [id |-> f.name, depth |-> Len(frames), arg |-> f.args[k + 1]]
  BY TopMAAPs
<1>. HIDE DEF f, e
<1>5. ASSUME ~(Len(f.args) > 0 /\ a # "ModRef" /\ \E i \in 1 .. Len(e.named) : e.named[i] = a)
      PROVE  OwnMAAP(m, Len(frames), c.arg)
  <2>1. m = ModRef
    BY <1>5 DEF HeldMAAP
  <2>. HIDE DEF m
  <2>. QED
    BY <2>1 DEF OwnMAAP
<1>6. ASSUME Len(f.args) > 0, a # "ModRef", \E i \in 1 .. Len(e.named) : e.named[i] = a
      PROVE  OwnMAAP(m, Len(frames), c.arg)
  <2>. DEFINE j == CHOOSE i \in 1 .. Len(e.named) : e.named[i] = a
  <2>1. j \in 1..Len(e.named) /\ e.named[j] = a
    BY <1>6
  <2>2. m = Ancestor(MAAPs, j - 1)
    BY <1>6 DEF HeldMAAP
  <2>. HIDE DEF j, m
  <2>3. a = c.arg /\ a # "_"
    BY <1>6 DEF Filtered, Named
  <2>4. j <= Len(e.args) /\ e.args[j] = a
    BY <1>2, <2>1, <2>3 DEF HookEntry
  <2>5. f.args # << >>
    BY <1>6
  <2>6. Len(f.args) >= Len(e.args) /\ f.args[j] = e.args[j]
    <3>1. j \in 1..Len(e.args)
      BY <1>2, <2>1, <2>4
    <3>2. Len(f.args) = Len(e.args) + Len(VarPointers(f.name, f.dirs))
      BY <1>2, <2>5
    <3>3. f.args[j] = e.args[j]
      BY <1>2, <2>5, <3>1
    <3>4. Len(f.args) >= Len(e.args)
      <4>. DEFINE l == Len(f.args)
                  b == Len(VarPointers(f.name, f.dirs))
      <4>1. l = Len(e.args) + b /\ Len(e.args) \in Nat /\ b \in Nat
        BY <1>2, <1>3, <3>2
      <4>. HIDE DEF l, b
      <4>2. l >= Len(e.args)
        BY <4>1
      <4>. QED
        BY <4>2 DEF l
    <3>. QED
      BY <3>3, <3>4
  <2>7. j - 1 \in Nat /\ j - 1 < Len(f.args) /\ (j - 1) + 1 = j
    BY <1>2, <2>1, <2>4, <2>6
  <2>8. m = [id |-> f.name, depth |-> Len(frames), arg |-> f.args[j]]
    BY <1>4, <2>2, <2>7
  <2>9. m.depth = Len(frames) /\ m.arg = c.arg
    BY <2>3, <2>4, <2>6, <2>8
  <2>. QED
    BY <2>9 DEF OwnMAAP
<1>. QED
  BY <1>5, <1>6 DEF f, e

\* Those of its interpreter use the ones of the variable arguments.
LEMMA FormatChecksFit ==
    ASSUME StackInv, frames # << >>, ~Back(frames).off, Back(frames).kind = "lib",
           Back(frames).name \notin {"fputs", "sscanf"},
           HookTable[Back(frames).name].fmt # "none",
           ~NullString(Back(frames).dirs), NEW n \in Int
    PROVE  LET f == Back(frames)
               e == HookTable[f.name]
               run == RunOf(e, Len(f.args), n, f.dirs)
           IN  \A j \in 1..Len(run.checks) :
                  OwnMAAP(FormatCheck(e, Len(f.args), run.checks[j]).maap, Len(frames),
                          run.checks[j].arg)
<1>. DEFINE f == Back(frames)
            e == HookTable[f.name]
            run == RunOf(e, Len(f.args), n, f.dirs)
            A == DirArgs(f.dirs) \cup {"format"}
            v == VarPointers(f.name, f.dirs)
            c(j) == run.checks[j]
            L == LeftOver(e, Len(f.args))
            inputs == IF e.fmt = "scanf" THEN n ELSE 0
<1>1. f \in ProgramFrames
  BY TopFrame
<1>2. /\ HookEntry(e) /\ Len(f.args) \in Nat /\ Len(e.args) \in Nat /\ Len(e.named) \in Nat
      /\ v \in Seq(DirArgs(f.dirs)) /\ f.name \in LibCalls /\ f.dirs \in Formatted(f.name)
      /\ FmtOf(f.name) = e.fmt
      /\ f.args # << >> =>
            /\ Len(f.args) = Len(e.args) + Len(v)
            /\ \A i \in 1..Len(e.args) : f.args[i] = e.args[i]
            /\ \A i \in 1..Len(v) : f.args[Len(e.args) + i] = v[i]
      /\ L = IF f.args = << >> THEN 0 ELSE Len(v) + 1
  BY <1>1, LibFrame
<1>3. /\ e.fmt \in {"printf", "scanf"} /\ Len(e.args) = Len(e.named) + 1
      /\ e.args[Len(e.args)] = "format"
  BY <1>2 DEF HookEntry, FormatIsNext
<1>4. PICK g : Runs(g, e.fmt, L, inputs, f.dirs, A) /\ run = g[Len(f.dirs)]
  BY <1>1, HookRuns
<1>5. f.dirs \in Seq(Directives(A))
  <2>1. f.dirs \in Seq(Directives(DirArgs(f.dirs)))
    BY <1>2, FormatsTyped
  <2>2. Directives(DirArgs(f.dirs)) \subseteq Directives(A)
    BY DEF Directives
  <2>. HIDE DEF A
  <2>. QED
    BY <2>1, <2>2
<1>6. \A k \in Nat : k < Len(f.args) =>
          Ancestor(MAAPs, k) = [id |-> f.name, depth |-> Len(frames), arg |-> f.args[k + 1]]
  BY TopMAAPs
<1>7. v = FlattenSeq([i \in 1..Len(f.dirs) |-> PointerArgs(e.fmt, f.dirs[i])])
  BY <1>2 DEF VarPointers
<1>8. inputs \in Int /\ ~NullString(f.dirs) /\ Len(v) \in Nat
  BY <1>2, LenProperties
<1>. DEFINE Fine == \A j \in 1..Len(run.checks) :
                       OwnMAAP(FormatCheck(e, Len(f.args), c(j)).maap, Len(frames), c(j).arg)
<1>. HIDE DEF f, e, run, A, v, L, inputs
<1>9. ASSUME f.args = << >> PROVE Fine
  <2>1. L = 0
    BY <1>2, <1>9
  <2>2. \A j \in 1..Len(run.checks) : c(j).slot = 0
    BY <1>3, <1>4, <1>5, <1>8, <2>1, RunWithoutMAAPs
  <2>3. \A j \in 1..Len(run.checks) : FormatCheck(e, Len(f.args), c(j)).maap = ModRef
    BY <2>2 DEF FormatCheck
  <2>4. \A x : OwnMAAP(ModRef, Len(frames), x)
    BY DEF OwnMAAP
  <2>. QED
    BY <2>3, <2>4
<1>10. ASSUME f.args # << >> PROVE Fine
  <2>1. L = Len(v) + 1
    BY <1>2, <1>10
  <2>2. SlotsFit(run.checks, v)
    BY <1>3, <1>4, <1>5, <1>7, <1>8, <2>1, RunSlots
  <2>3. Len(f.args) = Len(e.named) + 1 + Len(v) /\ Len(f.args) # 0
    BY <1>2, <1>3, <1>8, <1>10
  <2>5. \A j \in 1..Len(run.checks) : c(j).slot \in Nat
    <3>1. Len(f.dirs) \in 0..Len(f.dirs)
      BY <1>5, LenProperties
    <3>2. run \in Progress(A)
      BY <1>4, <3>1 DEF Runs
    <3>3. run.checks \in Seq([kind : Kinds, arg : A, slot : Nat])
      BY <3>2 DEF Progress
    <3>4. \A j \in 1..Len(run.checks) : c(j) \in [kind : Kinds, arg : A, slot : Nat]
      BY <3>3, ElementOfSeq
    <3>. QED
      BY <3>4
  <2>4. ASSUME NEW j \in 1..Len(run.checks)
        PROVE  OwnMAAP(FormatCheck(e, Len(f.args), c(j)).maap, Len(frames), c(j).arg)
    <3>. DEFINE s == c(j).slot
                m == FormatCheck(e, Len(f.args), c(j)).maap
    <3>1. m = IF s = 0 THEN ModRef ELSE Ancestor(MAAPs, Len(e.named) + s - 1)
      BY <2>3 DEF FormatCheck
    <3>2. SlotFits(c(j), v)
      BY <2>2 DEF SlotsFit
    <3>. HIDE DEF m
    <3>3. ASSUME s = 0 PROVE OwnMAAP(m, Len(frames), c(j).arg)
      <4>1. m = ModRef
        BY <3>1, <3>3
      <4>. QED
        BY <4>1 DEF OwnMAAP
    <3>4. ASSUME s = 1, c(j).arg = "format" PROVE OwnMAAP(m, Len(frames), c(j).arg)
      <4>1. Len(e.named) + s - 1 = Len(e.named) /\ Len(e.named) < Len(f.args)
        BY <1>2, <1>8, <2>3, <3>4
      <4>2. m = [id |-> f.name, depth |-> Len(frames), arg |-> f.args[Len(e.named) + 1]]
        BY <1>2, <1>6, <3>1, <3>4, <4>1
      <4>3. f.args[Len(e.named) + 1] = "format"
        <5>1. Len(e.args) \in 1..Len(e.args)
          BY <1>2, <1>3
        <5>. QED
          BY <1>2, <1>3, <1>10, <5>1
      <4>. QED
        BY <3>4, <4>2, <4>3 DEF OwnMAAP
    <3>5. ASSUME s - 1 \in 1..Len(v), v[s - 1] = c(j).arg, s # 0
          PROVE OwnMAAP(m, Len(frames), c(j).arg)
      <4>. DEFINE i == s - 1
      <4>1. i \in 1..Len(v) /\ v[i] = c(j).arg
        BY <3>5
      <4>2. m = Ancestor(MAAPs, Len(e.named) + s - 1)
        BY <3>1, <3>5
      <4>3. Len(e.named) + s - 1 = Len(e.named) + i
        BY <1>2, <2>5
      <4>. HIDE DEF i
      <4>4. /\ Len(e.named) + i \in Nat /\ Len(e.named) + i < Len(f.args)
            /\ (Len(e.named) + i) + 1 = Len(e.args) + i
        BY <1>2, <1>3, <1>8, <2>3, <4>1
      <4>5. m = [id |-> f.name, depth |-> Len(frames), arg |-> f.args[Len(e.args) + i]]
        BY <1>6, <4>2, <4>3, <4>4
      <4>6. f.args[Len(e.args) + i] = c(j).arg
        BY <1>2, <1>10, <4>1
      <4>. QED
        BY <4>5, <4>6 DEF OwnMAAP
    <3>. QED
      BY <3>2, <3>3, <3>4, <3>5 DEF SlotFits, m
  <2>. QED
    BY <2>4
<1>11. Fine
  BY <1>9, <1>10
<1>. QED
  BY <1>11 DEF f, e, run

\* A hook runs with checking on exactly if its call was made with checking on.
LEMMA LibOff ==
    ASSUME StackInv, frames # << >>, Back(frames).kind = "lib"
    PROVE  Back(frames).off <=> ~should_check
<1>1. Len(frames) \in 1..MaxDepth /\ Back(frames) = frames[Len(frames)]
  BY TopFrame
<1>2. \A i \in 1..Len(disabled_at) : disabled_at[i] # Len(frames)
  BY <1>1 DEF StackInv, DisabledGood
<1>. QED
  BY <1>2, TopOff

\* So each check of a hook is filtered by the MAAP of its argument or by none.
LEMMA HookFits ==
    ASSUME KnownHooks, StackInv, NEW par, NEW ok, NEW n \in Int, LibHook(par, ok, n),
           hooked' # NoChecks
    PROVE  ChecksUseOwnMAAP'
<1>. DEFINE f == Back(frames)
            e == HookTable[f.name]
            count == Len(f.args)
            run == RunOf(e, count, n, f.dirs)
            made == HookChecks(e, count, n, f.dirs)
            D == Len(frames)
<1>1. /\ frames # << >> /\ f.kind = "lib" /\ should_check
      /\ hooked'.call.depth = D /\ hooked'.call.dirs = f.dirs /\ hooked'.made = made
  BY HookedAre
<1>2. f \in ProgramFrames
  BY <1>1, TopFrame
<1>3. f.name \notin {"fputs", "sscanf"} /\ ~f.off
  <2>1. f.name \in LibCalls
    BY <1>1, <1>2 DEF ProgramFrames, FrameFits
  <2>. QED
    BY <1>1, <2>1, LibOff DEF KnownHooks
<1>4. ASSUME ~NullString(f.dirs), NEW i \in 1..Len(made)
      PROVE  OwnMAAP(made[i].maap, D, made[i].arg)
  <2>1. ASSUME NEW j \in 1..Len(e.checks), made[i] = OwnCheck(e, count, e.checks[j])
        PROVE  OwnMAAP(made[i].maap, D, made[i].arg)
    <3>1. Filtered(e.checks[j])
      BY <1>1, <1>2, <1>3, LibFrame DEF HookEntry, AllFiltered
    <3>2. OwnMAAP(HeldMAAP(e, count, e.checks[j].guard), D, e.checks[j].arg)
      BY <1>1, <1>3, <3>1, OwnChecksFit
    <3>3. made[i].maap = HeldMAAP(e, count, e.checks[j].guard) /\ made[i].arg = e.checks[j].arg
      BY <2>1 DEF OwnCheck
    <3>. HIDE DEF f, e, made, D, count
    <3>. QED
      BY <3>2, <3>3
  <2>2. ASSUME e.fmt # "none", NEW j \in 1..Len(run.checks),
            made[i] = FormatCheck(e, count, run.checks[j])
        PROVE  OwnMAAP(made[i].maap, D, made[i].arg)
    <3>1. OwnMAAP(FormatCheck(e, count, run.checks[j]).maap, D, run.checks[j].arg)
      BY <1>1, <1>3, <1>4, <2>2, FormatChecksFit
    <3>2. FormatCheck(e, count, run.checks[j]).arg = run.checks[j].arg
      BY DEF FormatCheck
    <3>. HIDE DEF f, e, made, D, count, run
    <3>. QED
      BY <2>2, <3>1, <3>2
  <2>3. \/ \E j \in 1..Len(e.checks) : made[i] = OwnCheck(e, count, e.checks[j])
        \/ e.fmt # "none" /\ \E j \in 1..Len(run.checks) :
             made[i] = FormatCheck(e, count, run.checks[j])
    BY <1>1, <1>2, <1>3, ChecksOfCall
  <2>. HIDE DEF f, e, made, D, count, run
  <2>. QED
    BY <2>1, <2>2, <2>3
<1>5. ChecksUseOwnMAAP' <=>
         (~NullString(f.dirs) => \A i \in 1..Len(made) : OwnMAAP(made[i].maap, D, made[i].arg))
  <2>. HIDE DEF f, made, D
  <2>. QED
    BY <1>1 DEF ChecksUseOwnMAAP, OwnMAAP
<1>. HIDE DEF f, made, D
<1>. QED
  BY <1>4, <1>5

\* No check of a hook (libhooks.cpp) or of its format interpreter (hook_format.inc) is filtered by
\* the MAAP of another argument or another call.
THEOREM ChecksAreFilteredByTheirOwnMAAP ==
    ASSUME KnownHooks
    PROVE  LibSpec => []ChecksUseOwnMAAP
<1>. DEFINE Inv == (StackInv /\ HookedKinds) /\ ChecksUseOwnMAAP
<1>0. Len(NoChecks.made) = 0
  BY DEF NoChecks
<1>1. LibInit => Inv
  <2>1. LibInit => hooked = NoChecks
    BY DEF LibInit
  <2>. QED
    BY <1>0, <2>1, StackInvInit DEF ChecksUseOwnMAAP
<1>2. Inv /\ [LibNext]_lvars => Inv'
  <2>. SUFFICES ASSUME Inv, [LibNext]_lvars PROVE ChecksUseOwnMAAP'
    BY StackInvStep
  <2>1. CASE hooked' = NoChecks
    BY <1>0, <2>1 DEF ChecksUseOwnMAAP
  <2>2. CASE hooked' # NoChecks
    <3>1. CASE UNCHANGED hooked
      BY <3>1 DEF ChecksUseOwnMAAP
    <3>2. CASE \E par, ok \in BOOLEAN, n \in 0..2 : LibHook(par, ok, n)
      <4>1. PICK par \in BOOLEAN, ok \in BOOLEAN, n \in 0..2 : LibHook(par, ok, n)
        BY <3>2
      <4>. QED
        BY <2>2, <4>1, HookFits
    <3>3. CASE LibNext /\ ~\E par, ok \in BOOLEAN, n \in 0..2 : LibHook(par, ok, n)
      <4>1. hooked' = NoChecks
        BY <3>3
        DEF LibNext, CallUser, Callback, CallExternal, CallLib, Push, Forget, AskMAAP, Return,
                    disable_checking, enable_checking
      <4>. QED
        BY <2>2, <4>1
    <3>. QED
      BY <3>1, <3>2, <3>3 DEF lvars
  <2>. QED
    BY <2>1, <2>2
<1>3. Inv => ChecksUseOwnMAAP
  OBVIOUS
<1>. QED
  BY <1>1, <1>2, <1>3, PTL DEF LibSpec

(***************************************************************************)
(* The answers of get_MAAP. Whatever lies on the stacks, the entries a     *)
(* function finds on top are its own, or do not look like its own.         *)
(***************************************************************************)
\* Callbacks are called by external code and by qsort, everything else by the program's code; a
\* call of qsort without MAAPs is one of a function without them.
NestedGood ==
    \A d \in 1..Len(frames) :
        /\ frames[d].kind = "callback" =>
              /\ d > 1
              /\ \/ frames[d - 1].kind = "ext"
                 \/ frames[d - 1].kind = "lib" /\ frames[d - 1].name = "qsort"
        /\ frames[d].kind = "lib" /\ frames[d].name = "qsort" /\ frames[d].args = << >> =>
              d > 1 /\ frames[d - 1].name \in Unaware

\* What that asks of a frame that is entered.
MayEnter(f) ==
    /\ f.kind = "callback" =>
          /\ frames # << >>
          /\ Back(frames).kind = "ext"
               \/ (Back(frames).kind = "lib" /\ Back(frames).name = "qsort")
    /\ f.kind = "lib" /\ f.name = "qsort" /\ f.args = << >> =>
          frames # << >> /\ Back(frames).name \in Unaware

\* The frames a call leaves are nested as before.
LEMMA NestedEnter ==
    ASSUME NestedGood, frames \in Seq(ProgramFrames), NEW f, frames' = Append(frames, f),
           MayEnter(f)
    PROVE  NestedGood'
<1>. DEFINE N == Len(frames)
            E == Append(frames, f)
<1>1. N \in Nat /\ (frames # << >> => N > 0 /\ Back(frames) = frames[N])
  BY EmptySeq, LenProperties DEF Back
<1>2. Len(E) = N + 1 /\ E[N + 1] = f /\ \A d \in 1..N : E[d] = frames[d]
  BY LenProperties
<1>. HIDE DEF E
<1>3. ASSUME NEW d \in 1..N
      PROVE  E[d] = frames[d] /\ (d > 1 => E[d - 1] = frames[d - 1])
  BY <1>1, <1>2
<1>4. N + 1 > 1 => N > 0 /\ E[(N + 1) - 1] = frames[N]
  BY <1>1, <1>2
<1>5. \A d \in 1..Len(E) : d \in 1..N \/ d = N + 1
  BY <1>1, <1>2
<1>6. frames' = E
  BY DEF E
<1>7. ASSUME NEW d \in 1..N
      PROVE  /\ E[d].kind = "callback" =>
                    d > 1 /\ (E[d - 1].kind = "ext"
                        \/ (E[d - 1].kind = "lib" /\ E[d - 1].name = "qsort"))
             /\ E[d].kind = "lib" /\ E[d].name = "qsort" /\ E[d].args = << >> =>
                    d > 1 /\ E[d - 1].name \in Unaware
  BY <1>3 DEF NestedGood
<1>8. /\ f.kind = "callback" =>
             N + 1 > 1
                 /\ (E[(N + 1) - 1].kind = "ext"
                      \/ (E[(N + 1) - 1].kind = "lib" /\ E[(N + 1) - 1].name = "qsort"))
      /\ f.kind = "lib" /\ f.name = "qsort" /\ f.args = << >> =>
             N + 1 > 1 /\ E[(N + 1) - 1].name \in Unaware
  <2>1. frames # << >> => N + 1 > 1 /\ E[(N + 1) - 1] = Back(frames)
    BY <1>1, <1>4
  <2>. QED
    BY <2>1 DEF MayEnter
<1>. HIDE DEF N
<1>. QED
  BY <1>2, <1>5, <1>6, <1>7, <1>8 DEF NestedGood

\* So are those a return leaves.
LEMMA NestedLeave ==
    ASSUME NestedGood, StackInv, frames # << >>, frames' = PopN(frames, 1)
    PROVE  NestedGood'
<1>. DEFINE F == PopN(frames, 1)
<1>1. /\ Len(F) = Len(frames) - 1 /\ Len(frames) \in Nat
      /\ \A i \in 1..(Len(frames) - 1) : F[i] = frames[i]
  BY TopFrame
<1>. HIDE DEF F
<1>2. frames' = F
  BY DEF F
<1>3. \A d \in 1..Len(F) : d \in 1..Len(frames) /\ F[d] = frames[d]
          /\ (d > 1 => F[d - 1] = frames[d - 1])
  BY <1>1
<1>. QED
  BY <1>2, <1>3 DEF NestedGood

\* A call of qsort with MAAPs has those of both arguments.
LEMMA QsortFrame ==
    ASSUME NEW f \in ProgramFrames, f.kind = "lib", f.name = "qsort", f.args # << >>
    PROVE  Len(f.args) \in Nat /\ Len(f.args) >= 2
<1>1. f.args \in Seq(ArgNames) /\ f.dirs \in Formatted(f.name) /\ f.args = LibArgs(f.name, f.dirs)
          /\ f.name \in LibCalls
  BY DEF ProgramFrames, FrameType, FrameFits
<1>. DEFINE a == HookTable[f.name].args
            b == VarPointers(f.name, f.dirs)
<1>2. a \in Seq(ArgNames) /\ Len(a) = 2
  BY <1>1, LibArgsTyped, QsortEntry
<1>3. b \in Seq(ArgNames)
  <2>1. b \in Seq(DirArgs(f.dirs)) /\ DirArgs(f.dirs) \subseteq ArgNames
    BY <1>1, VarPointersTyped, FormatsTyped
  <2>. HIDE DEF b
  <2>. QED
    BY <2>1
<1>4. f.args = a \o b
  BY <1>1 DEF LibArgs
<1>. HIDE DEF a, b
<1>5. Len(a \o b) = Len(a) + Len(b) /\ Len(b) \in Nat
  BY <1>2, <1>3, ConcatProperties, LenProperties
<1>. QED
  BY <1>2, <1>4, <1>5

\* Every step keeps the frames nested.
LEMMA NestedStep ==
    ASSUME KnownHooks
    PROVE  StackInv /\ NestedGood /\ [LibNext]_lvars => NestedGood'
<1>. HAVE StackInv /\ NestedGood /\ [LibNext]_lvars
<1>0. frames \in Seq(ProgramFrames)
  BY DEF StackInv, FramesGood
<1>1. CASE UNCHANGED frames
  BY <1>1 DEF NestedGood
<1>2. CASE Return \/ \E par, ok \in BOOLEAN, n \in 0..2 : LibHook(par, ok, n)
  <2>1. frames # << >> /\ frames' = PopN(frames, 1)
    BY <1>2 DEF Return, LibHook
  <2>. QED
    BY <2>1, NestedLeave
<1>3. ASSUME NEW f, frames' = Append(frames, f), f.kind \in {"user", "ext"} PROVE NestedGood'
  BY <1>0, <1>3, NestedEnter DEF MayEnter
<1>4. CASE \E g \in Funcs : CallUser(g)
  <2>1. PICK g \in Funcs : CallUser(g)
    BY <1>4
  <2>. DEFINE f == [kind |-> "user", name |-> g, args |-> PassedArgs, dirs |-> << >>,
                    off |-> ~should_check]
  <2>2. frames' = Append(frames, f) /\ f.kind = "user"
    BY <2>1 DEF CallUser, Push
  <2>. HIDE DEF f
  <2>. QED
    BY <1>3, <2>2
<1>5. CASE CallExternal
  <2>. DEFINE f == [kind |-> "ext", name |-> "ext", args |-> PassedArgs, dirs |-> << >>,
                    off |-> ~should_check]
  <2>1. frames' = Append(frames, f) /\ f.kind = "ext"
    BY <1>5 DEF CallExternal, Push
  <2>. HIDE DEF f
  <2>. QED
    BY <1>3, <2>1
<1>6. CASE \E g \in Funcs : Callback(g)
  <2>1. PICK g \in Funcs : Callback(g)
    BY <1>6
  <2>. DEFINE f == [kind |-> "callback", name |-> g, args |-> << >>, dirs |-> << >>,
                    off |-> ~should_check]
  <2>2. /\ frames' = Append(frames, f) /\ f.kind = "callback" /\ frames # << >>
        /\ Back(frames).kind = "ext" \/ Back(frames).name = "qsort"
    BY <2>1 DEF Callback
  <2>3. Back(frames).name = "qsort" => Back(frames).kind \in {"ext", "lib"}
    <3>1. Back(frames) \in ProgramFrames
      BY <2>2, TopFrame
    <3>2. "qsort" \notin Funcs
      BY QsortEntry, LibHooksAssumption
    <3>. QED
      BY <3>1, <3>2 DEF ProgramFrames, FrameFits
  <2>. HIDE DEF f
  <2>. QED
    BY <1>0, <2>2, <2>3, NestedEnter DEF MayEnter
<1>7. CASE \E h \in LibCalls : \E ds \in Formatted(h) : CallLib(h, ds)
  <2>1. PICK h \in LibCalls : \E ds \in Formatted(h) : CallLib(h, ds)
    BY <1>7
  <2>2. PICK ds \in Formatted(h) : CallLib(h, ds)
    BY <2>1
  <2>. DEFINE f == [kind |-> "lib", name |-> h, args |-> IF Aware THEN LibArgs(h, ds) ELSE << >>,
                    dirs |-> ds, off |-> ~should_check]
  <2>3. frames' = Append(frames, f)
    BY <2>2 DEF CallLib, Push, LibArgs, VarPointers
  <2>4. f.kind = "lib" /\ f.name = h /\ f.args = IF Aware THEN LibArgs(h, ds) ELSE << >>
    OBVIOUS
  <2>5. h = "qsort" => LibArgs(h, ds) # << >>
    <3>. DEFINE a == HookTable[h].args
                b == VarPointers(h, ds)
    <3>1. a \in Seq(ArgNames) /\ (h = "qsort" => Len(a) = 2)
      BY LibArgsTyped, QsortEntry
    <3>2. b \in Seq(ArgNames)
      <4>1. b \in Seq(DirArgs(ds)) /\ DirArgs(ds) \subseteq ArgNames
        BY VarPointersTyped, FormatsTyped
      <4>. HIDE DEF b
      <4>. QED
        BY <4>1
    <3>3. LibArgs(h, ds) = a \o b
      BY DEF LibArgs
    <3>. HIDE DEF a, b
    <3>4. Len(a \o b) = Len(a) + Len(b) /\ Len(b) \in Nat
      BY <3>1, <3>2, ConcatProperties, LenProperties
    <3>. QED
      BY <3>1, <3>3, <3>4, EmptySeq
  <2>. HIDE DEF f
  <2>6. MayEnter(f)
    BY <2>4, <2>5 DEF MayEnter, Aware
  <2>. QED
    BY <1>0, <2>3, <2>6, NestedEnter
<1>8. CASE \/ disable_checking \/ enable_checking
           \/ \E i \in 0..NArgs - 1 : AskMAAP(i)
  BY <1>1, <1>8 DEF disable_checking, enable_checking, AskMAAP
<1>. QED
  BY <1>1, <1>2, <1>4, <1>5, <1>6, <1>7, <1>8 DEF LibNext, Formatted, lvars

\* The outermost n frames.
Outer(n) == [d \in 1..n |-> frames[d]]

\* What they push.
LEMMA OuterPushes ==
    ASSUME StackInv
    PROVE  /\ Outer(0) = << >> /\ Outer(Len(frames)) = frames
           /\ \A n \in 1..Len(frames) :
                 /\ PushesOf(Outer(n - 1)) \in Seq(MAAPEntry)
                 /\ CountsOf(Outer(n - 1)) \in Seq(0..NArgs)
                 /\ PushesOf(Outer(n)) = PushesOf(Outer(n - 1)) \o FramePushes(frames[n], n)
                 /\ CountsOf(Outer(n)) = CountsOf(Outer(n - 1)) \o FrameCounts(frames[n])
                 /\ frames[n] \in ProgramFrames /\ n \in 1..MaxDepth
<1>. DEFINE N == Len(frames)
<1>1. /\ frames \in Seq(ProgramFrames) /\ N \in Nat /\ N <= MaxDepth /\ MaxDepth \in Nat
      /\ frames = [d \in 1..N |-> frames[d]] /\ \A d \in 1..N : frames[d] \in ProgramFrames
  BY ElementOfSeq, LenProperties, LibHooksAssumption DEF StackInv, FramesGood
<1>2. Outer(0) = << >> /\ Outer(N) = frames
  <2>1. 1..0 = {}
    OBVIOUS
  <2>2. Outer(0) = << >>
    BY <2>1 DEF Outer
  <2>. HIDE DEF N
  <2>. QED
    BY <1>1, <2>2 DEF Outer
<1>3. ASSUME NEW n \in 1..N
      PROVE  /\ Outer(n - 1) \in Seq(ProgramFrames) /\ Len(Outer(n - 1)) = n - 1
             /\ Outer(n) = Append(Outer(n - 1), frames[n])
             /\ n \in 1..MaxDepth /\ n - 1 < MaxDepth /\ (n - 1) + 1 = n
  <2>1. n \in Nat /\ n - 1 \in Nat /\ (n - 1) + 1 = n /\ n \in 1..MaxDepth /\ n - 1 < MaxDepth
    BY <1>1
  <2>2. \A d \in 1..n - 1 : frames[d] \in ProgramFrames
    BY <1>1
  <2>3. Outer(n - 1) \in Seq(ProgramFrames) /\ Len(Outer(n - 1)) = n - 1
    <3>. DEFINE k == n - 1
    <3>1. k \in Nat /\ \A d \in 1..k : frames[d] \in ProgramFrames
      BY <2>1, <2>2
    <3>. HIDE DEF k
    <3>2. Outer(k) \in Seq(ProgramFrames) /\ Len(Outer(k)) = k
      BY <3>1 DEF Outer
    <3>. QED
      BY <3>2 DEF k
  <2>4. Outer(n) = Append(Outer(n - 1), frames[n])
    <3>1. Append(Outer(n - 1), frames[n]) =
             [d \in 1..(n - 1) + 1 |-> IF d = (n - 1) + 1 THEN frames[n] ELSE Outer(n - 1)[d]]
      BY <1>1, <2>3
    <3>2. \A d \in 1..n : d # n => Outer(n - 1)[d] = frames[d]
      BY <2>1 DEF Outer
    <3>. QED
      BY <2>1, <3>1, <3>2 DEF Outer
  <2>. QED
    BY <2>1, <2>3, <2>4
<1>4. ASSUME NEW n \in 1..N
      PROVE  /\ PushesOf(Outer(n - 1)) \in Seq(MAAPEntry)
             /\ CountsOf(Outer(n - 1)) \in Seq(0..NArgs)
             /\ PushesOf(Outer(n)) = PushesOf(Outer(n - 1)) \o FramePushes(frames[n], n)
             /\ CountsOf(Outer(n)) = CountsOf(Outer(n - 1)) \o FrameCounts(frames[n])
             /\ frames[n] \in ProgramFrames /\ n \in 1..MaxDepth
  <2>. DEFINE F == Outer(n - 1)
              f == frames[n]
  <2>1. F \in Seq(ProgramFrames) /\ Len(F) = n - 1 /\ n - 1 < MaxDepth /\ (n - 1) + 1 = n
        /\ f \in ProgramFrames /\ Outer(n) = Append(F, f)
    BY <1>1, <1>3
  <2>. HIDE DEF F, f
  <2>2. /\ PushesOf(F) \in Seq(MAAPEntry) /\ CountsOf(F) \in Seq(0..NArgs)
        /\ PushesOf(Append(F, f)) = PushesOf(F) \o FramePushes(f, Len(F) + 1)
        /\ CountsOf(Append(F, f)) = CountsOf(F) \o FrameCounts(f)
    BY <2>1, PushesGrow
  <2>. QED
    BY <1>3, <2>1, <2>2 DEF F, f
<1>. QED
  BY <1>2, <1>4

\* Counts on counts.
LEMMA CountsConcat ==
    /\ <<0>> \in Seq(0..NArgs) /\ NArgs \in Nat
    /\ \A a, b \in Seq(0..NArgs) : a \o b \in Seq(0..NArgs)
    /\ \A a, b, c \in Seq(0..NArgs) : a \o (b \o c) = (a \o b) \o c
<1>1. NArgs \in Nat
  BY LibHooksAssumption, LenProperties DEF NArgs
<1>2. <<0>> \in Seq(0..NArgs)
  BY <1>1
<1>3. \A a, b \in Seq(0..NArgs) : a \o b \in Seq(0..NArgs)
  BY ConcatProperties
<1>4. ASSUME NEW a \in Seq(0..NArgs), NEW b \in Seq(0..NArgs), NEW c \in Seq(0..NArgs)
      PROVE  a \o (b \o c) = (a \o b) \o c
  OBVIOUS
<1>. QED
  BY <1>1, <1>2, <1>3, <1>4

\* The counts and the MAAPs of a frame on top are its own.
LEMMA FrameOnTop ==
    ASSUME NEW f \in ProgramFrames, ~f.off, NEW d \in 1..MaxDepth,
           NEW A \in Seq(MAAPEntry), NEW C \in Seq(0..NArgs)
    PROVE  /\ f.kind \in {"user", "ext"} => Back(C \o FrameCounts(f)) = Len(f.args)
           /\ f.kind \notin {"user", "ext"} => C \o FrameCounts(f) = C
           /\ f.args = << >> => A \o FramePushes(f, d) = A
<1>1. ASSUME f.kind \in {"user", "ext"} PROVE Back(C \o FrameCounts(f)) = Len(f.args)
  <2>. DEFINE n == Len(f.args)
  <2>1. FrameCounts(f) = <<n>>
    BY <1>1 DEF FrameCounts
  <2>2. FrameCounts(f) \in Seq(0..NArgs)
    BY FramePushesTyped
  <2>. HIDE DEF n
  <2>3. Len(<<n>>) = 1 /\ <<n>>[1] = n
    OBVIOUS
  <2>4. \A a, b \in Seq(0..NArgs) :
           /\ Len(a \o b) = Len(a) + Len(b) /\ Len(a) \in Nat
           /\ \A i \in 1..Len(b) : (a \o b)[Len(a) + i] = b[i]
    BY ConcatProperties, LenProperties
  <2>5. Len(C \o <<n>>) = Len(C) + 1 /\ (C \o <<n>>)[Len(C) + 1] = n
    BY <2>1, <2>2, <2>3, <2>4
  <2>. QED
    BY <2>1, <2>5 DEF Back, n
<1>2. ASSUME f.kind \notin {"user", "ext"} PROVE C \o FrameCounts(f) = C
  <2>1. FrameCounts(f) = << >>
    BY <1>2 DEF FrameCounts
  <2>. QED
    BY <2>1
<1>3. ASSUME f.args = << >> PROVE A \o FramePushes(f, d) = A
  <2>1. FramePushes(f, d) \in Seq(MAAPEntry) /\ Len(FramePushes(f, d)) = 0
    BY <1>3, FramePushesTyped
  <2>2. FramePushes(f, d) = << >>
    BY <2>1, EmptySeq
  <2>. QED
    BY <2>2
<1>. QED
  BY <1>1, <1>2, <1>3

\* On top of these stacks a function that is passed MAAPs finds none that looks
\* like one of its first two.
Hides(A, C) == \A k \in 0..1 : k < Back(C) => Ancestor(A, k).id \notin Funcs \ Unaware

\* That is so at the top of the program, in callbacks and in functions that are passed none.
LEMMA OuterHides ==
    ASSUME StackInv, NestedGood, \A d \in 1..Len(frames) : ~frames[d].off
    PROVE  \A n \in 0..Len(frames) :
              (n > 0 => frames[n].kind = "callback" \/ frames[n].name \in Unaware)
              => Hides(PushesOf(Outer(n)), <<0>> \o CountsOf(Outer(n)))
<1>. DEFINE N == Len(frames)
            P(n) == PushesOf(Outer(n))
            C(n) == <<0>> \o CountsOf(Outer(n))
            Good(n) == (n > 0 => frames[n].kind = "callback" \/ frames[n].name \in Unaware)
                => Hides(P(n), C(n))
            S == {n \in 0..N : \A m \in 0..n : Good(m)}
<1>1. N \in Nat
  BY LenProperties DEF StackInv, FramesGood
<1>2. Unaware \subseteq Funcs /\ "ext" \notin Funcs /\ "qsort" \notin Funcs
          /\ Funcs \cap LibCalls = {}
  BY QsortEntry, LibHooksAssumption
<1>3. ASSUME NEW n \in 1..N
      PROVE  /\ P(n - 1) \in Seq(MAAPEntry) /\ C(n - 1) \in Seq(0..NArgs)
             /\ P(n) = P(n - 1) \o FramePushes(frames[n], n)
             /\ C(n) = C(n - 1) \o FrameCounts(frames[n])
             /\ frames[n] \in ProgramFrames /\ n \in 1..MaxDepth /\ ~frames[n].off
  <2>1. CountsOf(Outer(n - 1)) \in Seq(0..NArgs) /\ FrameCounts(frames[n]) \in Seq(0..NArgs)
        /\ <<0>> \in Seq(0..NArgs)
    BY CountsConcat, OuterPushes, FramePushesTyped
  <2>2. C(n - 1) \in Seq(0..NArgs)
    BY <2>1, CountsConcat
  <2>3. C(n) = C(n - 1) \o FrameCounts(frames[n])
    <3>1. CountsOf(Outer(n)) = CountsOf(Outer(n - 1)) \o FrameCounts(frames[n])
      BY OuterPushes
    <3>. DEFINE a == CountsOf(Outer(n - 1))
                b == FrameCounts(frames[n])
    <3>2. a \in Seq(0..NArgs) /\ b \in Seq(0..NArgs) /\ CountsOf(Outer(n)) = a \o b
      BY <2>1, <3>1
    <3>. HIDE DEF a, b
    <3>3. <<0>> \o (a \o b) = (<<0>> \o a) \o b
      BY <3>2, CountsConcat
    <3>. QED
      BY <3>2, <3>3 DEF a, b
  <2>. QED
    BY <2>2, <2>3, OuterPushes
<1>. HIDE DEF P, C
<1>4. 0 \in S
  <2>1. C(0) = <<0>>
    <3>1. CountsOf(<< >>) = << >>
      <4>1. Len(<< >>) = 0 /\ 1..0 = {}
        OBVIOUS
      <4>2. [d \in 1..Len(<< >>) |-> FrameCounts(<< >>[d])] = << >>
        BY <4>1
      <4>. QED
        BY <4>2, FlattenFacts DEF CountsOf
    <3>2. <<0>> \o << >> = <<0>>
      OBVIOUS
    <3>3. Outer(0) = << >>
      BY OuterPushes
    <3>. QED
      BY <3>1, <3>2, <3>3 DEF C
  <2>2. Back(C(0)) = 0
    BY <2>1 DEF Back
  <2>3. Hides(P(0), C(0))
    BY <2>2 DEF Hides
  <2>. QED
    BY <1>1, <2>3
<1>5. ASSUME NEW i \in 0..(N - 1), i \in S PROVE i + 1 \in S
  <2>. DEFINE n == i + 1
              f == frames[n]
              g == frames[n - 1]
  <2>1. n \in 1..N /\ n \in 0..N /\ n - 1 = i /\ \A m \in 0..n : m = n \/ m \in 0..i
    BY <1>1
  <2>2. \A m \in 0..i : Good(m)
    BY <1>5
  <2>. HIDE DEF Good, n
  <2>3. /\ P(i) \in Seq(MAAPEntry) /\ C(i) \in Seq(0..NArgs)
        /\ P(n) = P(i) \o FramePushes(f, n) /\ C(n) = C(i) \o FrameCounts(f)
        /\ f \in ProgramFrames /\ n \in 1..MaxDepth /\ ~f.off
    BY <1>3, <2>1
  <2>4. ASSUME f.kind = "user", f.name \in Unaware PROVE Hides(P(n), C(n))
    <3>1. Back(C(n)) = Len(f.args)
      BY <2>3, <2>4, FrameOnTop
    <3>2. ASSUME NEW k \in Nat, k < Len(f.args) PROVE Ancestor(P(n), k).id = f.name
      <4>. DEFINE own == [id |-> f.name, depth |-> n, arg |-> f.args[k + 1]]
      <4>1. Ancestor(P(i) \o FramePushes(f, n), k) = own
        BY <2>3, <3>2, AncestorOnTop
      <4>2. own.id = f.name
        OBVIOUS
      <4>. HIDE DEF own, P
      <4>. QED
        BY <2>3, <4>1, <4>2
    <3>. QED
      BY <2>4, <3>1, <3>2 DEF Hides
  <2>5. ASSUME f.kind = "callback" PROVE Hides(P(n), C(n))
    <3>1. /\ n > 1
          /\ g.kind = "ext" \/ (g.kind = "lib" /\ g.name = "qsort")
          /\ g.kind = "lib" /\ g.name = "qsort" /\ g.args = << >> =>
                n - 1 > 1 /\ frames[(n - 1) - 1].name \in Unaware
      <4>1. n > 1 /\ (g.kind = "ext" \/ (g.kind = "lib" /\ g.name = "qsort"))
        BY <2>1, <2>5 DEF NestedGood
      <4>2. n - 1 \in 1..N
        BY <1>1, <2>1, <4>1
      <4>. QED
        BY <4>1, <4>2 DEF NestedGood
    <3>. DEFINE j == n - 2
    <3>2. i \in 1..N /\ i - 1 = j /\ (n - 1) - 1 = j /\ j \in 0..i /\ (n - 1 > 1 => j > 0)
      BY <1>1, <2>1, <3>1
    <3>. HIDE DEF j
    <3>3. g = frames[i]
      BY <2>1
    <3>4. /\ P(j) \in Seq(MAAPEntry) /\ C(j) \in Seq(0..NArgs)
          /\ P(i) = P(j) \o FramePushes(g, i) /\ C(i) = C(j) \o FrameCounts(g)
          /\ g \in ProgramFrames /\ i \in 1..MaxDepth /\ ~g.off
      BY <1>3, <3>2, <3>3
    <3>5. f.args = << >>
      BY <2>3, <2>5 DEF ProgramFrames, FrameFits
    <3>6. P(n) = P(i) /\ C(n) = C(i)
      BY <2>3, <2>5, <3>5, FrameOnTop
    <3>. HIDE DEF f, g
    <3>7. \A k \in Nat : k < Len(g.args) => Ancestor(P(i), k).id = g.name
      BY <3>4, AncestorOnTop
    <3>8. ASSUME g.kind = "ext" PROVE Hides(P(n), C(n))
      <4>1. Back(C(i)) = Len(g.args)
        BY <3>4, <3>8, FrameOnTop
      <4>2. g.name = "ext"
        BY <3>4, <3>8 DEF ProgramFrames, FrameFits
      <4>. QED
        BY <1>2, <3>6, <3>7, <4>1, <4>2 DEF Hides
    <3>9. ASSUME g.kind = "lib", g.name = "qsort", g.args # << >> PROVE Hides(P(n), C(n))
      <4>1. Len(g.args) \in Nat /\ Len(g.args) >= 2
        BY <3>4, <3>9, QsortFrame
      <4>2. \A k \in 0..1 : Ancestor(P(n), k).id = "qsort"
        BY <3>6, <3>7, <3>9, <4>1
      <4>. QED
        BY <1>2, <4>2 DEF Hides
    <3>10. ASSUME g.kind = "lib", g.name = "qsort", g.args = << >> PROVE Hides(P(n), C(n))
      <4>1. P(n) = P(j) /\ C(n) = C(j)
        BY <3>4, <3>6, <3>10, FrameOnTop
      <4>2. Good(j) /\ j > 0 /\ frames[j].name \in Unaware
        BY <2>2, <3>1, <3>2, <3>10
      <4>. QED
        BY <4>1, <4>2 DEF Good
    <3>. QED
      BY <3>1, <3>8, <3>9, <3>10
  <2>6. f.name \in Unaware => f.kind \in {"user", "callback"}
    BY <1>2, <2>3 DEF ProgramFrames, FrameFits
  <2>7. Good(n)
    BY <2>1, <2>4, <2>5, <2>6 DEF Good
  <2>8. n \in S
    BY <2>1, <2>2, <2>7
  <2>. QED
    BY <2>8 DEF n
<1>6. \A n \in 0..N : n \in S
  <2>. HIDE DEF S
  <2>. QED
    BY <1>1, <1>4, <1>5, UpTo
<1>7. ASSUME NEW n \in 0..N PROVE Good(n)
  <2>1. n \in 0..n
    BY <1>1
  <2>. HIDE DEF Good
  <2>. QED
    BY <1>6, <2>1
<1>. QED
  BY <1>7 DEF P, C

\* An answer is the value that the caller set for the parameter, or ModRef.
LEMMA AnswersFit ==
    ASSUME StackInv, NestedGood, NEW idx \in 0..NArgs - 1, AskMAAP(idx)
    PROVE  AnswerExact'
<1>. DEFINE D == Len(frames)
            f == Back(frames)
            A == PushesOf(Outer(D - 1))
            C == <<0>> \o CountsOf(Outer(D - 1))
            m == get_MAAP(f.name, idx)
            own == [id |-> f.name, depth |-> D, arg |-> Arg[idx + 1]]
<1>1. /\ frames # << >> /\ f.kind \in {"user", "callback"} /\ f.name \notin Unaware
      /\ f.kind = "callback" /\ frames[D - 1].name = "qsort" => idx < 2
      /\ answer' = [depth |-> D, idx |-> idx, val |-> m]
      /\ UNCHANGED <<frames, disabled_at>>
  BY DEF AskMAAP, Aware, Depth
<1>2. D \in 1..MaxDepth /\ f = frames[D] /\ f \in ProgramFrames /\ D \in 1..Len(frames)
  BY <1>1, TopFrame
<1>3. f.name \in Funcs /\ f.args \in {<< >>, Arg} /\ (f.kind = "callback" => f.args = << >>)
      /\ Len(f.args) \in Nat /\ idx \in Nat
  <2>1. NArgs \in Nat
    BY LibHooksAssumption, LenProperties DEF NArgs
  <2>2. Len(f.args) \in Nat
    BY <1>2, LenProperties DEF ProgramFrames, FrameType
  <2>. QED
    BY <1>1, <1>2, <2>1, <2>2 DEF ProgramFrames, FrameFits
<1>4. A \in Seq(MAAPEntry) /\ C \in Seq(0..NArgs) /\ MAAPs = A \o FramePushes(f, D)
          /\ MAAP_counts = C \o FrameCounts(f)
  <2>1. /\ A \in Seq(MAAPEntry) /\ CountsOf(Outer(D - 1)) \in Seq(0..NArgs)
        /\ PushesOf(frames) = A \o FramePushes(f, D)
        /\ CountsOf(frames) = CountsOf(Outer(D - 1)) \o FrameCounts(f)
    BY <1>2, OuterPushes
  <2>2. FrameCounts(f) \in Seq(0..NArgs) /\ <<0>> \in Seq(0..NArgs)
    BY <1>2, CountsConcat, FramePushesTyped
  <2>3. MAAPs = PushesOf(frames) /\ MAAP_counts = <<0>> \o CountsOf(frames)
    BY DEF StackInv, StacksExact
  <2>. DEFINE a == CountsOf(Outer(D - 1))
              b == FrameCounts(f)
  <2>4. a \in Seq(0..NArgs) /\ b \in Seq(0..NArgs) /\ MAAP_counts = <<0>> \o (a \o b)
    BY <2>1, <2>2, <2>3
  <2>. HIDE DEF A, b, a, f, D
  <2>5. <<0>> \o (a \o b) = (<<0>> \o a) \o b /\ <<0>> \o a \in Seq(0..NArgs)
    BY <2>4, CountsConcat
  <2>. QED
    BY <2>1, <2>3, <2>4, <2>5 DEF a, b
<1>5. ASSUME should_check PROVE m = IF f.kind = "user" /\ idx < Len(f.args) /\ ~f.off THEN own
          ELSE ModRef
  <2>1. \A d \in 1..Len(frames) : ~frames[d].off
    <3>1. disabled_at = << >>
      BY <1>5 DEF should_check
    <3>2. 1..Len(<< >>) = {}
      OBVIOUS
    <3>. QED
      BY <3>1, <3>2 DEF StackInv, OffExact
  <2>2. ~f.off
    BY <1>2, <2>1
  <2>3. m = IF idx >= Back(MAAP_counts) THEN ModRef
            ELSE IF Ancestor(MAAPs, idx).id = f.name THEN Ancestor(MAAPs, idx) ELSE ModRef
    BY <1>5 DEF get_MAAP
  <2>4. CASE f.kind = "user"
    <3>. HIDE DEF f, A, C, D, m
    <3>1. Back(MAAP_counts) = Len(f.args)
      BY <1>2, <1>4, <2>2, <2>4, FrameOnTop
    <3>2. idx < Len(f.args) =>
             Ancestor(MAAPs, idx) = [id |-> f.name, depth |-> D, arg |-> f.args[idx + 1]]
      BY <1>2, <1>3, <1>4, <2>2, AncestorOnTop
    <3>3. idx < Len(f.args) => f.args = Arg
      <4>1. Len(<< >>) = 0
        OBVIOUS
      <4>. QED
        BY <1>3, <4>1
    <3>4. CASE idx < Len(f.args)
      BY <1>3, <2>2, <2>3, <2>4, <3>1, <3>2, <3>3, <3>4
    <3>5. CASE ~(idx < Len(f.args))
      BY <1>3, <2>3, <3>1, <3>5
    <3>. QED
      BY <3>4, <3>5
  <2>5. CASE f.kind = "callback"
    <3>. DEFINE n == D - 1
                g == frames[n]
    <3>1. n \in 1..Len(frames) /\ (g.kind = "ext" \/ (g.kind = "lib" /\ g.name = "qsort"))
      BY <1>2, <2>5 DEF NestedGood
    <3>2. MAAPs = A /\ MAAP_counts = C
      <4>1. f.args = << >> /\ f.kind \notin {"user", "ext"}
        BY <1>3, <2>5
      <4>. HIDE DEF f, A, C, D
      <4>. QED
        BY <1>2, <1>4, <2>2, <4>1, FrameOnTop
    <3>3. ASSUME idx < Back(MAAP_counts) PROVE Ancestor(MAAPs, idx).id # f.name
      <4>1. CASE g.kind = "ext"
        <5>. DEFINE P == PushesOf(Outer(n - 1))
                    Q == CountsOf(Outer(n - 1))
        <5>1. /\ P \in Seq(MAAPEntry) /\ Q \in Seq(0..NArgs)
              /\ A = P \o FramePushes(g, n) /\ CountsOf(Outer(n)) = Q \o FrameCounts(g)
              /\ g \in ProgramFrames /\ n \in 1..MaxDepth /\ ~g.off
          BY <2>1, <3>1, OuterPushes
        <5>2. C = (<<0>> \o Q) \o FrameCounts(g) /\ <<0>> \o Q \in Seq(0..NArgs)
          <6>3. FrameCounts(g) \in Seq(0..NArgs)
            BY <5>1, FramePushesTyped
          <6>4. C = <<0>> \o (Q \o FrameCounts(g))
            BY <5>1
          <6>. HIDE DEF C, Q, g
          <6>. QED
            BY <5>1, <6>3, <6>4, CountsConcat
        <5>. HIDE DEF A, C, P, Q, g, n, f
        <5>3. Back(C) = Len(g.args)
          BY <4>1, <5>1, <5>2, FrameOnTop
        <5>4. Ancestor(A, idx).id = g.name
          BY <1>3, <3>2, <3>3, <5>1, <5>3, AncestorOnTop
        <5>5. g.name = "ext" /\ "ext" \notin Funcs
          BY <4>1, <5>1, LibHooksAssumption DEF ProgramFrames, FrameFits
        <5>. QED
          BY <1>3, <3>2, <5>4, <5>5
      <4>2. CASE g.name = "qsort"
        <5>1. idx \in 0..1
          BY <1>1, <1>3, <2>5, <4>2
        <5>2. Hides(PushesOf(Outer(D)), <<0>> \o CountsOf(Outer(D)))
          <6>1. D \in 0..Len(frames) /\ frames[D].kind = "callback"
            BY <1>2, <2>5
          <6>. QED
            BY <2>1, <6>1, OuterHides
        <5>3. PushesOf(Outer(D)) = MAAPs /\ <<0>> \o CountsOf(Outer(D)) = MAAP_counts
          BY OuterPushes DEF StackInv, StacksExact
        <5>4. Hides(MAAPs, MAAP_counts)
          BY <5>2, <5>3
        <5>5. Ancestor(MAAPs, idx).id \notin Funcs \ Unaware
          BY <3>3, <5>1, <5>4 DEF Hides
        <5>. QED
          BY <1>1, <1>3, <5>5
      <4>. QED
        BY <3>1, <4>1, <4>2
    <3>4. Back(MAAP_counts) \in Nat
      <4>1. MAAP_counts \in Seq(0..NArgs) /\ MAAP_counts # << >>
        <5>1. MAAP_counts = <<0>> \o CountsOf(frames) /\ MAAP_counts \in Seq(0..NArgs)
          BY StacksTyped DEF StackInv, StacksExact
        <5>2. CountsOf(frames) \in Seq(0..NArgs) /\ <<0>> \in Seq(0..NArgs)
          <6>1. 0 \in 0..NArgs /\ FrameCounts(f) \in Seq(0..NArgs)
            BY <1>2, LibHooksAssumption, LenProperties, FramePushesTyped DEF NArgs
          <6>2. CountsOf(frames) = CountsOf(Outer(D - 1)) \o FrameCounts(f)
                    /\ CountsOf(Outer(D - 1)) \in Seq(0..NArgs)
            BY <1>2, OuterPushes
          <6>. QED
            BY <6>1, <6>2, ConcatProperties
        <5>3. Len(<<0>> \o CountsOf(frames)) = 1 + Len(CountsOf(frames))
                  /\ Len(CountsOf(frames)) \in Nat
          <6>1. Len(<<0>>) = 1
            OBVIOUS
          <6>. QED
            BY <5>2, <6>1, ConcatProperties, LenProperties
        <5>. QED
          BY <5>1, <5>3
      <4>2. Back(MAAP_counts) \in 0..NArgs
        BY <4>1, PopFacts
      <4>. QED
        BY <4>2, LibHooksAssumption, LenProperties DEF NArgs
    <3>5. m = ModRef
      <4>. HIDE DEF m, f
      <4>1. CASE idx >= Back(MAAP_counts)
        BY <2>3, <4>1
      <4>2. CASE ~(idx >= Back(MAAP_counts))
        BY <1>3, <2>3, <3>3, <3>4, <4>2
      <4>. QED
        BY <4>1, <4>2
    <3>. QED
      BY <2>5, <3>5
  <2>. QED
    BY <1>1, <2>4, <2>5
<1>6. ASSUME ~should_check PROVE m = NoAccess
  BY <1>6 DEF get_MAAP
<1>7. AnswerExact' <=>
         m = IF ~should_check THEN NoAccess
             ELSE IF f.kind = "user" /\ idx < Len(f.args) /\ ~f.off THEN own ELSE ModRef
  <2>1. should_check' <=> should_check
    BY <1>1 DEF should_check
  <2>2. answer'.depth = D /\ answer'.idx = idx /\ answer'.val = m /\ frames'[D] = f /\ D > 0
    BY <1>1, <1>2
  <2>. HIDE DEF m, f, D
  <2>. QED
    BY <2>1, <2>2 DEF AnswerExact
<1>. HIDE DEF m, own, f
<1>. QED
  BY <1>5, <1>6, <1>7

\* get_MAAP (driver.cpp) answers with what the caller set for the very parameter, or with the worst
\* case, whatever callbacks and callers without MAAPs have left on the stacks.
THEOREM AnswersAreExact ==
    ASSUME KnownHooks
    PROVE  LibSpec => []AnswerExact
<1>. DEFINE Inv == (StackInv /\ HookedKinds) /\ NestedGood /\ AnswerExact
<1>0. ~(Nobody.depth > 0)
  BY DEF Nobody
<1>1. LibInit => Inv
  <2>1. LibInit => NestedGood
    BY DEF LibInit, NestedGood
  <2>2. LibInit => answer = Nobody
    BY DEF LibInit
  <2>. QED
    BY <1>0, <2>1, <2>2, StackInvInit DEF AnswerExact
<1>2. Inv /\ [LibNext]_lvars => Inv'
  <2>. SUFFICES ASSUME Inv, [LibNext]_lvars PROVE AnswerExact'
    BY StackInvStep, NestedStep
  <2>1. CASE answer' = Nobody
    BY <1>0, <2>1 DEF AnswerExact
  <2>2. CASE answer' # Nobody
    <3>1. CASE UNCHANGED lvars
      BY <3>1 DEF lvars, AnswerExact, should_check
    <3>2. CASE \E i \in 0..NArgs - 1 : AskMAAP(i)
      BY <3>2, AnswersFit
    <3>3. CASE LibNext /\ ~\E i \in 0..NArgs - 1 : AskMAAP(i)
      <4>1. answer' = Nobody
        BY <3>3
        DEF LibNext, CallUser, Callback, CallExternal, CallLib, Push, Forget, LibHook, Return,
                    disable_checking, enable_checking
      <4>. QED
        BY <2>2, <4>1
    <3>. QED
      BY <3>1, <3>2, <3>3
  <2>. QED
    BY <2>1, <2>2
<1>3. Inv => AnswerExact
  OBVIOUS
<1>. QED
  BY <1>1, <1>2, <1>3, PTL DEF LibSpec

(***************************************************************************)
(* The accesses a hook checks: after k directives an interpreter has       *)
(* checked what the C function accessed for these k.                       *)
(***************************************************************************)
\* The arguments an interpreter has checked for a kind of access.
Made(st, kind) == {st.checks[j].arg : j \in {i \in 1..Len(st.checks) : st.checks[i].kind = kind}}

\* One more check adds its argument.
LEMMA MadeByRange ==
    ASSUME NEW t, NEW st, NEW count, NEW kind, NEW arg, RangeChecked(t, st, count, kind, arg)
    PROVE  \A k : Made(t, k) = Made(st, k) \cup (IF k = kind THEN {arg} ELSE {})
<1>. DEFINE n == Len(st.checks)
<1>1. /\ Len(t.checks) = n + 1 /\ n \in Nat
      /\ t.checks[n + 1].kind = kind /\ t.checks[n + 1].arg = arg
      /\ \A j \in 1..n : t.checks[j] = st.checks[j]
  BY DEF RangeChecked
<1>2. \A j \in 1..Len(t.checks) : j \in 1..n \/ j = n + 1
  BY <1>1
<1>3. (\A j \in 1..n : j \in 1..Len(t.checks)) /\ n + 1 \in 1..Len(t.checks)
  BY <1>1
<1>. HIDE DEF n
<1>. QED
  BY <1>1, <1>2, <1>3 DEF Made, n

\* What a directive of printf adds.
PrintfAdds(d, kind) ==
    IF \/ kind = "write" /\ d.conv = "n"
       \/ kind = "read" /\ d.conv = "s" /\ ~d.null /\ ~d.star
    THEN {d.arg} ELSE {}

\* A directive both interpreters read, and what it adds to the checks of a kind.
Readable(d) == d.conv \notin {"m", "bad", "1$", "ls"}

\* printf_directive adds just that.
LEMMA PrintfDirectiveAdds ==
    ASSUME NEW A, NEW count \in Nat, NEW st \in Progress(A), NEW d \in Directives(A), Readable(d),
           ~st.over
    PROVE  LET t == Directed("printf", count, st, d)
           IN  ~t.over /\ \A kind \in {"read", "write"} : Made(t, kind) = Made(st, kind)
               \cup PrintfAdds(d, kind)
<1>. DEFINE t == printf_directive(count, st, d)
            Fine(x) == ~x.over /\ \A kind \in {"read", "write"} : Made(x, kind) = Made(st, kind)
                \cup PrintfAdds(d, kind)
<1>1. t = Directed("printf", count, st, d)
  BY DEF Directed
<1>2. d.conv \in {"d", "p", "s", "n"} /\ d.star \in BOOLEAN /\ d.null \in BOOLEAN
  BY DEF Directives, Readable
<1>3. ASSUME NEW k PROVE /\ ~CheckRange(count, st, k, d.arg).over
                         /\ \A kind : Made(CheckRange(count, st, k, d.arg), kind)
                                        = Made(st, kind) \cup (IF kind = k THEN {d.arg} ELSE {})
  <2>. DEFINE x == CheckRange(count, st, k, d.arg)
  <2>1. RangeChecked(x, st, count, k, d.arg)
    BY CheckRangeIs
  <2>. HIDE DEF x
  <2>2. ~x.over
    BY <2>1 DEF RangeChecked
  <2>. QED
    BY <2>1, <2>2, MadeByRange DEF x
<1>4. ASSUME d.conv = "n" PROVE Fine(t)
  <2>1. t = CheckRange(count, st, "write", d.arg)
    BY <1>4 DEF printf_directive
  <2>2. \A kind \in {"read", "write"} : PrintfAdds(d, kind) = IF kind = "write" THEN {d.arg}
            ELSE {}
    BY <1>4 DEF PrintfAdds
  <2>. HIDE DEF t
  <2>. QED
    BY <1>3, <2>1, <2>2
<1>5. ASSUME d.conv = "s", ~d.star, ~d.null PROVE Fine(t)
  <2>1. t = CheckRange(count, st, "read", d.arg)
    BY <1>5 DEF printf_directive
  <2>2. \A kind \in {"read", "write"} : PrintfAdds(d, kind) = IF kind = "read" THEN {d.arg}
            ELSE {}
    BY <1>5 DEF PrintfAdds
  <2>. HIDE DEF t
  <2>. QED
    BY <1>3, <2>1, <2>2
<1>6. ASSUME d.conv = "s", d.star, ~d.null PROVE Fine(t)
  <2>1. t = CheckRange(count, st, "nothing", d.arg)
    BY <1>6 DEF printf_directive
  <2>2. \A kind \in {"read", "write"} : PrintfAdds(d, kind) = {} /\ kind # "nothing"
    BY <1>6 DEF PrintfAdds
  <2>. HIDE DEF t
  <2>. QED
    BY <1>3, <2>1, <2>2
<1>7. ASSUME d.conv = "s", d.null PROVE Fine(t)
  <2>1. t = st
    BY <1>7 DEF printf_directive
  <2>2. \A kind \in {"read", "write"} : PrintfAdds(d, kind) = {}
    BY <1>7 DEF PrintfAdds
  <2>. QED
    BY <2>1, <2>2
<1>8. ASSUME d.conv \in {"d", "p"} PROVE Fine(t)
  <2>1. t = SkipScalarArg(count, st, d.conv)
    BY <1>8 DEF printf_directive
  <2>2. t.over = st.over /\ t.checks = st.checks
    BY <2>1 DEF SkipScalarArg, Progress
  <2>3. \A kind \in {"read", "write"} : PrintfAdds(d, kind) = {}
    BY <1>8 DEF PrintfAdds
  <2>. HIDE DEF t
  <2>. QED
    BY <2>2, <2>3 DEF Made
<1>9. Fine(t)
  <2>. HIDE DEF Fine, t
  <2>. QED
    BY <1>2, <1>4, <1>5, <1>6, <1>7, <1>8
<1>. QED
  BY <1>1, <1>9

\* How many inputs the first k directives of a scanf take.
Takes(d) == ~d.star /\ d.conv # "n"
Taken(dirs, k) == Cardinality({j \in 1..k : ~dirs[j].star /\ dirs[j].conv # "n"})

\* They are counted one by one.
LEMMA TakenGrows ==
    ASSUME NEW dirs
    PROVE  /\ Taken(dirs, 0) = 0 /\ \A k \in Nat : Taken(dirs, k) \in Nat
           /\ \A k \in Nat : Taken(dirs, k + 1)
                = Taken(dirs, k) + (IF Takes(dirs[k + 1]) THEN 1 ELSE 0)
<1>. DEFINE S(k) == {j \in 1..k : ~dirs[j].star /\ dirs[j].conv # "n"}
<1>1. \A k \in Nat : IsFiniteSet(S(k)) /\ Cardinality(S(k)) \in Nat
  <2>. TAKE k \in Nat
  <2>1. IsFiniteSet(1..k) /\ S(k) \subseteq 1..k
    BY FS_Interval
  <2>. HIDE DEF S
  <2>. QED
    BY <2>1, FS_Subset, FS_CardinalityType
<1>2. S(0) = {}
  OBVIOUS
<1>3. ASSUME NEW k \in Nat PROVE Cardinality(S(k + 1))
          = Cardinality(S(k)) + (IF Takes(dirs[k + 1]) THEN 1 ELSE 0)
  <2>1. S(k + 1) = IF Takes(dirs[k + 1]) THEN S(k) \cup {k + 1} ELSE S(k)
    BY DEF Takes
  <2>2. k + 1 \notin S(k)
    OBVIOUS
  <2>3. IsFiniteSet(S(k)) /\ Cardinality(S(k)) \in Nat
    BY <1>1
  <2>. HIDE DEF S
  <2>4. Cardinality(S(k) \cup {k + 1}) = Cardinality(S(k)) + 1
    BY <2>2, <2>3, FS_AddElement
  <2>. QED
    BY <2>1, <2>3, <2>4
<1>. HIDE DEF S
<1>4. Cardinality(S(0)) = 0
  BY <1>2, FS_EmptySet
<1>. QED
  BY <1>1, <1>3, <1>4 DEF Taken, S

\* What the first k directives of a format store and read.
StoredTo(dirs, n, k) == {dirs[i].arg : i \in {j \in 1..k : ~dirs[j].star /\ Taken(dirs, j) <= n}}
ReadTo(dirs, k) ==
    {dirs[i].arg : i \in {j \in 1..k : dirs[j].conv = "s" /\ ~dirs[j].null /\ ~dirs[j].star}}
CountsTo(dirs, k) == {dirs[i].arg : i \in {j \in 1..k : dirs[j].conv = "n"}}

\* One directive more.
LEMMA OneMore ==
    ASSUME NEW dirs, NEW k \in Nat
    PROVE  LET d == dirs[k + 1]
           IN  /\ ReadTo(dirs, k + 1) = ReadTo(dirs, k) \cup PrintfAdds(d, "read")
               /\ CountsTo(dirs, k + 1) = CountsTo(dirs, k) \cup PrintfAdds(d, "write")
               /\ \A n : StoredTo(dirs, n, k + 1) =
                     StoredTo(dirs, n, k)
                         \cup (IF ~d.star /\ Taken(dirs, k + 1) <= n THEN {d.arg} ELSE {})
<1>1. /\ \A j \in 1..k + 1 : j \in 1..k \/ j = k + 1
      /\ \A j \in 1..k : j \in 1..k + 1
      /\ k + 1 \in 1..k + 1
  OBVIOUS
<1>2. ReadTo(dirs, k + 1) = ReadTo(dirs, k) \cup PrintfAdds(dirs[k + 1], "read")
  BY <1>1 DEF ReadTo, PrintfAdds
<1>3. CountsTo(dirs, k + 1) = CountsTo(dirs, k) \cup PrintfAdds(dirs[k + 1], "write")
  BY <1>1 DEF CountsTo, PrintfAdds
<1>4. ASSUME NEW n
      PROVE  StoredTo(dirs, n, k + 1) =
                StoredTo(dirs, n, k)
                    \cup (IF ~dirs[k + 1].star /\ Taken(dirs, k + 1) <= n THEN {dirs[k + 1].arg}
                          ELSE {})
  BY <1>1 DEF StoredTo
<1>. QED
  BY <1>2, <1>3, <1>4

\* Nothing yet.
LEMMA NoneYet ==
    \A dirs, n : ReadTo(dirs, 0) = {} /\ CountsTo(dirs, 0) = {} /\ StoredTo(dirs, n, 0) = {}
<1>1. 1..0 = {}
  OBVIOUS
<1>. QED
  BY <1>1 DEF ReadTo, CountsTo, StoredTo

\* Where the interpreters are after k directives.
PrintfAt(st, dirs, k) ==
    ~st.over /\ Made(st, "write") = CountsTo(dirs, k)
        /\ Made(st, "read") = {"format"} \cup ReadTo(dirs, k)
ScanfAt(st, dirs, n, k) ==
    /\ st.over => Taken(dirs, k) > n
    /\ ~st.over => st.inputs = n - Taken(dirs, k) /\ st.inputs >= 0
    /\ Made(st, "write") = StoredTo(dirs, n, k) /\ Made(st, "read") = {"format"}

\* A directive takes the interpreter of scanf one further.
LEMMA ScanfDirectiveAdds ==
    ASSUME NEW A, NEW count \in Nat, NEW st \in Progress(A), NEW dirs, NEW n \in Nat,
           NEW k \in Nat,
           dirs[k + 1] \in Directives(A), Readable(dirs[k + 1]), ScanfAt(st, dirs, n, k)
    PROVE  ScanfAt(Directed("scanf", count, st, dirs[k + 1]), dirs, n, k + 1)
<1>. DEFINE d == dirs[k + 1]
            t == scanf_directive(count, st, d)
            c == Taken(dirs, k)
            c1 == Taken(dirs, k + 1)
            left == IF d.conv = "n" THEN st.inputs ELSE st.inputs - 1
            Fine == ScanfAt(t, dirs, n, k + 1)
<1>1. t = Directed("scanf", count, st, d)
  BY DEF Directed
<1>2. /\ d.conv \in {"d", "p", "s", "n"} /\ d.star \in BOOLEAN
      /\ st.inputs \in Int /\ st.over \in BOOLEAN
  BY DEF Directives, Readable, Progress
<1>3. c \in Nat /\ c1 = c + (IF ~d.star /\ d.conv # "n" THEN 1 ELSE 0)
  BY TakenGrows DEF Takes
<1>4. StoredTo(dirs, n, k + 1) = StoredTo(dirs, n, k)
          \cup (IF ~d.star /\ c1 <= n THEN {d.arg} ELSE {})
  BY OneMore
<1>5. /\ st.over => c > n
      /\ ~st.over => st.inputs = n - c /\ st.inputs >= 0
      /\ Made(st, "write") = StoredTo(dirs, n, k) /\ Made(st, "read") = {"format"}
  BY DEF ScanfAt
<1>. HIDE DEF d, c, c1
<1>6. ASSUME st.over PROVE Fine
  <2>1. t = st
    BY <1>6 DEF scanf_directive
  <2>2. c1 > n
    BY <1>3, <1>5, <1>6
  <2>3. ~(c1 <= n)
    BY <1>3, <2>2
  <2>. HIDE DEF t
  <2>. QED
    BY <1>4, <1>5, <1>6, <2>1, <2>2, <2>3 DEF ScanfAt, c1
<1>7. ASSUME ~st.over, d.star PROVE Fine
  <2>1. t = st
    BY <1>2, <1>7 DEF scanf_directive
  <2>2. c1 = c
    BY <1>3, <1>7
  <2>. HIDE DEF t
  <2>. QED
    BY <1>4, <1>5, <1>7, <2>1, <2>2 DEF ScanfAt, c1
<1>8. ASSUME ~st.over, ~d.star PROVE Fine
  <2>1. left = n - c1 /\ left \in Int
    BY <1>2, <1>3, <1>5, <1>8
  <2>2. t = IF left < 0 THEN [st EXCEPT !.over = TRUE]
            ELSE CheckRange(count, [st EXCEPT !.inputs = left], IF d.conv = "ls" THEN "nothing"
                            ELSE "write", d.arg)
    BY <1>2, <1>8 DEF scanf_directive
  <2>. HIDE DEF t, left
  <2>3. ASSUME left < 0 PROVE Fine
    <3>1. t.over /\ t.checks = st.checks
      BY <2>2, <2>3 DEF Progress
    <3>2. c1 > n /\ ~(c1 <= n)
      BY <1>3, <2>1, <2>3
    <3>3. Made(t, "write") = Made(st, "write") /\ Made(t, "read") = Made(st, "read")
      BY <3>1 DEF Made
    <3>. QED
      BY <1>4, <1>5, <3>1, <3>2, <3>3 DEF ScanfAt, c1
  <2>4. ASSUME ~(left < 0) PROVE Fine
    <3>. DEFINE s == [st EXCEPT !.inputs = left]
    <3>1. s \in Progress(A) /\ s.inputs = left /\ s.over = st.over /\ s.checks = st.checks
      BY <2>1 DEF Progress
    <3>2. t = CheckRange(count, s, "write", d.arg)
      BY <1>2, <2>2, <2>4
    <3>. HIDE DEF s
    <3>3. RangeChecked(t, s, count, "write", d.arg)
      BY <3>1, <3>2, CheckRangeIs
    <3>4. ~t.over /\ t.inputs = left
      BY <1>8, <3>1, <3>3 DEF RangeChecked
    <3>5. Made(s, "write") = Made(st, "write") /\ Made(s, "read") = Made(st, "read")
      BY <3>1 DEF Made
    <3>6. \A kind : Made(t, kind) = Made(s, kind) \cup (IF kind = "write" THEN {d.arg} ELSE {})
      BY <3>3, MadeByRange
    <3>7. Made(t, "write") = Made(st, "write") \cup {d.arg} /\ Made(t, "read") = Made(st, "read")
      BY <3>5, <3>6
    <3>8. c1 <= n /\ left >= 0
      BY <1>3, <2>1, <2>4
    <3>9. StoredTo(dirs, n, k + 1) = StoredTo(dirs, n, k) \cup {d.arg}
      BY <1>4, <1>8, <3>8
    <3>. QED
      BY <1>5, <2>1, <3>4, <3>7, <3>8, <3>9 DEF ScanfAt, c1
  <2>. QED
    BY <2>3, <2>4
<1>9. Fine
  BY <1>6, <1>7, <1>8
<1>. QED
  BY <1>1, <1>9 DEF d

\* Both begin with the format.
LEMMA BegunAt ==
    ASSUME NEW A, "format" \in A, NEW count \in Nat, NEW inputs \in Nat, NEW dirs
    PROVE  /\ PrintfAt(Begun(count, inputs), dirs, 0)
           /\ ScanfAt(Begun(count, inputs), dirs, inputs, 0)
<1>. DEFINE st == [Start EXCEPT !.inputs = inputs]
            t == Begun(count, inputs)
<1>1. st.checks = << >> /\ ~st.over /\ st.inputs = inputs /\ Len(<< >>) = 0
  BY DEF Start
<1>2. st \in Progress(A)
  <2>1. << >> \in Seq([kind : Kinds, arg : A, slot : Nat])
    BY EmptySeq
  <2>2. inputs \in Int
    OBVIOUS
  <2>. QED
    BY <2>1, <2>2 DEF Start, Progress
<1>. HIDE DEF st
<1>3. RangeChecked(t, st, count, "read", "format")
  BY <1>2, CheckRangeIs DEF Begun, st
<1>. HIDE DEF t
<1>4. ~t.over /\ t.inputs = inputs
  BY <1>1, <1>3 DEF RangeChecked
<1>5. \A k : Made(st, k) = {}
  <2>1. 1..Len(st.checks) = {}
    BY <1>1
  <2>. QED
    BY <2>1 DEF Made
<1>6. Made(t, "write") = {} /\ Made(t, "read") = {"format"}
  BY <1>3, <1>5, MadeByRange
<1>7. Taken(dirs, 0) = 0
  BY TakenGrows
<1>. QED
  BY <1>4, <1>6, <1>7, NoneYet DEF PrintfAt, ScanfAt, t

\* An interpreter checks what the C function accesses.
LEMMA RunsMake ==
    ASSUME NEW A, "format" \in A, NEW fmt \in {"printf", "scanf"}, NEW count \in Nat,
           NEW inputs \in Nat,
           NEW dirs \in Seq(Directives(A)), Supported(dirs), NEW g,
               Runs(g, fmt, count, inputs, dirs, A)
    PROVE  /\ fmt = "printf" => PrintfAt(g[Len(dirs)], dirs, Len(dirs))
           /\ fmt = "scanf" => ScanfAt(g[Len(dirs)], dirs, inputs, Len(dirs))
<1>. DEFINE N == Len(dirs)
            Good(n) == /\ fmt = "printf" => PrintfAt(g[n], dirs, n)
                       /\ fmt = "scanf" => ScanfAt(g[n], dirs, inputs, n)
            S == {n \in 0..N : Good(n)}
<1>1. N \in Nat /\ \A n \in 1..N : dirs[n] \in Directives(A) /\ Readable(dirs[n])
  BY ElementOfSeq, LenProperties DEF Supported, Readable
<1>2. /\ \A n \in 0..N : g[n] \in Progress(A)
      /\ g[0] = Begun(count, inputs)
      /\ \A n \in 1..N : g[n] = Directed(fmt, count, g[n - 1], dirs[n])
  BY DEF Runs
<1>3. 0 \in S
  <2>1. Good(0)
    BY <1>2, BegunAt
  <2>. QED
    BY <1>1, <2>1
<1>4. ASSUME NEW n \in 0..(N - 1), n \in S PROVE n + 1 \in S
  <2>1. n + 1 \in 1..N /\ n + 1 \in 0..N /\ (n + 1) - 1 = n /\ n \in 0..N /\ n \in Nat
    BY <1>1
  <2>2. Good(n)
    BY <1>4
  <2>3. g[n + 1] = Directed(fmt, count, g[n], dirs[n + 1]) /\ g[n] \in Progress(A)
        /\ dirs[n + 1] \in Directives(A) /\ Readable(dirs[n + 1])
    BY <1>1, <1>2, <2>1
  <2>4. ASSUME fmt = "printf" PROVE PrintfAt(g[n + 1], dirs, n + 1)
    <3>1. /\ ~g[n].over /\ Made(g[n], "write") = CountsTo(dirs, n)
          /\ Made(g[n], "read") = {"format"} \cup ReadTo(dirs, n)
      BY <2>2, <2>4 DEF PrintfAt
    <3>2. /\ ~g[n + 1].over
          /\ Made(g[n + 1], "write") = Made(g[n], "write") \cup PrintfAdds(dirs[n + 1], "write")
          /\ Made(g[n + 1], "read") = Made(g[n], "read") \cup PrintfAdds(dirs[n + 1], "read")
      BY <2>3, <2>4, <3>1, PrintfDirectiveAdds
    <3>3. /\ ReadTo(dirs, n + 1) = ReadTo(dirs, n) \cup PrintfAdds(dirs[n + 1], "read")
          /\ CountsTo(dirs, n + 1) = CountsTo(dirs, n) \cup PrintfAdds(dirs[n + 1], "write")
      BY <2>1, OneMore
    <3>. QED
      BY <3>1, <3>2, <3>3 DEF PrintfAt
  <2>5. ASSUME fmt = "scanf" PROVE ScanfAt(g[n + 1], dirs, inputs, n + 1)
    BY <2>1, <2>2, <2>3, <2>5, ScanfDirectiveAdds
  <2>6. Good(n + 1)
    BY <2>4, <2>5
  <2>. QED
    BY <2>1, <2>6
<1>5. N \in S
  <2>. HIDE DEF S
  <2>1. \A n \in 0..N : n \in S
    BY <1>1, <1>3, <1>4, UpTo
  <2>. QED
    BY <1>1, <2>1
<1>. QED
  BY <1>5

\* The checks a call's hook makes of the variable arguments are those of its interpreter.
MadeOf(made, kind) == {made[i].arg : i \in {j \in 1..Len(made) : made[j].kind = kind}}

\* They are listed with their kinds.
LEMMA VarChecksAre ==
    ASSUME NEW f \in ProgramFrames, f.kind = "lib", f.name \notin {"fputs", "sscanf"},
           NEW n \in Int,
           HookTable[f.name].fmt # "none", NEW kind
    PROVE  LET e == HookTable[f.name]
               V == DirArgs(f.dirs)
           IN  MadeOf(HookChecks(e, Len(f.args), n, f.dirs), kind) \cap V
                   = Made(RunOf(e, Len(f.args), n, f.dirs), kind) \cap V
<1>. DEFINE e == HookTable[f.name]
            V == DirArgs(f.dirs)
            made == HookChecks(e, Len(f.args), n, f.dirs)
            run == RunOf(e, Len(f.args), n, f.dirs)
<1>1. /\ \A i \in 1..Len(made) :
            \/ \E j \in 1..Len(e.checks) : made[i] = OwnCheck(e, Len(f.args), e.checks[j])
            \/ \E j \in 1..Len(run.checks) : made[i] = FormatCheck(e, Len(f.args), run.checks[j])
      /\ \A j \in 1..Len(run.checks) : \E i \in 1..Len(made) :
           made[i] = FormatCheck(e, Len(f.args), run.checks[j])
  BY ChecksOfCall
<1>2. \A j \in 1..Len(e.checks) : e.checks[j].arg \notin V
  <2>1. f.name \in LibCalls /\ f.dirs \in Formatted(f.name) /\ FmtOf(f.name) # "none"
    BY LibFrame
  <2>2. f.dirs \in DirSeqs
    BY <2>1 DEF Formatted
  <2>. QED
    BY <2>1, <2>2, LibHooksAssumption
<1>3. /\ \A c : OwnCheck(e, Len(f.args), c).arg = c.arg
      /\ \A c : FormatCheck(e, Len(f.args), c).kind = c.kind
           /\ FormatCheck(e, Len(f.args), c).arg = c.arg
  BY DEF OwnCheck, FormatCheck
<1>. HIDE DEF e, V, made, run
<1>4. ASSUME NEW x \in MadeOf(made, kind), x \in V PROVE x \in Made(run, kind)
  <2>1. PICK i \in 1..Len(made) : made[i].kind = kind /\ made[i].arg = x
    BY <1>4 DEF MadeOf
  <2>2. ~\E j \in 1..Len(e.checks) : made[i] = OwnCheck(e, Len(f.args), e.checks[j])
    BY <1>2, <1>3, <1>4, <2>1
  <2>3. PICK j \in 1..Len(run.checks) : made[i] = FormatCheck(e, Len(f.args), run.checks[j])
    BY <1>1, <2>2
  <2>4. run.checks[j].kind = kind /\ run.checks[j].arg = x
    BY <1>3, <2>1, <2>3
  <2>. QED
    BY <2>4 DEF Made
<1>5. ASSUME NEW x \in Made(run, kind) PROVE x \in MadeOf(made, kind)
  <2>1. PICK j \in 1..Len(run.checks) : run.checks[j].kind = kind /\ run.checks[j].arg = x
    BY <1>5 DEF Made
  <2>2. PICK i \in 1..Len(made) : made[i] = FormatCheck(e, Len(f.args), run.checks[j])
    BY <1>1
  <2>3. made[i].kind = kind /\ made[i].arg = x
    BY <1>3, <2>1, <2>2
  <2>. QED
    BY <2>3 DEF MadeOf
<1>6. MadeOf(made, kind) \cap V = Made(run, kind) \cap V
  BY <1>4, <1>5
<1>. QED
  BY <1>6 DEF e, V, made, run

\* So the hook checks what the function accessed.
LEMMA HookCovers ==
    ASSUME KnownHooks, StackInv, NEW par, NEW ok, NEW n \in Nat, LibHook(par, ok, n),
           hooked' # NoChecks
    PROVE  VarArgsChecked'
<1>. DEFINE f == Back(frames)
            e == HookTable[f.name]
            count == Len(f.args)
            run == RunOf(e, count, n, f.dirs)
            made == HookChecks(e, count, n, f.dirs)
            dirs == f.dirs
            V == DirArgs(dirs)
            scans == FmtOf(f.name) = "scanf"
            W == IF scans THEN StoredBy(dirs, n) ELSE CountsBy(dirs)
            R == IF scans THEN {} ELSE ReadBy(dirs)
            Fine == MadeOf(made, "write") \cap V = W /\ MadeOf(made, "read") \cap V = R
<1>0. n \in Int
  OBVIOUS
<1>1. /\ frames # << >> /\ f.kind = "lib"
      /\ hooked'.call.name = f.name /\ hooked'.call.dirs = f.dirs /\ hooked'.call.stored = n
      /\ hooked'.made = made
  BY <1>0, HookedAre
<1>2. f \in ProgramFrames
  BY <1>1, TopFrame
<1>3. f.name \notin {"fputs", "sscanf"} /\ f.name \in LibCalls
  <2>1. f.name \in LibCalls
    BY <1>1, <1>2 DEF ProgramFrames, FrameFits
  <2>. QED
    BY <2>1 DEF KnownHooks
<1>4. f.dirs \in Formatted(f.name) /\ FmtOf(f.name) = e.fmt
          /\ e.fmt \in {"none", "printf", "scanf"}
  <2>. HIDE DEF f
  <2>. QED
    BY <1>1, <1>2, <1>3, LibFrame DEF HookEntry, FormatIsNext
<1>5. VarArgsChecked' <=> (f.name # "none" /\ Supported(dirs) => Fine)
  <2>. HIDE DEF f, made
  <2>. QED
    BY <1>1 DEF VarArgsChecked, Checked, VarArgs, MadeOf
<1>6. ASSUME e.fmt = "none" PROVE Fine
  <2>1. dirs = << >>
    BY <1>3, <1>4, <1>6, FormatsTyped
  <2>2. V = {} /\ CountsBy(dirs) = {} /\ ReadBy(dirs) = {}
    <3>1. 1..Len(<< >>) = {}
      OBVIOUS
    <3>2. DirArgs(<< >>) = {} /\ CountsBy(<< >>) = {} /\ ReadBy(<< >>) = {}
      BY <3>1 DEF DirArgs, CountsBy, ReadBy
    <3>. QED
      BY <2>1, <3>2
  <2>3. ~scans
    BY <1>4, <1>6
  <2>. HIDE DEF made, dirs, V, scans, f, e
  <2>. QED
    BY <2>2, <2>3
<1>7. ASSUME e.fmt # "none", Supported(dirs) PROVE Fine
  <2>. DEFINE A == V \cup {"format"}
              N == Len(dirs)
              inputs == IF e.fmt = "scanf" THEN n ELSE 0
              L == LeftOver(e, Len(f.args))
  <2>1. PICK g : Runs(g, e.fmt, L, inputs, dirs, A) /\ run = g[N]
    BY <1>0, <1>1, <1>2, <1>3, <1>7, HookRuns
  <2>2. L \in Nat
    <3>. HIDE DEF f, L
    <3>. QED
      BY <1>1, <1>2, <1>3, <1>7, LibFrame DEF L
  <2>3. dirs \in Seq(Directives(A)) /\ dirs \in DirSeqs
    <3>1. dirs \in DirSeqs
      BY <1>4, <1>7 DEF Formatted
    <3>2. dirs \in Seq(Directives(V))
      BY <3>1, LibHooksAssumption
    <3>3. Directives(V) \subseteq Directives(A)
      BY DEF Directives
    <3>. HIDE DEF A
    <3>. QED
      BY <3>1, <3>2, <3>3
  <2>4. "format" \in A /\ "format" \notin V
    BY <2>3, LibHooksAssumption
  <2>5. \A kind : MadeOf(made, kind) \cap V = Made(run, kind) \cap V
    <3>. HIDE DEF f
    <3>. QED
      BY <1>0, <1>1, <1>2, <1>3, <1>7, VarChecksAre
  <2>6. inputs \in Nat /\ e.fmt \in {"printf", "scanf"}
    BY <1>4, <1>7
  <2>. HIDE DEF A, L, inputs, f, e, run, made, dirs
  <2>7. /\ e.fmt = "printf" => PrintfAt(g[N], dirs, N)
        /\ e.fmt = "scanf" => ScanfAt(g[N], dirs, inputs, N)
    BY <1>7, <2>1, <2>2, <2>3, <2>4, <2>6, RunsMake
  <2>8. /\ CountsTo(dirs, N) = CountsBy(dirs) /\ CountsBy(dirs) \subseteq V
        /\ ReadTo(dirs, N) = ReadBy(dirs) /\ ReadBy(dirs) \subseteq V
        /\ StoredTo(dirs, n, N) = StoredBy(dirs, n) /\ StoredBy(dirs, n) \subseteq V
    BY DEF CountsTo, CountsBy, ReadTo, ReadBy, StoredTo, StoredBy, Taken, DirArgs
  <2>. HIDE DEF V, N
  <2>9. ASSUME e.fmt = "printf" PROVE Fine
    <3>1. Made(run, "write") = CountsBy(dirs) /\ Made(run, "read") = {"format"} \cup ReadBy(dirs)
      BY <2>1, <2>7, <2>8, <2>9 DEF PrintfAt
    <3>2. ~scans
      BY <1>4, <2>9
    <3>. HIDE DEF scans
    <3>. QED
      BY <2>4, <2>5, <2>8, <3>1, <3>2
  <2>10. ASSUME e.fmt = "scanf" PROVE Fine
    <3>1. Made(run, "write") = StoredBy(dirs, n) /\ Made(run, "read") = {"format"}
      BY <2>1, <2>7, <2>8, <2>10 DEF ScanfAt, inputs
    <3>2. scans
      BY <1>4, <2>10
    <3>. HIDE DEF scans
    <3>. QED
      BY <2>4, <2>5, <2>8, <3>1, <3>2
  <2>. QED
    BY <2>6, <2>9, <2>10
<1>. HIDE DEF Fine
<1>. QED
  BY <1>5, <1>6, <1>7

\* The variable arguments that printf_common and scanf_common (hook_format.inc) check are those the
\* C function accessed, each for its access.
THEOREM VarArgsAreChecked ==
    ASSUME KnownHooks
    PROVE  LibSpec => []VarArgsChecked
<1>. DEFINE Inv == (StackInv /\ HookedKinds) /\ VarArgsChecked
<1>0. NoChecks.call.name = "none"
  BY DEF NoChecks
<1>1. LibInit => Inv
  <2>1. LibInit => hooked = NoChecks
    BY DEF LibInit
  <2>. QED
    BY <1>0, <2>1, StackInvInit DEF VarArgsChecked
<1>2. Inv /\ [LibNext]_lvars => Inv'
  <2>. SUFFICES ASSUME Inv, [LibNext]_lvars PROVE VarArgsChecked'
    BY StackInvStep
  <2>1. CASE hooked' = NoChecks
    BY <1>0, <2>1 DEF VarArgsChecked
  <2>2. CASE hooked' # NoChecks
    <3>1. CASE UNCHANGED hooked
      BY <3>1 DEF VarArgsChecked, Checked, VarArgs
    <3>2. CASE \E par, ok \in BOOLEAN, n \in 0..2 : LibHook(par, ok, n)
      <4>1. PICK par \in BOOLEAN, ok \in BOOLEAN, n \in 0..2 : LibHook(par, ok, n)
        BY <3>2
      <4>. QED
        BY <2>2, <4>1, HookCovers
    <3>3. CASE LibNext /\ ~\E par, ok \in BOOLEAN, n \in 0..2 : LibHook(par, ok, n)
      <4>1. hooked' = NoChecks
        BY <3>3
        DEF LibNext, CallUser, Callback, CallExternal, CallLib, Push, Forget, AskMAAP, Return,
                    disable_checking, enable_checking
      <4>. QED
        BY <2>2, <4>1
    <3>. QED
      BY <3>1, <3>2, <3>3 DEF lvars
  <2>. QED
    BY <2>1, <2>2
<1>3. Inv => VarArgsChecked
  OBVIOUS
<1>. QED
  BY <1>1, <1>2, <1>3, PTL DEF LibSpec
=============================================================================
