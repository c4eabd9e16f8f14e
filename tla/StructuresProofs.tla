-------------------------- MODULE StructuresProofs --------------------------
(***************************************************************************)
(* Proofs about the data structures the detectors stand on.                *)
(*                                                                         *)
(* DisjointSet: whatever is linked, compressed, deleted and allocated      *)
(* again, counts are exact, a bag holds the root of its set, and the nodes *)
(* implement Partition.                                                    *)
(*                                                                         *)
(* FedTables: whatever units are loaded and whatever threads look entries  *)
(* up meanwhile, a global id stands for one entry, the same in every       *)
(* table.                                                                  *)
(*                                                                         *)
(* HyperTable: occupancy and load are right whatever the program does; as  *)
(* long as it never inserts into a table without an empty bucket, every    *)
(* bucket is found and the table implements ViewMap.                       *)
(***************************************************************************)
EXTENDS DisjointSet, FedTables, HyperTable, Recursion, SequenceTheorems

(***************************************************************************)
(* Heaps.  Every operation is a function of the heap, so what is said of   *)
(* an operation is said of any heap h.                                     *)
(***************************************************************************)
\* link may raise a rank by one before merge checks the bound.
Heaps == [up : [Nodes -> 0..MaxNodes], bag : [Nodes -> Bags \cup {NoBag}],
          rank : [Nodes -> 0..(MaxRank + 1)], ref : [Nodes -> Nat]]

Forest(h) ==
    /\ h \in Heaps
    /\ \A d \in Nodes : ~isRoot(h, d) => h.rank[d] < h.rank[h.up[d]]

\* A node's count is that of its children and of X, the pointers from outside.
Children(h, d) == {e \in Nodes : h.up[e] = d}
Exact(h, X) == \A d \in Nodes : h.ref[d] = Cardinality(Children(h, d)) + X[d]

\* A node that was deleted is nobody's child.
Tidy(h) == \A d \in Nodes : h.ref[d] = 0 => isRoot(h, d)

Good(h, X) == Forest(h) /\ X \in [Nodes -> Nat] /\ Exact(h, X) /\ Tidy(h)

\* The nodes that are left in h2 are in the sets they were in, which have the
\* bags they had.
SameSets(h, h2) ==
    \A e \in Nodes : h2.ref[e] > 0 =>
        h.ref[e] > 0 /\ RootOf(h2, e) = RootOf(h, e) /\ h2.bag[e] = h.bag[e]

-----------------------------------------------------------------------------
(***************************************************************************)
(* Paths.                                                                  *)
(***************************************************************************)
\* Nodes are finitely many, and 0, the null pointer, is none of them.
LEMMA NodeFacts ==
    /\ MaxNodes \in Nat \ {0} /\ MaxRank \in Nat /\ IsFiniteSet(Nodes)
    /\ \A S \in SUBSET Nodes : IsFiniteSet(S) /\ Cardinality(S) \in Nat
    /\ 0 \notin Nodes
    /\ \A h \in Heaps : \A d \in Nodes : ~isRoot(h, d) <=> h.up[d] \in Nodes
<1>1. MaxNodes \in Nat \ {0} /\ MaxRank \in Nat
  BY SetAssumption
<1>2. IsFiniteSet(Nodes)
  BY <1>1, FS_Interval DEF Nodes
<1>3. \A S \in SUBSET Nodes : IsFiniteSet(S) /\ Cardinality(S) \in Nat
  BY <1>2, FS_Subset, FS_CardinalityType
<1>4. \A h \in Heaps : \A d \in Nodes : ~isRoot(h, d) <=> h.up[d] \in Nodes
  BY <1>1 DEF Heaps, Nodes, isRoot
<1>. QED
  BY <1>1, <1>2, <1>3, <1>4 DEF Nodes

\* What holds of a node if it holds of its parent, holds of all.
LEMMA FromTheRoot ==
    ASSUME NEW h, Forest(h), NEW T,
           \A d \in Nodes : (~isRoot(h, d) => h.up[d] \in T) => d \in T
    PROVE  Nodes \subseteq T
<1>. DEFINE mu == [d \in Nodes |-> (MaxRank + 1) - h.rank[d]]
<1>1. h \in Heaps /\ MaxRank \in Nat
  BY NodeFacts DEF Forest
<1>2. \A d \in Nodes : h.rank[d] \in 0..(MaxRank + 1)
  BY <1>1 DEF Heaps
<1>3. mu \in [Nodes -> Nat]
  BY <1>1, <1>2
<1>4. ASSUME NEW d \in Nodes, \A e \in Nodes : mu[e] < mu[d] => e \in T
      PROVE  d \in T
  <2>1. ASSUME ~isRoot(h, d) PROVE h.up[d] \in T
    <3>1. h.up[d] \in Nodes /\ h.rank[d] < h.rank[h.up[d]]
      BY <1>1, <2>1, NodeFacts DEF Forest
    <3>2. mu[h.up[d]] < mu[d]
      BY <1>1, <1>2, <3>1
    <3>. QED
      BY <1>4, <3>1, <3>2
  <2>. QED
    BY <2>1
<1>. HIDE DEF mu
<1>. QED
  BY <1>3, <1>4, ByMeasure

\* The same, from the leaves.
LEMMA FromTheLeaves ==
    ASSUME NEW h, Forest(h), NEW T,
           \A d \in Nodes : Children(h, d) \subseteq T => d \in T
    PROVE  Nodes \subseteq T
<1>1. h \in Heaps /\ MaxRank \in Nat
  BY NodeFacts DEF Forest
<1>2. h.rank \in [Nodes -> Nat]
  BY <1>1 DEF Heaps
<1>3. ASSUME NEW d \in Nodes, \A e \in Nodes : h.rank[e] < h.rank[d] => e \in T
      PROVE  d \in T
  <2>1. \A e \in Children(h, d) : e \in Nodes /\ h.rank[e] < h.rank[d]
    BY <1>1, NodeFacts DEF Children, Forest
  <2>. QED
    BY <1>3, <2>1
<1>. QED
  BY <1>2, <1>3, ByMeasure

\* H[<<f, d>>] asks f about the parent of d, if it has one, and nothing else.
AsksParent(H, h, V) ==
    /\ V # {} /\ H \in [[Nodes -> V] \X Nodes -> V]
    /\ \A d \in Nodes : \A f, g \in [Nodes -> V] :
        (~isRoot(h, d) => f[h.up[d]] = g[h.up[d]]) => H[<<f, d>>] = H[<<g, d>>]

\* A function that is computed up the tree exists, whatever it computes.
LEMMA UpTheTree ==
    ASSUME NEW h, Forest(h), NEW V, NEW H, AsksParent(H, h, V)
    PROVE  \E f \in [Nodes -> V] : \A d \in Nodes : f[d] = H[<<f, d>>]
<1>. DEFINE mu == [d \in Nodes |-> (MaxRank + 1) - h.rank[d]]
<1>1. h \in Heaps /\ MaxRank \in Nat
  BY NodeFacts DEF Forest
<1>2. \A d \in Nodes : h.rank[d] \in 0..(MaxRank + 1)
  BY <1>1 DEF Heaps
<1>3. mu \in [Nodes -> 0..(MaxRank + 1)] /\ MaxRank + 1 \in Nat
  BY <1>1, <1>2
<1>4. ASSUME NEW d \in Nodes, NEW f \in [Nodes -> V], NEW g \in [Nodes -> V],
             \A y \in Nodes : mu[y] < mu[d] => f[y] = g[y]
      PROVE  H[<<f, d>>] = H[<<g, d>>]
  <2>1. ASSUME ~isRoot(h, d) PROVE f[h.up[d]] = g[h.up[d]]
    <3>1. h.up[d] \in Nodes /\ h.rank[d] < h.rank[h.up[d]]
      BY <1>1, <2>1, NodeFacts DEF Forest
    <3>2. mu[h.up[d]] < mu[d]
      BY <1>1, <1>2, <3>1
    <3>. QED
      BY <1>4, <3>1, <3>2
  <2>. QED
    BY <2>1 DEF AsksParent
<1>5. Determines(H, Nodes, V, mu, MaxRank + 1)
  <2>1. V # {} /\ H \in [[Nodes -> V] \X Nodes -> V]
    BY DEF AsksParent
  <2>. HIDE DEF mu
  <2>. QED
    BY <1>3, <1>4, <2>1 DEF Determines
<1>. HIDE DEF mu
<1>. QED
  BY <1>5, RecursiveFunction

\* The loop of find_set: the path from a node goes on from its parent.
LEMMA PathStep ==
    ASSUME NEW h, Forest(h), NEW d \in Nodes
    PROVE  /\ PathTo(h, d) \in SUBSET Nodes
           /\ PathTo(h, d) = IF isRoot(h, d) THEN {d} ELSE {d} \cup PathTo(h, h.up[d])
<1>. DEFINE V == SUBSET Nodes
            H == [fd \in [Nodes -> V] \X Nodes |->
                    IF isRoot(h, fd[2]) THEN {fd[2]} ELSE {fd[2]} \cup fd[1][h.up[fd[2]]]]
            path == CHOOSE p : p = [e \in Nodes |->
                      IF isRoot(h, e) THEN {e} ELSE {e} \cup p[h.up[e]]]
<1>1. \A e \in Nodes : ~isRoot(h, e) => h.up[e] \in Nodes
  BY NodeFacts DEF Forest
<1>2. \A f \in [Nodes -> V] : \A e \in Nodes :
         H[<<f, e>>] = IF isRoot(h, e) THEN {e} ELSE {e} \cup f[h.up[e]]
  OBVIOUS
<1>3. H \in [[Nodes -> V] \X Nodes -> V]
  BY <1>1
<1>4. \E f \in [Nodes -> V] : \A e \in Nodes : f[e] = H[<<f, e>>]
  <2>1. AsksParent(H, h, V)
    <3>1. V # {}
      OBVIOUS
    <3>. QED
      BY <1>2, <1>3, <3>1 DEF AsksParent
  <2>. HIDE DEF H, V
  <2>. QED
    BY <2>1, UpTheTree
<1>5. PICK f \in [Nodes -> V] :
         f = [e \in Nodes |-> IF isRoot(h, e) THEN {e} ELSE {e} \cup f[h.up[e]]]
  <2>1. PICK f \in [Nodes -> V] : \A e \in Nodes : f[e] = H[<<f, e>>]
    BY <1>4
  <2>2. \A e \in Nodes : f[e] = IF isRoot(h, e) THEN {e} ELSE {e} \cup f[h.up[e]]
    BY <1>2, <2>1
  <2>. HIDE DEF H, V
  <2>3. f = [e \in Nodes |-> IF isRoot(h, e) THEN {e} ELSE {e} \cup f[h.up[e]]]
    BY <2>2
  <2>. QED
    BY <2>3
<1>6. path = [e \in Nodes |-> IF isRoot(h, e) THEN {e} ELSE {e} \cup path[h.up[e]]]
  BY <1>5
<1>7. \A e : PathTo(h, e) = path[e]
  BY DEF PathTo
<1>. HIDE DEF path
<1>8. \A e \in Nodes : path[e] = IF isRoot(h, e) THEN {e} ELSE {e} \cup path[h.up[e]]
  BY <1>6
<1>9. Nodes \subseteq {e \in Nodes : path[e] \in SUBSET Nodes}
  <2>. DEFINE T == {e \in Nodes : path[e] \in SUBSET Nodes}
  <2>1. ASSUME NEW e \in Nodes, ~isRoot(h, e) => h.up[e] \in T PROVE e \in T
    <3>1. CASE isRoot(h, e)
      BY <1>8, <3>1
    <3>2. CASE ~isRoot(h, e)
      <4>1. path[h.up[e]] \in SUBSET Nodes /\ path[e] = {e} \cup path[h.up[e]]
        BY <1>8, <2>1, <3>2
      <4>. QED
        BY <4>1
    <3>. QED
      BY <3>1, <3>2
  <2>. HIDE DEF T
  <2>2. Nodes \subseteq T
    BY <2>1, FromTheRoot
  <2>. QED
    BY <2>2 DEF T
<1>. QED
  BY <1>7, <1>8, <1>9

\* dec_ref_count: after a node, its parent, if that was the last reference.
LEMMA FreedStep ==
    ASSUME NEW h, Forest(h), NEW d \in Nodes
    PROVE  /\ Freed(h, d) \in SUBSET Nodes
           /\ Freed(h, d) = IF h.ref[d] # 1 THEN {}
                            ELSE {d} \cup (IF isRoot(h, d) THEN {} ELSE Freed(h, h.up[d]))
<1>. DEFINE V == SUBSET Nodes
            H == [fd \in [Nodes -> V] \X Nodes |->
                    IF h.ref[fd[2]] # 1 THEN {}
                    ELSE {fd[2]} \cup (IF isRoot(h, fd[2]) THEN {} ELSE fd[1][h.up[fd[2]]])]
            freed == CHOOSE p : p = [e \in Nodes |->
                      IF h.ref[e] # 1 THEN {}
                      ELSE {e} \cup (IF isRoot(h, e) THEN {} ELSE p[h.up[e]])]
<1>1. \A e \in Nodes : ~isRoot(h, e) => h.up[e] \in Nodes
  BY NodeFacts DEF Forest
<1>2. \A f \in [Nodes -> V] : \A e \in Nodes :
         H[<<f, e>>] = IF h.ref[e] # 1 THEN {}
                       ELSE {e} \cup (IF isRoot(h, e) THEN {} ELSE f[h.up[e]])
  OBVIOUS
<1>3. H \in [[Nodes -> V] \X Nodes -> V]
  BY <1>1
<1>4. \E f \in [Nodes -> V] : \A e \in Nodes : f[e] = H[<<f, e>>]
  <2>1. AsksParent(H, h, V)
    <3>1. V # {}
      OBVIOUS
    <3>. QED
      BY <1>2, <1>3, <3>1 DEF AsksParent
  <2>. HIDE DEF H, V
  <2>. QED
    BY <2>1, UpTheTree
<1>5. PICK f \in [Nodes -> V] :
         f = [e \in Nodes |-> IF h.ref[e] # 1 THEN {}
                              ELSE {e} \cup (IF isRoot(h, e) THEN {} ELSE f[h.up[e]])]
  <2>1. PICK f \in [Nodes -> V] : \A e \in Nodes : f[e] = H[<<f, e>>]
    BY <1>4
  <2>2. \A e \in Nodes : f[e] = IF h.ref[e] # 1 THEN {}
                                ELSE {e} \cup (IF isRoot(h, e) THEN {} ELSE f[h.up[e]])
    BY <1>2, <2>1
  <2>. HIDE DEF H, V
  <2>3. f = [e \in Nodes |-> IF h.ref[e] # 1 THEN {}
                             ELSE {e} \cup (IF isRoot(h, e) THEN {} ELSE f[h.up[e]])]
    BY <2>2
  <2>. QED
    BY <2>3
<1>6. freed = [e \in Nodes |-> IF h.ref[e] # 1 THEN {}
                  ELSE {e} \cup (IF isRoot(h, e) THEN {} ELSE freed[h.up[e]])]
  BY <1>5
<1>7. \A e : Freed(h, e) = freed[e]
  BY DEF Freed
<1>. HIDE DEF freed
<1>8. \A e \in Nodes : freed[e] = IF h.ref[e] # 1 THEN {}
                          ELSE {e} \cup (IF isRoot(h, e) THEN {} ELSE freed[h.up[e]])
  BY <1>6
<1>9. Nodes \subseteq {e \in Nodes : freed[e] \in SUBSET Nodes}
  <2>. DEFINE T == {e \in Nodes : freed[e] \in SUBSET Nodes}
  <2>1. ASSUME NEW e \in Nodes, ~isRoot(h, e) => h.up[e] \in T PROVE e \in T
    <3>1. CASE isRoot(h, e) \/ h.ref[e] # 1
      BY <1>8, <3>1
    <3>2. CASE ~isRoot(h, e) /\ h.ref[e] = 1
      <4>1. freed[h.up[e]] \in SUBSET Nodes /\ freed[e] = {e} \cup freed[h.up[e]]
        BY <1>8, <2>1, <3>2
      <4>. QED
        BY <4>1
    <3>. QED
      BY <3>1, <3>2
  <2>. HIDE DEF T
  <2>2. Nodes \subseteq T
    BY <2>1, FromTheRoot
  <2>. QED
    BY <2>2 DEF T
<1>. QED
  BY <1>7, <1>8, <1>9

\* Ranks increase along a path, which ends at one root.
PathOK(h, d) ==
    /\ d \in PathTo(h, d)
    /\ \A e \in PathTo(h, d) :
          /\ e # d => h.rank[d] < h.rank[e]
          /\ ~isRoot(h, e) => h.up[e] \in PathTo(h, d)
          /\ PathTo(h, e) \subseteq PathTo(h, d)
    /\ \A a, b \in PathTo(h, d) : a \in PathTo(h, b) \/ b \in PathTo(h, a)
    /\ \E r \in PathTo(h, d) : \A e \in PathTo(h, d) : isRoot(h, e) <=> e = r

\* find_set follows parents: every path is so.
LEMMA PathFacts == ASSUME NEW h, Forest(h), NEW d \in Nodes PROVE PathOK(h, d)
<1>. DEFINE T == {e \in Nodes : PathOK(h, e)}
<1>1. ASSUME NEW e \in Nodes, ~isRoot(h, e) => h.up[e] \in T PROVE PathOK(h, e)
  <2>1. CASE isRoot(h, e)
    <3>1. PathTo(h, e) = {e}
      BY <2>1, PathStep
    <3>. QED
      BY <2>1, <3>1 DEF PathOK
  <2>2. CASE ~isRoot(h, e)
    <3>1. PICK p \in Nodes : p = h.up[e] /\ h.rank[e] < h.rank[p] /\ PathOK(h, p)
      <4>1. h.up[e] \in Nodes /\ h.rank[e] < h.rank[h.up[e]]
        BY <2>2, NodeFacts DEF Forest
      <4>. QED
        BY <1>1, <2>2, <4>1
    <3>2. PICK P, Q : P = PathTo(h, p) /\ Q = PathTo(h, e)
      OBVIOUS
    <3>3. Q = {e} \cup P /\ P \in SUBSET Nodes
      BY <2>2, <3>1, <3>2, PathStep
    <3>4. /\ p \in P
          /\ \A x \in P : /\ x # p => h.rank[p] < h.rank[x]
                          /\ ~isRoot(h, x) => h.up[x] \in P
                          /\ PathTo(h, x) \subseteq P
          /\ \A a, b \in P : a \in PathTo(h, b) \/ b \in PathTo(h, a)
          /\ \E r \in P : \A x \in P : isRoot(h, x) <=> x = r
      BY <3>1, <3>2 DEF PathOK
    <3>5. \A x \in Nodes : h.rank[x] \in Nat
      BY NodeFacts DEF Forest, Heaps
    <3>6. ASSUME NEW x \in P PROVE h.rank[e] < h.rank[x]
      <4>1. x \in Nodes /\ (x = p \/ h.rank[p] < h.rank[x])
        BY <3>3, <3>4
      <4>. QED
        BY <3>1, <3>5, <4>1
    <3>7. \A x \in Q : /\ x # e => h.rank[e] < h.rank[x]
                       /\ ~isRoot(h, x) => h.up[x] \in Q
                       /\ PathTo(h, x) \subseteq Q
      <4>1. ASSUME NEW x \in Q
            PROVE  /\ x # e => h.rank[e] < h.rank[x]
                   /\ ~isRoot(h, x) => h.up[x] \in Q
                   /\ PathTo(h, x) \subseteq Q
        <5>1. CASE x = e
          BY <3>1, <3>2, <3>3, <3>4, <5>1
        <5>2. CASE x \in P
          BY <3>3, <3>4, <3>6, <5>2
        <5>. QED
          BY <3>3, <5>1, <5>2
      <4>. QED
        BY <4>1
    <3>8. \A a, b \in Q : a \in PathTo(h, b) \/ b \in PathTo(h, a)
      <4>1. PathTo(h, e) = {e} \cup P
        BY <3>2, <3>3
      <4>. QED
        BY <3>3, <3>4, <4>1
    <3>9. \E r \in Q : \A x \in Q : isRoot(h, x) <=> x = r
      BY <2>2, <3>3, <3>4
    <3>. QED
      BY <3>2, <3>3, <3>7, <3>8, <3>9 DEF PathOK
  <2>. QED
    BY <2>1, <2>2
<1>2. \A e \in Nodes : (~isRoot(h, e) => h.up[e] \in T) => e \in T
  BY <1>1
<1>. HIDE DEF T
<1>3. Nodes \subseteq T
  BY <1>2, FromTheRoot
<1>. QED
  BY <1>3 DEF T

\* A node of a path is reached from at most one other.
LEMMA OneBefore ==
    ASSUME NEW h, Forest(h), NEW d \in Nodes, NEW a \in PathTo(h, d), NEW b \in PathTo(h, d),
           h.up[a] = h.up[b], ~isRoot(h, a)
    PROVE  a = b
<1>1. PathTo(h, d) \in SUBSET Nodes
  BY PathStep
<1>2. a \in Nodes /\ b \in Nodes /\ ~isRoot(h, b)
  BY <1>1 DEF isRoot
<1>3. a \in PathTo(h, b) \/ b \in PathTo(h, a)
  BY PathFacts DEF PathOK
<1>4. ASSUME NEW x \in Nodes, NEW y \in Nodes, x # y, ~isRoot(h, x), h.up[x] = h.up[y],
             y \in PathTo(h, x), ~isRoot(h, y)
      PROVE  FALSE
  <2>1. PICK p \in Nodes : p = h.up[x] /\ p = h.up[y] /\ h.rank[y] < h.rank[p]
    BY <1>4, NodeFacts DEF Forest
  <2>2. y \in PathTo(h, p)
    BY <1>4, <2>1, PathStep
  <2>3. y = p \/ h.rank[p] < h.rank[y]
    BY <2>1, <2>2, PathFacts DEF PathOK
  <2>4. h.rank[y] \in Nat /\ h.rank[p] \in Nat
    BY <2>1, NodeFacts DEF Forest, Heaps
  <2>. QED
    BY <2>1, <2>3, <2>4
<1>. QED
  BY <1>2, <1>3, <1>4

\* The root of a set, computed up the tree.
LEMMA RootStep ==
    ASSUME NEW h, Forest(h), NEW d \in Nodes
    PROVE  /\ RootOf(h, d) \in Nodes /\ isRoot(h, RootOf(h, d))
           /\ RootOf(h, d) \in PathTo(h, d)
           /\ RootOf(h, d) = IF isRoot(h, d) THEN d ELSE RootOf(h, h.up[d])
           /\ \A e \in PathTo(h, d) : RootOf(h, e) = RootOf(h, d)
           /\ \A e \in PathTo(h, d) : isRoot(h, e) => e = RootOf(h, d)
<1>1. ASSUME NEW x \in Nodes
      PROVE  /\ RootOf(h, x) \in PathTo(h, x) /\ isRoot(h, RootOf(h, x))
             /\ \A e \in PathTo(h, x) : isRoot(h, e) => e = RootOf(h, x)
  <2>1. \E r \in PathTo(h, x) : \A e \in PathTo(h, x) : isRoot(h, e) <=> e = r
    BY PathFacts DEF PathOK
  <2>. QED
    BY <2>1 DEF RootOf
<1>2. \A x \in Nodes : PathTo(h, x) \in SUBSET Nodes
  BY PathStep
<1>3. ASSUME NEW e \in PathTo(h, d) PROVE RootOf(h, e) = RootOf(h, d)
  <2>1. e \in Nodes /\ PathTo(h, e) \subseteq PathTo(h, d)
    BY <1>2, PathFacts DEF PathOK
  <2>. QED
    BY <1>1, <2>1
<1>4. d \in PathTo(h, d) /\ (~isRoot(h, d) => h.up[d] \in PathTo(h, d))
  BY PathFacts DEF PathOK
<1>5. RootOf(h, d) = IF isRoot(h, d) THEN d ELSE RootOf(h, h.up[d])
  BY <1>1, <1>3, <1>4
<1>. QED
  BY <1>1, <1>2, <1>3, <1>5

\* Nothing else follows the parents to the roots.
LEMMA RootUnique ==
    ASSUME NEW h, Forest(h), NEW f,
           \A d \in Nodes : f[d] = IF isRoot(h, d) THEN d ELSE f[h.up[d]]
    PROVE  \A d \in Nodes : RootOf(h, d) = f[d]
<1>. DEFINE T == {d \in Nodes : RootOf(h, d) = f[d]}
<1>1. \A d \in Nodes : (~isRoot(h, d) => h.up[d] \in T) => d \in T
  BY RootStep
<1>. HIDE DEF T
<1>2. Nodes \subseteq T
  BY <1>1, FromTheRoot
<1>. QED
  BY <1>2 DEF T

-----------------------------------------------------------------------------
(***************************************************************************)
(* Counts.                                                                 *)
(***************************************************************************)

\* The fields of a heap.
LEMMA HeapFields ==
    ASSUME NEW h \in Heaps
    PROVE  /\ h.up \in [Nodes -> 0..MaxNodes] /\ h.bag \in [Nodes -> Bags \cup {NoBag}]
           /\ h.rank \in [Nodes -> 0..(MaxRank + 1)] /\ h.ref \in [Nodes -> Nat]
           /\ \A d \in Nodes : h.ref[d] \in Nat /\ h.rank[d] \in Nat
           /\ h = [up |-> h.up, bag |-> h.bag, rank |-> h.rank, ref |-> h.ref]
BY NodeFacts DEF Heaps

\* A heap in which the counts are exact.
LEMMA GoodFacts ==
    ASSUME NEW h, NEW X, Good(h, X), NEW d \in Nodes
    PROVE  /\ h \in Heaps /\ Forest(h) /\ h.ref[d] \in Nat /\ X[d] \in Nat
           /\ Children(h, d) \in SUBSET Nodes /\ Cardinality(Children(h, d)) \in Nat
           /\ h.ref[d] = Cardinality(Children(h, d)) + X[d]
           /\ X[d] > 0 => h.ref[d] > 0
           /\ \A c \in Children(h, d) : h.ref[d] > 0 /\ h.ref[c] > 0
           /\ h.ref[d] = 0 => X[d] = 0
<1>1. /\ h \in Heaps /\ Forest(h) /\ h.ref[d] \in Nat /\ X[d] \in Nat
      /\ h.ref[d] = Cardinality(Children(h, d)) + X[d]
  BY HeapFields DEF Good, Forest, Exact
<1>2. Children(h, d) \in SUBSET Nodes /\ Cardinality(Children(h, d)) \in Nat
  <2>1. Children(h, d) \in SUBSET Nodes
    BY DEF Children
  <2>. QED
    BY <2>1, NodeFacts
<1>3. ASSUME NEW c \in Children(h, d) PROVE h.ref[d] > 0 /\ h.ref[c] > 0
  <2>1. Cardinality(Children(h, d)) # 0
    BY <1>2, NodeFacts, FS_EmptySet
  <2>2. c \in Nodes /\ ~isRoot(h, c) /\ h.ref[c] \in Nat
    BY <1>1, HeapFields, NodeFacts DEF Children, isRoot
  <2>3. h.ref[c] # 0
    BY <2>2 DEF Good, Tidy
  <2>. QED
    BY <1>1, <1>2, <2>1, <2>2, <2>3
<1>. QED
  BY <1>1, <1>2, <1>3

\* The root of a node that is alive is alive.
LEMMA RootAlive ==
    ASSUME NEW h, NEW X, Good(h, X), NEW d \in Nodes, h.ref[d] > 0
    PROVE  h.ref[RootOf(h, d)] > 0
<1>. DEFINE T == {e \in Nodes : h.ref[e] > 0 => h.ref[RootOf(h, e)] > 0}
<1>0. Forest(h)
  BY DEF Good
<1>1. ASSUME NEW e \in Nodes, ~isRoot(h, e) => h.up[e] \in T, h.ref[e] > 0
      PROVE  h.ref[RootOf(h, e)] > 0
  <2>1. CASE isRoot(h, e)
    BY <1>0, <1>1, <2>1, RootStep
  <2>2. CASE ~isRoot(h, e)
    <3>1. h.up[e] \in Nodes /\ e \in Children(h, h.up[e])
      BY <1>0, <2>2, NodeFacts DEF Children, Forest
    <3>2. h.ref[h.up[e]] > 0
      BY <3>1, GoodFacts
    <3>. QED
      BY <1>0, <1>1, <2>2, <3>2, RootStep
  <2>. QED
    BY <2>1, <2>2
<1>2. \A e \in Nodes : (~isRoot(h, e) => h.up[e] \in T) => e \in T
  BY <1>1
<1>. HIDE DEF T
<1>3. Nodes \subseteq T
  BY <1>0, <1>2, FromTheRoot
<1>. QED
  BY <1>3 DEF T

\* A node that is alive is on the path of one that is pointed at from outside.
LEMMA Reached ==
    ASSUME NEW h, NEW X, Good(h, X), NEW d \in Nodes, h.ref[d] > 0
    PROVE  \E y \in Nodes : X[y] > 0 /\ d \in PathTo(h, y)
<1>. DEFINE T == {e \in Nodes : h.ref[e] > 0 =>
                     \E y \in Nodes : X[y] > 0 /\ e \in PathTo(h, y)}
<1>0. Forest(h)
  BY DEF Good
<1>1. ASSUME NEW e \in Nodes, Children(h, e) \subseteq T, h.ref[e] > 0
      PROVE  \E y \in Nodes : X[y] > 0 /\ e \in PathTo(h, y)
  <2>1. CASE X[e] > 0
    BY <1>0, <2>1, PathFacts DEF PathOK
  <2>2. CASE ~(X[e] > 0)
    <3>1. X[e] = 0 /\ h.ref[e] = Cardinality(Children(h, e))
      BY <2>2, GoodFacts
    <3>2. Children(h, e) # {}
      BY <1>1, <3>1, FS_EmptySet
    <3>3. PICK c \in Nodes : c \in Children(h, e) /\ h.up[c] = e
      BY <3>2 DEF Children
    <3>4. h.ref[c] > 0 /\ ~isRoot(h, c)
      BY <3>3, GoodFacts, NodeFacts DEF isRoot
    <3>5. PICK y \in Nodes : X[y] > 0 /\ c \in PathTo(h, y)
      BY <1>1, <3>3, <3>4
    <3>6. e \in PathTo(h, y)
      BY <1>0, <3>3, <3>4, <3>5, PathFacts DEF PathOK
    <3>. QED
      BY <3>5, <3>6
  <2>. QED
    BY <2>1, <2>2
<1>2. \A e \in Nodes : Children(h, e) \subseteq T => e \in T
  BY <1>1
<1>. HIDE DEF T
<1>3. Nodes \subseteq T
  BY <1>0, <1>2, FromTheLeaves
<1>. QED
  BY <1>3 DEF T

\* Pointers that are the same give the same paths to the same roots.
LEMMA SameUp ==
    ASSUME NEW h, Forest(h), NEW h2 \in Heaps, h2.up = h.up, h2.rank = h.rank
    PROVE  /\ Forest(h2) /\ \A d \in Nodes : RootOf(h2, d) = RootOf(h, d)
           /\ \A d : isRoot(h2, d) <=> isRoot(h, d)
           /\ \A d : Children(h2, d) = Children(h, d)
<1>1. \A d : isRoot(h2, d) <=> isRoot(h, d)
  BY DEF isRoot
<1>2. Forest(h2)
  BY <1>1 DEF Forest
<1>3. \A d \in Nodes : RootOf(h2, d) = RootOf(h, d)
  <2>. DEFINE f == [d \in Nodes |-> RootOf(h, d)]
  <2>1. \A d \in Nodes : f[d] = IF isRoot(h2, d) THEN d ELSE f[h2.up[d]]
    BY <1>1, RootStep, NodeFacts DEF Forest
  <2>2. \A d \in Nodes : f[d] = RootOf(h, d)
    OBVIOUS
  <2>. HIDE DEF f
  <2>3. \A d \in Nodes : RootOf(h2, d) = f[d]
    BY <1>2, <2>1, RootUnique
  <2>. QED
    BY <2>2, <2>3
<1>4. \A d : Children(h2, d) = Children(h, d)
  BY DEF Children
<1>. QED
  BY <1>1, <1>2, <1>3, <1>4

\* inc_ref_count, for a pointer from outside.
LEMMA Inc ==
    ASSUME NEW h, NEW X, Good(h, X), NEW d \in Nodes
    PROVE  LET h2 == inc_ref_count(h, d) IN
           /\ Good(h2, [X EXCEPT ![d] = @ + 1])
           /\ h2.up = h.up /\ h2.bag = h.bag /\ h2.rank = h.rank
           /\ h2.ref = [h.ref EXCEPT ![d] = @ + 1]
           /\ \A e \in Nodes : RootOf(h2, e) = RootOf(h, e)
<1>. DEFINE h2 == inc_ref_count(h, d)
            X2 == [X EXCEPT ![d] = @ + 1]
<1>1. h \in Heaps /\ Forest(h) /\ X \in [Nodes -> Nat]
  BY DEF Good, Forest
<1>2. /\ h2.up = h.up /\ h2.bag = h.bag /\ h2.rank = h.rank
      /\ h2.ref = [h.ref EXCEPT ![d] = @ + 1]
      /\ h2 = [up |-> h2.up, bag |-> h2.bag, rank |-> h2.rank, ref |-> h2.ref]
  BY <1>1 DEF inc_ref_count, Heaps
<1>3. h2 \in Heaps
  BY <1>1, <1>2, HeapFields DEF Heaps
<1>. HIDE DEF h2
<1>4. /\ Forest(h2) /\ \A e \in Nodes : RootOf(h2, e) = RootOf(h, e)
      /\ \A e : (isRoot(h2, e) <=> isRoot(h, e)) /\ Children(h2, e) = Children(h, e)
  BY <1>1, <1>2, <1>3, SameUp
<1>5. X2 \in [Nodes -> Nat]
  BY <1>1
<1>6. Exact(h2, X2)
  <2>1. ASSUME NEW e \in Nodes PROVE h2.ref[e] = Cardinality(Children(h2, e)) + X2[e]
    <3>1. h.ref[e] = Cardinality(Children(h, e)) + X[e] /\ Cardinality(Children(h, e)) \in Nat
          /\ X[e] \in Nat
      BY GoodFacts
    <3>2. h2.ref[e] = h.ref[e] + (IF e = d THEN 1 ELSE 0)
      BY <1>1, <1>2, HeapFields
    <3>3. X2[e] = X[e] + (IF e = d THEN 1 ELSE 0)
      BY <1>1
    <3>. QED
      BY <1>4, <3>1, <3>2, <3>3
  <2>. QED
    BY <2>1 DEF Exact
<1>7. Tidy(h2)
  <2>1. ASSUME NEW e \in Nodes, h2.ref[e] = 0 PROVE isRoot(h2, e)
    <3>1. h.ref[e] = 0
      BY <1>1, <1>2, <2>1, HeapFields
    <3>. QED
      BY <1>4, <3>1 DEF Good, Tidy
  <2>. QED
    BY <2>1 DEF Tidy
<1>8. Good(h2, X2)
  BY <1>4, <1>5, <1>6, <1>7 DEF Good
<1>. QED
  BY <1>2, <1>4, <1>8 DEF h2

\* set_sbag and set_pbag.
LEMMA SetBag ==
    ASSUME NEW h, NEW X, Good(h, X), NEW d \in Nodes, NEW b \in Bags \cup {NoBag}
    PROVE  LET h2 == [h EXCEPT !.bag[d] = b] IN
           /\ Good(h2, X)
           /\ h2.up = h.up /\ h2.ref = h.ref /\ h2.rank = h.rank
           /\ h2.bag = [h.bag EXCEPT ![d] = b]
           /\ \A e \in Nodes : RootOf(h2, e) = RootOf(h, e)
<1>. DEFINE h2 == [h EXCEPT !.bag[d] = b]
<1>1. h \in Heaps /\ Forest(h) /\ X \in [Nodes -> Nat]
  BY DEF Good, Forest
<1>2. /\ h2.up = h.up /\ h2.ref = h.ref /\ h2.rank = h.rank
      /\ h2.bag = [h.bag EXCEPT ![d] = b]
      /\ h2 = [up |-> h2.up, bag |-> h2.bag, rank |-> h2.rank, ref |-> h2.ref]
  BY <1>1 DEF Heaps
<1>3. h2 \in Heaps
  BY <1>1, <1>2, HeapFields DEF Heaps
<1>. HIDE DEF h2
<1>4. /\ Forest(h2) /\ \A e \in Nodes : RootOf(h2, e) = RootOf(h, e)
      /\ \A e : (isRoot(h2, e) <=> isRoot(h, e)) /\ Children(h2, e) = Children(h, e)
  BY <1>1, <1>2, <1>3, SameUp
<1>5. Good(h2, X)
  BY <1>1, <1>2, <1>4 DEF Good, Exact, Tidy
<1>. QED
  BY <1>2, <1>4, <1>5 DEF h2

\* What dec_ref_count deletes: a part of the path, each node's last child first.
FreedOK(h, d) ==
    LET F == Freed(h, d) IN
    /\ F \subseteq PathTo(h, d)
    /\ h.ref[d] = 1 <=> d \in F
    /\ F # {} => d \in F
    /\ \A e \in F : /\ h.ref[e] = 1
                    /\ e # d => \E c \in F : h.up[c] = e
                    /\ ~isRoot(h, e) /\ h.ref[h.up[e]] = 1 => h.up[e] \in F

\* dec_ref_count follows parents too, and so every deletion is such a part.
LEMMA FreedFacts == ASSUME NEW h, Forest(h), NEW d \in Nodes PROVE FreedOK(h, d)
<1>. DEFINE T == {e \in Nodes : FreedOK(h, e)}
<1>1. ASSUME NEW e \in Nodes, ~isRoot(h, e) => h.up[e] \in T PROVE FreedOK(h, e)
  <2>0. e \in PathTo(h, e)
    BY PathFacts DEF PathOK
  <2>1. CASE h.ref[e] # 1
    <3>1. Freed(h, e) = {}
      BY <2>1, FreedStep
    <3>. QED
      BY <2>1, <3>1 DEF FreedOK
  <2>2. CASE h.ref[e] = 1 /\ isRoot(h, e)
    <3>1. Freed(h, e) = {e}
      BY <2>2, FreedStep
    <3>. QED
      BY <2>0, <2>2, <3>1 DEF FreedOK
  <2>3. CASE h.ref[e] = 1 /\ ~isRoot(h, e)
    <3>1. PICK p \in Nodes : p = h.up[e] /\ FreedOK(h, p)
      <4>1. h.up[e] \in Nodes
        BY <2>3, NodeFacts DEF Forest
      <4>. QED
        BY <1>1, <2>3, <4>1
    <3>2. PICK G, F : G = Freed(h, p) /\ F = Freed(h, e)
      OBVIOUS
    <3>3. F = {e} \cup G
      BY <2>3, <3>1, <3>2, FreedStep
    <3>4. /\ G \subseteq PathTo(h, p)
          /\ h.ref[p] = 1 <=> p \in G
          /\ \A x \in G : /\ h.ref[x] = 1
                          /\ x # p => \E c \in G : h.up[c] = x
                          /\ ~isRoot(h, x) /\ h.ref[h.up[x]] = 1 => h.up[x] \in G
      BY <3>1, <3>2 DEF FreedOK
    <3>5. PathTo(h, e) = {e} \cup PathTo(h, p)
      BY <2>3, <3>1, PathStep
    <3>6. F \subseteq PathTo(h, e)
      BY <3>3, <3>4, <3>5
    <3>7. ASSUME NEW x \in F
          PROVE  /\ h.ref[x] = 1
                 /\ x # e => \E c \in F : h.up[c] = x
                 /\ ~isRoot(h, x) /\ h.ref[h.up[x]] = 1 => h.up[x] \in F
      <4>1. CASE x = e
        BY <2>3, <3>1, <3>3, <3>4, <4>1
      <4>2. CASE x \in G
        <5>1. x # p => \E c \in F : h.up[c] = x
          BY <3>3, <3>4, <4>2
        <5>2. \E c \in F : h.up[c] = p
          BY <3>1, <3>3
        <5>. QED
          BY <3>3, <3>4, <4>2, <5>1, <5>2
      <4>. QED
        BY <3>3, <4>1, <4>2
    <3>8. e \in F
      BY <3>3
    <3>. QED
      BY <2>3, <3>2, <3>6, <3>7, <3>8 DEF FreedOK
  <2>. QED
    BY <2>1, <2>2, <2>3
<1>2. \A e \in Nodes : (~isRoot(h, e) => h.up[e] \in T) => e \in T
  BY <1>1
<1>. HIDE DEF T
<1>3. Nodes \subseteq T
  BY <1>2, FromTheRoot
<1>. QED
  BY <1>3 DEF T

\* The fields after nodes are deleted.
LEMMA DeletedFields ==
    ASSUME NEW h \in Heaps, NEW up \in [Nodes -> 0..MaxNodes], NEW ref \in [Nodes -> Int],
           NEW F \in SUBSET Nodes, NEW h2,
           h2 = Deleted([up |-> up, bag |-> h.bag, rank |-> h.rank, ref |-> ref], F),
           \A e \in Nodes \ F : ref[e] \in Nat
    PROVE  /\ h2 \in Heaps
           /\ \A e \in F : /\ h2.up[e] = 0 /\ h2.bag[e] = NoBag /\ h2.rank[e] = 0
                           /\ h2.ref[e] = 0
           /\ \A e \in Nodes \ F : /\ h2.up[e] = up[e] /\ h2.bag[e] = h.bag[e]
                                   /\ h2.rank[e] = h.rank[e] /\ h2.ref[e] = ref[e]
<1>1. /\ h.bag \in [Nodes -> Bags \cup {NoBag}] /\ h.rank \in [Nodes -> 0..(MaxRank + 1)]
      /\ MaxNodes \in Nat /\ MaxRank \in Nat
  BY HeapFields, NodeFacts
<1>2. h2 = [up   |-> [e \in Nodes |-> IF e \in F THEN 0 ELSE up[e]],
            bag  |-> [e \in Nodes |-> IF e \in F THEN NoBag ELSE h.bag[e]],
            rank |-> [e \in Nodes |-> IF e \in F THEN 0 ELSE h.rank[e]],
            ref  |-> [e \in Nodes |-> IF e \in F THEN 0 ELSE ref[e]]]
  BY DEF Deleted
<1>3. /\ h2.up = [e \in Nodes |-> IF e \in F THEN 0 ELSE up[e]]
      /\ h2.bag = [e \in Nodes |-> IF e \in F THEN NoBag ELSE h.bag[e]]
      /\ h2.rank = [e \in Nodes |-> IF e \in F THEN 0 ELSE h.rank[e]]
      /\ h2.ref = [e \in Nodes |-> IF e \in F THEN 0 ELSE ref[e]]
  BY <1>2
<1>4. /\ h2.up \in [Nodes -> 0..MaxNodes] /\ h2.bag \in [Nodes -> Bags \cup {NoBag}]
      /\ h2.rank \in [Nodes -> 0..(MaxRank + 1)] /\ h2.ref \in [Nodes -> Nat]
  BY <1>1, <1>3
<1>5. h2 \in Heaps
  BY <1>2, <1>3, <1>4 DEF Heaps
<1>. QED
  BY <1>3, <1>5

\* One child fewer.
LEMMA OneChildLess ==
    ASSUME NEW S \in SUBSET Nodes, NEW c \in S
    PROVE  Cardinality(S \ {c}) = Cardinality(S) - 1
BY NodeFacts, FS_RemoveElement

\* A last reference, from a child, is the only one.
LEMMA OnlyChild ==
    ASSUME NEW h, NEW X, Good(h, X), NEW e \in Nodes, h.ref[e] = 1, NEW c \in Children(h, e)
    PROVE  Children(h, e) = {c} /\ X[e] = 0
<1>1. /\ Children(h, e) \in SUBSET Nodes /\ Cardinality(Children(h, e)) \in Nat /\ X[e] \in Nat
      /\ 1 = Cardinality(Children(h, e)) + X[e]
  BY GoodFacts
<1>2. Cardinality(Children(h, e)) # 0
  BY <1>1, NodeFacts, FS_EmptySet
<1>3. Cardinality(Children(h, e)) = 1 /\ X[e] = 0
  BY <1>1, <1>2
<1>4. Cardinality(Children(h, e) \ {c}) = 0
  BY <1>1, <1>3, OneChildLess
<1>5. Children(h, e) \ {c} = {}
  <2>1. Children(h, e) \ {c} \in SUBSET Nodes
    BY <1>1
  <2>. QED
    BY <1>4, <2>1, NodeFacts, FS_EmptySet
<1>. QED
  BY <1>3, <1>5

\* dec_ref_count, when a pointer from outside goes: the nodes that are deleted
\* had no other reference, and every other node keeps its set.
LEMMA Dec ==
    ASSUME NEW h, NEW X, Good(h, X), NEW d \in Nodes, X[d] > 0
    PROVE  LET h2 == dec_ref_count(h, d) IN
           /\ Good(h2, [X EXCEPT ![d] = @ - 1]) /\ SameSets(h, h2)
           /\ \A e \in Nodes : h2.rank[e] <= h.rank[e]
<1>1. /\ h \in Heaps /\ Forest(h) /\ X \in [Nodes -> Nat]
      /\ h.up \in [Nodes -> 0..MaxNodes] /\ h.ref \in [Nodes -> Nat]
  BY HeapFields DEF Good, Forest
<1>2. PICK F : F = Freed(h, d)
  OBVIOUS
<1>3. /\ F \in SUBSET Nodes /\ F \subseteq PathTo(h, d)
      /\ h.ref[d] = 1 <=> d \in F
      /\ F # {} => d \in F
      /\ \A e \in F : /\ h.ref[e] = 1
                      /\ e # d => \E c \in F : h.up[c] = e
                      /\ ~isRoot(h, e) /\ h.ref[h.up[e]] = 1 => h.up[e] \in F
  BY <1>1, <1>2, FreedStep, FreedFacts DEF FreedOK
<1>4. PICK hit : hit = {d} \cup {h.up[e] : e \in F}
  OBVIOUS
<1>5. PICK ref : ref = [e \in Nodes |-> IF e \in hit THEN h.ref[e] - 1 ELSE h.ref[e]]
  OBVIOUS
<1>6. PICK h2 : h2 = dec_ref_count(h, d)
  OBVIOUS
<1>7. h2 = Deleted([up |-> h.up, bag |-> h.bag, rank |-> h.rank, ref |-> ref], F)
  <2>1. h2 = Deleted([h EXCEPT !.ref = [e \in Nodes |->
                         IF e \in hit THEN @[e] - 1 ELSE @[e]]], F)
    BY <1>2, <1>4, <1>6 DEF dec_ref_count
  <2>2. [h EXCEPT !.ref = [e \in Nodes |-> IF e \in hit THEN @[e] - 1 ELSE @[e]]]
          = [up |-> h.up, bag |-> h.bag, rank |-> h.rank, ref |-> ref]
    BY <1>1, <1>5 DEF Heaps
  <2>. QED
    BY <2>1, <2>2
\* What the deleted nodes and the others lose.
<1>8. ASSUME NEW e \in F
      PROVE  /\ Children(h, e) \subseteq F
             /\ e # d => X[e] = 0
             /\ e = d => X[e] = 1
  <2>1. e \in Nodes /\ h.ref[e] = 1
    BY <1>3
  <2>2. CASE e = d
    <3>1. /\ 1 = Cardinality(Children(h, d)) + X[d] /\ Cardinality(Children(h, d)) \in Nat
          /\ X[d] \in Nat
      BY <2>1, <2>2, GoodFacts
    <3>2. Cardinality(Children(h, d)) = 0 /\ X[d] = 1
      BY <3>1
    <3>3. Children(h, d) = {}
      BY <3>2, GoodFacts, NodeFacts, FS_EmptySet
    <3>. QED
      BY <2>2, <3>2, <3>3
  <2>3. CASE e # d
    <3>1. PICK c \in F : h.up[c] = e
      BY <1>3, <2>3
    <3>2. c \in Children(h, e)
      BY <1>3, <3>1 DEF Children
    <3>. QED
      BY <2>1, <2>3, <3>1, <3>2, OnlyChild
  <2>. QED
    BY <2>2, <2>3
<1>9. ASSUME NEW e \in Nodes \ F
      PROVE  /\ e = d => F = {} /\ ref[e] = h.ref[e] - 1 /\ h.ref[e] > 1
             /\ e # d /\ e \in hit => \E c \in F : /\ h.up[c] = e /\ ref[e] = h.ref[e] - 1
                                                  /\ h.ref[e] > 1
                                                  /\ Children(h, e) \cap F = {c}
             /\ e # d /\ e \notin hit => /\ ref[e] = h.ref[e]
                                         /\ Children(h, e) \cap F = {}
  <2>1. h.ref[e] \in Nat
    BY <1>1
  <2>2. ASSUME e = d PROVE F = {} /\ ref[e] = h.ref[e] - 1 /\ h.ref[e] > 1
    <3>1. h.ref[d] # 1 /\ h.ref[d] > 0 /\ F = {}
      BY <1>3, <2>2, GoodFacts
    <3>. QED
      BY <1>4, <1>5, <2>1, <2>2, <3>1
  <2>3. ASSUME e # d, e \in hit
        PROVE  \E c \in F : /\ h.up[c] = e /\ ref[e] = h.ref[e] - 1 /\ h.ref[e] > 1
                            /\ Children(h, e) \cap F = {c}
    <3>1. PICK c \in F : h.up[c] = e
      BY <1>4, <2>3
    <3>2. c \in Children(h, e) /\ ~isRoot(h, c)
      BY <1>3, <3>1, NodeFacts DEF Children, isRoot
    <3>3. h.ref[e] # 1
      BY <1>3, <3>1, <3>2
    <3>4. h.ref[e] > 1
      BY <2>1, <3>2, <3>3, GoodFacts
    <3>5. ASSUME NEW x \in Children(h, e) \cap F PROVE x = c
      <4>1. x \in PathTo(h, d) /\ c \in PathTo(h, d) /\ h.up[x] = h.up[c] /\ ~isRoot(h, x)
        BY <1>3, <3>1, <3>2 DEF Children, isRoot
      <4>. QED
        BY <1>1, <4>1, OneBefore
    <3>6. Children(h, e) \cap F = {c}
      BY <3>2, <3>5
    <3>. QED
      BY <1>5, <2>3, <3>1, <3>4, <3>6
  <2>4. ASSUME e # d, e \notin hit
        PROVE  ref[e] = h.ref[e] /\ Children(h, e) \cap F = {}
    <3>1. \A c \in F : h.up[c] # e
      BY <1>4, <2>4
    <3>. QED
      BY <1>5, <2>4, <3>1 DEF Children
  <2>. QED
    BY <2>2, <2>3, <2>4
<1>10. ref \in [Nodes -> Int] /\ \A e \in Nodes \ F : ref[e] \in Nat
  <2>1. ref \in [Nodes -> Int]
    BY <1>1, <1>5
  <2>2. ASSUME NEW e \in Nodes \ F PROVE ref[e] \in Nat
    <3>1. h.ref[e] \in Nat
      BY <1>1
    <3>. QED
      BY <1>9, <3>1
  <2>. QED
    BY <2>1, <2>2
<1>11. /\ h2 \in Heaps
       /\ \A e \in F : /\ h2.up[e] = 0 /\ h2.bag[e] = NoBag /\ h2.rank[e] = 0
                       /\ h2.ref[e] = 0
       /\ \A e \in Nodes \ F : /\ h2.up[e] = h.up[e] /\ h2.bag[e] = h.bag[e]
                               /\ h2.rank[e] = h.rank[e] /\ h2.ref[e] = ref[e]
  BY <1>1, <1>3, <1>7, <1>10, DeletedFields
\* The parent of a node that stays is not deleted.
<1>12. \A e \in Nodes \ F : ~isRoot(h, e) => h.up[e] \in Nodes \ F
  <2>1. ASSUME NEW e \in Nodes \ F, ~isRoot(h, e), h.up[e] \in F PROVE FALSE
    <3>1. e \in Children(h, h.up[e])
      BY DEF Children
    <3>. QED
      BY <1>8, <2>1, <3>1
  <2>. QED
    BY <1>1, <2>1, NodeFacts
<1>13. \A e \in Nodes : isRoot(h2, e) <=> e \in F \/ isRoot(h, e)
  BY <1>11 DEF isRoot
<1>14. Forest(h2)
  <2>1. ASSUME NEW e \in Nodes, ~isRoot(h2, e) PROVE h2.rank[e] < h2.rank[h2.up[e]]
    <3>1. e \in Nodes \ F /\ ~isRoot(h, e)
      BY <1>13, <2>1
    <3>2. h.up[e] \in Nodes \ F /\ h.rank[e] < h.rank[h.up[e]]
      BY <1>1, <1>12, <3>1 DEF Forest
    <3>. QED
      BY <1>11, <3>1, <3>2
  <2>. QED
    BY <1>11, <2>1 DEF Forest
<1>15. \A e \in Nodes : RootOf(h2, e) = IF e \in F THEN e ELSE RootOf(h, e)
  <2>. DEFINE f == [e \in Nodes |-> IF e \in F THEN e ELSE RootOf(h, e)]
  <2>1. ASSUME NEW e \in Nodes
        PROVE  f[e] = IF isRoot(h2, e) THEN e ELSE f[h2.up[e]]
    <3>1. CASE e \in F
      BY <1>13, <3>1
    <3>2. CASE e \notin F /\ isRoot(h, e)
      BY <1>1, <1>13, <3>2, RootStep
    <3>3. CASE e \notin F /\ ~isRoot(h, e)
      <4>1. h.up[e] \in Nodes \ F /\ h2.up[e] = h.up[e] /\ ~isRoot(h2, e)
        BY <1>11, <1>12, <1>13, <3>3
      <4>2. RootOf(h, e) = RootOf(h, h.up[e])
        BY <1>1, <3>3, RootStep
      <4>. QED
        BY <3>3, <4>1, <4>2
    <3>. QED
      BY <3>1, <3>2, <3>3
  <2>2. \A e \in Nodes : f[e] = IF e \in F THEN e ELSE RootOf(h, e)
    OBVIOUS
  <2>. HIDE DEF f
  <2>3. \A e \in Nodes : RootOf(h2, e) = f[e]
    BY <1>14, <2>1, RootUnique
  <2>. QED
    BY <2>2, <2>3
<1>16. PICK X2 \in [Nodes -> Nat] : /\ X2 = [X EXCEPT ![d] = @ - 1]
                                    /\ X2[d] = X[d] - 1
                                    /\ \A e \in Nodes : e # d => X2[e] = X[e]
  <2>1. X[d] \in Nat /\ X[d] - 1 \in Nat
    BY <1>1
  <2>2. [X EXCEPT ![d] = @ - 1] \in [Nodes -> Nat]
    BY <1>1, <2>1
  <2>. QED
    BY <1>1, <2>1, <2>2
<1>17. ASSUME NEW e \in Nodes PROVE Children(h2, e) = Children(h, e) \ F
  <2>1. e # 0
    BY NodeFacts
  <2>. QED
    BY <1>11, <2>1 DEF Children
<1>18. Exact(h2, X2)
  <2>1. ASSUME NEW e \in Nodes PROVE h2.ref[e] = Cardinality(Children(h2, e)) + X2[e]
    <3>1. /\ h.ref[e] = Cardinality(Children(h, e)) + X[e] /\ X[e] \in Nat
          /\ Cardinality(Children(h, e)) \in Nat /\ Children(h, e) \in SUBSET Nodes
      BY GoodFacts
    <3>2. CASE e \in F
      <4>1. Children(h2, e) = {} /\ X2[e] = 0
        BY <1>8, <1>16, <1>17, <3>2
      <4>. QED
        BY <1>11, <3>2, <4>1, FS_EmptySet
    <3>3. CASE e \notin F /\ e = d
      <4>1. /\ Children(h2, e) = Children(h, e) /\ h2.ref[e] = h.ref[e] - 1
            /\ X2[e] = X[e] - 1
        BY <1>9, <1>11, <1>16, <1>17, <3>3
      <4>. QED
        BY <3>1, <4>1
    <3>4. CASE e \notin F /\ e # d /\ e \in hit
      <4>1. PICK c : /\ c \in Children(h, e) /\ Children(h, e) \cap F = {c}
                     /\ ref[e] = h.ref[e] - 1
        BY <1>9, <3>4
      <4>2. Children(h2, e) = Children(h, e) \ {c}
        BY <1>17, <4>1
      <4>3. Cardinality(Children(h2, e)) = Cardinality(Children(h, e)) - 1
        BY <3>1, <4>1, <4>2, OneChildLess
      <4>4. h2.ref[e] = h.ref[e] - 1 /\ X2[e] = X[e]
        BY <1>11, <1>16, <3>4, <4>1
      <4>. QED
        BY <3>1, <4>3, <4>4
    <3>5. CASE e \notin F /\ e # d /\ e \notin hit
      <4>0. ref[e] = h.ref[e] /\ Children(h, e) \cap F = {}
        BY <1>9, <3>5
      <4>1. Children(h2, e) = Children(h, e) /\ h2.ref[e] = h.ref[e] /\ X2[e] = X[e]
        BY <1>11, <1>16, <1>17, <3>5, <4>0
      <4>. QED
        BY <3>1, <4>1
    <3>. QED
      BY <3>2, <3>3, <3>4, <3>5
  <2>. QED
    BY <2>1 DEF Exact
<1>19. ASSUME NEW e \in Nodes \ F PROVE h2.ref[e] > 0 <=> h.ref[e] > 0
  <2>1. h.ref[e] \in Nat /\ h2.ref[e] = ref[e]
    BY <1>1, <1>11
  <2>. QED
    BY <1>9, <2>1
<1>20. Tidy(h2)
  <2>1. ASSUME NEW e \in Nodes \ F, h2.ref[e] = 0 PROVE isRoot(h2, e)
    <3>1. h.ref[e] = 0
      BY <1>1, <1>19, <2>1
    <3>. QED
      BY <1>13, <3>1 DEF Good, Tidy
  <2>. QED
    BY <1>13, <2>1 DEF Tidy
<1>21. SameSets(h, h2)
  BY <1>11, <1>15, <1>19 DEF SameSets
<1>22. \A e \in Nodes : h2.rank[e] <= h.rank[e]
  BY <1>1, <1>11, HeapFields
<1>. QED
  BY <1>6, <1>14, <1>16, <1>18, <1>20, <1>21, <1>22 DEF Good

\* find_set: a query moves nodes up and deletes those that nothing else points
\* at, and every node that is left keeps its set.
LEMMA Find ==
    ASSUME NEW h, NEW X, Good(h, X), NEW d \in Nodes
    PROVE  LET h2 == find_set(h, d) IN
           /\ Good(h2, X) /\ SameSets(h, h2)
           /\ \A e \in Nodes : h2.rank[e] <= h.rank[e]
<1>1. /\ h \in Heaps /\ Forest(h) /\ X \in [Nodes -> Nat]
      /\ h.up \in [Nodes -> 0..MaxNodes] /\ h.ref \in [Nodes -> Nat]
      /\ MaxNodes \in Nat
  BY HeapFields, NodeFacts DEF Good, Forest
<1>2. PICK P, r : P = PathTo(h, d) /\ r = RootOf(h, d)
  OBVIOUS
<1>3. PICK M : M = {e \in P : ~isRoot(h, e) /\ ~isRoot(h, h.up[e])}
  OBVIOUS
<1>4. PICK lose : lose = {h.up[e] : e \in M}
  OBVIOUS
<1>5. PICK F : F = {e \in lose : h.ref[e] = 1}
  OBVIOUS
<1>6. PICK up : up = [e \in Nodes |-> IF e \in M THEN r ELSE h.up[e]]
  OBVIOUS
<1>7. PICK ref : ref = [e \in Nodes |->
                    IF e = r THEN h.ref[e] + Cardinality(M) - Cardinality(F)
                    ELSE IF e \in lose THEN h.ref[e] - 1 ELSE h.ref[e]]
  OBVIOUS
<1>8. PICK h2 : h2 = find_set(h, d)
  OBVIOUS
<1>9. h2 = Deleted([up |-> up, bag |-> h.bag, rank |-> h.rank, ref |-> ref], F)
  <2>1. h2 = Deleted([h EXCEPT
                        !.up = [e \in Nodes |-> IF e \in M THEN r ELSE @[e]],
                        !.ref = [e \in Nodes |->
                            IF e = r THEN @[e] + Cardinality(M) - Cardinality(F)
                            ELSE IF e \in lose THEN @[e] - 1 ELSE @[e]]], F)
    BY <1>2, <1>3, <1>4, <1>5, <1>8 DEF find_set, Compressed
  <2>2. [h EXCEPT !.up = [e \in Nodes |-> IF e \in M THEN r ELSE @[e]],
                  !.ref = [e \in Nodes |->
                            IF e = r THEN @[e] + Cardinality(M) - Cardinality(F)
                            ELSE IF e \in lose THEN @[e] - 1 ELSE @[e]]]
          = [up |-> up, bag |-> h.bag, rank |-> h.rank, ref |-> ref]
    <3>1. up = [e \in Nodes |-> IF e \in M THEN r ELSE h.up[e]]
      BY <1>6
    <3>2. ref = [e \in Nodes |->
                    IF e = r THEN h.ref[e] + Cardinality(M) - Cardinality(F)
                    ELSE IF e \in lose THEN h.ref[e] - 1 ELSE h.ref[e]]
      BY <1>7
    <3>3. [h EXCEPT !.up = up, !.ref = ref]
            = [up |-> up, bag |-> h.bag, rank |-> h.rank, ref |-> ref]
      <4>1. PICK g : g = [h EXCEPT !.up = up]
        OBVIOUS
      <4>2. g = [up |-> up, bag |-> h.bag, rank |-> h.rank, ref |-> h.ref]
        BY <1>1, <4>1 DEF Heaps
      <4>3. [g EXCEPT !.ref = ref]
              = [up |-> up, bag |-> h.bag, rank |-> h.rank, ref |-> ref]
        BY <4>2
      <4>4. [h EXCEPT !.up = up, !.ref = ref] = [g EXCEPT !.ref = ref]
        BY <4>1, Zenon
      <4>. QED
        BY <4>3, <4>4, Zenon
    <3>. QED
      BY <3>1, <3>2, <3>3, Zenon
  <2>. QED
    BY <2>1, <2>2
\* The path.
<1>10. /\ P \in SUBSET Nodes /\ r \in P /\ isRoot(h, r) /\ d \in P
       /\ \A e \in P : RootOf(h, e) = r /\ (isRoot(h, e) => e = r)
       /\ \A e \in P : ~isRoot(h, e) => h.up[e] \in P
  BY <1>1, <1>2, PathStep, RootStep, PathFacts DEF PathOK
<1>11. /\ M \in SUBSET Nodes /\ M \subseteq P /\ lose \in SUBSET Nodes /\ lose \subseteq P
       /\ F \in SUBSET Nodes /\ F \subseteq lose /\ r \notin M /\ r \notin lose /\ r \notin F
       /\ \A e \in M : ~isRoot(h, e) /\ ~isRoot(h, h.up[e])
       /\ \A e \in lose : ~isRoot(h, e)
  BY <1>3, <1>4, <1>5, <1>10
<1>12. ASSUME NEW e \in lose
       PROVE  \E c \in M : /\ h.up[c] = e /\ c \in Children(h, e)
                           /\ \A x \in P : h.up[x] = e => x = c
  <2>1. PICK c \in M : h.up[c] = e
    BY <1>4
  <2>2. ASSUME NEW x \in P, h.up[x] = e PROVE x = c
    <3>1. x \in PathTo(h, d) /\ c \in PathTo(h, d) /\ ~isRoot(h, c) /\ h.up[c] = h.up[x]
      BY <1>2, <1>11, <2>1, <2>2
    <3>. QED
      BY <1>1, <3>1, OneBefore
  <2>. QED
    BY <1>11, <2>1, <2>2 DEF Children
\* The parent of a node on the path is the root or loses a child.
<1>13. \A e \in P : ~isRoot(h, e) => (e \in M /\ h.up[e] \in lose) \/ (e \notin M /\ h.up[e] = r)
  <2>1. ASSUME NEW e \in P, ~isRoot(h, e)
        PROVE  (e \in M /\ h.up[e] \in lose) \/ (e \notin M /\ h.up[e] = r)
    <3>1. CASE isRoot(h, h.up[e])
      BY <1>3, <1>10, <2>1, <3>1
    <3>2. CASE ~isRoot(h, h.up[e])
      BY <1>3, <1>4, <2>1, <3>2
    <3>. QED
      BY <3>1, <3>2
  <2>. QED
    BY <2>1
\* What the deleted nodes and the others lose.
<1>14. ASSUME NEW e \in F PROVE Children(h, e) \subseteq M /\ X[e] = 0
  <2>1. e \in Nodes /\ e \in lose /\ h.ref[e] = 1
    BY <1>5, <1>11
  <2>2. PICK c \in M : c \in Children(h, e)
    BY <1>12, <2>1
  <2>. QED
    BY <2>1, <2>2, OnlyChild
<1>15. ASSUME NEW e \in lose, e \notin F
       PROVE  /\ ref[e] = h.ref[e] - 1 /\ h.ref[e] > 1
              /\ \E c \in Children(h, e) : Children(h, e) \cap (M \cup F) = {c}
  <2>1. PICK c \in M : c \in Children(h, e) /\ \A x \in P : h.up[x] = e => x = c
    BY <1>12
  <2>2. e \in Nodes /\ e # r /\ h.ref[e] # 1 /\ h.ref[e] \in Nat
    BY <1>1, <1>5, <1>11, <1>15
  <2>3. h.ref[e] > 1
    BY <2>1, <2>2, GoodFacts
  <2>4. ref[e] = h.ref[e] - 1
    BY <1>7, <1>15, <2>2
  <2>5. Children(h, e) \cap (M \cup F) = {c}
    <3>1. \A x \in Children(h, e) \cap (M \cup F) : x \in P /\ h.up[x] = e
      BY <1>11 DEF Children
    <3>. QED
      BY <2>1, <3>1
  <2>. QED
    BY <2>1, <2>3, <2>4, <2>5
<1>16. ASSUME NEW e \in Nodes, e \notin lose, e # r
       PROVE  ref[e] = h.ref[e] /\ Children(h, e) \cap (M \cup F) = {}
  <2>1. ref[e] = h.ref[e]
    BY <1>7, <1>16
  <2>2. ASSUME NEW x \in Children(h, e) \cap (M \cup F) PROVE FALSE
    <3>1. x \in P /\ ~isRoot(h, x) /\ h.up[x] = e
      BY <1>11 DEF Children
    <3>. QED
      BY <1>13, <1>16, <3>1
  <2>. QED
    BY <2>1, <2>2
<1>17. /\ Children(h, r) \cap M = {} /\ F \subseteq Children(h, r) \cup M
       /\ ref[r] = h.ref[r] + Cardinality(M) - Cardinality(F)
  <2>1. Children(h, r) \cap M = {}
    BY <1>10, <1>11 DEF Children
  <2>2. F \subseteq Children(h, r) \cup M
    <3>1. \A e \in F : e \in P /\ ~isRoot(h, e) /\ e \in Nodes
      BY <1>11
    <3>. QED
      BY <1>13, <3>1 DEF Children
  <2>3. ref[r] = h.ref[r] + Cardinality(M) - Cardinality(F)
    BY <1>7, <1>10
  <2>. QED
    BY <2>1, <2>2, <2>3
<1>18. /\ Children(h, r) \in SUBSET Nodes /\ (Children(h, r) \cup M) \ F \in SUBSET Nodes
       /\ Cardinality((Children(h, r) \cup M) \ F)
             = Cardinality(Children(h, r)) + Cardinality(M) - Cardinality(F)
       /\ Cardinality((Children(h, r) \cup M) \ F) \in Nat
       /\ Cardinality(Children(h, r)) \in Nat /\ Cardinality(M) \in Nat /\ Cardinality(F) \in Nat
  <2>1. PICK C : C = Children(h, r)
    OBVIOUS
  <2>2. C \in SUBSET Nodes /\ C \cup M \in SUBSET Nodes /\ (C \cup M) \ F \in SUBSET Nodes
    BY <1>11, <2>1 DEF Children
  <2>3. /\ IsFiniteSet(C) /\ IsFiniteSet(M) /\ IsFiniteSet(F) /\ IsFiniteSet(C \cup M)
        /\ Cardinality(C) \in Nat /\ Cardinality(M) \in Nat /\ Cardinality(F) \in Nat
        /\ Cardinality(C \cup M) \in Nat /\ Cardinality((C \cup M) \ F) \in Nat
    BY <1>11, <2>2, NodeFacts
  <2>4. Cardinality(C \cup M) = Cardinality(C) + Cardinality(M)
    <3>1. C \cap M = {}
      BY <1>17, <2>1
    <3>2. Cardinality(C \cup M) = Cardinality(C) + Cardinality(M) - Cardinality(C \cap M)
      BY <2>3, FS_Union
    <3>3. Cardinality(C \cap M) = 0
      BY <3>1, FS_EmptySet
    <3>. QED
      BY <2>3, <3>2, <3>3
  <2>5. Cardinality((C \cup M) \ F) = Cardinality(C \cup M) - Cardinality(F)
    <3>1. (C \cup M) \cap F = F
      BY <1>17, <2>1
    <3>2. Cardinality((C \cup M) \ F) = Cardinality(C \cup M) - Cardinality((C \cup M) \cap F)
      BY <2>3, FS_Difference
    <3>. QED
      BY <3>1, <3>2
  <2>. QED
    BY <2>1, <2>2, <2>3, <2>4, <2>5
<1>19. h.ref[r] = Cardinality(Children(h, r)) + X[r] /\ X[r] \in Nat /\ r \in Nodes
  BY <1>10, GoodFacts
<1>20. ref[r] = Cardinality((Children(h, r) \cup M) \ F) + X[r] /\ ref[r] \in Nat
  BY <1>17, <1>18, <1>19
<1>21. up \in [Nodes -> 0..MaxNodes]
  BY <1>1, <1>6, <1>19 DEF Nodes
<1>22. ref \in [Nodes -> Int] /\ \A e \in Nodes \ F : ref[e] \in Nat
  <2>1. ASSUME NEW e \in Nodes PROVE ref[e] \in Int /\ (e \notin F => ref[e] \in Nat)
    <3>0. h.ref[e] \in Nat
      BY <1>1
    <3>1. CASE e = r
      BY <1>20, <3>1
    <3>2. CASE e \in lose
      <4>1. ref[e] = h.ref[e] - 1
        BY <1>7, <1>11, <3>2
      <4>. QED
        BY <1>15, <3>0, <3>2, <4>1
    <3>3. CASE e # r /\ e \notin lose
      BY <1>16, <3>0, <3>3
    <3>. QED
      BY <3>1, <3>2, <3>3
  <2>2. ref = [e \in Nodes |-> ref[e]]
    BY <1>7
  <2>. QED
    BY <2>1, <2>2
<1>23. /\ h2 \in Heaps
       /\ \A e \in F : /\ h2.up[e] = 0 /\ h2.bag[e] = NoBag /\ h2.rank[e] = 0
                       /\ h2.ref[e] = 0
       /\ \A e \in Nodes \ F : /\ h2.up[e] = up[e] /\ h2.bag[e] = h.bag[e]
                               /\ h2.rank[e] = h.rank[e] /\ h2.ref[e] = ref[e]
  BY <1>1, <1>9, <1>11, <1>21, <1>22, DeletedFields
<1>24. /\ \A e \in M \ F : h2.up[e] = r
       /\ \A e \in (Nodes \ F) \ M : h2.up[e] = h.up[e]
  BY <1>6, <1>11, <1>23
<1>25. \A e \in (Nodes \ F) \ M : ~isRoot(h, e) => h.up[e] \in Nodes \ F
  <2>1. ASSUME NEW e \in (Nodes \ F) \ M, ~isRoot(h, e), h.up[e] \in F PROVE FALSE
    <3>1. e \in Children(h, h.up[e])
      BY DEF Children
    <3>. QED
      BY <1>14, <2>1, <3>1
  <2>. QED
    BY <1>1, <2>1, NodeFacts
<1>26. \A e \in Nodes : isRoot(h2, e) <=> e \in F \/ isRoot(h, e)
  <2>1. ASSUME NEW e \in Nodes PROVE isRoot(h2, e) <=> e \in F \/ isRoot(h, e)
    <3>1. CASE e \in F
      BY <1>23, <3>1 DEF isRoot
    <3>2. CASE e \in M \ F
      <4>1. r # 0
        BY <1>19, NodeFacts
      <4>. QED
        BY <1>11, <1>24, <3>2, <4>1 DEF isRoot
    <3>3. CASE e \in (Nodes \ F) \ M
      BY <1>24, <3>3 DEF isRoot
    <3>. QED
      BY <3>1, <3>2, <3>3
  <2>. QED
    BY <2>1
<1>27. Forest(h2)
  <2>1. ASSUME NEW e \in Nodes, ~isRoot(h2, e) PROVE h2.rank[e] < h2.rank[h2.up[e]]
    <3>1. e \in Nodes \ F /\ ~isRoot(h, e) /\ h2.rank[e] = h.rank[e]
      BY <1>23, <1>26, <2>1
    <3>2. CASE e \in M
      <4>1. r \in PathTo(h, e) /\ r # e
        BY <1>1, <1>10, <1>11, <3>2, RootStep
      <4>2. h.rank[e] < h.rank[r]
        BY <1>1, <4>1, PathFacts DEF PathOK
      <4>3. h2.up[e] = r /\ h2.rank[r] = h.rank[r]
        BY <1>11, <1>19, <1>23, <1>24, <3>1, <3>2
      <4>. QED
        BY <3>1, <4>2, <4>3
    <3>3. CASE e \notin M
      <4>1. h.up[e] \in Nodes \ F /\ h.rank[e] < h.rank[h.up[e]]
        BY <1>1, <1>25, <3>1, <3>3 DEF Forest
      <4>. QED
        BY <1>23, <1>24, <3>1, <3>3, <4>1
    <3>. QED
      BY <3>2, <3>3
  <2>. QED
    BY <1>23, <2>1 DEF Forest
<1>28. \A e \in Nodes : RootOf(h2, e) = IF e \in F THEN e ELSE RootOf(h, e)
  <2>. DEFINE f == [e \in Nodes |-> IF e \in F THEN e ELSE RootOf(h, e)]
  <2>1. ASSUME NEW e \in Nodes
        PROVE  f[e] = IF isRoot(h2, e) THEN e ELSE f[h2.up[e]]
    <3>1. CASE e \in F
      BY <1>26, <3>1
    <3>2. CASE e \notin F /\ isRoot(h, e)
      BY <1>1, <1>26, <3>2, RootStep
    <3>3. CASE e \in M \ F
      <4>1. h2.up[e] = r /\ ~isRoot(h2, e) /\ RootOf(h, e) = r /\ RootOf(h, r) = r
        BY <1>10, <1>11, <1>24, <1>26, <3>3
      <4>2. f[r] = RootOf(h, r)
        BY <1>11, <1>19
      <4>. QED
        BY <3>3, <4>1, <4>2
    <3>4. CASE e \notin F /\ e \notin M /\ ~isRoot(h, e)
      <4>1. h.up[e] \in Nodes \ F /\ h2.up[e] = h.up[e] /\ ~isRoot(h2, e)
        BY <1>24, <1>25, <1>26, <3>4
      <4>2. RootOf(h, e) = RootOf(h, h.up[e])
        BY <1>1, <3>4, RootStep
      <4>. QED
        BY <3>4, <4>1, <4>2
    <3>. QED
      BY <3>1, <3>2, <3>3, <3>4
  <2>2. \A e \in Nodes : f[e] = IF e \in F THEN e ELSE RootOf(h, e)
    OBVIOUS
  <2>. HIDE DEF f
  <2>3. \A e \in Nodes : RootOf(h2, e) = f[e]
    BY <1>27, <2>1, RootUnique
  <2>. QED
    BY <2>2, <2>3
<1>29. Children(h2, r) = (Children(h, r) \cup M) \ F
  <2>1. r # 0
    BY <1>19, NodeFacts
  <2>2. \A e \in F : h2.up[e] # r
    BY <1>23, <2>1
  <2>. QED
    BY <1>11, <1>24, <2>2 DEF Children
<1>30. ASSUME NEW e \in Nodes, e # r PROVE Children(h2, e) = Children(h, e) \ (M \cup F)
  <2>1. e # 0
    BY NodeFacts
  <2>2. \A x \in F : h2.up[x] # e
    BY <1>23, <2>1
  <2>. QED
    BY <1>24, <1>30, <2>2 DEF Children
<1>31. Exact(h2, X)
  <2>1. ASSUME NEW e \in Nodes PROVE h2.ref[e] = Cardinality(Children(h2, e)) + X[e]
    <3>1. /\ h.ref[e] = Cardinality(Children(h, e)) + X[e] /\ X[e] \in Nat
          /\ Cardinality(Children(h, e)) \in Nat /\ Children(h, e) \in SUBSET Nodes
      BY GoodFacts
    <3>2. CASE e = r
      BY <1>11, <1>20, <1>23, <1>29, <3>2
    <3>3. CASE e \in F
      <4>1. Children(h2, e) = {} /\ X[e] = 0
        BY <1>11, <1>14, <1>30, <3>3
      <4>. QED
        BY <1>23, <3>3, <4>1, FS_EmptySet
    <3>4. CASE e \in lose \ F
      <4>1. PICK c : /\ c \in Children(h, e) /\ Children(h, e) \cap (M \cup F) = {c}
                     /\ ref[e] = h.ref[e] - 1
        BY <1>15, <3>4
      <4>2. Children(h2, e) = Children(h, e) \ {c}
        <5>1. Children(h2, e) = Children(h, e) \ (M \cup F)
          BY <1>11, <1>30, <3>4
        <5>. QED
          BY <4>1, <5>1
      <4>3. Cardinality(Children(h2, e)) = Cardinality(Children(h, e)) - 1
        BY <3>1, <4>1, <4>2, OneChildLess
      <4>4. h2.ref[e] = h.ref[e] - 1
        BY <1>23, <3>4, <4>1
      <4>. QED
        BY <3>1, <4>3, <4>4
    <3>5. CASE e # r /\ e \notin lose
      <4>1. ref[e] = h.ref[e] /\ Children(h, e) \cap (M \cup F) = {} /\ e \notin F
        BY <1>11, <1>16, <3>5
      <4>2. Children(h2, e) = Children(h, e) /\ h2.ref[e] = h.ref[e]
        BY <1>23, <1>30, <3>5, <4>1
      <4>. QED
        BY <3>1, <4>2
    <3>. QED
      BY <3>2, <3>3, <3>4, <3>5
  <2>. QED
    BY <2>1 DEF Exact
<1>32. ASSUME NEW e \in Nodes \ F
       PROVE  /\ h2.ref[e] > 0 => h.ref[e] > 0
              /\ h2.ref[e] = 0 => isRoot(h, e)
  <2>0. h.ref[e] \in Nat /\ h2.ref[e] = ref[e]
    BY <1>1, <1>23
  <2>1. CASE e = r
    <3>1. isRoot(h, e)
      BY <1>10, <2>1
    <3>2. ASSUME h2.ref[e] > 0 PROVE h.ref[e] > 0
      <4>1. CASE M = {}
        <5>1. F = {} /\ Cardinality(M) = 0 /\ Cardinality(F) = 0
          BY <1>4, <1>5, <4>1, FS_EmptySet
        <5>. QED
          BY <1>17, <2>0, <2>1, <3>2, <5>1
      <4>2. CASE M # {}
        <5>1. PICK c \in M : TRUE
          BY <4>2
        <5>2. PICK y \in lose : ~isRoot(h, y)
          BY <1>4, <1>11, <5>1
        <5>3. h.ref[y] > 0
          BY <1>11, <1>12, GoodFacts
        <5>4. RootOf(h, y) = r
          BY <1>10, <1>11
        <5>. QED
          BY <1>11, <2>1, <5>3, <5>4, RootAlive
      <4>. QED
        BY <4>1, <4>2
    <3>. QED
      BY <3>1, <3>2
  <2>2. CASE e \in lose
    BY <1>15, <2>0, <2>2
  <2>3. CASE e # r /\ e \notin lose
    <3>1. ref[e] = h.ref[e]
      BY <1>16, <2>3
    <3>. QED
      BY <2>0, <3>1 DEF Good, Tidy
  <2>. QED
    BY <2>1, <2>2, <2>3
<1>33. Tidy(h2)
  BY <1>26, <1>32 DEF Tidy
<1>34. SameSets(h, h2)
  <2>1. ASSUME NEW e \in Nodes, h2.ref[e] > 0
        PROVE  h.ref[e] > 0 /\ RootOf(h2, e) = RootOf(h, e) /\ h2.bag[e] = h.bag[e]
    <3>1. e \notin F
      BY <1>23, <2>1
    <3>. QED
      BY <1>23, <1>28, <1>32, <2>1, <3>1
  <2>. QED
    BY <2>1 DEF SameSets
<1>35. \A e \in Nodes : h2.rank[e] <= h.rank[e]
  BY <1>1, <1>23, HeapFields
<1>. QED
  BY <1>1, <1>8, <1>27, <1>31, <1>33, <1>34, <1>35 DEF Good

\* root_set_parent, field by field.
LEMMA SetParentFields ==
    ASSUME NEW h \in Heaps, NEW d \in Nodes, NEW e \in Nodes
    PROVE  root_set_parent(h, d, e) =
             [up |-> [h.up EXCEPT ![d] = e], bag |-> [h.bag EXCEPT ![d] = NoBag],
              rank |-> h.rank, ref |-> [h.ref EXCEPT ![e] = @ + 1]]
<1>1. PICK f : f = [h EXCEPT !.up[d] = e]
  OBVIOUS
<1>2. f = [up |-> [h.up EXCEPT ![d] = e], bag |-> h.bag, rank |-> h.rank, ref |-> h.ref]
  BY <1>1 DEF Heaps
<1>3. PICK g : g = [f EXCEPT !.bag[d] = NoBag]
  OBVIOUS
<1>4. g = [up |-> [h.up EXCEPT ![d] = e], bag |-> [h.bag EXCEPT ![d] = NoBag],
           rank |-> h.rank, ref |-> h.ref]
  BY <1>2, <1>3
<1>5. [h EXCEPT !.up[d] = e, !.bag[d] = NoBag] = g
  BY <1>1, <1>3, Zenon
<1>6. root_set_parent(h, d, e) = inc_ref_count(g, e)
  BY <1>5, Zenon DEF root_set_parent
<1>7. inc_ref_count(g, e) = [g EXCEPT !.ref[e] = @ + 1]
  BY DEF inc_ref_count
<1>8. [g EXCEPT !.ref[e] = @ + 1] =
        [up |-> [h.up EXCEPT ![d] = e], bag |-> [h.bag EXCEPT ![d] = NoBag],
         rank |-> h.rank, ref |-> [h.ref EXCEPT ![e] = @ + 1]]
  BY <1>4
<1>. QED
  BY <1>6, <1>7, <1>8, Zenon

\* The root w of the two is the other's parent and outranks it.
Linked(h, h2, d, e, w, v) ==
    /\ w \in {d, e} /\ v \in {d, e} /\ w # v
    /\ h2 \in Heaps
    /\ h2.up = [h.up EXCEPT ![v] = w] /\ h2.bag = [h.bag EXCEPT ![v] = NoBag]
    /\ h2.ref = [h.ref EXCEPT ![w] = @ + 1]
    /\ h2.rank[v] < h2.rank[w] /\ h.rank[w] <= h2.rank[w]
    /\ \A x \in Nodes : x # w => h2.rank[x] = h.rank[x]

\* link, whichever rank is the greater.
LEMMA LinkFields ==
    ASSUME NEW h \in Heaps, NEW d \in Nodes, NEW e \in Nodes, d # e,
           \A x \in Nodes : h.rank[x] <= MaxRank
    PROVE  \E w, v : Linked(h, link(h, d, e), d, e, w, v)
<1>1. /\ h.up \in [Nodes -> 0..MaxNodes] /\ h.bag \in [Nodes -> Bags \cup {NoBag}]
      /\ h.rank \in [Nodes -> 0..(MaxRank + 1)] /\ h.ref \in [Nodes -> Nat]
      /\ \A x \in Nodes : h.rank[x] \in Nat /\ h.rank[x] <= MaxRank
      /\ d \in 0..MaxNodes /\ e \in 0..MaxNodes /\ MaxRank \in Nat
  BY HeapFields, NodeFacts, SMTT(30) DEF Nodes
<1>2. CASE h.rank[d] > h.rank[e]
  <2>1. link(h, d, e) = root_set_parent(h, e, d)
    BY <1>2 DEF link
  <2>2. PICK h2 : h2 = link(h, d, e)
    OBVIOUS
  <2>3. h2 = [up |-> [h.up EXCEPT ![e] = d], bag |-> [h.bag EXCEPT ![e] = NoBag],
              rank |-> h.rank, ref |-> [h.ref EXCEPT ![d] = @ + 1]]
    BY <2>1, <2>2, SetParentFields
  <2>4. /\ h2.up = [h.up EXCEPT ![e] = d] /\ h2.bag = [h.bag EXCEPT ![e] = NoBag]
        /\ h2.rank = h.rank /\ h2.ref = [h.ref EXCEPT ![d] = @ + 1]
    BY <2>3
  <2>5. h2 \in Heaps
    <3>1. /\ [h.up EXCEPT ![e] = d] \in [Nodes -> 0..MaxNodes]
          /\ [h.bag EXCEPT ![e] = NoBag] \in [Nodes -> Bags \cup {NoBag}]
          /\ [h.ref EXCEPT ![d] = @ + 1] \in [Nodes -> Nat]
      BY <1>1
    <3>. QED
      BY <1>1, <2>3, <3>1 DEF Heaps
  <2>6. /\ h2.rank[e] < h2.rank[d] /\ h.rank[d] <= h2.rank[d]
        /\ \A x \in Nodes : x # d => h2.rank[x] = h.rank[x]
    BY <1>1, <1>2, <2>4
  <2>7. Linked(h, h2, d, e, d, e)
    BY <2>4, <2>5, <2>6 DEF Linked
  <2>. QED
    BY <2>2, <2>7
<1>3. CASE ~(h.rank[d] > h.rank[e])
  <2>1. PICK g : g = root_set_parent(h, d, e)
    OBVIOUS
  <2>2. g = [up |-> [h.up EXCEPT ![d] = e], bag |-> [h.bag EXCEPT ![d] = NoBag],
             rank |-> h.rank, ref |-> [h.ref EXCEPT ![e] = @ + 1]]
    BY <2>1, SetParentFields
  <2>3. PICK k : k = IF h.rank[d] = h.rank[e] THEN h.rank[e] + 1 ELSE h.rank[e]
    OBVIOUS
  <2>4. PICK h2 : h2 = link(h, d, e)
    OBVIOUS
  <2>5. h2 = [g EXCEPT !.rank[e] = IF h.rank[d] = h.rank[e] THEN @ + 1 ELSE @]
    BY <1>3, <2>1, <2>4 DEF link
  <2>6. h2 = [up |-> [h.up EXCEPT ![d] = e], bag |-> [h.bag EXCEPT ![d] = NoBag],
              rank |-> [h.rank EXCEPT ![e] = k], ref |-> [h.ref EXCEPT ![e] = @ + 1]]
    BY <2>2, <2>3, <2>5
  <2>7. /\ h2.up = [h.up EXCEPT ![d] = e] /\ h2.bag = [h.bag EXCEPT ![d] = NoBag]
        /\ h2.rank = [h.rank EXCEPT ![e] = k] /\ h2.ref = [h.ref EXCEPT ![e] = @ + 1]
    BY <2>6
  <2>8. k \in 0..(MaxRank + 1) /\ h.rank[d] < k /\ h.rank[e] <= k
    <3>1. h.rank[d] \in Nat /\ h.rank[e] \in Nat /\ h.rank[e] <= MaxRank
      BY <1>1
    <3>. QED
      BY <1>1, <1>3, <2>3, <3>1
  <2>9. h2 \in Heaps
    <3>1. /\ [h.up EXCEPT ![d] = e] \in [Nodes -> 0..MaxNodes]
          /\ [h.bag EXCEPT ![d] = NoBag] \in [Nodes -> Bags \cup {NoBag}]
          /\ [h.rank EXCEPT ![e] = k] \in [Nodes -> 0..(MaxRank + 1)]
          /\ [h.ref EXCEPT ![e] = @ + 1] \in [Nodes -> Nat]
      BY <1>1, <2>8
    <3>. QED
      BY <2>6, <3>1 DEF Heaps
  <2>10. /\ h2.rank[d] < h2.rank[e] /\ h.rank[e] <= h2.rank[e]
         /\ \A x \in Nodes : x # e => h2.rank[x] = h.rank[x]
    BY <1>1, <2>7, <2>8
  <2>11. Linked(h, h2, d, e, e, d)
    BY <2>7, <2>9, <2>10 DEF Linked
  <2>. QED
    BY <2>4, <2>11
<1>. QED
  BY <1>2, <1>3

\* Union by rank: the two sets are one, whose root is w.
LEMMA Link ==
    ASSUME NEW h, NEW X, Good(h, X), NEW d \in Nodes, NEW e \in Nodes,
           isRoot(h, d), isRoot(h, e), h.ref[d] > 0, h.ref[e] > 0,
           NEW h2, NEW w, NEW v, Linked(h, h2, d, e, w, v)
    PROVE  /\ Good(h2, X)
           /\ \A x \in Nodes : RootOf(h2, x) = IF RootOf(h, x) = v THEN w ELSE RootOf(h, x)
           /\ \A x \in Nodes : h.ref[x] > 0 <=> h2.ref[x] > 0
<1>1. /\ h \in Heaps /\ Forest(h) /\ X \in [Nodes -> Nat] /\ h2 \in Heaps
      /\ h.up \in [Nodes -> 0..MaxNodes] /\ h.ref \in [Nodes -> Nat]
      /\ \A x \in Nodes : h.rank[x] \in Nat /\ h2.rank[x] \in Nat
  BY HeapFields DEF Good, Forest, Linked
<1>2. /\ w \in Nodes /\ v \in Nodes /\ w # v /\ isRoot(h, w) /\ isRoot(h, v) /\ h.ref[v] > 0
      /\ h.ref[w] > 0 /\ w # 0
  BY NodeFacts DEF Linked
<1>3. /\ h2.up[v] = w /\ \A x \in Nodes : x # v => h2.up[x] = h.up[x]
      /\ h2.ref[w] = h.ref[w] + 1 /\ \A x \in Nodes : x # w => h2.ref[x] = h.ref[x]
      /\ h2.rank[v] < h2.rank[w] /\ h.rank[w] <= h2.rank[w]
      /\ \A x \in Nodes : x # w => h2.rank[x] = h.rank[x]
  BY <1>1, <1>2 DEF Linked
<1>4. \A x \in Nodes : isRoot(h2, x) <=> isRoot(h, x) /\ x # v
  BY <1>2, <1>3 DEF isRoot
<1>5. Forest(h2)
  <2>1. ASSUME NEW x \in Nodes, ~isRoot(h2, x) PROVE h2.rank[x] < h2.rank[h2.up[x]]
    <3>1. CASE x = v
      BY <1>3, <3>1
    <3>2. CASE x # v
      <4>1. ~isRoot(h, x) /\ x # w /\ h2.up[x] = h.up[x]
        BY <1>2, <1>3, <1>4, <2>1, <3>2
      <4>2. h.up[x] \in Nodes /\ h.rank[x] < h.rank[h.up[x]]
        BY <1>1, <4>1, NodeFacts DEF Forest
      <4>3. h2.rank[x] = h.rank[x] /\ h.rank[h.up[x]] <= h2.rank[h.up[x]]
        BY <1>1, <1>3, <4>1, <4>2
      <4>. QED
        BY <1>1, <4>1, <4>2, <4>3
    <3>. QED
      BY <3>1, <3>2
  <2>. QED
    BY <1>1, <2>1 DEF Forest
<1>6. \A x \in Nodes : RootOf(h2, x) = IF RootOf(h, x) = v THEN w ELSE RootOf(h, x)
  <2>. DEFINE f == [x \in Nodes |-> IF RootOf(h, x) = v THEN w ELSE RootOf(h, x)]
  <2>1. RootOf(h, v) = v /\ RootOf(h, w) = w
    BY <1>1, <1>2, RootStep
  <2>2. ASSUME NEW x \in Nodes
        PROVE  f[x] = IF isRoot(h2, x) THEN x ELSE f[h2.up[x]]
    <3>1. CASE x = v
      BY <1>2, <1>3, <1>4, <2>1, <3>1
    <3>2. CASE x # v /\ isRoot(h, x)
      BY <1>1, <1>4, <3>2, RootStep
    <3>3. CASE x # v /\ ~isRoot(h, x)
      <4>1. h.up[x] \in Nodes /\ h2.up[x] = h.up[x] /\ ~isRoot(h2, x)
        BY <1>1, <1>3, <1>4, <3>3, NodeFacts
      <4>2. RootOf(h, x) = RootOf(h, h.up[x])
        BY <1>1, <3>3, RootStep
      <4>. QED
        BY <4>1, <4>2
    <3>. QED
      BY <3>1, <3>2, <3>3
  <2>3. \A x \in Nodes : f[x] = IF RootOf(h, x) = v THEN w ELSE RootOf(h, x)
    OBVIOUS
  <2>. HIDE DEF f
  <2>4. \A x \in Nodes : RootOf(h2, x) = f[x]
    BY <1>5, <2>2, RootUnique
  <2>. QED
    BY <2>3, <2>4
<1>7. Exact(h2, X)
  <2>1. ASSUME NEW x \in Nodes PROVE h2.ref[x] = Cardinality(Children(h2, x)) + X[x]
    <3>1. /\ h.ref[x] = Cardinality(Children(h, x)) + X[x] /\ X[x] \in Nat
          /\ Cardinality(Children(h, x)) \in Nat /\ Children(h, x) \in SUBSET Nodes
          /\ IsFiniteSet(Children(h, x)) /\ x # 0
      BY GoodFacts, NodeFacts
    <3>2. v \notin Children(h, x)
      BY <1>2, <3>1 DEF Children, isRoot
    <3>3. CASE x = w
      <4>1. Children(h2, x) = Children(h, x) \cup {v}
        BY <1>2, <1>3, <3>3 DEF Children
      <4>2. Cardinality(Children(h2, x)) = Cardinality(Children(h, x)) + 1
        BY <3>1, <3>2, <4>1, FS_AddElement
      <4>. QED
        BY <1>3, <3>1, <3>3, <4>2
    <3>4. CASE x # w
      <4>1. Children(h2, x) = Children(h, x)
        BY <1>2, <1>3, <3>2, <3>4 DEF Children
      <4>. QED
        BY <1>3, <3>1, <3>4, <4>1
    <3>. QED
      BY <3>3, <3>4
  <2>. QED
    BY <2>1 DEF Exact
<1>8. \A x \in Nodes : h.ref[x] > 0 <=> h2.ref[x] > 0
  <2>1. \A x \in Nodes : h.ref[x] \in Nat
    BY <1>1
  <2>. QED
    BY <1>2, <1>3, <2>1
<1>9. Tidy(h2)
  <2>1. ASSUME NEW x \in Nodes, h2.ref[x] = 0 PROVE isRoot(h2, x)
    <3>1. h.ref[x] = 0 /\ x # v
      BY <1>1, <1>2, <1>8, <2>1
    <3>. QED
      BY <1>4, <3>1 DEF Good, Tidy
  <2>. QED
    BY <2>1 DEF Tidy
<1>. QED
  BY <1>1, <1>5, <1>6, <1>7, <1>8, <1>9 DEF Good

-----------------------------------------------------------------------------
(***************************************************************************)
(* The inductive invariant.                                                *)
(***************************************************************************)
Pointing(f, S, d) == Cardinality({s \in S : f[s] = d})
PointsAt(p, d) == IF p = d THEN 1 ELSE 0

\* The pointers from bags and from shadow-memory entries.
External == [d \in Nodes |-> Pointing(dsOf, Bags, d) + Pointing(entry, Entries, d)]

\* A bag that has a node exists and holds the root of its set, and every root
\* is the node of the bag it names.
BagsMatch ==
    /\ \A b \in Bags : dsOf[b] # 0 =>
          b \in bags /\ isRoot(heap, dsOf[b]) /\ heap.bag[dsOf[b]] = b
    /\ \A d \in Nodes : heap.ref[d] > 0 /\ isRoot(heap, d) =>
          heap.bag[d] \in bags /\ dsOf[heap.bag[d]] = d

SetInv == SetTypeOK /\ Good(heap, External) /\ BagsMatch

\* f becomes g when the pointer of s is set to v.
Moved(S, f, g, s, v) ==
    /\ IsFiniteSet(S) /\ f \in [S -> 0..MaxNodes] /\ s \in S /\ v \in 0..MaxNodes
    /\ g = [f EXCEPT ![s] = v]

\* A pointer moves from one node to another.
LEMMA Repoint ==
    ASSUME NEW S, NEW f, NEW g, NEW s, NEW v, Moved(S, f, g, s, v), NEW d \in Nodes
    PROVE  /\ Pointing(f, S, d) \in Nat /\ Pointing(g, S, d) \in Nat
           /\ Pointing(g, S, d) = Pointing(f, S, d) + PointsAt(v, d) - PointsAt(f[s], d)
<1>0. /\ IsFiniteSet(S) /\ f \in [S -> 0..MaxNodes] /\ s \in S /\ v \in 0..MaxNodes
      /\ g = [f EXCEPT ![s] = v]
  BY DEF Moved
<1>1. PICK A, B : A = {x \in S : f[x] = d} /\ B = {x \in S : g[x] = d}
  OBVIOUS
<1>2. /\ IsFiniteSet(A) /\ IsFiniteSet(B) /\ Cardinality(A) \in Nat /\ Cardinality(B) \in Nat
  BY <1>0, <1>1, FS_Subset, FS_CardinalityType
<1>3. B = IF v = d THEN A \cup {s} ELSE A \ {s}
  BY <1>0, <1>1
<1>4. Cardinality(B) = Cardinality(A) + PointsAt(v, d) - PointsAt(f[s], d)
  <2>1. s \in A <=> f[s] = d
    BY <1>0, <1>1
  <2>2. CASE v = d
    <3>1. Cardinality(B) = IF s \in A THEN Cardinality(A) ELSE Cardinality(A) + 1
      BY <1>2, <1>3, <2>2, FS_AddElement
    <3>. QED
      BY <1>2, <2>1, <2>2, <3>1 DEF PointsAt
  <2>3. CASE v # d
    <3>1. Cardinality(B) = IF s \in A THEN Cardinality(A) - 1 ELSE Cardinality(A)
      BY <1>2, <1>3, <2>3, FS_RemoveElement
    <3>. QED
      BY <1>2, <2>1, <2>3, <3>1 DEF PointsAt
  <2>. QED
    BY <2>2, <2>3
<1>. QED
  BY <1>1, <1>2, <1>4 DEF Pointing

\* A pointer at a node is counted.
LEMMA PointedAt ==
    ASSUME NEW S, IsFiniteSet(S), NEW f, NEW d
    PROVE  /\ Pointing(f, S, d) \in Nat
           /\ Pointing(f, S, d) > 0 <=> \E s \in S : f[s] = d
<1>1. PICK A : A = {x \in S : f[x] = d}
  OBVIOUS
<1>2. IsFiniteSet(A) /\ Cardinality(A) \in Nat /\ (Cardinality(A) = 0 <=> A = {})
  BY <1>1, FS_Subset, FS_CardinalityType, FS_EmptySet
<1>. QED
  BY <1>1, <1>2 DEF Pointing

\* What the invariant says of bags, entries and the sets of accesses.
LEMMA StateFacts ==
    ASSUME SetInv
    PROVE  /\ heap \in Heaps /\ Forest(heap) /\ External \in [Nodes -> Nat]
           /\ \A d \in Nodes : heap.rank[d] <= MaxRank
           /\ IsFiniteSet(Bags) /\ IsFiniteSet(Entries) /\ MaxNodes \in Nat
           /\ dsOf \in [Bags -> 0..MaxNodes] /\ entry \in [Entries -> 0..MaxNodes]
           /\ \A b \in Bags : dsOf[b] # 0 =>
                 /\ dsOf[b] \in Nodes /\ External[dsOf[b]] > 0 /\ heap.ref[dsOf[b]] > 0
                 /\ RootOf(heap, dsOf[b]) = dsOf[b]
           /\ \A l \in Entries : entry[l] # 0 =>
                 entry[l] \in Nodes /\ External[entry[l]] > 0 /\ heap.ref[entry[l]] > 0
           /\ \A d \in Nodes : heap.ref[d] > 0 =>
                 LET r == RootOf(heap, d) IN
                 /\ r \in Nodes /\ heap.ref[r] > 0 /\ isRoot(heap, r)
                 /\ heap.bag[r] \in bags /\ heap.bag[r] \in Bags /\ heap.bag[r] # NoBag
                 /\ dsOf[heap.bag[r]] = r
<1>1. /\ Good(heap, External) /\ Forest(heap) /\ heap \in Heaps /\ External \in [Nodes -> Nat]
      /\ dsOf \in [Bags -> 0..MaxNodes] /\ entry \in [Entries -> 0..MaxNodes]
      /\ bags \subseteq Bags
      /\ IsFiniteSet(Bags) /\ IsFiniteSet(Entries) /\ MaxNodes \in Nat /\ NoBag \notin Bags
  BY SetAssumption, NodeFacts DEF SetInv, SetTypeOK, Good, Forest
<1>2. \A d \in Nodes : heap.rank[d] <= MaxRank
  BY NodeFacts DEF SetInv, SetTypeOK
<1>3. \A x \in 0..MaxNodes : x # 0 => x \in Nodes
  BY <1>1 DEF Nodes
<1>4. ASSUME NEW d \in Nodes
      PROVE  External[d] > 0 <=>
                (\E b \in Bags : dsOf[b] = d) \/ (\E l \in Entries : entry[l] = d)
  <2>1. External[d] = Pointing(dsOf, Bags, d) + Pointing(entry, Entries, d)
    BY DEF External
  <2>. QED
    BY <1>1, <2>1, PointedAt
<1>5. ASSUME NEW b \in Bags, dsOf[b] # 0
      PROVE  /\ dsOf[b] \in Nodes /\ External[dsOf[b]] > 0 /\ heap.ref[dsOf[b]] > 0
             /\ RootOf(heap, dsOf[b]) = dsOf[b]
  <2>1. dsOf[b] \in Nodes
    BY <1>1, <1>3, <1>5
  <2>2. External[dsOf[b]] > 0
    BY <1>4, <2>1
  <2>3. heap.ref[dsOf[b]] > 0
    BY <1>1, <2>1, <2>2, GoodFacts
  <2>4. isRoot(heap, dsOf[b])
    BY <1>5 DEF SetInv, BagsMatch
  <2>5. RootOf(heap, dsOf[b]) = dsOf[b]
    BY <1>1, <2>1, <2>4, RootStep
  <2>. QED
    BY <2>1, <2>2, <2>3, <2>5
<1>6. ASSUME NEW l \in Entries, entry[l] # 0
      PROVE  entry[l] \in Nodes /\ External[entry[l]] > 0 /\ heap.ref[entry[l]] > 0
  <2>1. entry[l] \in Nodes
    BY <1>1, <1>3, <1>6
  <2>2. External[entry[l]] > 0
    BY <1>4, <2>1
  <2>. QED
    BY <1>1, <2>1, <2>2, GoodFacts
<1>7. ASSUME NEW d \in Nodes, heap.ref[d] > 0
      PROVE  LET r == RootOf(heap, d) IN
             /\ r \in Nodes /\ heap.ref[r] > 0 /\ isRoot(heap, r)
             /\ heap.bag[r] \in bags /\ heap.bag[r] \in Bags /\ heap.bag[r] # NoBag
             /\ dsOf[heap.bag[r]] = r
  <2>1. PICK r \in Nodes : r = RootOf(heap, d) /\ isRoot(heap, r) /\ heap.ref[r] > 0
    BY <1>1, <1>7, RootStep, RootAlive
  <2>2. heap.bag[r] \in bags /\ dsOf[heap.bag[r]] = r
    BY <2>1 DEF SetInv, BagsMatch
  <2>. QED
    BY <1>1, <2>1, <2>2
<1>. QED
  BY <1>1, <1>2, <1>5, <1>6, <1>7

\* Sets that are the same have the same bags.
LEMMA SameBags ==
    ASSUME NEW h, NEW X, Good(h, X), NEW h2, NEW X2, Good(h2, X2), SameSets(h, h2),
           NEW x \in Nodes, h2.ref[x] > 0
    PROVE  /\ h2.bag[RootOf(h2, x)] = h.bag[RootOf(h, x)]
           /\ isRoot(h2, x) <=> isRoot(h, x)
<1>1. Forest(h) /\ Forest(h2)
  BY DEF Good
<1>2. RootOf(h2, x) = RootOf(h, x)
  BY DEF SameSets
<1>3. RootOf(h2, x) \in Nodes /\ h2.ref[RootOf(h2, x)] > 0
  BY <1>1, RootStep, RootAlive
<1>4. h2.bag[RootOf(h2, x)] = h.bag[RootOf(h2, x)]
  BY <1>3 DEF SameSets
<1>5. /\ isRoot(h, x) <=> RootOf(h, x) = x
      /\ isRoot(h2, x) <=> RootOf(h2, x) = x
  BY <1>1, RootStep
<1>. QED
  BY <1>2, <1>4, <1>5

\* Two operations in a row that move no access.
LEMMA SameTwice ==
    ASSUME NEW h, NEW h1, NEW h2, SameSets(h, h1), SameSets(h1, h2)
    PROVE  SameSets(h, h2)
BY DEF SameSets

\* Counting a pointer at a node that is alive changes no set.
LEMMA IncSame ==
    ASSUME NEW h, NEW X, Good(h, X), NEW d \in Nodes, h.ref[d] > 0
    PROVE  SameSets(h, inc_ref_count(h, d))
<1>1. PICK h2 : h2 = inc_ref_count(h, d)
  OBVIOUS
<1>2. /\ h2.bag = h.bag /\ h2.ref = [h.ref EXCEPT ![d] = @ + 1]
      /\ \A e \in Nodes : RootOf(h2, e) = RootOf(h, e)
  BY <1>1, Inc
<1>3. h.ref \in [Nodes -> Nat]
  BY HeapFields DEF Good, Forest
<1>4. \A e \in Nodes : h2.ref[e] > 0 => h.ref[e] > 0
  BY <1>2, <1>3
<1>. QED
  BY <1>1, <1>2, <1>4 DEF SameSets

\* The types of a heap whose ranks are within the bound.
LEMMA HeapTyped ==
    ASSUME NEW h \in Heaps, \A d \in Nodes : h.rank[d] <= MaxRank
    PROVE  h \in [up : [Nodes -> 0..MaxNodes], bag : [Nodes -> Bags \cup {NoBag}],
                  rank : [Nodes -> 0..MaxRank], ref : [Nodes -> Nat]]
<1>1. /\ h.up \in [Nodes -> 0..MaxNodes] /\ h.bag \in [Nodes -> Bags \cup {NoBag}]
      /\ h.rank \in [Nodes -> 0..(MaxRank + 1)] /\ h.ref \in [Nodes -> Nat]
      /\ h = [up |-> h.up, bag |-> h.bag, rank |-> h.rank, ref |-> h.ref]
  BY HeapFields
<1>2. h.rank \in [Nodes -> 0..MaxRank]
  BY <1>1, NodeFacts
<1>. QED
  BY <1>1, <1>2

\* Steps that leave the bags alone and every access in its set.
LEMMA SetsStay ==
    ASSUME SetInv, Good(heap', External'), SameSets(heap, heap'), UNCHANGED <<bags, dsOf>>,
           entry' \in [Entries -> 0..MaxNodes],
           \A d \in Nodes : heap'.rank[d] <= heap.rank[d]
    PROVE  /\ SetInv'
           /\ \A x \in Nodes : heap'.ref[x] > 0 =>
                 heap'.bag[RootOf(heap', x)] = heap.bag[RootOf(heap, x)]
<1>1. /\ Good(heap, External) /\ dsOf' = dsOf /\ bags' = bags
      /\ heap \in Heaps /\ \A d \in Nodes : heap.rank[d] <= MaxRank
  BY StateFacts DEF SetInv
<1>2. heap' \in Heaps
  BY DEF Good, Forest
<1>3. \A d \in Nodes : heap'.rank[d] <= MaxRank
  <2>1. \A d \in Nodes : heap'.rank[d] \in Nat /\ heap.rank[d] \in Nat
    BY <1>1, <1>2, HeapFields
  <2>. QED
    BY <1>1, <2>1, NodeFacts
<1>4. SetTypeOK'
  BY <1>1, <1>2, <1>3, HeapTyped DEF SetInv, SetTypeOK
<1>5. \A x \in Nodes : heap'.ref[x] > 0 =>
         /\ heap'.bag[RootOf(heap', x)] = heap.bag[RootOf(heap, x)]
         /\ isRoot(heap', x) <=> isRoot(heap, x)
         /\ heap'.bag[x] = heap.bag[x] /\ heap.ref[x] > 0
  BY <1>1, SameBags DEF SameSets
<1>6. \A b \in Bags : dsOf[b] # 0 => dsOf[b] \in Nodes /\ heap'.ref[dsOf[b]] > 0
  <2>1. ASSUME NEW b \in Bags, dsOf[b] # 0
        PROVE  dsOf[b] \in Nodes /\ heap'.ref[dsOf[b]] > 0
    <3>1. dsOf[b] \in Nodes /\ IsFiniteSet(Bags) /\ IsFiniteSet(Entries)
      BY <2>1, StateFacts
    <3>2. External'[dsOf[b]] =
             Pointing(dsOf, Bags, dsOf[b]) + Pointing(entry', Entries, dsOf[b])
      BY <1>1, <3>1 DEF External
    <3>3. External'[dsOf[b]] > 0
      BY <3>1, <3>2, PointedAt
    <3>. QED
      BY <3>1, <3>3, GoodFacts
  <2>. QED
    BY <2>1
<1>7. BagsMatch'
  BY <1>1, <1>5, <1>6 DEF SetInv, BagsMatch
<1>. QED
  BY <1>4, <1>5, <1>7 DEF SetInv

\* The pointers from entries, and the sets they are in, as facts of a state.
EntriesAlive ==
    \A l \in Entries : entry[l] # 0 => entry[l] \in Nodes /\ heap.ref[entry[l]] > 0

\* Every valid entry points at a node that is alive.
LEMMA AliveNow == SetInv => EntriesAlive
BY StateFacts DEF EntriesAlive

\* get_sbag_or_null moves nodes and no access.
LEMMA QueryStep ==
    ASSUME SetInv, NEW l \in Entries, get_sbag_or_null(l)
    PROVE  SetInv' /\ UNCHANGED <<bags, Where>>
<1>1. /\ entry[l] \in Nodes /\ heap' = find_set(heap, entry[l])
      /\ UNCHANGED <<bags, dsOf, entry>> /\ Good(heap, External)
      /\ entry \in [Entries -> 0..MaxNodes]
  BY StateFacts DEF get_sbag_or_null, SetInv
<1>2. External' = External
  BY <1>1 DEF External
<1>3. /\ Good(heap', External') /\ SameSets(heap, heap')
      /\ \A d \in Nodes : heap'.rank[d] <= heap.rank[d]
  BY <1>1, <1>2, Find
<1>4. /\ SetInv'
      /\ \A x \in Nodes : heap'.ref[x] > 0 =>
            heap'.bag[RootOf(heap', x)] = heap.bag[RootOf(heap, x)]
  BY <1>1, <1>3, SetsStay
<1>5. EntriesAlive'
  BY <1>4, AliveNow, PTL
<1>6. \A m \in Entries : entry[m] # 0 =>
         heap'.bag[RootOf(heap', entry[m])] = heap.bag[RootOf(heap, entry[m])]
  BY <1>1, <1>4, <1>5 DEF EntriesAlive
<1>7. Where' = Where
  BY <1>1, <1>6 DEF Where
<1>. QED
  BY <1>1, <1>4, <1>7

\* The pointers from outside, when entry l is given node d.
LEMMA EntryMoved ==
    ASSUME SetInv, NEW l \in Entries, NEW d \in 0..MaxNodes,
           entry' = [entry EXCEPT ![l] = d], dsOf' = dsOf
    PROVE  /\ External' \in [Nodes -> Nat]
           /\ \A x \in Nodes : External'[x] = External[x] + PointsAt(d, x) - PointsAt(entry[l], x)
<1>1. /\ IsFiniteSet(Bags) /\ IsFiniteSet(Entries) /\ entry \in [Entries -> 0..MaxNodes]
  BY StateFacts
<1>2. ASSUME NEW x \in Nodes
      PROVE  /\ External'[x] \in Nat
             /\ External'[x] = External[x] + PointsAt(d, x) - PointsAt(entry[l], x)
  <2>1. PICK k, m, n : /\ k = Pointing(dsOf, Bags, x)
                       /\ m = Pointing(entry, Entries, x)
                       /\ n = Pointing([entry EXCEPT ![l] = d], Entries, x)
    OBVIOUS
  <2>2. External[x] = k + m /\ External'[x] = k + n
    BY <2>1 DEF External
  <2>3. k \in Nat
    BY <1>1, <2>1, PointedAt
  <2>4. /\ m \in Nat /\ n \in Nat
        /\ n = m + PointsAt(d, x) - PointsAt(entry[l], x)
    <3>1. PICK e : e = [entry EXCEPT ![l] = d] /\ Moved(Entries, entry, e, l, d)
      BY <1>1 DEF Moved
    <3>2. /\ Pointing(entry, Entries, x) \in Nat /\ Pointing(e, Entries, x) \in Nat
          /\ Pointing(e, Entries, x) = Pointing(entry, Entries, x) + PointsAt(d, x) - PointsAt(entry[l], x)
      BY <3>1, Repoint
    <3>. QED
      BY <2>1, <3>1, <3>2
  <2>. QED
    BY <2>2, <2>3, <2>4 DEF PointsAt
<1>3. External' = [x \in Nodes |-> External'[x]]
  BY DEF External
<1>. QED
  BY <1>2, <1>3

\* MemoryAccess_t::set, operator= and invalidation: the entry is in the set of
\* the node it is given, and every other entry stays where it was.
LEMMA AssignStep ==
    ASSUME SetInv, NEW l \in Entries, NEW d \in 0..MaxNodes,
           d # 0 => d \in Nodes /\ heap.ref[d] > 0, Assign(l, d)
    PROVE  /\ SetInv' /\ UNCHANGED bags
           /\ Where' = [Where EXCEPT ![l] =
                 IF d = 0 THEN NoBag ELSE heap.bag[RootOf(heap, d)]]
<1>. DEFINE o == entry[l]
            X == External
<1>1. /\ entry' = [entry EXCEPT ![l] = d] /\ bags' = bags /\ dsOf' = dsOf
      /\ Good(heap, X) /\ heap \in Heaps /\ X \in [Nodes -> Nat]
      /\ entry \in [Entries -> 0..MaxNodes]
      /\ o # 0 => o \in Nodes /\ X[o] > 0
      /\ 0 \notin Nodes
  BY StateFacts, NodeFacts DEF Assign, SetInv
<1>2. /\ External' \in [Nodes -> Nat]
      /\ \A x \in Nodes : External'[x] = X[x] + PointsAt(d, x) - PointsAt(o, x)
  BY <1>1, EntryMoved
<1>3. heap' = IF o = d THEN heap
              ELSE LET h == IF d = 0 THEN heap ELSE inc_ref_count(heap, d) IN
                   IF o = 0 THEN h ELSE dec_ref_count(h, o)
  BY DEF Assign
<1>. HIDE DEF o, X
<1>4. \A x \in Nodes : X[x] \in Nat
  BY <1>1
<1>5. /\ Good(heap', External') /\ SameSets(heap, heap')
      /\ \A x \in Nodes : heap'.rank[x] <= heap.rank[x]
  <2>1. CASE o = d
    <3>1. External' = X
      <4>1. \A x \in Nodes : External'[x] = X[x]
        BY <1>2, <1>4, <2>1 DEF PointsAt
      <4>. QED
        BY <1>1, <1>2, <4>1
    <3>2. SameSets(heap, heap) /\ \A x \in Nodes : heap.rank[x] <= heap.rank[x]
      BY <1>1, HeapFields DEF SameSets
    <3>. QED
      BY <1>1, <1>3, <2>1, <3>1, <3>2
  <2>2. CASE o # d
    <3>1. PICK h, Y : /\ h = IF d = 0 THEN heap ELSE inc_ref_count(heap, d)
                      /\ Y = IF d = 0 THEN X ELSE [X EXCEPT ![d] = @ + 1]
      OBVIOUS
    <3>2. /\ Good(h, Y) /\ SameSets(heap, h) /\ \A x \in Nodes : h.rank[x] <= heap.rank[x]
      <4>1. SameSets(heap, heap) /\ \A x \in Nodes : heap.rank[x] <= heap.rank[x]
        BY <1>1, HeapFields DEF SameSets
      <4>2. CASE d = 0
        BY <1>1, <3>1, <4>1, <4>2
      <4>3. CASE d # 0
        BY <1>1, <3>1, <4>1, <4>3, Inc, IncSame
      <4>. QED
        BY <4>2, <4>3
    <3>3. /\ Y \in [Nodes -> Nat]
          /\ \A x \in Nodes : Y[x] = X[x] + PointsAt(d, x)
      BY <1>1, <3>1 DEF PointsAt
    <3>4. CASE o = 0
      <4>1. External' = Y
        <5>1. \A x \in Nodes : External'[x] = Y[x]
          BY <1>1, <1>2, <1>4, <3>3, <3>4 DEF PointsAt
        <5>. QED
          BY <1>2, <3>3, <5>1
      <4>. QED
        BY <1>3, <2>2, <3>1, <3>2, <3>4, <4>1
    <3>5. CASE o # 0
      <4>1. o \in Nodes /\ Y[o] > 0
        BY <1>1, <1>4, <2>2, <3>3, <3>5 DEF PointsAt
      <4>2. PICK h2 : h2 = dec_ref_count(h, o)
        OBVIOUS
      <4>3. /\ Good(h2, [Y EXCEPT ![o] = @ - 1]) /\ SameSets(h, h2)
            /\ \A x \in Nodes : h2.rank[x] <= h.rank[x]
        BY <3>2, <4>1, <4>2, Dec
      <4>4. External' = [Y EXCEPT ![o] = @ - 1]
        <5>1. \A x \in Nodes : External'[x] = [Y EXCEPT ![o] = @ - 1][x]
          BY <1>2, <1>4, <2>2, <3>3, <4>1 DEF PointsAt
        <5>2. [Y EXCEPT ![o] = @ - 1] \in [Nodes -> Nat]
          BY <3>3, <4>1
        <5>. QED
          BY <1>2, <5>1, <5>2
      <4>5. heap' = h2
        BY <1>3, <2>2, <3>1, <3>5, <4>2
      <4>6. \A x \in Nodes : h2.rank[x] <= heap.rank[x]
        <5>1. h \in Heaps /\ h2 \in Heaps
          BY <3>2, <4>3 DEF Good, Forest
        <5>2. \A x \in Nodes : h.rank[x] \in Nat /\ h2.rank[x] \in Nat /\ heap.rank[x] \in Nat
          BY <1>1, <5>1, HeapFields
        <5>. QED
          BY <3>2, <4>3, <5>2
      <4>. QED
        BY <3>2, <4>3, <4>4, <4>5, <4>6, SameTwice
    <3>. QED
      BY <3>4, <3>5
  <2>. QED
    BY <2>1, <2>2
<1>6. entry' \in [Entries -> 0..MaxNodes]
  BY <1>1
<1>7. /\ SetInv'
      /\ \A x \in Nodes : heap'.ref[x] > 0 =>
            heap'.bag[RootOf(heap', x)] = heap.bag[RootOf(heap, x)]
  BY <1>1, <1>5, <1>6, SetsStay
<1>8. EntriesAlive'
  BY <1>7, AliveNow, PTL
<1>9. \A m \in Entries : entry'[m] # 0 =>
         heap'.bag[RootOf(heap', entry'[m])] = heap.bag[RootOf(heap, entry'[m])]
  BY <1>7, <1>8 DEF EntriesAlive
<1>10. Where' = [Where EXCEPT ![l] = IF d = 0 THEN NoBag ELSE heap.bag[RootOf(heap, d)]]
  <2>1. \A m \in Entries : entry'[m] = IF m = l THEN d ELSE entry[m]
    BY <1>1
  <2>2. Where' = [m \in Entries |-> IF entry'[m] = 0 THEN NoBag
                                    ELSE heap'.bag[RootOf(heap', entry'[m])]]
    BY DEF Where
  <2>3. Where' = [m \in Entries |-> IF entry'[m] = 0 THEN NoBag
                                    ELSE heap.bag[RootOf(heap, entry'[m])]]
    BY <1>9, <2>2
  <2>. QED
    BY <2>1, <2>3 DEF Where
<1>. QED
  BY <1>1, <1>7, <1>10

\* The pointers from outside, when bag b is given node d.
LEMMA BagMoved ==
    ASSUME SetInv, NEW b \in Bags, NEW d \in 0..MaxNodes,
           dsOf' = [dsOf EXCEPT ![b] = d], entry' = entry
    PROVE  /\ External' \in [Nodes -> Nat]
           /\ \A x \in Nodes : External'[x] = External[x] + PointsAt(d, x) - PointsAt(dsOf[b], x)
<1>1. /\ IsFiniteSet(Bags) /\ IsFiniteSet(Entries) /\ dsOf \in [Bags -> 0..MaxNodes]
  BY StateFacts
<1>2. ASSUME NEW x \in Nodes
      PROVE  /\ External'[x] \in Nat
             /\ External'[x] = External[x] + PointsAt(d, x) - PointsAt(dsOf[b], x)
  <2>1. PICK k, m, n : /\ k = Pointing(entry, Entries, x)
                       /\ m = Pointing(dsOf, Bags, x)
                       /\ n = Pointing([dsOf EXCEPT ![b] = d], Bags, x)
    OBVIOUS
  <2>2. External[x] = m + k /\ External'[x] = n + k
    BY <2>1 DEF External
  <2>3. k \in Nat
    BY <1>1, <2>1, PointedAt
  <2>4. /\ m \in Nat /\ n \in Nat
        /\ n = m + PointsAt(d, x) - PointsAt(dsOf[b], x)
    <3>1. PICK e : e = [dsOf EXCEPT ![b] = d] /\ Moved(Bags, dsOf, e, b, d)
      BY <1>1 DEF Moved
    <3>2. /\ Pointing(dsOf, Bags, x) \in Nat /\ Pointing(e, Bags, x) \in Nat
          /\ Pointing(e, Bags, x) = Pointing(dsOf, Bags, x) + PointsAt(d, x) - PointsAt(dsOf[b], x)
      BY <3>1, Repoint
    <3>. QED
      BY <2>1, <3>1, <3>2
  <2>. QED
    BY <2>2, <2>3, <2>4 DEF PointsAt
<1>3. External' = [x \in Nodes |-> External'[x]]
  BY DEF External
<1>. QED
  BY <1>2, <1>3

\* createNewSBag: the node that is allocated was nobody's.
LEMMA CreateSBagStep ==
    ASSUME SetInv, NEW b \in SBags, create_sbag(b)
    PROVE  SetInv' /\ UNCHANGED Where
<1>. DEFINE X == External
<1>1. PICK d : d = Min(Nodes \ Alive(heap))
  OBVIOUS
<1>2. d \in Nodes /\ heap.ref[d] = 0
  <2>1. PICK S : S = Nodes \ Alive(heap)
    OBVIOUS
  <2>2. S \subseteq Nat /\ S # {}
    BY <2>1, NodeFacts DEF Nodes, Alive, create_sbag
  <2>3. \E n \in S : \A m \in S : n <= m
    BY <2>2, LeastNatural
  <2>4. d \in S
    BY <1>1, <2>1, <2>3 DEF Min
  <2>5. \A x \in Nodes : heap.ref[x] \in Nat
    BY StateFacts, HeapFields
  <2>. QED
    BY <2>1, <2>4, <2>5 DEF Alive
<1>3. /\ b \notin bags /\ bags' = bags \cup {b} /\ dsOf' = [dsOf EXCEPT ![b] = d]
      /\ entry' = entry /\ heap' = [heap EXCEPT !.bag[d] = b, !.ref[d] = 1]
  BY <1>1 DEF create_sbag
<1>4. /\ Good(heap, X) /\ heap \in Heaps /\ Forest(heap) /\ X \in [Nodes -> Nat] /\ b \in Bags
      /\ dsOf \in [Bags -> 0..MaxNodes] /\ d \in 0..MaxNodes /\ b # NoBag
      /\ bags \subseteq Bags /\ entry \in [Entries -> 0..MaxNodes]
      /\ \A x \in Nodes : heap.rank[x] <= MaxRank
  <2>1. b \in Bags
    BY DEF Bags
  <2>2. d \in 0..MaxNodes
    BY <1>2, NodeFacts DEF Nodes
  <2>. QED
    BY <2>1, <2>2, StateFacts, SetAssumption DEF SetInv, SetTypeOK
<1>5. /\ heap.up \in [Nodes -> 0..MaxNodes] /\ heap.bag \in [Nodes -> Bags \cup {NoBag}]
      /\ heap.rank \in [Nodes -> 0..(MaxRank + 1)] /\ heap.ref \in [Nodes -> Nat]
      /\ heap = [up |-> heap.up, bag |-> heap.bag, rank |-> heap.rank, ref |-> heap.ref]
      /\ heap \in Heaps
  BY <1>4, HeapFields
<1>6. /\ heap'.up = heap.up /\ heap'.rank = heap.rank
      /\ heap'.bag = [heap.bag EXCEPT ![d] = b] /\ heap'.ref = [heap.ref EXCEPT ![d] = 1]
      /\ heap' \in Heaps
  <2>1. PICK g : g = [heap EXCEPT !.bag[d] = b]
    OBVIOUS
  <2>2. g = [up |-> heap.up, bag |-> [heap.bag EXCEPT ![d] = b], rank |-> heap.rank,
             ref |-> heap.ref]
    BY <1>5, <2>1
  <2>3. PICK g2 : g2 = [g EXCEPT !.ref[d] = 1]
    OBVIOUS
  <2>4. heap' = g2
    BY <1>3, <2>1, <2>3, Zenon
  <2>5. g2 = [up |-> heap.up, bag |-> [heap.bag EXCEPT ![d] = b], rank |-> heap.rank,
              ref |-> [heap.ref EXCEPT ![d] = 1]]
    BY <2>2, <2>3
  <2>6. [heap.bag EXCEPT ![d] = b] \in [Nodes -> Bags \cup {NoBag}]
    BY <1>4, <1>5
  <2>7. [heap.ref EXCEPT ![d] = 1] \in [Nodes -> Nat]
    BY <1>5
  <2>8. g2 \in Heaps
    BY <1>5, <2>5, <2>6, <2>7 DEF Heaps
  <2>. QED
    BY <2>4, <2>5, <2>8
<1>7. dsOf[b] = 0
  BY <1>3, <1>4 DEF SetInv, BagsMatch
<1>8. /\ External' \in [Nodes -> Nat]
      /\ \A x \in Nodes : External'[x] = X[x] + PointsAt(d, x) - PointsAt(dsOf[b], x)
  BY <1>3, <1>4, BagMoved
<1>. HIDE DEF X
<1>9. \A x \in Nodes : External'[x] = X[x] + (IF x = d THEN 1 ELSE 0)
  BY <1>4, <1>7, <1>8, NodeFacts DEF PointsAt
<1>10. /\ Forest(heap') /\ \A x \in Nodes : RootOf(heap', x) = RootOf(heap, x)
       /\ \A x : isRoot(heap', x) <=> isRoot(heap, x)
       /\ \A x : Children(heap', x) = Children(heap, x)
  BY <1>4, <1>6, SameUp
<1>11. Exact(heap', External')
  <2>1. ASSUME NEW x \in Nodes
        PROVE  heap'.ref[x] = Cardinality(Children(heap', x)) + External'[x]
    <3>1. /\ heap.ref[x] = Cardinality(Children(heap, x)) + X[x] /\ X[x] \in Nat
          /\ Cardinality(Children(heap, x)) \in Nat
      BY <1>4, GoodFacts
    <3>2. heap'.ref[x] = IF x = d THEN 1 ELSE heap.ref[x]
      BY <1>2, <1>5, <1>6
    <3>. QED
      BY <1>2, <1>9, <1>10, <3>1, <3>2
  <2>. QED
    BY <2>1 DEF Exact
<1>12. isRoot(heap, d)
  BY <1>2, <1>4 DEF Good, Tidy
<1>13. \A x \in Nodes : x # d => heap'.ref[x] = heap.ref[x] /\ heap'.bag[x] = heap.bag[x]
  BY <1>2, <1>5, <1>6
<1>14. heap'.ref[d] = 1 /\ heap'.bag[d] = b
  BY <1>2, <1>5, <1>6
<1>15. Good(heap', External')
  <2>1. Tidy(heap')
    BY <1>4, <1>10, <1>13, <1>14 DEF Tidy, Good
  <2>. QED
    BY <1>8, <1>10, <1>11, <2>1 DEF Good
<1>16. SetTypeOK'
  <2>1. \A x \in Nodes : heap'.rank[x] <= MaxRank
    BY <1>4, <1>6
  <2>. QED
    BY <1>3, <1>4, <1>6, <2>1, HeapTyped DEF SetTypeOK
<1>17. BagsMatch'
  <2>1. ASSUME NEW b2 \in Bags, dsOf'[b2] # 0
        PROVE  b2 \in bags' /\ isRoot(heap', dsOf'[b2]) /\ heap'.bag[dsOf'[b2]] = b2
    <3>1. CASE b2 = b
      BY <1>3, <1>4, <1>10, <1>12, <1>14, <3>1
    <3>2. CASE b2 # b
      <4>1. dsOf'[b2] = dsOf[b2]
        BY <1>3, <1>4, <3>2
      <4>2. /\ b2 \in bags /\ isRoot(heap, dsOf[b2]) /\ heap.bag[dsOf[b2]] = b2
            /\ dsOf[b2] \in Nodes /\ heap.ref[dsOf[b2]] > 0
        BY <2>1, <4>1, StateFacts DEF SetInv, BagsMatch
      <4>3. dsOf[b2] # d
        BY <1>2, <4>2
      <4>. QED
        BY <1>3, <1>10, <1>13, <4>1, <4>2, <4>3
    <3>. QED
      BY <3>1, <3>2
  <2>2. ASSUME NEW x \in Nodes, heap'.ref[x] > 0, isRoot(heap', x)
        PROVE  heap'.bag[x] \in bags' /\ dsOf'[heap'.bag[x]] = x
    <3>1. CASE x = d
      BY <1>3, <1>4, <1>14, <3>1
    <3>2. CASE x # d
      <4>1. heap.ref[x] > 0 /\ isRoot(heap, x) /\ heap'.bag[x] = heap.bag[x]
        BY <1>10, <1>13, <2>2, <3>2
      <4>2. heap.bag[x] \in bags /\ dsOf[heap.bag[x]] = x
        BY <4>1 DEF SetInv, BagsMatch
      <4>. QED
        BY <1>3, <1>4, <4>1, <4>2
    <3>. QED
      BY <3>1, <3>2
  <2>. QED
    BY <2>1, <2>2 DEF BagsMatch
<1>18. Where' = Where
  <2>1. ASSUME NEW l \in Entries, entry[l] # 0
        PROVE  heap'.bag[RootOf(heap', entry[l])] = heap.bag[RootOf(heap, entry[l])]
    <3>1. entry[l] \in Nodes /\ heap.ref[entry[l]] > 0
      BY <2>1, StateFacts
    <3>2. RootOf(heap, entry[l]) \in Nodes /\ heap.ref[RootOf(heap, entry[l])] > 0
      BY <1>4, <3>1, RootStep, RootAlive
    <3>3. RootOf(heap, entry[l]) # d
      BY <1>2, <3>2
    <3>. QED
      BY <1>10, <1>13, <3>1, <3>2, <3>3
  <2>. QED
    BY <1>3, <2>1 DEF Where
<1>. QED
  BY <1>15, <1>16, <1>17, <1>18 DEF SetInv

\* createNewPBag: the bag is empty.
LEMMA CreatePBagStep ==
    ASSUME SetInv, NEW b \in PBags, create_pbag(b)
    PROVE  SetInv' /\ UNCHANGED Where
<1>1. /\ bags' = bags \cup {b} /\ heap' = heap /\ dsOf' = dsOf /\ entry' = entry /\ b \in Bags
  BY DEF create_pbag, Bags
<1>2. External' = External /\ Where' = Where
  BY <1>1 DEF External, Where
<1>3. BagsMatch'
  BY <1>1 DEF SetInv, BagsMatch
<1>. QED
  BY <1>1, <1>2, <1>3 DEF SetInv, SetTypeOK

\* A bag with no access in it is deleted: nothing else points into its set, so
\* its node goes with it, and no other set changes.
LEMMA DeleteBagStep ==
    ASSUME SetInv, NEW b \in Bags, delete_bag(b)
    PROVE  /\ SetInv' /\ UNCHANGED Where
           /\ b \in bags /\ bags' = bags \ {b} /\ \A l \in Entries : Where[l] # b
<1>. DEFINE d == dsOf[b]
            X == External
<1>1. /\ b \in bags /\ InBag(b) = {} /\ bags' = bags \ {b} /\ entry' = entry
      /\ dsOf' = [dsOf EXCEPT ![b] = 0]
      /\ heap' = IF d = 0 THEN heap ELSE dec_ref_count(heap, d)
  BY DEF delete_bag
<1>2. /\ Good(heap, X) /\ heap \in Heaps /\ Forest(heap) /\ X \in [Nodes -> Nat]
      /\ dsOf \in [Bags -> 0..MaxNodes] /\ b # NoBag /\ 0 \in 0..MaxNodes
      /\ bags \subseteq Bags /\ entry \in [Entries -> 0..MaxNodes]
      /\ \A x \in Nodes : heap.rank[x] <= MaxRank
      /\ d # 0 => d \in Nodes /\ X[d] > 0 /\ heap.ref[d] > 0
      /\ IsFiniteSet(Bags) /\ IsFiniteSet(Entries)
  BY StateFacts, NodeFacts, SetAssumption DEF SetInv, SetTypeOK
<1>3. /\ External' \in [Nodes -> Nat]
      /\ \A x \in Nodes : External'[x] = X[x] + PointsAt(0, x) - PointsAt(d, x)
  BY <1>1, <1>2, BagMoved
<1>. HIDE DEF d, X
<1>4. \A x \in Nodes : External'[x] = X[x] - (IF x = d THEN 1 ELSE 0)
  BY <1>2, <1>3, NodeFacts DEF PointsAt
<1>5. /\ Good(heap', External') /\ SameSets(heap, heap')
      /\ \A x \in Nodes : heap'.rank[x] <= heap.rank[x]
  <2>1. CASE d = 0
    <3>1. External' = X
      <4>1. \A x \in Nodes : External'[x] = X[x]
        BY <1>2, <1>4, <2>1, NodeFacts
      <4>. QED
        BY <1>2, <1>3, <4>1
    <3>. QED
      BY <1>1, <1>2, <2>1, <3>1, HeapFields DEF SameSets
  <2>2. CASE d # 0
    <3>1. External' = [X EXCEPT ![d] = @ - 1]
      <4>1. \A x \in Nodes : External'[x] = [X EXCEPT ![d] = @ - 1][x]
        BY <1>2, <1>4, <2>2
      <4>2. [X EXCEPT ![d] = @ - 1] \in [Nodes -> Nat]
        BY <1>2, <2>2
      <4>. QED
        BY <1>3, <4>1, <4>2
    <3>2. PICK h2 : h2 = dec_ref_count(heap, d)
      OBVIOUS
    <3>. QED
      BY <1>1, <1>2, <2>2, <3>1, <3>2, Dec
  <2>. QED
    BY <2>1, <2>2
<1>6. \A x \in Nodes : heap'.ref[x] > 0 =>
         /\ heap'.bag[RootOf(heap', x)] = heap.bag[RootOf(heap, x)]
         /\ isRoot(heap', x) <=> isRoot(heap, x)
         /\ heap'.bag[x] = heap.bag[x] /\ heap.ref[x] > 0
         /\ RootOf(heap', x) = RootOf(heap, x)
  BY <1>2, <1>5, SameBags DEF SameSets
<1>7. ASSUME NEW x \in Nodes, External'[x] > 0
      PROVE  /\ heap'.ref[x] > 0
             /\ (\E b2 \in Bags : dsOf'[b2] = x) \/ (\E l \in Entries : entry[l] = x)
  <2>1. External'[x] = Pointing(dsOf', Bags, x) + Pointing(entry, Entries, x)
    BY <1>1 DEF External
  <2>2. (\E b2 \in Bags : dsOf'[b2] = x) \/ (\E l \in Entries : entry[l] = x)
    BY <1>2, <1>7, <2>1, PointedAt
  <2>. QED
    BY <1>5, <1>7, <2>2, GoodFacts
<1>8. \A b2 \in Bags : b2 # b => dsOf'[b2] = dsOf[b2]
  BY <1>1, <1>2
<1>9. dsOf'[b] = 0
  BY <1>1, <1>2
<1>10. ASSUME d # 0 PROVE heap'.ref[d] = 0
  <2>1. SUFFICES ASSUME heap'.ref[d] > 0 PROVE FALSE
    <3>1. heap'.ref[d] \in Nat
      BY <1>2, <1>5, <1>10, GoodFacts
    <3>. QED
      BY <3>1
  <2>2. PICK y \in Nodes : External'[y] > 0 /\ d \in PathTo(heap', y)
    BY <1>2, <1>5, <1>10, <2>1, Reached
  <2>3. heap'.ref[y] > 0
    BY <1>7, <2>2
  <2>4. isRoot(heap, d) /\ heap.bag[d] = b
    BY <1>10 DEF SetInv, BagsMatch, d
  <2>5. RootOf(heap', y) = d
    <3>1. isRoot(heap', d) /\ Forest(heap')
      BY <1>2, <1>5, <1>6, <1>10, <2>1, <2>4 DEF Good
    <3>. QED
      BY <2>2, <3>1, RootStep
  <2>6. RootOf(heap, y) = d
    BY <1>6, <2>3, <2>5
  <2>7. CASE \E b2 \in Bags : dsOf'[b2] = y
    <3>1. PICK b2 \in Bags : dsOf'[b2] = y
      BY <2>7
    <3>2. y # 0 /\ b2 # b /\ dsOf[b2] = y
      BY <1>8, <1>9, <3>1, NodeFacts
    <3>3. RootOf(heap, y) = y /\ heap.bag[y] = b2
      BY <3>2, StateFacts DEF SetInv, BagsMatch
    <3>. QED
      BY <2>4, <2>6, <3>2, <3>3
  <2>8. CASE \E l \in Entries : entry[l] = y
    <3>1. PICK l \in Entries : entry[l] = y
      BY <2>8
    <3>2. l \in InBag(b)
      BY <2>4, <2>6, <3>1, NodeFacts DEF InBag
    <3>. QED
      BY <1>1, <3>2
  <2>. QED
    BY <1>7, <2>2, <2>7, <2>8
<1>11. SetTypeOK'
  <2>1. heap' \in Heaps
    BY <1>5 DEF Good, Forest
  <2>2. \A x \in Nodes : heap'.rank[x] <= MaxRank
    <3>1. \A x \in Nodes : heap'.rank[x] \in Nat /\ heap.rank[x] \in Nat
      BY <1>2, <2>1, HeapFields
    <3>. QED
      BY <1>2, <1>5, <3>1, NodeFacts
  <2>3. dsOf' \in [Bags -> 0..MaxNodes] /\ bags' \subseteq Bags
    BY <1>1, <1>2
  <2>. QED
    BY <1>1, <1>2, <2>1, <2>2, <2>3, HeapTyped DEF SetTypeOK
<1>12. BagsMatch'
  <2>1. ASSUME NEW b2 \in Bags, dsOf'[b2] # 0
        PROVE  b2 \in bags' /\ isRoot(heap', dsOf'[b2]) /\ heap'.bag[dsOf'[b2]] = b2
    <3>1. b2 # b /\ dsOf'[b2] = dsOf[b2]
      BY <1>8, <1>9, <2>1
    <3>2. /\ b2 \in bags /\ isRoot(heap, dsOf[b2]) /\ heap.bag[dsOf[b2]] = b2
          /\ dsOf[b2] \in Nodes
      BY <2>1, <3>1, StateFacts DEF SetInv, BagsMatch
    <3>3. heap'.ref[dsOf[b2]] > 0
      <4>1. External'[dsOf[b2]] = Pointing(dsOf', Bags, dsOf[b2])
                                    + Pointing(entry, Entries, dsOf[b2])
        BY <1>1, <3>2 DEF External
      <4>2. External'[dsOf[b2]] > 0
        BY <1>2, <3>1, <4>1, PointedAt
      <4>. QED
        BY <1>7, <3>2, <4>2
    <3>. QED
      BY <1>1, <1>6, <3>1, <3>2, <3>3
  <2>2. ASSUME NEW x \in Nodes, heap'.ref[x] > 0, isRoot(heap', x)
        PROVE  heap'.bag[x] \in bags' /\ dsOf'[heap'.bag[x]] = x
    <3>1. heap.ref[x] > 0 /\ isRoot(heap, x) /\ heap'.bag[x] = heap.bag[x]
      BY <1>6, <2>2
    <3>2. heap.bag[x] \in bags /\ dsOf[heap.bag[x]] = x
      BY <3>1 DEF SetInv, BagsMatch
    <3>3. heap.bag[x] # b
      BY <1>10, <2>2, <3>2, NodeFacts DEF d
    <3>. QED
      BY <1>1, <1>2, <1>8, <3>1, <3>2, <3>3
  <2>. QED
    BY <2>1, <2>2 DEF BagsMatch
<1>13. Where' = Where
  <2>1. SetInv'
    BY <1>5, <1>11, <1>12 DEF SetInv
  <2>2. EntriesAlive'
    BY <2>1, AliveNow, PTL
  <2>3. \A l \in Entries : entry[l] # 0 =>
           heap'.bag[RootOf(heap', entry[l])] = heap.bag[RootOf(heap, entry[l])]
    BY <1>1, <1>6, <2>2 DEF EntriesAlive
  <2>. QED
    BY <1>1, <2>3 DEF Where
<1>14. \A l \in Entries : Where[l] # b
  BY <1>1, <1>2 DEF Where, InBag
<1>. QED
  BY <1>1, <1>5, <1>11, <1>12, <1>13, <1>14 DEF SetInv

\* The pointers from outside, when bag b is given node w and bag c is deleted.
LEMMA BagsMoved ==
    ASSUME SetInv, NEW b \in Bags, NEW c \in Bags, b # c, NEW w \in 0..MaxNodes,
           dsOf' = [dsOf EXCEPT ![b] = w, ![c] = 0], entry' = entry
    PROVE  /\ External' \in [Nodes -> Nat]
           /\ \A x \in Nodes :
                 External'[x] = External[x] + PointsAt(w, x) - PointsAt(dsOf[b], x) - PointsAt(dsOf[c], x)
<1>1. /\ IsFiniteSet(Bags) /\ IsFiniteSet(Entries) /\ dsOf \in [Bags -> 0..MaxNodes]
      /\ 0 \in 0..MaxNodes
  BY StateFacts, NodeFacts
<1>2. ASSUME NEW x \in Nodes
      PROVE  /\ External'[x] \in Nat
             /\ External'[x] = External[x] + PointsAt(w, x) - PointsAt(dsOf[b], x) - PointsAt(dsOf[c], x)
  <2>1. PICK g, g2 : g = [dsOf EXCEPT ![b] = w] /\ g2 = [g EXCEPT ![c] = 0]
    OBVIOUS
  <2>2. dsOf' = g2
    BY <2>1, Zenon
  <2>3. PICK k, m, n, p : /\ k = Pointing(entry, Entries, x)
                          /\ m = Pointing(dsOf, Bags, x)
                          /\ n = Pointing(g, Bags, x) /\ p = Pointing(g2, Bags, x)
    OBVIOUS
  <2>4. External[x] = m + k /\ External'[x] = p + k
    BY <2>2, <2>3 DEF External
  <2>5. k \in Nat
    BY <1>1, <2>3, PointedAt
  <2>6. m \in Nat /\ n \in Nat /\ n = m + PointsAt(w, x) - PointsAt(dsOf[b], x)
    <3>1. Moved(Bags, dsOf, g, b, w)
      BY <1>1, <2>1 DEF Moved
    <3>. QED
      BY <2>3, <3>1, Repoint
  <2>7. p \in Nat /\ p = n + PointsAt(0, x) - PointsAt(g[c], x)
    <3>1. Moved(Bags, g, g2, c, 0)
      BY <1>1, <2>1 DEF Moved
    <3>. QED
      BY <2>3, <3>1, Repoint
  <2>8. g[c] = dsOf[c] /\ PointsAt(0, x) = 0
    BY <1>1, <2>1, NodeFacts DEF PointsAt
  <2>9. PointsAt(w, x) \in Nat /\ PointsAt(dsOf[b], x) \in Nat /\ PointsAt(dsOf[c], x) \in Nat
    BY DEF PointsAt
  <2>. QED
    BY <2>4, <2>5, <2>6, <2>7, <2>8, <2>9
<1>3. External' = [x \in Nodes |-> External'[x]]
  BY DEF External
<1>. QED
  BY <1>2, <1>3

\* The sets of nodes d and e are one set, which is bag b's and has root w.
OneSet(b, d, e, w) ==
    /\ Good(heap', External')
    /\ w \in {d, e}
    /\ w # 0 => isRoot(heap', w)
    /\ \A x \in Nodes : heap'.ref[x] > 0 =>
          /\ heap.ref[x] > 0
          /\ RootOf(heap', x) = IF RootOf(heap, x) \in {d, e} THEN w ELSE RootOf(heap, x)
          /\ isRoot(heap', x) => heap'.bag[x] = IF x = w THEN b ELSE heap.bag[x]

\* combine, when at most one of the bags has a node.
LEMMA MergeWithEmpty ==
    ASSUME SetInv, NEW b \in Bags, NEW c \in Bags, merge(b, c), dsOf[b] = 0 \/ dsOf[c] = 0
    PROVE  \E w \in 0..MaxNodes : /\ dsOf' = [dsOf EXCEPT ![b] = w, ![c] = 0]
                                   /\ OneSet(b, dsOf[b], dsOf[c], w)
<1>. DEFINE d == dsOf[b]
            e == dsOf[c]
            X == External
<1>1. /\ Good(heap, X) /\ Forest(heap) /\ X \in [Nodes -> Nat] /\ heap \in Heaps
      /\ d \in 0..MaxNodes /\ e \in 0..MaxNodes /\ 0 \notin Nodes
      /\ b # c /\ entry' = entry /\ \A x \in Nodes : heap.ref[x] \in Nat
  BY StateFacts, NodeFacts, HeapFields DEF merge, SetInv
<1>2. /\ d # 0 => d \in Nodes /\ X[d] > 0 /\ isRoot(heap, d) /\ heap.bag[d] = b
      /\ e # 0 => e \in Nodes /\ X[e] > 0 /\ isRoot(heap, e) /\ heap.ref[e] > 0
  BY StateFacts DEF SetInv, BagsMatch
<1>3. CASE e = 0
  <2>1. heap' = heap /\ dsOf' = [dsOf EXCEPT ![b] = d, ![c] = 0]
    BY <1>3 DEF merge
  <2>2. /\ External' \in [Nodes -> Nat]
        /\ \A x \in Nodes : External'[x] = X[x] + PointsAt(d, x) - PointsAt(d, x) - PointsAt(e, x)
    BY <1>1, <2>1, BagsMoved
  <2>. HIDE DEF d, e, X
  <2>3. External' = X
    <3>1. \A x \in Nodes : External'[x] = X[x]
      BY <1>1, <1>3, <2>2 DEF PointsAt
    <3>. QED
      BY <1>1, <2>2, <3>1
  <2>4. ASSUME NEW x \in Nodes, heap'.ref[x] > 0
        PROVE  /\ heap.ref[x] > 0
               /\ RootOf(heap', x) = IF RootOf(heap, x) \in {d, e} THEN d ELSE RootOf(heap, x)
               /\ isRoot(heap', x) => heap'.bag[x] = IF x = d THEN b ELSE heap.bag[x]
    <3>1. RootOf(heap, x) # e
      BY <1>1, <1>3, RootStep
    <3>. QED
      BY <1>1, <1>2, <2>1, <2>4, <3>1
  <2>5. OneSet(b, d, e, d)
    BY <1>1, <1>2, <2>1, <2>3, <2>4 DEF OneSet
  <2>. QED
    BY <1>1, <2>1, <2>5 DEF d, e
<1>4. CASE d = 0 /\ e # 0
  <2>1. PICK h1, h2 : /\ h1 = inc_ref_count(heap, e) /\ h2 = [h1 EXCEPT !.bag[e] = b]
    OBVIOUS
  <2>2. heap' = dec_ref_count(h2, e) /\ dsOf' = [dsOf EXCEPT ![b] = e, ![c] = 0]
    BY <1>4, <2>1 DEF merge, combine
  <2>3. /\ External' \in [Nodes -> Nat]
        /\ \A x \in Nodes : External'[x] = X[x] + PointsAt(e, x) - PointsAt(d, x) - PointsAt(e, x)
    BY <1>1, <2>2, BagsMoved
  <2>. HIDE DEF d, e, X
  <2>4. /\ Good(h1, [X EXCEPT ![e] = @ + 1]) /\ h1.bag = heap.bag
        /\ h1.ref = [heap.ref EXCEPT ![e] = @ + 1]
        /\ \A x \in Nodes : RootOf(h1, x) = RootOf(heap, x)
    BY <1>1, <1>2, <1>4, <2>1, Inc
  <2>5. /\ Good(h2, [X EXCEPT ![e] = @ + 1]) /\ h2.bag = [h1.bag EXCEPT ![e] = b]
        /\ h2.ref = h1.ref /\ \A x \in Nodes : RootOf(h2, x) = RootOf(h1, x)
    BY <1>2, <1>4, <2>1, <2>4, SetBag
  <2>6. PICK Y : Y = [X EXCEPT ![e] = @ + 1]
    OBVIOUS
  <2>7. Y \in [Nodes -> Nat] /\ Y[e] > 0 /\ [Y EXCEPT ![e] = @ - 1] = X
    <3>1. Y \in [Nodes -> Nat] /\ Y[e] = X[e] + 1 /\ X[e] \in Nat
      BY <1>1, <1>2, <1>4, <2>6
    <3>2. \A x \in Nodes : [Y EXCEPT ![e] = @ - 1][x] = X[x]
      BY <1>1, <2>6, <3>1
    <3>3. [Y EXCEPT ![e] = @ - 1] \in [Nodes -> Nat]
      BY <1>2, <1>4, <3>1
    <3>. QED
      BY <1>1, <3>1, <3>2, <3>3
  <2>8. Good(heap', X) /\ SameSets(h2, heap')
    BY <1>2, <1>4, <2>2, <2>5, <2>6, <2>7, Dec
  <2>9. External' = X
    <3>1. \A x \in Nodes : External'[x] = X[x]
      BY <1>1, <1>4, <2>3 DEF PointsAt
    <3>. QED
      BY <1>1, <2>3, <3>1
  <2>10. \A x \in Nodes : h2.ref[x] > 0 => heap.ref[x] > 0
    <3>1. heap.ref \in [Nodes -> Nat]
      BY <1>1, HeapFields
    <3>. QED
      BY <1>2, <1>4, <2>4, <2>5, <3>1
  <2>11. ASSUME NEW x \in Nodes, heap'.ref[x] > 0
         PROVE  /\ heap.ref[x] > 0
                /\ RootOf(heap', x) = IF RootOf(heap, x) \in {d, e} THEN e ELSE RootOf(heap, x)
                /\ isRoot(heap', x) => heap'.bag[x] = IF x = e THEN b ELSE heap.bag[x]
    <3>1. /\ h2.ref[x] > 0 /\ RootOf(heap', x) = RootOf(heap, x) /\ heap'.bag[x] = h2.bag[x]
      BY <2>4, <2>5, <2>8, <2>11 DEF SameSets
    <3>2. RootOf(heap, x) # d
      BY <1>1, <1>4, RootStep
    <3>3. h2.bag[x] = IF x = e THEN b ELSE heap.bag[x]
      <4>1. heap.bag \in [Nodes -> Bags \cup {NoBag}]
        BY <1>1, HeapFields
      <4>. QED
        BY <2>4, <2>5, <4>1
    <3>. QED
      BY <2>10, <3>1, <3>2, <3>3
  <2>12. isRoot(heap', e)
    <3>1. heap'.ref[e] > 0
      BY <1>2, <1>4, <2>8, GoodFacts
    <3>2. RootOf(heap', e) = e
      BY <1>1, <1>2, <1>4, <2>11, <3>1, RootStep
    <3>. QED
      BY <1>2, <1>4, <2>8, <3>2, RootStep DEF Good
  <2>13. OneSet(b, d, e, e)
    BY <2>8, <2>9, <2>11, <2>12 DEF OneSet
  <2>. QED
    BY <1>1, <2>2, <2>13 DEF d, e
<1>. QED
  BY <1>3, <1>4

\* combine, when both bags have a node: the root of the linked trees is bag
\* b's, whichever of the two it is.
LEMMA MergeTrees ==
    ASSUME SetInv, NEW b \in Bags, NEW c \in Bags, merge(b, c), dsOf[b] # 0, dsOf[c] # 0
    PROVE  \E w \in 0..MaxNodes : /\ dsOf' = [dsOf EXCEPT ![b] = w, ![c] = 0]
                                   /\ OneSet(b, dsOf[b], dsOf[c], w)
<1>. DEFINE d == dsOf[b]
            e == dsOf[c]
            X == External
<1>1. /\ Good(heap, X) /\ Forest(heap) /\ X \in [Nodes -> Nat] /\ heap \in Heaps
      /\ b # c /\ entry' = entry /\ \A x \in Nodes : heap.ref[x] \in Nat
      /\ \A x \in Nodes : heap.rank[x] <= MaxRank
  BY StateFacts, HeapFields DEF merge, SetInv
<1>2. /\ d \in Nodes /\ X[d] > 0 /\ heap.bag[d] = b /\ RootOf(heap, d) = d
      /\ e \in Nodes /\ X[e] > 0 /\ heap.bag[e] = c /\ RootOf(heap, e) = e
  BY StateFacts DEF SetInv, BagsMatch
<1>3. d # e
  BY <1>1, <1>2
<1>4. PICK h0, h1 : h0 = find_set(heap, d) /\ h1 = find_set(h0, e)
  OBVIOUS
<1>5. PICK h2 : h2 = link(h1, d, e)
  OBVIOUS
<1>. HIDE DEF X
<1>6. /\ Good(h1, X) /\ SameSets(heap, h1) /\ h1 \in Heaps /\ Forest(h1)
      /\ \A x \in Nodes : h1.rank[x] <= MaxRank
  <2>1. Good(h0, X) /\ SameSets(heap, h0) /\ \A x \in Nodes : h0.rank[x] <= heap.rank[x]
    BY <1>1, <1>2, <1>4, Find
  <2>2. Good(h1, X) /\ SameSets(h0, h1) /\ \A x \in Nodes : h1.rank[x] <= h0.rank[x]
    BY <1>2, <1>4, <2>1, Find
  <2>3. h0 \in Heaps /\ h1 \in Heaps /\ Forest(h1)
    BY <2>1, <2>2 DEF Good, Forest
  <2>4. \A x \in Nodes : heap.rank[x] \in Nat /\ h0.rank[x] \in Nat /\ h1.rank[x] \in Nat
    BY <1>1, <2>3, HeapFields
  <2>5. \A x \in Nodes : h1.rank[x] <= MaxRank
    BY <1>1, <2>1, <2>2, <2>4, NodeFacts
  <2>. QED
    BY <2>1, <2>2, <2>3, <2>5, SameTwice
<1>7. /\ h1.ref[d] > 0 /\ RootOf(h1, d) = d /\ isRoot(h1, d)
      /\ h1.ref[e] > 0 /\ RootOf(h1, e) = e /\ isRoot(h1, e)
  <2>1. h1.ref[d] > 0 /\ h1.ref[e] > 0
    BY <1>2, <1>6, GoodFacts
  <2>2. RootOf(h1, d) = d /\ RootOf(h1, e) = e
    BY <1>2, <1>6, <2>1 DEF SameSets
  <2>. QED
    BY <1>2, <1>6, <2>1, <2>2, RootStep
<1>8. PICK w, v : Linked(h1, h2, d, e, w, v)
  BY <1>2, <1>3, <1>5, <1>6, LinkFields
<1>9. /\ w \in {d, e} /\ v \in {d, e} /\ w # v /\ w \in Nodes /\ v \in Nodes
      /\ h2.bag = [h1.bag EXCEPT ![v] = NoBag]
  BY <1>2, <1>8 DEF Linked
<1>10. /\ Good(h2, X)
       /\ \A x \in Nodes : RootOf(h2, x) = IF RootOf(h1, x) = v THEN w ELSE RootOf(h1, x)
       /\ \A x \in Nodes : h1.ref[x] > 0 <=> h2.ref[x] > 0
  BY <1>2, <1>6, <1>7, <1>8, Link
<1>11. \A x \in Nodes : h2.ref[x] > 0 =>
          /\ heap.ref[x] > 0
          /\ RootOf(h2, x) = IF RootOf(heap, x) \in {d, e} THEN w ELSE RootOf(heap, x)
          /\ RootOf(h2, x) = x => x # v /\ h2.bag[x] = heap.bag[x]
  <2>1. ASSUME NEW x \in Nodes, h2.ref[x] > 0
        PROVE  /\ heap.ref[x] > 0
               /\ RootOf(h2, x) = IF RootOf(heap, x) \in {d, e} THEN w ELSE RootOf(heap, x)
               /\ RootOf(h2, x) = x => x # v /\ h2.bag[x] = heap.bag[x]
    <3>1. h1.ref[x] > 0 /\ RootOf(h1, x) = RootOf(heap, x) /\ h1.bag[x] = heap.bag[x]
          /\ heap.ref[x] > 0
      BY <1>6, <1>10, <2>1 DEF SameSets
    <3>2. RootOf(h2, x) # v
      BY <1>9, <1>10
    <3>3. RootOf(h2, x) = IF RootOf(heap, x) \in {d, e} THEN w ELSE RootOf(heap, x)
      BY <1>9, <1>10, <3>1
    <3>4. x # v => h2.bag[x] = h1.bag[x]
      BY <1>6, <1>9, HeapFields
    <3>. QED
      BY <3>1, <3>2, <3>3, <3>4
  <2>. QED
    BY <2>1
<1>12. RootOf(h2, d) = w /\ RootOf(h2, w) = w
  BY <1>7, <1>9, <1>10
<1>13. /\ dsOf' = [dsOf EXCEPT ![b] = w, ![c] = 0]
       /\ heap' = IF w = d THEN dec_ref_count(h2, e)
                  ELSE dec_ref_count(set_ds(h2, b, w), e)
  <2>1. combine(heap, b, e) = IF w = d THEN [h |-> h2, ds |-> w]
                              ELSE [h |-> set_ds(h2, b, w), ds |-> w]
    BY <1>4, <1>5, <1>7, <1>12, NodeFacts DEF combine
  <2>. QED
    BY <2>1 DEF merge
<1>14. /\ External' \in [Nodes -> Nat]
       /\ \A x \in Nodes : External'[x] = X[x] + PointsAt(w, x) - PointsAt(d, x) - PointsAt(e, x)
  <2>1. w \in 0..MaxNodes
    BY <1>9, NodeFacts DEF Nodes
  <2>. QED
    BY <1>1, <1>13, <2>1, BagsMoved DEF X
<1>15. \A x \in Nodes : X[x] \in Nat
  BY <1>1
<1>16. heap.bag \in [Nodes -> Bags \cup {NoBag}]
  BY <1>1, HeapFields
<1>17. /\ Good(heap', External')
       /\ \A x \in Nodes : heap'.ref[x] > 0 =>
             /\ h2.ref[x] > 0 /\ RootOf(heap', x) = RootOf(h2, x)
             /\ isRoot(heap', x) => heap'.bag[x] = IF x = w THEN b ELSE heap.bag[x]
  <2>1. CASE w = d
    <3>1. External' = [X EXCEPT ![e] = @ - 1]
      <4>1. \A x \in Nodes : External'[x] = [X EXCEPT ![e] = @ - 1][x]
        BY <1>1, <1>2, <1>14, <1>15, <2>1 DEF PointsAt
      <4>2. [X EXCEPT ![e] = @ - 1] \in [Nodes -> Nat]
        BY <1>1, <1>2, <1>15
      <4>. QED
        BY <1>14, <4>1, <4>2
    <3>2. PICK h3 : h3 = dec_ref_count(h2, e)
      OBVIOUS
    <3>3. Good(heap', External') /\ SameSets(h2, heap')
      BY <1>2, <1>10, <1>13, <2>1, <3>1, <3>2, Dec
    <3>4. ASSUME NEW x \in Nodes, heap'.ref[x] > 0
          PROVE  /\ h2.ref[x] > 0 /\ RootOf(heap', x) = RootOf(h2, x)
                 /\ isRoot(heap', x) => heap'.bag[x] = IF x = w THEN b ELSE heap.bag[x]
      <4>1. h2.ref[x] > 0 /\ RootOf(heap', x) = RootOf(h2, x) /\ heap'.bag[x] = h2.bag[x]
        BY <3>3, <3>4 DEF SameSets
      <4>2. isRoot(heap', x) => RootOf(heap', x) = x
        BY <3>3, RootStep DEF Good
      <4>. QED
        BY <1>2, <1>11, <2>1, <4>1, <4>2
    <3>. QED
      BY <3>3, <3>4
  <2>2. CASE w = e
    <3>1. PICK h3, h4, h5 : /\ h3 = inc_ref_count(h2, e) /\ h4 = dec_ref_count(h3, d)
                            /\ h5 = [h4 EXCEPT !.bag[e] = b]
      OBVIOUS
    <3>2. heap' = dec_ref_count(h5, e)
      BY <1>3, <1>13, <2>2, <3>1 DEF set_ds
    <3>3. PICK Y3, Y4 : Y3 = [X EXCEPT ![e] = @ + 1] /\ Y4 = [Y3 EXCEPT ![d] = @ - 1]
      OBVIOUS
    <3>4. /\ Y3 \in [Nodes -> Nat] /\ Y3[d] = X[d] /\ Y3[e] = X[e] + 1
          /\ \A x \in Nodes : x # e => Y3[x] = X[x]
      BY <1>1, <1>2, <1>3, <1>15, <3>3
    <3>5. /\ Y4 \in [Nodes -> Nat] /\ Y4[d] = X[d] - 1 /\ Y4[e] = X[e] + 1
          /\ \A x \in Nodes : x # e /\ x # d => Y4[x] = X[x]
      BY <1>2, <1>3, <1>15, <3>3, <3>4
    <3>6. External' = [Y4 EXCEPT ![e] = @ - 1]
      <4>1. [Y4 EXCEPT ![e] = @ - 1] \in [Nodes -> Nat]
        BY <1>2, <1>15, <3>5
      <4>2. ASSUME NEW x \in Nodes PROVE External'[x] = [Y4 EXCEPT ![e] = @ - 1][x]
        <5>1. External'[x] = X[x] + PointsAt(e, x) - PointsAt(d, x) - PointsAt(e, x)
          BY <1>14, <2>2
        <5>2. CASE x = d
          BY <1>3, <1>15, <3>5, <5>1, <5>2 DEF PointsAt
        <5>3. CASE x = e
          BY <1>3, <1>15, <3>5, <5>1, <5>3 DEF PointsAt
        <5>4. CASE x # d /\ x # e
          BY <1>15, <3>5, <5>1, <5>4 DEF PointsAt
        <5>. QED
          BY <5>2, <5>3, <5>4
      <4>. QED
        BY <1>14, <4>1, <4>2
    <3>7. /\ Good(h3, Y3) /\ h3.bag = h2.bag /\ h3.ref = [h2.ref EXCEPT ![e] = @ + 1]
          /\ \A x \in Nodes : RootOf(h3, x) = RootOf(h2, x)
      <4>1. Good(h2, X) /\ e \in Nodes /\ h3 = inc_ref_count(h2, e)
        BY <1>2, <1>10, <3>1
      <4>2. Y3 = [X EXCEPT ![e] = @ + 1]
        BY <3>3
      <4>. HIDE DEF e
      <4>3. /\ Good(inc_ref_count(h2, e), [X EXCEPT ![e] = @ + 1])
            /\ inc_ref_count(h2, e).bag = h2.bag
            /\ inc_ref_count(h2, e).ref = [h2.ref EXCEPT ![e] = @ + 1]
            /\ \A x \in Nodes : RootOf(inc_ref_count(h2, e), x) = RootOf(h2, x)
        BY ONLY <4>1, Inc
      <4>. QED
        BY <4>1, <4>2, <4>3
    <3>8. Good(h4, Y4) /\ SameSets(h3, h4)
      BY <1>2, <3>1, <3>3, <3>4, <3>7, Dec
    <3>9. /\ Good(h5, Y4) /\ h5.bag = [h4.bag EXCEPT ![e] = b] /\ h5.ref = h4.ref
          /\ \A x \in Nodes : RootOf(h5, x) = RootOf(h4, x)
      BY <1>2, <3>1, <3>8, SetBag
    <3>10. Good(heap', External') /\ SameSets(h5, heap')
      <4>1. Y4[e] > 0
        BY <1>2, <1>15, <3>5
      <4>. QED
        BY <1>2, <3>2, <3>6, <3>9, <4>1, Dec
    <3>11. \A x \in Nodes : h3.ref[x] > 0 => h2.ref[x] > 0
      <4>1. h2.ref \in [Nodes -> Nat] /\ h2.ref[e] > 0
        <5>1. h2 \in Heaps
          BY <1>10 DEF Good, Forest
        <5>. QED
          BY <1>2, <1>7, <1>10, <5>1, HeapFields
      <4>. QED
        BY <3>7, <4>1
    <3>12. ASSUME NEW x \in Nodes, heap'.ref[x] > 0
           PROVE  /\ h2.ref[x] > 0 /\ RootOf(heap', x) = RootOf(h2, x)
                  /\ isRoot(heap', x) => heap'.bag[x] = IF x = w THEN b ELSE heap.bag[x]
      <4>1. /\ h5.ref[x] > 0 /\ RootOf(heap', x) = RootOf(h5, x) /\ heap'.bag[x] = h5.bag[x]
        BY <3>10, <3>12 DEF SameSets
      <4>2. h3.ref[x] > 0 /\ RootOf(h5, x) = RootOf(h3, x) /\ h4.bag[x] = h3.bag[x]
        BY <3>8, <3>9, <4>1 DEF SameSets
      <4>3. h5.bag[x] = IF x = e THEN b ELSE h4.bag[x]
        <5>1. h4.bag \in [Nodes -> Bags \cup {NoBag}]
          BY <3>8, HeapFields DEF Good, Forest
        <5>. QED
          BY <3>9, <5>1
      <4>4. isRoot(heap', x) => RootOf(heap', x) = x
        BY <3>10, RootStep DEF Good
      <4>5. h2.ref[x] > 0 /\ RootOf(heap', x) = RootOf(h2, x)
        BY <3>7, <3>11, <4>1, <4>2
      <4>. QED
        BY <1>11, <2>2, <3>7, <4>1, <4>2, <4>3, <4>4, <4>5
    <3>. QED
      BY <3>10, <3>12
  <2>. QED
    BY <1>9, <2>1, <2>2
<1>18. isRoot(heap', w)
  <2>1. External'[w] > 0
    <3>1. External'[w] = X[w] + PointsAt(w, w) - PointsAt(d, w) - PointsAt(e, w)
      BY <1>9, <1>14
    <3>2. External'[w] = X[w] /\ X[w] > 0
      BY <1>2, <1>3, <1>9, <1>15, <3>1 DEF PointsAt
    <3>. QED
      BY <3>2
  <2>2. heap'.ref[w] > 0
    BY <1>9, <1>17, <2>1, GoodFacts
  <2>3. RootOf(heap', w) = w
    BY <1>9, <1>12, <1>17, <2>2
  <2>. QED
    BY <1>9, <1>17, <2>3, RootStep DEF Good
<1>. HIDE DEF d, e
<1>19. OneSet(b, d, e, w)
  BY <1>9, <1>11, <1>17, <1>18 DEF OneSet
<1>20. w \in 0..MaxNodes
  BY <1>9, NodeFacts DEF Nodes
<1>. QED
  BY <1>13, <1>19, <1>20 DEF d, e

\* The engine combines two bags: the accesses of both are in the first.
LEMMA MergeStep ==
    ASSUME SetInv, NEW b \in Bags, NEW c \in Bags, merge(b, c)
    PROVE  /\ SetInv'
           /\ b \in bags /\ c \in bags /\ b # c /\ bags' = bags \ {c}
           /\ Where' = [l \in Entries |-> IF Where[l] = c THEN b ELSE Where[l]]
<1>. DEFINE d == dsOf[b]
            e == dsOf[c]
<1>1. /\ b \in bags /\ c \in bags /\ b # c /\ bags' = bags \ {c} /\ entry' = entry
      /\ \A x \in Nodes : heap'.rank[x] <= MaxRank
  BY DEF merge
<1>2. /\ Good(heap, External) /\ Forest(heap) /\ bags \subseteq Bags
      /\ dsOf \in [Bags -> 0..MaxNodes] /\ entry \in [Entries -> 0..MaxNodes]
      /\ NoBag \notin Bags /\ 0 \notin Nodes /\ IsFiniteSet(Bags) /\ IsFiniteSet(Entries)
      /\ 0 \in 0..MaxNodes
  BY StateFacts, SetAssumption, NodeFacts DEF SetInv, SetTypeOK
<1>3. PICK w \in 0..MaxNodes : /\ dsOf' = [dsOf EXCEPT ![b] = w, ![c] = 0]
                               /\ OneSet(b, d, e, w)
  BY MergeWithEmpty, MergeTrees
<1>4. /\ d # 0 => d \in Nodes /\ heap.bag[d] = b
      /\ e # 0 => e \in Nodes /\ heap.bag[e] = c
  BY StateFacts DEF SetInv, BagsMatch
<1>5. dsOf' \in [Bags -> 0..MaxNodes] /\ dsOf'[b] = w /\ dsOf'[c] = 0
      /\ \A b2 \in Bags : b2 # b /\ b2 # c => dsOf'[b2] = dsOf[b2]
  BY <1>1, <1>2, <1>3
<1>6. /\ Good(heap', External') /\ Forest(heap') /\ heap' \in Heaps
      /\ w \in {d, e} /\ (w # 0 => isRoot(heap', w))
      /\ \A x \in Nodes : heap'.ref[x] > 0 =>
          /\ heap.ref[x] > 0
          /\ RootOf(heap', x) = IF RootOf(heap, x) \in {d, e} THEN w ELSE RootOf(heap, x)
          /\ isRoot(heap', x) => heap'.bag[x] = IF x = w THEN b ELSE heap.bag[x]
  BY <1>3 DEF OneSet, Good, Forest
<1>. HIDE DEF d, e
<1>7. ASSUME NEW b2 \in Bags, dsOf'[b2] # 0
      PROVE  dsOf'[b2] \in Nodes /\ heap'.ref[dsOf'[b2]] > 0
  <2>1. dsOf'[b2] \in Nodes
    BY <1>5, <1>7, NodeFacts DEF Nodes
  <2>2. External'[dsOf'[b2]] = Pointing(dsOf', Bags, dsOf'[b2])
                                + Pointing(entry, Entries, dsOf'[b2])
    BY <1>1, <2>1 DEF External
  <2>3. External'[dsOf'[b2]] > 0
    BY <1>2, <2>2, PointedAt
  <2>. QED
    BY <1>6, <2>1, <2>3, GoodFacts
<1>8. \A x \in Nodes : heap.ref[x] > 0 =>
         LET r == RootOf(heap, x) IN
         /\ r \in Nodes /\ heap.ref[r] > 0 /\ isRoot(heap, r)
         /\ heap.bag[r] \in bags /\ heap.bag[r] \in Bags /\ heap.bag[r] # NoBag
         /\ dsOf[heap.bag[r]] = r
  BY StateFacts
<1>9. BagsMatch'
  <2>1. ASSUME NEW b2 \in Bags, dsOf'[b2] # 0
        PROVE  b2 \in bags' /\ isRoot(heap', dsOf'[b2]) /\ heap'.bag[dsOf'[b2]] = b2
    <3>1. CASE b2 = b
      BY <1>1, <1>5, <1>6, <1>7, <2>1, <3>1
    <3>2. CASE b2 # b
      <4>1. b2 # c /\ dsOf'[b2] = dsOf[b2]
        BY <1>5, <2>1, <3>2
      <4>2. PICK y \in Nodes : y = dsOf[b2] /\ y = dsOf'[b2] /\ heap'.ref[y] > 0 /\ y # 0
        BY <1>7, <2>1, <4>1
      <4>3. b2 \in bags /\ heap.bag[y] = b2 /\ RootOf(heap, y) = y
        BY <4>2, StateFacts DEF SetInv, BagsMatch
      <4>4. y # d /\ y # e /\ y # w
        BY <1>4, <1>6, <3>2, <4>1, <4>2, <4>3
      <4>5. RootOf(heap', y) = y
        BY <1>6, <4>2, <4>3, <4>4
      <4>6. isRoot(heap', y)
        BY <1>6, <4>2, <4>5, RootStep
      <4>. QED
        BY <1>1, <1>6, <4>1, <4>2, <4>3, <4>4, <4>6
    <3>. QED
      BY <3>1, <3>2
  <2>2. ASSUME NEW x \in Nodes, heap'.ref[x] > 0, isRoot(heap', x)
        PROVE  heap'.bag[x] \in bags' /\ dsOf'[heap'.bag[x]] = x
    <3>1. RootOf(heap', x) = x /\ heap.ref[x] > 0
      BY <1>6, <2>2, RootStep
    <3>2. CASE RootOf(heap, x) \in {d, e}
      <4>1. x = w
        BY <1>6, <2>2, <3>1, <3>2
      <4>. QED
        BY <1>1, <1>5, <1>6, <2>2, <4>1
    <3>3. CASE RootOf(heap, x) \notin {d, e}
      <4>1. RootOf(heap, x) = x /\ x # d /\ x # e /\ x # w
        BY <1>6, <2>2, <3>1, <3>3
      <4>2. /\ heap'.bag[x] = heap.bag[x] /\ heap.bag[x] \in bags /\ heap.bag[x] \in Bags
            /\ dsOf[heap.bag[x]] = x
        BY <1>6, <1>8, <2>2, <3>1, <4>1
      <4>3. heap.bag[x] # b /\ heap.bag[x] # c
        BY <4>1, <4>2 DEF d, e
      <4>. QED
        BY <1>1, <1>5, <4>2, <4>3
    <3>. QED
      BY <3>2, <3>3
  <2>. QED
    BY <2>1, <2>2 DEF BagsMatch
<1>10. SetInv'
  <2>1. SetTypeOK'
    BY <1>1, <1>2, <1>5, <1>6, HeapTyped DEF SetTypeOK
  <2>. QED
    BY <1>6, <1>9, <2>1 DEF SetInv
<1>11. EntriesAlive'
  BY <1>10, AliveNow, PTL
<1>12. ASSUME NEW l \in Entries, entry[l] # 0
       PROVE  heap'.bag[RootOf(heap', entry[l])] =
                IF heap.bag[RootOf(heap, entry[l])] = c THEN b
                ELSE heap.bag[RootOf(heap, entry[l])]
  <2>1. PICK y \in Nodes : y = entry[l] /\ heap'.ref[y] > 0 /\ heap.ref[y] > 0
    BY <1>1, <1>6, <1>11, <1>12 DEF EntriesAlive
  <2>2. PICK r, q : r = RootOf(heap, y) /\ q = RootOf(heap', y)
    OBVIOUS
  <2>3. q \in Nodes /\ isRoot(heap', q) /\ heap'.ref[q] > 0
    BY <1>6, <2>1, <2>2, RootStep, RootAlive
  <2>4. /\ r \in Nodes /\ heap.bag[r] \in bags /\ dsOf[heap.bag[r]] = r
        /\ q = IF r \in {d, e} THEN w ELSE r
    BY <1>6, <1>8, <2>1, <2>2
  <2>5. heap'.bag[q] = IF q = w THEN b ELSE heap.bag[q]
    BY <1>6, <2>3
  <2>6. CASE r \in {d, e}
    BY <1>2, <1>4, <2>1, <2>2, <2>4, <2>5, <2>6
  <2>7. CASE r \notin {d, e}
    <3>1. heap.bag[r] # c /\ r # w
      BY <1>6, <2>4, <2>7 DEF e
    <3>. QED
      BY <2>1, <2>2, <2>4, <2>5, <2>7, <3>1
  <2>. QED
    BY <2>6, <2>7
<1>13. Where' = [l \in Entries |-> IF Where[l] = c THEN b ELSE Where[l]]
  <2>1. Where' = [l \in Entries |-> IF entry[l] = 0 THEN NoBag
                                    ELSE heap'.bag[RootOf(heap', entry[l])]]
    BY <1>1 DEF Where
  <2>2. \A l \in Entries :
           Where[l] = IF entry[l] = 0 THEN NoBag ELSE heap.bag[RootOf(heap, entry[l])]
    BY DEF Where
  <2>3. c # NoBag
    BY <1>2
  <2>. QED
    BY <1>12, <2>1, <2>2, <2>3
<1>. QED
  BY <1>1, <1>10, <1>13

-----------------------------------------------------------------------------
(***************************************************************************)
(* The theorems.                                                           *)
(***************************************************************************)
\* Nothing is allocated and nothing points anywhere.
LEMMA SetInitInv == SetInit => SetInv
<1>. SUFFICES ASSUME SetInit PROVE SetInv
  OBVIOUS
<1>1. /\ heap.up = [d \in Nodes |-> 0] /\ heap.bag = [d \in Nodes |-> NoBag]
      /\ heap.rank = [d \in Nodes |-> 0] /\ heap.ref = [d \in Nodes |-> 0]
      /\ heap = [up |-> heap.up, bag |-> heap.bag, rank |-> heap.rank, ref |-> heap.ref]
      /\ bags = {} /\ dsOf = [b \in Bags |-> 0] /\ entry = [l \in Entries |-> 0]
  BY DEF SetInit
<1>2. MaxNodes \in Nat /\ MaxRank \in Nat /\ 0 \notin Nodes
  BY NodeFacts
<1>3. heap \in Heaps /\ \A d \in Nodes : heap.rank[d] <= MaxRank
  <2>1. /\ heap.up \in [Nodes -> 0..MaxNodes] /\ heap.bag \in [Nodes -> Bags \cup {NoBag}]
        /\ heap.rank \in [Nodes -> 0..(MaxRank + 1)] /\ heap.ref \in [Nodes -> Nat]
    BY <1>1, <1>2
  <2>. QED
    BY <1>1, <1>2, <2>1 DEF Heaps
<1>4. SetTypeOK
  BY <1>1, <1>2, <1>3, HeapTyped DEF SetTypeOK
<1>5. Forest(heap) /\ Tidy(heap)
  BY <1>1, <1>3 DEF Forest, Tidy, isRoot
<1>6. ASSUME NEW d \in Nodes
      PROVE  External[d] = 0 /\ Cardinality(Children(heap, d)) = 0
  <2>1. Children(heap, d) = {} /\ {b \in Bags : dsOf[b] = d} = {}
        /\ {l \in Entries : entry[l] = d} = {}
    BY <1>1, <1>2 DEF Children
  <2>. QED
    BY <2>1, FS_EmptySet DEF External, Pointing
<1>7. Good(heap, External)
  <2>1. External \in [Nodes -> Nat]
    <3>1. External = [d \in Nodes |-> External[d]]
      BY DEF External
    <3>. QED
      BY <1>6, <3>1
  <2>2. Exact(heap, External)
    BY <1>1, <1>6 DEF Exact
  <2>. QED
    BY <1>5, <2>1, <2>2 DEF Good
<1>8. BagsMatch
  BY <1>1 DEF BagsMatch
<1>. QED
  BY <1>4, <1>7, <1>8 DEF SetInv

\* What a step of the code does to the partition: it is one of Partition's.
LEMMA SetStep ==
    SetInv /\ [SetNext]_svars => SetInv' /\ [Abstract!PartitionNext]_(Abstract!pvars)
<1>. SUFFICES ASSUME SetInv, [SetNext]_svars
              PROVE  SetInv' /\ [Abstract!PartitionNext]_(Abstract!pvars)
  OBVIOUS
<1>1. CASE UNCHANGED svars
  <2>1. UNCHANGED <<heap, bags, dsOf, entry>>
    BY <1>1 DEF svars
  <2>2. External' = External /\ Where' = Where
    BY <2>1 DEF External, Where
  <2>3. SetInv'
    BY <2>1, <2>2 DEF SetInv, SetTypeOK, BagsMatch
  <2>. QED
    BY <2>1, <2>2, <2>3 DEF Abstract!pvars
<1>2. ASSUME NEW b \in SBags, create_sbag(b) PROVE SetInv' /\ Abstract!PartitionNext
  <2>1. SetInv' /\ Where' = Where
    BY <1>2, CreateSBagStep
  <2>2. b \in Bags /\ Abstract!Create(b)
    BY <1>2, <2>1 DEF create_sbag, Abstract!Create, Bags
  <2>. QED
    BY <2>1, <2>2 DEF Abstract!PartitionNext
<1>3. ASSUME NEW b \in PBags, create_pbag(b) PROVE SetInv' /\ Abstract!PartitionNext
  <2>1. SetInv' /\ Where' = Where
    BY <1>3, CreatePBagStep
  <2>2. b \in Bags /\ Abstract!Create(b)
    BY <1>3, <2>1 DEF create_pbag, Abstract!Create, Bags
  <2>. QED
    BY <2>1, <2>2 DEF Abstract!PartitionNext
<1>4. ASSUME NEW b \in Bags, NEW c \in Bags, merge(b, c)
      PROVE  SetInv' /\ Abstract!PartitionNext
  <2>1. /\ SetInv'
        /\ b \in bags /\ c \in bags /\ b # c /\ bags' = bags \ {c}
        /\ Where' = [l \in Entries |-> IF Where[l] = c THEN b ELSE Where[l]]
    BY <1>4, MergeStep
  <2>2. Abstract!Merge(b, c)
    BY <2>1 DEF Abstract!Merge
  <2>. QED
    BY <2>1, <2>2 DEF Abstract!PartitionNext
<1>5. ASSUME NEW b \in Bags, delete_bag(b) PROVE SetInv' /\ Abstract!PartitionNext
  <2>1. /\ SetInv' /\ Where' = Where
        /\ b \in bags /\ bags' = bags \ {b} /\ \A l \in Entries : Where[l] # b
    BY <1>5, DeleteBagStep
  <2>2. Abstract!Delete(b)
    BY <2>1 DEF Abstract!Delete
  <2>. QED
    BY <2>1, <2>2 DEF Abstract!PartitionNext
<1>6. ASSUME NEW l \in Entries, NEW b \in SBags, set(l, b)
      PROVE  SetInv' /\ Abstract!PartitionNext
  <2>1. b \in bags /\ b \in Bags /\ dsOf[b] # 0 /\ Assign(l, dsOf[b])
    BY <1>6 DEF set, Bags
  <2>2. /\ dsOf[b] \in Nodes /\ heap.ref[dsOf[b]] > 0 /\ dsOf[b] \in 0..MaxNodes
        /\ RootOf(heap, dsOf[b]) = dsOf[b] /\ heap.bag[dsOf[b]] = b
    BY <2>1, StateFacts DEF SetInv, BagsMatch
  <2>3. SetInv' /\ bags' = bags /\ Where' = [Where EXCEPT ![l] = b]
    <3>1. PICK d \in 0..MaxNodes : d = dsOf[b]
      BY <2>2
    <3>. QED
      BY <2>1, <2>2, <3>1, AssignStep
  <2>4. Abstract!Record(l, b)
    BY <2>1, <2>3 DEF Abstract!Record
  <2>. QED
    BY <2>1, <2>3, <2>4 DEF Abstract!PartitionNext
<1>7. ASSUME NEW l \in Entries, NEW m \in Entries, copy(l, m)
      PROVE  SetInv' /\ Abstract!PartitionNext
  <2>1. /\ Assign(l, entry[m]) /\ entry[m] \in 0..MaxNodes
        /\ entry[m] # 0 => entry[m] \in Nodes /\ heap.ref[entry[m]] > 0
    BY <1>7, StateFacts DEF copy
  <2>2. /\ SetInv' /\ bags' = bags
        /\ Where' = [Where EXCEPT ![l] =
              IF entry[m] = 0 THEN NoBag ELSE heap.bag[RootOf(heap, entry[m])]]
    <3>1. PICK d \in 0..MaxNodes : d = entry[m]
      BY <2>1
    <3>. QED
      BY <2>1, <3>1, AssignStep
  <2>3. Where[m] = IF entry[m] = 0 THEN NoBag ELSE heap.bag[RootOf(heap, entry[m])]
    BY DEF Where
  <2>4. Abstract!Copy(l, m)
    BY <2>2, <2>3 DEF Abstract!Copy
  <2>. QED
    BY <2>2, <2>4 DEF Abstract!PartitionNext
<1>8. ASSUME NEW l \in Entries, invalidate(l) PROVE SetInv' /\ Abstract!PartitionNext
  <2>1. Assign(l, 0) /\ 0 \in 0..MaxNodes
    BY <1>8, NodeFacts DEF invalidate
  <2>2. SetInv' /\ bags' = bags /\ Where' = [Where EXCEPT ![l] = NoBag]
    BY <2>1, AssignStep
  <2>3. Abstract!Drop(l)
    BY <2>2 DEF Abstract!Drop
  <2>. QED
    BY <2>2, <2>3 DEF Abstract!PartitionNext
<1>9. ASSUME NEW l \in Entries, get_sbag_or_null(l)
      PROVE  SetInv' /\ UNCHANGED Abstract!pvars
  BY <1>9, QueryStep DEF Abstract!pvars
<1>. QED
  BY <1>1, <1>2, <1>3, <1>4, <1>5, <1>6, <1>7, <1>8, <1>9 DEF SetNext

\* In every state of the disjoint sets, counts are exact, bags hold roots and
\* ranks increase towards them.
LEMMA SetInvariant == SetSpec => []SetInv
<1>1. SetInit => SetInv
  BY SetInitInv
<1>2. SetInv /\ [SetNext]_svars => SetInv'
  BY SetStep
<1>. QED
  BY <1>1, <1>2, PTL DEF SetSpec

\* A node is freed when the last child, bag or entry that points at it goes,
\* and not before, whatever find_set and link move meanwhile.
THEOREM CountsExact == SetSpec => []RefCountsExact
<1>1. SetInv => RefCountsExact
  <2>. SUFFICES ASSUME SetInv, NEW d \in Nodes PROVE heap.ref[d] = References(d)
    BY DEF RefCountsExact
  <2>1. /\ heap.ref[d] = Cardinality(Children(heap, d)) + External[d]
        /\ Cardinality(Children(heap, d)) \in Nat
    BY GoodFacts DEF SetInv
  <2>2. PICK k, m, n : /\ k = Cardinality(Children(heap, d))
                       /\ m = Pointing(dsOf, Bags, d) /\ n = Pointing(entry, Entries, d)
    OBVIOUS
  <2>3. k \in Nat /\ m \in Nat /\ n \in Nat
    BY <2>1, <2>2, StateFacts, PointedAt
  <2>4. External[d] = m + n
    BY <2>2 DEF External
  <2>5. References(d) = k + m + n
    BY <2>2 DEF References, Children, Pointing
  <2>. QED
    BY <2>1, <2>2, <2>3, <2>4, <2>5
<1>. QED
  BY <1>1, SetInvariant, PTL

\* combine and get_sbag may compare roots and read the bag off one.
THEOREM BagsHoldRoots == SetSpec => []BagHoldsRoot
<1>1. SetInv => BagHoldsRoot
  BY DEF SetInv, SetTypeOK, BagsMatch, BagHoldsRoot, Alive
<1>. QED
  BY <1>1, SetInvariant, PTL

\* Union by rank keeps paths no longer than the rank of their root, through
\* compression, deletion and reuse of nodes: find_set ends.
THEOREM PathsEnd == SetSpec => []RanksIncrease
<1>1. SetInv => RanksIncrease
  BY DEF SetInv, Good, Forest, RanksIncrease
<1>. QED
  BY <1>1, SetInvariant, PTL

\* The nodes, with their counts, ranks and compressed paths, answer every
\* query as a partition of the accesses among the bags does.
THEOREM NodesImplementPartition == SetSpec => ImplementsPartition
<1>1. SetInit => Abstract!PartitionInit
  BY DEF SetInit, Abstract!PartitionInit, Where
<1>2. SetInv /\ [SetNext]_svars => [Abstract!PartitionNext]_(Abstract!pvars)
  BY SetStep
<1>. QED
  BY <1>1, <1>2, SetInvariant, PTL
  DEF SetSpec, ImplementsPartition, Abstract!PartitionSpec

-----------------------------------------------------------------------------
(***************************************************************************)
(* The front-end data, object and PC tables (FedTables): the inductive     *)
(* invariant.                                                              *)
(***************************************************************************)
Cell == [num_entries : Nat, store : Nat]
Registered == [unit : Units, local : Nat]
Places == {"start", "tables", "add", "ids", "objects", "tool", "release", "done"}
ReaderPlaces == {"idle", "total", "tables", "cell", "answered"}

FedTypeOK ==
    /\ lock \in {0, 1}
    /\ fed_tables \in [num_tables : Nat, capacity : Nat, num_total_entries : Nat,
                       tables : Nat]
    /\ arrays \in Seq(Seq(Cell)) /\ stores \in Seq(Seq(Registered))
    /\ obj_entries \in Seq(Registered) /\ pc_cap \in Nat
    /\ pc \in [Units -> Places] /\ added \in [Units -> Nat] /\ id_base \in [Units -> Int]
    /\ reader \in [Readers -> [at : ReaderPlaces, id : Nat, tables : Nat,
                               entry : Registered \cup {Null}, must : BOOLEAN]]

\* A unit holds the spin lock from its acquisition to its release.
InLock(u) == pc[u] \notin {"start", "done"}

Exclusive ==
    /\ lock = 0 => \A u \in Units : ~InLock(u)
    /\ \A u, v \in Units : InLock(u) /\ InLock(v) => u = v

\* How far each unit has come.
total == fed_tables.num_total_entries

Progress ==
    \A u \in Units :
        /\ pc[u] \in {"start", "tables"} => added[u] = 0
        /\ pc[u] = "add" => added[u] <= NumEntries[u]
        /\ pc[u] \in {"ids", "objects", "tool", "release", "done"} =>
              added[u] = NumEntries[u]
        /\ pc[u] \in {"start", "tables", "add", "ids"} => id_base[u] = -1
        /\ pc[u] = "ids" => NumEntries[u] <= total
        /\ pc[u] = "objects" => id_base[u] + NumEntries[u] = total
        /\ pc[u] \in {"objects", "tool", "release", "done"} =>
              id_base[u] \in Nat /\ id_base[u] + NumEntries[u] <= total

\* The table and the place in it of global id g, and the entry there.
TableOf(g) == (g \div PerTable) + 1
PlaceOf(g) == (g % PerTable) + 1
Stored(g) == TableOf(g) <= Len(stores) /\ PlaceOf(g) <= Len(stores[TableOf(g)])
EntryOf(g) == stores[TableOf(g)][PlaceOf(g)]

\* n entries fill the tables in order, the current array points at the tables
\* in order, and an array that was replaced was full.
Layout(n) ==
    LET nt == fed_tables.num_tables
        cap == fed_tables.capacity IN
    /\ fed_tables.tables = Len(arrays) /\ Len(arrays) # 0
    /\ nt >= 1 /\ nt <= cap /\ cap = Len(CurrentArray) /\ Len(stores) = nt
    /\ \A t \in 1..cap : CurrentArray[t].store = IF t <= nt THEN t ELSE 0
    /\ CurrentArray[nt].num_entries = Len(stores[nt]) /\ Len(stores[nt]) <= PerTable
    /\ n = (nt - 1) * PerTable + Len(stores[nt])
    /\ \A g \in 0..(n - 1) : Stored(g)
    /\ \A a \in 1..(Len(arrays) - 1) : \A t \in 1..Len(arrays[a]) : arrays[a][t].store = t

\* Before the first unit's entries there are no tables.
NoTables ==
    /\ arrays = <<>> /\ stores = <<>> /\ total = 0
    /\ \A u \in Units : pc[u] \in {"start", "tables"}
    /\ \A r \in Readers : reader[r].at = "idle"

Tables ==
    IF fed_tables.tables = 0 THEN NoTables
    ELSE /\ \A u \in Units : pc[u] = "add" => Layout(total + added[u])
         /\ (\A u \in Units : pc[u] # "add") => Layout(total)

\* The id of the first entry of a unit, before and after the unit knows it.
Base(u) == CASE pc[u] = "add" -> total
             [] pc[u] = "ids" -> total - NumEntries[u]
             [] OTHER -> id_base[u]

Contents ==
    \A u \in Units : \A k \in 0..(added[u] - 1) :
        EntryOf(Base(u) + k) = [unit |-> u, local |-> k]

\* The object table and the capacity of the PC table lag behind the FED tables
\* while a unit is added.
Behind(places, length) ==
    /\ \A u \in Units : pc[u] \in places => length = total - NumEntries[u]
    /\ (\A u \in Units : pc[u] \notin places) => length = total

Objects ==
    /\ Behind({"ids", "objects"}, Len(obj_entries))
    /\ \A u \in Units : pc[u] \in {"tool", "release", "done"} =>
          /\ id_base[u] + NumEntries[u] <= Len(obj_entries)
          /\ \A k \in 0..(NumEntries[u] - 1) :
                obj_entries[id_base[u] + k + 1] = [unit |-> u, local |-> k]

PcTable ==
    /\ Behind({"ids", "objects", "tool"}, pc_cap)
    /\ \A u \in Units : pc[u] \in {"release", "done"} => id_base[u] + NumEntries[u] <= pc_cap

\* What a lookup knows after each of its reads.
ReaderOK(r) ==
    LET l == reader[r] IN
    /\ l.at # "idle" => fed_tables.tables # 0
    /\ l.at \in {"total", "tables", "cell"} => l.entry = Null /\ (l.must => l.id < total)
    /\ l.at \in {"tables", "cell"} => l.id < total
    /\ l.at = "cell" => /\ l.tables \in 1..Len(arrays)
                        /\ TableOf(l.id) <= Len(arrays[l.tables])
                        /\ arrays[l.tables][TableOf(l.id)].store = TableOf(l.id)
    /\ l.at = "answered" /\ l.entry = Null => ~l.must
    /\ l.at = "answered" /\ l.entry # Null => l.id < total /\ l.entry = EntryOf(l.id)

FedInv ==
    /\ FedTypeOK /\ Exclusive /\ Progress /\ Tables /\ Contents /\ Objects /\ PcTable
    /\ \A r \in Readers : ReaderOK(r)

-----------------------------------------------------------------------------
(***************************************************************************)
(* The tables.                                                             *)
(***************************************************************************)
TypedTables ==
    /\ fed_tables \in [num_tables : Nat, capacity : Nat, num_total_entries : Nat,
                       tables : Nat]
    /\ arrays \in Seq(Seq(Cell)) /\ stores \in Seq(Seq(Registered))

\* Entries stay where they are, and so do the tables an array points at.
Kept ==
    /\ \A g \in Nat : Stored(g) => Stored(g)' /\ EntryOf(g)' = EntryOf(g)
    /\ \A a \in 1..Len(arrays) : /\ a \in 1..Len(arrays')
                                 /\ \A t \in 1..Len(arrays[a]) : arrays[a][t].store = t =>
                                       t \in 1..Len(arrays'[a]) /\ arrays'[a][t].store = t

\* A function on 1..n is a sequence of length n.
LEMMA FunctionIsSeq ==
    ASSUME NEW S, NEW n \in Nat, NEW f \in [1..n -> S]
    PROVE  f \in Seq(S) /\ Len(f) = n
<1>1. f \in Seq(S)
  BY SeqDef
<1>2. Len(f) \in Nat /\ DOMAIN f = 1..Len(f) /\ DOMAIN f = 1..n
  BY <1>1, LenProperties
<1>3. Len(f) = n
  <2>1. Len(f) >= 1 => Len(f) \in 1..n
    BY <1>2
  <2>2. n >= 1 => n \in 1..Len(f)
    BY <1>2
  <2>. QED
    BY <1>2, <2>1, <2>2
<1>. QED
  BY <1>1, <1>3

\* Global ids are counted through the tables in order.
LEMMA IdsInTables ==
    /\ \A g \in Nat : TableOf(g) \in Nat /\ TableOf(g) >= 1 /\ PlaceOf(g) \in 1..PerTable
    /\ \A q \in Nat, r \in 0..(PerTable - 1) :
          q * PerTable + r \in Nat /\ TableOf(q * PerTable + r) = q + 1
          /\ PlaceOf(q * PerTable + r) = r + 1
<1>1. PerTable \in Nat \ {0}
  BY FedAssumption
<1>2. ASSUME NEW g \in Nat
      PROVE  TableOf(g) \in Nat /\ TableOf(g) >= 1 /\ PlaceOf(g) \in 1..PerTable
  <2>1. g \div PerTable \in Nat /\ g % PerTable \in 0..(PerTable - 1)
    BY <1>1
  <2>. QED
    BY <1>1, <2>1 DEF TableOf, PlaceOf
<1>3. ASSUME NEW q \in Nat, NEW r \in 0..(PerTable - 1)
      PROVE  /\ q * PerTable + r \in Nat
             /\ TableOf(q * PerTable + r) = q + 1 /\ PlaceOf(q * PerTable + r) = r + 1
  <2>1. (q * PerTable + r) \div PerTable = q /\ (q * PerTable + r) % PerTable = r
    BY <1>1
  <2>2. q * PerTable + r \in Nat
    BY <1>1
  <2>. QED
    BY <2>1, <2>2 DEF TableOf, PlaceOf
<1>. QED
  BY <1>2, <1>3

\* What the layout says of the array, the table and the cell in use.
LEMMA LayoutFacts ==
    ASSUME TypedTables, NEW n, Layout(n)
    PROVE  /\ fed_tables.num_tables \in Nat \ {0} /\ fed_tables.capacity \in Nat
           /\ fed_tables.num_tables <= fed_tables.capacity
           /\ Len(arrays) \in Nat \ {0} /\ fed_tables.tables = Len(arrays)
           /\ CurrentArray = arrays[Len(arrays)]
           /\ CurrentArray \in Seq(Cell) /\ Len(CurrentArray) = fed_tables.capacity
           /\ Len(stores) = fed_tables.num_tables
           /\ stores[fed_tables.num_tables] \in Seq(Registered)
           /\ Len(stores[fed_tables.num_tables]) \in 0..PerTable
           /\ n = (fed_tables.num_tables - 1) * PerTable + Len(stores[fed_tables.num_tables])
           /\ n \in Nat
           /\ \A a \in 1..Len(arrays) : arrays[a] \in Seq(Cell)
           /\ \A t \in 1..Len(stores) : stores[t] \in Seq(Registered)
<1>1. /\ fed_tables.num_tables \in Nat /\ fed_tables.capacity \in Nat /\ fed_tables.tables \in Nat
      /\ \A a \in 1..Len(arrays) : arrays[a] \in Seq(Cell)
      /\ \A t \in 1..Len(stores) : stores[t] \in Seq(Registered)
      /\ Len(arrays) \in Nat /\ Len(stores) \in Nat
  BY ElementOfSeq, LenProperties DEF TypedTables
<1>2. /\ fed_tables.tables = Len(arrays)
      /\ fed_tables.num_tables >= 1 /\ fed_tables.num_tables <= fed_tables.capacity
      /\ fed_tables.capacity = Len(CurrentArray) /\ Len(stores) = fed_tables.num_tables
      /\ Len(stores[fed_tables.num_tables]) <= PerTable
      /\ n = (fed_tables.num_tables - 1) * PerTable + Len(stores[fed_tables.num_tables])
  BY DEF Layout
<1>3. Len(arrays) # 0
  BY DEF Layout
<1>4. Len(arrays) \in 1..Len(arrays) /\ fed_tables.num_tables \in 1..Len(stores)
  BY <1>1, <1>2, <1>3
<1>5. Len(stores[fed_tables.num_tables]) \in Nat
  BY <1>1, <1>4, LenProperties
<1>6. n \in Nat
  <2>1. PICK q \in Nat, l \in Nat : /\ q = fed_tables.num_tables - 1
                                    /\ l = Len(stores[fed_tables.num_tables])
    BY <1>1, <1>2, <1>5
  <2>2. q * PerTable + l \in Nat
    BY FedAssumption
  <2>. QED
    BY <1>2, <2>1, <2>2
<1>7. CurrentArray = arrays[Len(arrays)]
  BY <1>2 DEF CurrentArray
<1>. QED
  BY <1>1, <1>2, <1>3, <1>4, <1>5, <1>6, <1>7, FedAssumption

\* A full index array is replaced by a longer copy of it.
LEMMA GrowIndex ==
    ASSUME TypedTables, NEW n, Layout(n), grow_index
    PROVE  TypedTables' /\ Layout(n)' /\ Kept /\ total' = total /\ fed_tables'.tables # 0
<1>0. PICK nt, m : nt = fed_tables.num_tables /\ m = Len(arrays)
  OBVIOUS
<1>1. /\ nt \in Nat \ {0} /\ fed_tables.capacity = nt /\ m \in Nat \ {0}
      /\ CurrentArray = arrays[m] /\ arrays[m] \in Seq(Cell) /\ Len(arrays[m]) = nt
      /\ Len(stores) = nt
  BY <1>0, LayoutFacts DEF grow_index
<1>2. \A t \in 1..nt : arrays[m][t].store = t
  BY <1>0, <1>1 DEF Layout
<1>3. PICK B : B = Grown(CurrentArray)
  OBVIOUS
<1>4. B = [i \in 1..2 * nt |-> IF i <= nt THEN arrays[m][i] ELSE EmptyCell]
  BY <1>1, <1>3 DEF Grown
<1>5. EmptyCell \in Cell /\ EmptyCell.store = 0
  BY DEF EmptyCell, Cell
<1>6. B \in [1..2 * nt -> Cell]
  <2>1. \A i \in 1..2 * nt : i <= nt => arrays[m][i] \in Cell
    BY <1>1, ElementOfSeq
  <2>. QED
    BY <1>4, <1>5, <2>1
<1>7. B \in Seq(Cell) /\ Len(B) = 2 * nt
  <2>1. 2 * nt \in Nat
    BY <1>1
  <2>. QED
    BY <1>6, <2>1, FunctionIsSeq
<1>8. \A t \in 1..2 * nt : B[t].store = IF t <= nt THEN t ELSE 0
  BY <1>1, <1>2, <1>4, <1>5
<1>9. \A t \in 1..nt : B[t] = arrays[m][t]
  BY <1>1, <1>4
<1>10. /\ arrays' = Append(arrays, B) /\ stores' = stores
       /\ fed_tables' = [fed_tables EXCEPT !.capacity = 2 * @, !.tables = Len(arrays) + 1]
  BY <1>3 DEF grow_index
<1>11. /\ arrays' \in Seq(Seq(Cell)) /\ Len(arrays') = m + 1
       /\ arrays'[m + 1] = B /\ \A a \in 1..m : arrays'[a] = arrays[a]
  BY <1>0, <1>7, <1>10, AppendProperties DEF TypedTables
<1>12. /\ fed_tables'.num_tables = nt /\ fed_tables'.capacity = 2 * nt
       /\ fed_tables'.tables = m + 1 /\ total' = total
       /\ fed_tables' \in [num_tables : Nat, capacity : Nat, num_total_entries : Nat, tables : Nat]
  <2>1. 2 * nt \in Nat /\ m + 1 \in Nat
    BY <1>1
  <2>. QED
    BY <1>0, <1>1, <1>10, <2>1 DEF TypedTables, total
<1>13. TypedTables'
  BY <1>10, <1>11, <1>12 DEF TypedTables
<1>14. CurrentArray' = B
  BY <1>11, <1>12 DEF CurrentArray
<1>15. Layout(n)'
  <2>1. /\ fed_tables'.tables = Len(arrays') /\ Len(arrays') # 0
        /\ nt >= 1 /\ nt <= 2 * nt /\ 2 * nt = Len(B) /\ Len(stores') = nt
    BY <1>1, <1>7, <1>10, <1>11, <1>12, SMTT(30)
  <2>2. /\ B[nt].num_entries = Len(stores'[nt]) /\ Len(stores'[nt]) <= PerTable
        /\ n = (nt - 1) * PerTable + Len(stores'[nt])
    <3>1. nt \in 1..nt
      BY <1>1
    <3>. QED
      BY <1>0, <1>1, <1>9, <1>10, <3>1 DEF Layout
  <2>3. \A g \in 0..(n - 1) : Stored(g)'
    BY <1>10 DEF Layout, Stored
  <2>4. ASSUME NEW a \in 1..(Len(arrays') - 1), NEW t \in 1..Len(arrays'[a])
        PROVE  arrays'[a][t].store = t
    <3>1. a \in 1..m /\ arrays'[a] = arrays[a]
      BY <1>1, <1>11
    <3>2. CASE a = m
      BY <1>1, <1>2, <3>1, <3>2
    <3>3. CASE a # m
      <4>1. a \in 1..(Len(arrays) - 1) /\ t \in 1..Len(arrays[a])
        BY <1>0, <1>1, <3>1, <3>3
      <4>. QED
        BY <3>1, <4>1 DEF Layout
    <3>. QED
      BY <3>2, <3>3
  <2>. QED
    BY <1>8, <1>12, <1>14, <2>1, <2>2, <2>3, <2>4 DEF Layout
<1>16. Kept
  <2>1. \A g \in Nat : Stored(g) => Stored(g)' /\ EntryOf(g)' = EntryOf(g)
    BY <1>10 DEF Stored, EntryOf
  <2>2. \A a \in 1..Len(arrays) : a \in 1..Len(arrays') /\ arrays'[a] = arrays[a]
    BY <1>0, <1>1, <1>11
  <2>. QED
    BY <2>1, <2>2 DEF Kept
<1>. QED
  BY <1>1, <1>12, <1>13, <1>15, <1>16

\* A new table follows a full one.
LEMMA AppendTable ==
    ASSUME TypedTables, NEW n, Layout(n), is_table_full, append_table
    PROVE  TypedTables' /\ Layout(n)' /\ Kept /\ total' = total /\ fed_tables'.tables # 0
<1>0. PICK nt, m, cap : nt = fed_tables.num_tables /\ m = Len(arrays) /\ cap = fed_tables.capacity
  OBVIOUS
<1>1. /\ nt \in Nat \ {0} /\ cap \in Nat /\ nt < cap /\ m \in Nat \ {0}
      /\ CurrentArray = arrays[m] /\ arrays[m] \in Seq(Cell) /\ Len(arrays[m]) = cap
      /\ Len(stores) = nt /\ fed_tables.tables = m
      /\ n = (nt - 1) * PerTable + Len(stores[nt])
  BY <1>0, LayoutFacts DEF append_table
<1>2. /\ \A t \in 1..cap : arrays[m][t].store = IF t <= nt THEN t ELSE 0
      /\ arrays[m][nt].num_entries = Len(stores[nt])
  BY <1>0, <1>1 DEF Layout
<1>3. Len(stores[nt]) = PerTable
  BY <1>0, <1>1, <1>2 DEF is_table_full, InsertionTable
<1>4. PICK c : c = [num_entries |-> 0, store |-> nt + 1]
  OBVIOUS
<1>5. c \in Cell /\ c.store = nt + 1 /\ c.num_entries = 0
  BY <1>1, <1>4 DEF Cell
<1>6. PICK B : B = [arrays[m] EXCEPT ![nt + 1] = c]
  OBVIOUS
<1>7. /\ B \in Seq(Cell) /\ Len(B) = cap /\ B[nt + 1] = c
      /\ \A t \in 1..cap : t # nt + 1 => B[t] = arrays[m][t]
  <2>1. nt + 1 \in 1..Len(arrays[m])
    BY <1>1
  <2>. QED
    BY <1>1, <1>5, <1>6, <2>1, ExceptSeq
<1>8. /\ stores' = Append(stores, <<>>)
      /\ arrays' = [arrays EXCEPT ![m] = B]
      /\ fed_tables' = [fed_tables EXCEPT !.num_tables = @ + 1]
  BY <1>0, <1>1, <1>4, <1>6 DEF append_table
<1>9. /\ arrays' \in Seq(Seq(Cell)) /\ Len(arrays') = m
      /\ arrays'[m] = B /\ \A a \in 1..m : a # m => arrays'[a] = arrays[a]
  <2>1. m \in 1..Len(arrays)
    BY <1>0, <1>1
  <2>. QED
    BY <1>0, <1>7, <1>8, <2>1, ExceptSeq DEF TypedTables
<1>10. /\ stores' \in Seq(Seq(Registered)) /\ Len(stores') = nt + 1
       /\ stores'[nt + 1] = <<>> /\ \A t \in 1..nt : stores'[t] = stores[t]
  <2>1. <<>> \in Seq(Registered)
    BY EmptySeq
  <2>. QED
    BY <1>1, <1>8, <2>1, AppendProperties DEF TypedTables
<1>11. /\ fed_tables'.num_tables = nt + 1 /\ fed_tables'.capacity = cap
       /\ fed_tables'.tables = m /\ total' = total
       /\ fed_tables' \in [num_tables : Nat, capacity : Nat, num_total_entries : Nat, tables : Nat]
  <2>1. nt + 1 \in Nat
    BY <1>1
  <2>. QED
    BY <1>0, <1>1, <1>8, <2>1 DEF TypedTables, total
<1>12. TypedTables'
  BY <1>9, <1>10, <1>11 DEF TypedTables
<1>13. CurrentArray' = B
  BY <1>9, <1>11 DEF CurrentArray
<1>14. \A g \in Nat : Stored(g) => Stored(g)' /\ EntryOf(g)' = EntryOf(g)
  <2>1. ASSUME NEW g \in Nat, Stored(g) PROVE Stored(g)' /\ EntryOf(g)' = EntryOf(g)
    <3>1. TableOf(g) \in 1..nt
      BY <1>1, <2>1, IdsInTables DEF Stored
    <3>2. stores'[TableOf(g)] = stores[TableOf(g)] /\ TableOf(g) <= nt + 1
      BY <1>1, <1>10, <3>1
    <3>. QED
      BY <1>10, <2>1, <3>2 DEF Stored, EntryOf
  <2>. QED
    BY <2>1
<1>15. Layout(n)'
  <2>1. /\ fed_tables'.tables = Len(arrays') /\ Len(arrays') # 0
        /\ nt + 1 >= 1 /\ nt + 1 <= cap /\ cap = Len(B) /\ Len(stores') = nt + 1
    BY <1>1, <1>7, <1>9, <1>10, <1>11
  <2>2. \A t \in 1..cap : B[t].store = IF t <= nt + 1 THEN t ELSE 0
    BY <1>1, <1>2, <1>5, <1>7
  <2>3. Len(stores'[nt + 1]) = 0
    BY <1>10, EmptySeq
  <2>4. /\ B[nt + 1].num_entries = Len(stores'[nt + 1]) /\ Len(stores'[nt + 1]) <= PerTable
        /\ n = ((nt + 1) - 1) * PerTable + Len(stores'[nt + 1])
    <3>1. (nt - 1) * PerTable + PerTable = ((nt + 1) - 1) * PerTable + 0
      BY <1>1, FedAssumption
    <3>. QED
      BY <1>1, <1>3, <1>5, <1>7, <2>3, <3>1, FedAssumption
  <2>5. \A g \in 0..(n - 1) : Stored(g)'
    <3>1. n \in Nat /\ \A g \in 0..(n - 1) : g \in Nat /\ Stored(g)
      <4>1. n \in Nat
        BY LayoutFacts
      <4>. QED
        BY <4>1 DEF Layout
    <3>. QED
      BY <1>14, <3>1
  <2>6. ASSUME NEW a \in 1..(Len(arrays') - 1), NEW t \in 1..Len(arrays'[a])
        PROVE  arrays'[a][t].store = t
    <3>1. a \in 1..(Len(arrays) - 1) /\ a \in 1..m /\ a # m
      BY <1>0, <1>1, <1>9, SMTT(30)
    <3>. QED
      BY <1>9, <3>1 DEF Layout
  <2>. QED
    BY <1>11, <1>13, <2>1, <2>2, <2>4, <2>5, <2>6 DEF Layout
<1>16. Kept
  <2>1. ASSUME NEW a \in 1..Len(arrays), NEW t \in 1..Len(arrays[a]), arrays[a][t].store = t
        PROVE  t \in 1..Len(arrays'[a]) /\ arrays'[a][t].store = t
    <3>1. CASE a = m
      <4>1. t \in 1..cap
        BY <1>1, <3>1
      <4>2. t # nt + 1
        BY <1>1, <1>2, <2>1, <3>1, <4>1
      <4>. QED
        BY <1>7, <1>9, <2>1, <3>1, <4>1, <4>2
    <3>2. CASE a # m
      BY <1>0, <1>9, <2>1, <3>2
    <3>. QED
      BY <3>1, <3>2
  <2>2. \A a \in 1..Len(arrays) : a \in 1..Len(arrays')
    BY <1>0, <1>9
  <2>. QED
    BY <1>14, <2>1, <2>2 DEF Kept
<1>. QED
  BY <1>1, <1>11, <1>12, <1>15, <1>16

\* An entry goes to the next place, which is that of the next global id.
LEMMA AddEntry ==
    ASSUME TypedTables, NEW n, Layout(n), ~is_table_full, NEW u \in Units,
           added[u] \in Nat, add_entry_to_table(u)
    PROVE  /\ TypedTables' /\ Layout(n + 1)' /\ Kept /\ total' = total
           /\ fed_tables'.tables # 0
           /\ EntryOf(n)' = [unit |-> u, local |-> added[u]]
<1>0. PICK nt, m, cap : nt = fed_tables.num_tables /\ m = Len(arrays) /\ cap = fed_tables.capacity
  OBVIOUS
<1>1. /\ nt \in Nat \ {0} /\ cap \in Nat /\ nt <= cap /\ m \in Nat \ {0}
      /\ CurrentArray = arrays[m] /\ arrays[m] \in Seq(Cell) /\ Len(arrays[m]) = cap
      /\ Len(stores) = nt /\ fed_tables.tables = m
      /\ n = (nt - 1) * PerTable + Len(stores[nt]) /\ n \in Nat
      /\ stores[nt] \in Seq(Registered) /\ Len(stores[nt]) \in 0..PerTable
  BY <1>0, LayoutFacts
<1>2. /\ \A t \in 1..cap : arrays[m][t].store = IF t <= nt THEN t ELSE 0
      /\ arrays[m][nt].num_entries = Len(stores[nt])
  BY <1>0, <1>1 DEF Layout
<1>3. Len(stores[nt]) # PerTable /\ InsertionTable = arrays[m][nt]
  BY <1>0, <1>1, <1>2 DEF is_table_full, InsertionTable
<1>4. PICK l \in 0..(PerTable - 1) : l = Len(stores[nt])
  <2>1. PerTable \in Nat \ {0}
    BY FedAssumption
  <2>2. PICK l : l = Len(stores[nt])
    OBVIOUS
  <2>3. l \in 0..PerTable /\ l # PerTable
    BY <1>1, <1>3, <2>2
  <2>4. l \in 0..(PerTable - 1)
    BY <2>1, <2>3
  <2>. QED
    BY <2>2, <2>4
<1>5. nt \in 1..cap /\ nt \in 1..Len(stores) /\ m \in 1..Len(arrays)
  BY <1>0, <1>1
<1>6. PICK e : e = [unit |-> u, local |-> added[u]]
  OBVIOUS
<1>7. e \in Registered
  BY <1>6 DEF Registered
<1>8. PICK s : s = Append(stores[nt], e)
  OBVIOUS
<1>9. /\ s \in Seq(Registered) /\ Len(s) = l + 1 /\ s[l + 1] = e
      /\ \A i \in 1..l : s[i] = stores[nt][i]
  BY <1>1, <1>4, <1>7, <1>8, AppendProperties
<1>10. PICK c : c = [arrays[m][nt] EXCEPT !.num_entries = @ + 1]
  OBVIOUS
<1>11. c \in Cell /\ c.store = nt /\ c.num_entries = l + 1
  <2>1. arrays[m][nt] \in Cell
    BY <1>1, <1>5, ElementOfSeq
  <2>2. arrays[m][nt].store = nt /\ arrays[m][nt].num_entries = l
    BY <1>1, <1>2, <1>4, <1>5
  <2>3. l + 1 \in Nat /\ l \in Nat
    BY <1>4, FedAssumption
  <2>4. c = [num_entries |-> l + 1, store |-> nt]
    BY <1>10, <2>1, <2>2 DEF Cell
  <2>. QED
    BY <1>1, <2>3, <2>4 DEF Cell
<1>12. PICK B : B = [arrays[m] EXCEPT ![nt] = c]
  OBVIOUS
<1>13. /\ B \in Seq(Cell) /\ Len(B) = cap /\ B[nt] = c
       /\ \A t \in 1..cap : t # nt => B[t] = arrays[m][t]
  BY <1>1, <1>5, <1>11, <1>12, ExceptSeq
<1>14. stores' = [stores EXCEPT ![nt] = s] /\ fed_tables' = fed_tables
  <2>1. InsertionTable.store = nt
    BY <1>1, <1>2, <1>3, <1>5
  <2>. QED
    BY <1>6, <1>8, <2>1 DEF add_entry_to_table
<1>15. arrays' = [arrays EXCEPT ![m] = B]
  BY <1>0, <1>1, <1>10, <1>12 DEF add_entry_to_table
<1>16. /\ arrays' \in Seq(Seq(Cell)) /\ Len(arrays') = m
       /\ arrays'[m] = B /\ \A a \in 1..m : a # m => arrays'[a] = arrays[a]
  BY <1>0, <1>5, <1>13, <1>15, ExceptSeq DEF TypedTables
<1>17. /\ stores' \in Seq(Seq(Registered)) /\ Len(stores') = nt
       /\ stores'[nt] = s /\ \A t \in 1..nt : t # nt => stores'[t] = stores[t]
  BY <1>1, <1>5, <1>9, <1>14, ExceptSeq DEF TypedTables
<1>18. TypedTables' /\ total' = total /\ fed_tables'.tables = m
  BY <1>1, <1>14, <1>16, <1>17 DEF TypedTables, total
<1>19. CurrentArray' = B
  BY <1>1, <1>14, <1>16 DEF CurrentArray
<1>20. \A g \in Nat : Stored(g) => Stored(g)' /\ EntryOf(g)' = EntryOf(g)
  <2>1. ASSUME NEW g \in Nat, Stored(g) PROVE Stored(g)' /\ EntryOf(g)' = EntryOf(g)
    <3>1. TableOf(g) \in 1..nt /\ PlaceOf(g) \in Nat /\ PlaceOf(g) >= 1
      BY <1>1, <2>1, IdsInTables, FedAssumption DEF Stored
    <3>2. CASE TableOf(g) # nt
      BY <1>1, <1>17, <2>1, <3>1, <3>2 DEF Stored, EntryOf
    <3>3. CASE TableOf(g) = nt
      <4>1. PlaceOf(g) \in 1..l /\ PlaceOf(g) <= l + 1
        BY <1>4, <2>1, <3>1, <3>3 DEF Stored
      <4>2. PlaceOf(g) <= Len(stores'[TableOf(g)]) /\ TableOf(g) <= Len(stores')
        BY <1>1, <1>9, <1>17, <2>1, <3>1, <3>3, <4>1
      <4>3. stores'[TableOf(g)][PlaceOf(g)] = stores[TableOf(g)][PlaceOf(g)]
        BY <1>9, <1>17, <3>3, <4>1
      <4>. QED
        BY <4>2, <4>3 DEF Stored, EntryOf
    <3>. QED
      BY <3>2, <3>3
  <2>. QED
    BY <2>1
<1>21. TableOf(n) = nt /\ PlaceOf(n) = l + 1
  <2>1. PICK q \in Nat : q = nt - 1
    BY <1>1
  <2>2. n = q * PerTable + l /\ q + 1 = nt
    BY <1>1, <1>4, <2>1
  <2>. QED
    BY <2>2, IdsInTables
<1>22. Stored(n)' /\ EntryOf(n)' = e
  BY <1>1, <1>4, <1>9, <1>17, <1>21 DEF Stored, EntryOf
<1>23. Layout(n + 1)'
  <2>1. /\ fed_tables'.tables = Len(arrays') /\ Len(arrays') # 0
        /\ nt >= 1 /\ cap = Len(B) /\ Len(stores') = nt
    BY <1>1, <1>13, <1>16, <1>17, <1>18
  <2>2. \A t \in 1..cap : B[t].store = IF t <= nt THEN t ELSE 0
    BY <1>1, <1>2, <1>11, <1>13, SMTT(30)
  <2>3. /\ B[nt].num_entries = Len(stores'[nt]) /\ Len(stores'[nt]) <= PerTable
    BY <1>4, <1>9, <1>11, <1>13, <1>17, FedAssumption
  <2>4. n + 1 = (nt - 1) * PerTable + Len(stores'[nt])
    <3>1. PICK p \in Int : p = (nt - 1) * PerTable
      BY <1>1, FedAssumption
    <3>2. n = p + l /\ Len(stores'[nt]) = l + 1
      BY <1>1, <1>4, <1>9, <1>17, <3>1
    <3>3. n + 1 = p + (l + 1)
      BY <1>4, <3>1, <3>2
    <3>. QED
      BY <3>1, <3>2, <3>3
  <2>5. \A g \in 0..((n + 1) - 1) : Stored(g)'
    <3>1. \A g \in 0..((n + 1) - 1) : g \in Nat /\ (g = n \/ g \in 0..(n - 1))
      BY <1>1
    <3>2. \A g \in 0..(n - 1) : Stored(g)
      BY DEF Layout
    <3>. QED
      BY <1>20, <1>22, <3>1, <3>2
  <2>6. ASSUME NEW a \in 1..(Len(arrays') - 1), NEW t \in 1..Len(arrays'[a])
        PROVE  arrays'[a][t].store = t
    <3>1. a \in 1..(Len(arrays) - 1) /\ a \in 1..m /\ a # m
      BY <1>0, <1>1, <1>16, SMTT(30)
    <3>. QED
      BY <1>16, <3>1 DEF Layout
  <2>7. fed_tables'.num_tables = nt /\ fed_tables'.capacity = cap
    BY <1>0, <1>14
  <2>. QED
    BY <1>1, <1>19, <2>1, <2>2, <2>3, <2>4, <2>5, <2>6, <2>7 DEF Layout
<1>24. Kept
  <2>1. ASSUME NEW a \in 1..Len(arrays), NEW t \in 1..Len(arrays[a]), arrays[a][t].store = t
        PROVE  t \in 1..Len(arrays'[a]) /\ arrays'[a][t].store = t
    <3>1. CASE a = m
      BY <1>1, <1>11, <1>13, <1>16, <2>1, <3>1
    <3>2. CASE a # m
      BY <1>0, <1>16, <2>1, <3>2
    <3>. QED
      BY <3>1, <3>2
  <2>2. \A a \in 1..Len(arrays) : a \in 1..Len(arrays')
    BY <1>0, <1>16
  <2>. QED
    BY <1>20, <2>1, <2>2 DEF Kept
<1>. QED
  BY <1>1, <1>6, <1>18, <1>22, <1>23, <1>24

\* The first table is there before the first entry.
LEMMA InitializeTables ==
    ASSUME TypedTables, arrays = <<>>, stores = <<>>, total = 0, initialize_fed_tables
    PROVE  TypedTables' /\ Layout(0)' /\ Kept /\ total' = 0 /\ fed_tables'.tables # 0
<1>1. Capacity \in Nat \ {0} /\ PerTable \in Nat \ {0}
  BY FedAssumption
<1>2. PICK c : c = [num_entries |-> 0, store |-> 1]
  OBVIOUS
<1>3. c \in Cell /\ EmptyCell \in Cell /\ c.store = 1 /\ c.num_entries = 0 /\ EmptyCell.store = 0
  BY <1>2 DEF Cell, EmptyCell
<1>4. PICK B : B = [calloc(Capacity) EXCEPT ![1] = c]
  OBVIOUS
<1>5. /\ B \in [1..Capacity -> Cell] /\ B[1] = c
      /\ \A t \in 1..Capacity : t # 1 => B[t] = EmptyCell
  BY <1>1, <1>3, <1>4 DEF calloc
<1>6. B \in Seq(Cell) /\ Len(B) = Capacity
  BY <1>1, <1>5, FunctionIsSeq
<1>7. /\ arrays' = <<B>> /\ stores' = << <<>> >>
      /\ fed_tables' = [num_tables |-> 1, capacity |-> Capacity,
                        num_total_entries |-> 0, tables |-> 1]
  BY <1>2, <1>4 DEF initialize_fed_tables
<1>8. /\ arrays' \in Seq(Seq(Cell)) /\ Len(arrays') = 1 /\ arrays'[1] = B
      /\ stores' \in Seq(Seq(Registered)) /\ Len(stores') = 1 /\ stores'[1] = <<>>
  <2>1. <<>> \in Seq(Registered)
    BY EmptySeq
  <2>. QED
    BY <1>6, <1>7, <2>1
<1>9. TypedTables' /\ total' = 0 /\ fed_tables'.tables = 1
  BY <1>1, <1>7, <1>8 DEF TypedTables, total
<1>10. CurrentArray' = B
  BY <1>7, <1>8 DEF CurrentArray
<1>11. Layout(0)'
  <2>1. \A t \in 1..Capacity : B[t].store = IF t <= 1 THEN t ELSE 0
    BY <1>3, <1>5
  <2>2. Len(stores'[1]) = 0
    BY <1>8, EmptySeq
  <2>3. 0 = (1 - 1) * PerTable + 0
    BY <1>1
  <2>4. \A g : ~(g \in 0..(0 - 1)) /\ ~(g \in 1..(1 - 1))
    OBVIOUS
  <2>5. fed_tables'.num_tables = 1 /\ fed_tables'.capacity = Capacity
    BY <1>7
  <2>. QED
    BY <1>1, <1>3, <1>5, <1>6, <1>8, <1>9, <1>10, <2>1, <2>2, <2>3, <2>4, <2>5 DEF Layout
<1>12. Kept
  <2>1. Len(stores) = 0 /\ Len(arrays) = 0
    OBVIOUS
  <2>2. \A g \in Nat : ~Stored(g)
    BY <2>1, IdsInTables DEF Stored
  <2>3. \A a : ~(a \in 1..Len(arrays))
    BY <2>1
  <2>. QED
    BY <2>2, <2>3 DEF Kept
<1>. QED
  BY <1>9, <1>11, <1>12

-----------------------------------------------------------------------------
(***************************************************************************)
(* Every step keeps the invariant.                                         *)
(***************************************************************************)

\* The entries that were counted or added are stored.
LEMMA StoredNow ==
    ASSUME FedInv, fed_tables.tables # 0
    PROVE  /\ \A g \in Nat : g < total => Stored(g)
           /\ \A u \in Units : \A k \in 0..(added[u] - 1) :
                 Base(u) + k \in Nat /\ Stored(Base(u) + k)
<1>1. TypedTables /\ total \in Nat /\ \A u \in Units : added[u] \in Nat /\ pc[u] \in Places
  BY DEF FedInv, FedTypeOK, TypedTables, total
<1>2. PICK n \in Nat : /\ Layout(n) /\ total <= n
                       /\ \A u \in Units : pc[u] = "add" => n = total + added[u]
  <2>1. CASE \E u \in Units : pc[u] = "add"
    <3>1. PICK u \in Units : pc[u] = "add"
      BY <2>1
    <3>2. Layout(total + added[u]) /\ total + added[u] \in Nat /\ total <= total + added[u]
      BY <1>1, <3>1 DEF FedInv, Tables
    <3>3. \A v \in Units : pc[v] = "add" => v = u
      BY <3>1 DEF FedInv, Exclusive, InLock
    <3>. QED
      BY <3>2, <3>3
  <2>2. CASE ~\E u \in Units : pc[u] = "add"
    <3>1. Layout(total)
      BY <2>2 DEF FedInv, Tables
    <3>. QED
      BY <1>1, <2>2, <3>1
  <2>. QED
    BY <2>1, <2>2
<1>3. \A g \in Nat : g < n => Stored(g)
  <2>1. \A g \in 0..(n - 1) : Stored(g)
    BY <1>2 DEF Layout
  <2>. QED
    BY <1>2, <2>1
<1>4. ASSUME NEW u \in Units, NEW k \in 0..(added[u] - 1)
      PROVE  Base(u) + k \in Nat /\ Base(u) + k < n
  <2>1. /\ NumEntries[u] \in Nat /\ added[u] \in Nat /\ k \in Nat /\ k < added[u]
    BY <1>1, FedAssumption
  <2>2. pc[u] \notin {"start", "tables"}
    BY <2>1 DEF FedInv, Progress
  <2>3. CASE pc[u] = "add"
    BY <1>1, <1>2, <2>1, <2>3 DEF Base
  <2>4. CASE pc[u] = "ids"
    <3>1. Base(u) = total - NumEntries[u] /\ NumEntries[u] <= total /\ added[u] = NumEntries[u]
      BY <2>4 DEF FedInv, Progress, Base
    <3>. QED
      BY <1>1, <1>2, <2>1, <3>1
  <2>5. CASE pc[u] \in {"objects", "tool", "release", "done"}
    <3>1. /\ Base(u) = id_base[u] /\ added[u] = NumEntries[u] /\ id_base[u] \in Nat
          /\ id_base[u] + NumEntries[u] <= total
      BY <2>5 DEF FedInv, Progress, Base
    <3>. QED
      BY <1>1, <1>2, <2>1, <3>1
  <2>. QED
    BY <1>1, <2>2, <2>3, <2>4, <2>5 DEF Places
<1>. QED
  BY <1>1, <1>2, <1>3, <1>4

\* A lookup in progress stays right while tables grow.
LEMMA ReadersKept ==
    ASSUME FedInv, reader' = reader, Kept, total' \in Nat, total <= total',
           fed_tables'.tables # 0
    PROVE  \A r \in Readers : ReaderOK(r)'
<1>. SUFFICES ASSUME NEW r \in Readers PROVE ReaderOK(r)'
  OBVIOUS
<1>1. /\ ReaderOK(r) /\ reader[r].id \in Nat /\ total \in Nat
      /\ reader[r].at \in ReaderPlaces
  BY DEF FedInv, FedTypeOK, total
<1>2. PICK l : l = reader[r] /\ l = reader'[r]
  OBVIOUS
<1>3. l.id < total => l.id < total'
  BY <1>1, <1>2
<1>4. ASSUME l.at = "cell"
      PROVE  /\ l.tables \in 1..Len(arrays')
             /\ TableOf(l.id) <= Len(arrays'[l.tables])
             /\ arrays'[l.tables][TableOf(l.id)].store = TableOf(l.id)
  <2>1. /\ l.tables \in 1..Len(arrays) /\ TableOf(l.id) <= Len(arrays[l.tables])
        /\ arrays[l.tables][TableOf(l.id)].store = TableOf(l.id)
    BY <1>1, <1>2, <1>4 DEF ReaderOK
  <2>2. TableOf(l.id) \in 1..Len(arrays[l.tables])
    <3>1. arrays[l.tables] \in Seq(Cell)
      BY <2>1, ElementOfSeq DEF FedInv, FedTypeOK
    <3>2. Len(arrays[l.tables]) \in Nat
      BY <3>1, LenProperties
    <3>3. TableOf(l.id) \in Nat /\ TableOf(l.id) >= 1
      BY <1>1, <1>2, IdsInTables
    <3>. QED
      BY <2>1, <3>2, <3>3
  <2>3. /\ l.tables \in 1..Len(arrays')
        /\ TableOf(l.id) \in 1..Len(arrays'[l.tables])
        /\ arrays'[l.tables][TableOf(l.id)].store = TableOf(l.id)
    BY <2>1, <2>2 DEF Kept
  <2>4. TableOf(l.id) <= Len(arrays'[l.tables])
    BY <2>3
  <2>. QED
    BY <2>3, <2>4
<1>5. ASSUME l.at = "answered", l.entry # Null
      PROVE  l.id < total' /\ l.entry = EntryOf(l.id)'
  <2>1. l.id < total /\ l.entry = EntryOf(l.id) /\ fed_tables.tables # 0 /\ l.id \in Nat
    BY <1>1, <1>2, <1>5 DEF ReaderOK
  <2>2. Stored(l.id)
    BY <2>1, StoredNow
  <2>. QED
    BY <1>3, <2>1, <2>2 DEF Kept
<1>. QED
  BY <1>1, <1>2, <1>3, <1>4, <1>5 DEF ReaderOK

\* Steps that change no table, in terms of what they leave alone.
Quiet == UNCHANGED <<fed_tables, arrays, stores>>

\* They keep the layout of the tables and what is registered in them.
LEMMA QuietKept ==
    ASSUME Quiet
    PROVE  /\ Kept /\ total' = total
           /\ \A g : EntryOf(g)' = EntryOf(g)
           /\ \A n : Layout(n)' <=> Layout(n)
<1>1. /\ fed_tables' = fed_tables /\ arrays' = arrays /\ stores' = stores
      /\ CurrentArray' = CurrentArray
  BY DEF Quiet, CurrentArray
<1>2. \A g : (Stored(g)' <=> Stored(g)) /\ EntryOf(g)' = EntryOf(g)
  BY <1>1 DEF Stored, EntryOf
<1>3. ASSUME NEW n PROVE Layout(n)' <=> Layout(n)
  BY <1>1, <1>2 DEF Layout
<1>4. Kept
  BY <1>1, <1>2 DEF Kept
<1>. QED
  BY <1>1, <1>2, <1>3, <1>4 DEF total

\* A loading thread that goes on without touching a table.
LEMMA QuietPhase ==
    ASSUME FedInv, Quiet, UNCHANGED <<added, reader>>, NEW u \in Units, NEW p,
           pc' = [pc EXCEPT ![u] = p], pc[u] # "add", p # "add",
           fed_tables.tables = 0 => p = "tables",
           \A v \in Units : v # u => id_base'[v] = id_base[v],
           added[u] > 0 => Base(u)' = Base(u)
    PROVE  Tables' /\ Contents' /\ (\A r \in Readers : ReaderOK(r)')
<1>0. pc \in [Units -> Places] /\ total \in Nat /\ \A v \in Units : added[v] \in Nat
  BY DEF FedInv, FedTypeOK, total
<1>1. pc'[u] = p /\ \A v \in Units : v # u => pc'[v] = pc[v]
  BY <1>0
<1>2. \A v \in Units : (pc'[v] = "add" <=> pc[v] = "add")
  BY <1>1
<1>3. Tables'
  <2>1. CASE fed_tables.tables = 0
    <3>1. NoTables
      BY <2>1 DEF FedInv, Tables
    <3>2. \A v \in Units : pc'[v] \in {"start", "tables"}
      BY <1>1, <2>1, <3>1 DEF NoTables
    <3>3. NoTables'
      BY <3>1, <3>2 DEF NoTables, Quiet, total
    <3>. QED
      BY <2>1, <3>3 DEF Tables, Quiet
  <2>2. CASE fed_tables.tables # 0
    <3>1. /\ \A v \in Units : pc[v] = "add" => Layout(total + added[v])
          /\ (\A v \in Units : pc[v] # "add") => Layout(total)
      BY <2>2 DEF FedInv, Tables
    <3>2. total' = total /\ added' = added /\ \A n : Layout(n) => Layout(n)'
      BY QuietKept
    <3>3. \A v \in Units : pc'[v] = "add" => Layout(total + added[v])'
      BY <1>2, <3>1, <3>2
    <3>4. (\A v \in Units : pc'[v] # "add") => Layout(total)'
      BY <1>2, <3>1, <3>2
    <3>5. fed_tables'.tables # 0
      BY <2>2 DEF Quiet
    <3>. QED
      BY <3>3, <3>4, <3>5 DEF Tables
  <2>. QED
    BY <2>1, <2>2
<1>4. Contents'
  <2>1. ASSUME NEW v \in Units, NEW k \in 0..(added[v] - 1)
        PROVE  EntryOf(Base(v) + k)' = [unit |-> v, local |-> k]
    <3>1. Base(v)' = Base(v)
      <4>1. CASE v = u
        <5>1. added[u] > 0
          BY <1>0, <4>1
        <5>. QED
          BY <4>1, <5>1
      <4>2. CASE v # u
        BY <1>1, <4>2, QuietKept DEF Base
      <4>. QED
        BY <4>1, <4>2
    <3>2. EntryOf(Base(v) + k) = [unit |-> v, local |-> k]
      BY DEF FedInv, Contents
    <3>3. stores' = stores
      BY DEF Quiet
    <3>. QED
      BY <3>1, <3>2, <3>3 DEF EntryOf, TableOf, PlaceOf
  <2>. QED
    BY <2>1 DEF Contents
<1>5. ASSUME NEW r \in Readers PROVE ReaderOK(r)'
  <2>1. ReaderOK(r)
    BY DEF FedInv
  <2>2. /\ total' = total /\ fed_tables' = fed_tables /\ arrays' = arrays /\ stores' = stores
    BY DEF Quiet, total
  <2>. QED
    BY <2>1, <2>2 DEF ReaderOK, EntryOf, TableOf, PlaceOf
<1>. QED
  BY <1>3, <1>4, <1>5

\* A unit that holds the lock is the only one.
LEMMA OnlyOne ==
    ASSUME FedInv, NEW u \in Units, InLock(u)
    PROVE  /\ lock # 0
           /\ \A v \in Units : v # u => pc[v] \in {"start", "done"}
<1>1. \A v \in Units : pc[v] \in Places /\ (InLock(v) => v = u)
  BY DEF FedInv, FedTypeOK, Exclusive
<1>. QED
  BY <1>1 DEF FedInv, Exclusive, InLock

\* A turn of the loop that adds a unit's entries.
LEMMA AddStep == ASSUME FedInv, NEW u \in Units, add_fed_entry(u) PROVE FedInv'
<1>1. /\ pc[u] = "add" /\ added[u] < NumEntries[u]
      /\ UNCHANGED <<lock, obj_entries, pc_cap, pc, id_base, reader>>
      /\ \/ is_table_full /\ grow_index /\ UNCHANGED added
         \/ is_table_full /\ append_table /\ UNCHANGED added
         \/ /\ ~is_table_full /\ add_entry_to_table(u)
            /\ added' = [added EXCEPT ![u] = @ + 1]
  BY DEF add_fed_entry
<1>2. /\ TypedTables /\ total \in Nat /\ added \in [Units -> Nat] /\ pc \in [Units -> Places]
      /\ NumEntries[u] \in Nat
  BY FedAssumption DEF FedInv, FedTypeOK, TypedTables, total
<1>3. fed_tables.tables # 0
  BY <1>1 DEF FedInv, Tables, NoTables
<1>4. PICK n \in Nat : n = total + added[u] /\ Layout(n)
  <2>1. Layout(total + added[u]) /\ total + added[u] \in Nat
    BY <1>1, <1>2, <1>3 DEF FedInv, Tables
  <2>. QED
    BY <2>1
<1>5. \A v \in Units : v # u => pc[v] \in {"start", "done"}
  BY <1>1, OnlyOne DEF InLock
<1>6. /\ TypedTables' /\ Kept /\ total' = total /\ fed_tables'.tables # 0
      /\ \/ UNCHANGED added /\ Layout(n)'
         \/ /\ added' = [added EXCEPT ![u] = @ + 1] /\ Layout(n + 1)'
            /\ EntryOf(n)' = [unit |-> u, local |-> added[u]]
  <2>1. CASE is_table_full /\ grow_index /\ UNCHANGED added
    BY <1>2, <1>4, <2>1, GrowIndex
  <2>2. CASE is_table_full /\ append_table /\ UNCHANGED added
    BY <1>2, <1>4, <2>2, AppendTable
  <2>3. CASE /\ ~is_table_full /\ add_entry_to_table(u)
             /\ added' = [added EXCEPT ![u] = @ + 1]
    BY <1>2, <1>4, <2>3, AddEntry
  <2>. QED
    BY <1>1, <2>1, <2>2, <2>3
<1>7. /\ added' \in [Units -> Nat] /\ \A v \in Units : v # u => added'[v] = added[v]
      /\ added'[u] <= NumEntries[u] /\ Layout(total + added[u])'
      /\ \A k \in 0..(added'[u] - 1) : k \in 0..(added[u] - 1) \/
            (k = added[u] /\ EntryOf(n)' = [unit |-> u, local |-> k])
  <2>1. CASE UNCHANGED added /\ Layout(n)'
    <3>1. total' + added'[u] = n
      BY <1>4, <1>6, <2>1
    <3>. QED
      BY <1>1, <1>2, <1>6, <2>1, <3>1
  <2>2. CASE /\ added' = [added EXCEPT ![u] = @ + 1] /\ Layout(n + 1)'
             /\ EntryOf(n)' = [unit |-> u, local |-> added[u]]
    <3>1. /\ added' \in [Units -> Nat] /\ \A v \in Units : v # u => added'[v] = added[v]
          /\ added'[u] = added[u] + 1 /\ added[u] \in Nat
      BY <1>2, <2>2
    <3>2. total' + added'[u] = n + 1
      BY <1>2, <1>4, <1>6, <3>1
    <3>3. added'[u] <= NumEntries[u]
      BY <1>1, <1>2, <3>1
    <3>4. \A k \in 0..(added'[u] - 1) : k \in 0..(added[u] - 1) \/ k = added[u]
      BY <3>1
    <3>. QED
      BY <2>2, <3>1, <3>2, <3>3, <3>4
  <2>. QED
    BY <1>6, <2>1, <2>2
<1>8. FedTypeOK'
  BY <1>1, <1>6, <1>7 DEF FedInv, FedTypeOK, TypedTables
<1>9. Exclusive'
  BY <1>1 DEF FedInv, Exclusive, InLock
<1>10. Progress'
  <2>1. \A v \in Units : v # u => pc'[v] \in {"start", "done"} /\ added'[v] = added[v]
    BY <1>1, <1>5, <1>7
  <2>. QED
    BY <1>1, <1>6, <1>7, <2>1 DEF FedInv, Progress, total
<1>11. Tables'
  BY <1>1, <1>5, <1>6, <1>7 DEF Tables
<1>12. Contents'
  <2>1. ASSUME NEW v \in Units, NEW k \in 0..(added'[v] - 1)
        PROVE  EntryOf(Base(v) + k)' = [unit |-> v, local |-> k]
    <3>1. Base(v)' = Base(v)
      BY <1>1, <1>6 DEF Base
    <3>2. CASE k \in 0..(added[v] - 1)
      <4>1. PICK g \in Nat : g = Base(v) + k /\ Stored(g)
        BY <1>3, <3>2, StoredNow
      <4>2. EntryOf(g) = [unit |-> v, local |-> k]
        BY <3>2, <4>1 DEF FedInv, Contents
      <4>3. EntryOf(g)' = [unit |-> v, local |-> k]
        BY <1>6, <4>1, <4>2 DEF Kept
      <4>. QED
        BY <3>1, <4>1, <4>3
    <3>3. CASE k \notin 0..(added[v] - 1)
      <4>1. v = u /\ k = added[u] /\ EntryOf(n)' = [unit |-> u, local |-> k]
        BY <1>7, <3>3
      <4>2. Base(u) = total
        BY <1>1 DEF Base
      <4>3. Base(v)' + k = n
        BY <1>4, <3>1, <4>1, <4>2
      <4>. QED
        BY <4>1, <4>3
    <3>. QED
      BY <3>2, <3>3
  <2>. QED
    BY <2>1 DEF Contents
<1>13. Objects' /\ PcTable'
  BY <1>1, <1>6 DEF FedInv, Objects, PcTable, Behind
<1>14. \A r \in Readers : ReaderOK(r)'
  BY <1>1, <1>2, <1>6, ReadersKept
<1>. QED
  BY <1>8, <1>9, <1>10, <1>11, <1>12, <1>13, <1>14 DEF FedInv

\* The unit's entries are counted.
LEMMA TotalStep == ASSUME FedInv, NEW u \in Units, add_fed_total(u) PROVE FedInv'
<1>1. /\ pc[u] = "add" /\ added[u] = NumEntries[u]
      /\ fed_tables' = [fed_tables EXCEPT !.num_total_entries = @ + NumEntries[u]]
      /\ pc' = [pc EXCEPT ![u] = "ids"]
      /\ UNCHANGED <<lock, arrays, stores, obj_entries, pc_cap, added, id_base, reader>>
  BY DEF add_fed_total
<1>2. /\ fed_tables \in [num_tables : Nat, capacity : Nat, num_total_entries : Nat,
                         tables : Nat]
      /\ total \in Nat /\ pc \in [Units -> Places] /\ NumEntries[u] \in Nat
      /\ \A v \in Units : added[v] \in Nat /\ NumEntries[v] \in Nat
  BY FedAssumption DEF FedInv, FedTypeOK, total
<1>3. /\ fed_tables'.num_tables = fed_tables.num_tables
      /\ fed_tables'.capacity = fed_tables.capacity
      /\ fed_tables'.tables = fed_tables.tables
      /\ total' = total + NumEntries[u] /\ total' \in Nat
      /\ fed_tables' \in [num_tables : Nat, capacity : Nat, num_total_entries : Nat,
                          tables : Nat]
  BY <1>1, <1>2 DEF total
<1>4. pc'[u] = "ids" /\ \A v \in Units : v # u => pc'[v] = pc[v]
  BY <1>1, <1>2
<1>5. \A v \in Units : v # u => pc[v] \in {"start", "done"}
  BY <1>1, OnlyOne DEF InLock
<1>6. fed_tables.tables # 0
  BY <1>1 DEF FedInv, Tables, NoTables
<1>7. PICK n : n = total + added[u] /\ Layout(n) /\ n = total'
  BY <1>1, <1>3, <1>6 DEF FedInv, Tables
<1>8. \A g : (Stored(g)' <=> Stored(g)) /\ EntryOf(g)' = EntryOf(g)
  BY <1>1 DEF Stored, EntryOf
<1>9. Layout(n)'
  <2>1. CurrentArray' = CurrentArray
    BY <1>1, <1>3 DEF CurrentArray
  <2>. QED
    BY <1>1, <1>3, <1>7, <1>8, <2>1 DEF Layout
<1>10. FedTypeOK'
  <2>1. pc' \in [Units -> Places]
    BY <1>1, <1>2 DEF Places
  <2>. QED
    BY <1>1, <1>3, <2>1 DEF FedInv, FedTypeOK
<1>11. Exclusive'
  <2>1. \A v \in Units : (InLock(v)' <=> InLock(v))
    BY <1>1, <1>4 DEF InLock
  <2>. QED
    BY <1>1, <2>1 DEF FedInv, Exclusive
<1>12. Progress'
  <2>1. ASSUME NEW v \in Units, v # u
        PROVE  /\ pc'[v] = pc[v] /\ pc[v] \in {"start", "done"} /\ added'[v] = added[v]
               /\ id_base'[v] = id_base[v]
               /\ pc[v] = "done" => id_base[v] \in Nat /\ id_base[v] + NumEntries[v] <= total'
    <3>1. pc[v] = "done" => id_base[v] \in Nat /\ id_base[v] + NumEntries[v] <= total
      BY DEF FedInv, Progress
    <3>. QED
      BY <1>1, <1>2, <1>3, <1>4, <1>5, <2>1, <3>1
  <2>2. id_base'[u] = -1 /\ added'[u] = NumEntries[u] /\ NumEntries[u] <= total'
    BY <1>1, <1>2, <1>3 DEF FedInv, Progress
  <2>. QED
    BY <1>4, <2>1, <2>2 DEF FedInv, Progress
<1>13. Tables'
  BY <1>3, <1>4, <1>5, <1>6, <1>7, <1>9 DEF Tables
<1>14. Contents'
  <2>1. ASSUME NEW v \in Units, NEW k \in 0..(added[v] - 1)
        PROVE  EntryOf(Base(v) + k)' = [unit |-> v, local |-> k]
    <3>1. Base(v)' = Base(v)
      <4>1. CASE v = u
        BY <1>1, <1>2, <1>3, <1>4, <4>1 DEF Base
      <4>2. CASE v # u
        BY <1>1, <1>4, <1>5, <4>2 DEF Base
      <4>. QED
        BY <4>1, <4>2
    <3>2. EntryOf(Base(v) + k) = [unit |-> v, local |-> k]
      BY DEF FedInv, Contents
    <3>. QED
      BY <1>1, <3>1, <3>2 DEF EntryOf, TableOf, PlaceOf
  <2>. QED
    BY <1>1, <2>1 DEF Contents
<1>15. Objects' /\ PcTable'
  <2>1. Len(obj_entries) = total /\ pc_cap = total
    BY <1>1, <1>5 DEF FedInv, Objects, PcTable, Behind
  <2>2. total = total' - NumEntries[u]
    BY <1>2, <1>3
  <2>3. Behind({"ids", "objects"}, Len(obj_entries))'
    BY <1>4, <1>5, <2>1, <2>2, <1>1 DEF Behind
  <2>4. Behind({"ids", "objects", "tool"}, pc_cap)'
    BY <1>4, <1>5, <2>1, <2>2, <1>1 DEF Behind
  <2>5. \A v \in Units : pc'[v] \in {"tool", "release", "done"} => pc'[v] = pc[v]
    BY <1>4
  <2>. QED
    BY <1>1, <2>3, <2>4, <2>5 DEF FedInv, Objects, PcTable
<1>16. \A r \in Readers : ReaderOK(r)'
  <2>1. Kept
    BY <1>1, <1>8 DEF Kept
  <2>2. total <= total'
    BY <1>2, <1>3
  <2>. QED
    BY <1>1, <1>3, <1>6, <2>1, <2>2, ReadersKept
<1>. QED
  BY <1>10, <1>11, <1>12, <1>13, <1>14, <1>15, <1>16 DEF FedInv

\* A unit is alone when it creates the tables or finds them there.
LEMMA ReadyStep == ASSUME FedInv, NEW u \in Units, tables_ready(u) PROVE FedInv'
<1>1. /\ pc[u] = "tables" /\ pc' = [pc EXCEPT ![u] = "add"]
      /\ initialize_fed_tables \/ (fed_tables.tables # 0 /\ Quiet)
      /\ UNCHANGED <<lock, obj_entries, pc_cap, added, id_base, reader>>
  BY DEF tables_ready, tablevars, Quiet
<1>2. /\ TypedTables /\ total \in Nat /\ pc \in [Units -> Places]
      /\ \A v \in Units : added[v] \in Nat /\ NumEntries[v] \in Nat
  BY FedAssumption DEF FedInv, FedTypeOK, TypedTables, total
<1>3. pc'[u] = "add" /\ \A v \in Units : v # u => pc'[v] = pc[v]
  BY <1>1, <1>2
<1>4. \A v \in Units : v # u => pc[v] \in {"start", "done"}
  BY <1>1, OnlyOne DEF InLock
<1>5. added[u] = 0 /\ id_base[u] = -1
  BY <1>1 DEF FedInv, Progress
<1>6. /\ TypedTables' /\ Kept /\ total' = total /\ fed_tables'.tables # 0 /\ Layout(total)'
      /\ (\A r \in Readers : ReaderOK(r)')
  <2>1. CASE initialize_fed_tables
    <3>1. fed_tables.tables = 0
      BY <2>1 DEF initialize_fed_tables
    <3>2. NoTables
      BY <3>1 DEF FedInv, Tables
    <3>3. TypedTables' /\ Layout(0)' /\ Kept /\ total' = 0 /\ fed_tables'.tables # 0
      BY <1>2, <2>1, <3>2, InitializeTables DEF NoTables
    <3>4. total = 0 /\ \A r \in Readers : reader'[r].at = "idle"
      BY <1>1, <3>2 DEF NoTables
    <3>5. \A r \in Readers : ReaderOK(r)'
      BY <3>4 DEF ReaderOK
    <3>. QED
      BY <3>3, <3>4, <3>5
  <2>2. CASE fed_tables.tables # 0 /\ Quiet
    <3>1. Layout(total)
      BY <1>1, <1>4, <2>2 DEF FedInv, Tables
    <3>2. Kept /\ total' = total /\ Layout(total)'
      BY <2>2, <3>1, QuietKept
    <3>3. fed_tables'.tables # 0 /\ TypedTables'
      BY <1>2, <2>2 DEF TypedTables, Quiet
    <3>4. \A r \in Readers : ReaderOK(r)'
      BY <1>1, <1>2, <3>2, <3>3, ReadersKept
    <3>. QED
      BY <3>2, <3>3, <3>4
  <2>. QED
    BY <1>1, <2>1, <2>2
<1>7. FedTypeOK'
  <2>1. pc' \in [Units -> Places]
    BY <1>1, <1>2 DEF Places
  <2>. QED
    BY <1>1, <1>6, <2>1 DEF FedInv, FedTypeOK, TypedTables
<1>8. Exclusive'
  <2>1. \A v \in Units : (InLock(v)' <=> InLock(v))
    BY <1>1, <1>3 DEF InLock
  <2>. QED
    BY <1>1, <2>1 DEF FedInv, Exclusive
<1>9. Progress'
  <2>1. added'[u] = 0 /\ id_base'[u] = -1 /\ NumEntries[u] \in Nat
    BY <1>1, <1>2, <1>5
  <2>2. \A v \in Units : v # u => pc'[v] \in {"start", "done"} /\ pc'[v] = pc[v]
    BY <1>3, <1>4
  <2>. QED
    BY <1>1, <1>3, <1>6, <2>1, <2>2 DEF FedInv, Progress, total
<1>10. Tables'
  <2>1. PICK n : n = total /\ n = total + added[u]
    BY <1>2, <1>5
  <2>2. Layout(n)' /\ total' + added'[u] = n
    BY <1>1, <1>6, <2>1
  <2>3. Layout(total + added[u])'
    BY <2>2
  <2>. QED
    BY <1>3, <1>4, <1>6, <2>3 DEF Tables
<1>11. Contents'
  <2>1. ASSUME NEW v \in Units, NEW k \in 0..(added[v] - 1)
        PROVE  EntryOf(Base(v) + k)' = [unit |-> v, local |-> k]
    <3>1. v # u /\ added[v] > 0
      BY <1>2, <1>5
    <3>2. Base(v)' = Base(v)
      BY <1>1, <1>3, <1>4, <3>1 DEF Base
    <3>3. pc[v] = "done"
      BY <1>4, <3>1 DEF FedInv, Progress
    <3>4. fed_tables.tables # 0
      BY <3>3 DEF FedInv, Tables, NoTables
    <3>5. PICK g \in Nat : g = Base(v) + k /\ Stored(g)
      BY <3>4, StoredNow
    <3>6. EntryOf(g) = [unit |-> v, local |-> k]
      BY <3>5 DEF FedInv, Contents
    <3>7. EntryOf(g)' = [unit |-> v, local |-> k]
      BY <1>6, <3>5, <3>6 DEF Kept
    <3>. QED
      BY <3>2, <3>5, <3>7
  <2>. QED
    BY <1>1, <2>1 DEF Contents
<1>12. Objects' /\ PcTable'
  <2>1. \A v \in Units : pc'[v] = pc[v] \/ (pc[v] = "tables" /\ pc'[v] = "add")
    BY <1>1, <1>3
  <2>. QED
    BY <1>1, <1>6, <2>1 DEF FedInv, Objects, PcTable, Behind
<1>. QED
  BY <1>6, <1>7, <1>8, <1>9, <1>10, <1>11, <1>12 DEF FedInv

\* The steps of a loading thread that change no FED table.
LEMMA OtherSteps ==
    ASSUME FedInv, NEW u \in Units,
           acquire(u) \/ update_ids(u) \/ add_obj_table(u) \/ unit_init(u) \/ release(u)
    PROVE  FedInv'
<1>1. /\ TypedTables /\ total \in Nat /\ pc \in [Units -> Places] /\ NumEntries[u] \in Nat
      /\ id_base \in [Units -> Int] /\ pc_cap \in Nat /\ obj_entries \in Seq(Registered)
      /\ \A v \in Units : added[v] \in Nat /\ NumEntries[v] \in Nat
  BY FedAssumption DEF FedInv, FedTypeOK, TypedTables, total
<1>2. Quiet /\ UNCHANGED <<added, reader>>
  BY DEF acquire, update_ids, add_obj_table, unit_init, release, tablevars, Quiet
<1>3. /\ total' = total /\ fed_tables' = fed_tables /\ added' = added /\ TypedTables'
  BY <1>1, <1>2 DEF Quiet, total, TypedTables
<1>4. NoTables => pc[u] \in {"start", "tables"}
  BY DEF NoTables
<1>5. fed_tables.tables = 0 => NoTables
  BY DEF FedInv, Tables
<1>6. CASE acquire(u)
  <2>1. /\ pc[u] = "start" /\ lock = 0 /\ lock' = 1 /\ pc' = [pc EXCEPT ![u] = "tables"]
        /\ UNCHANGED <<obj_entries, pc_cap, id_base>>
    BY <1>6 DEF acquire
  <2>2. pc'[u] = "tables" /\ \A v \in Units : v # u => pc'[v] = pc[v]
    BY <1>1, <2>1
  <2>3. \A v \in Units : ~InLock(v)
    BY <2>1 DEF FedInv, Exclusive
  <2>4. added[u] = 0
    BY <2>1 DEF FedInv, Progress
  <2>5. Tables' /\ Contents' /\ (\A r \in Readers : ReaderOK(r)')
    <3>1. ~(added[u] > 0) /\ "tables" # "add" /\ pc[u] # "add"
      BY <2>1, <2>4
    <3>2. \A v \in Units : v # u => id_base'[v] = id_base[v]
      BY <2>1
    <3>. QED
      BY <1>2, <2>1, <3>1, <3>2, QuietPhase
  <2>6. FedTypeOK'
    <3>1. pc' \in [Units -> Places]
      BY <1>1, <2>1 DEF Places
    <3>. QED
      BY <1>2, <1>3, <2>1, <3>1 DEF FedInv, FedTypeOK, TypedTables
  <2>7. Exclusive'
    BY <2>1, <2>2, <2>3 DEF Exclusive, InLock
  <2>8. Progress'
    BY <1>3, <2>1, <2>2 DEF FedInv, Progress
  <2>9. Objects' /\ PcTable'
    <3>1. \A v \in Units : pc'[v] = pc[v] \/ (pc[v] = "start" /\ pc'[v] = "tables")
      BY <2>1, <2>2
    <3>. QED
      BY <1>3, <2>1, <3>1 DEF FedInv, Objects, PcTable, Behind
  <2>. QED
    BY <2>5, <2>6, <2>7, <2>8, <2>9 DEF FedInv
<1>7. CASE update_ids(u)
  <2>1. /\ pc[u] = "ids" /\ id_base' = [id_base EXCEPT ![u] = total - NumEntries[u]]
        /\ pc' = [pc EXCEPT ![u] = "objects"]
        /\ UNCHANGED <<lock, obj_entries, pc_cap>>
    BY <1>7 DEF update_ids, base_before, total
  <2>2. /\ pc'[u] = "objects" /\ \A v \in Units : v # u => pc'[v] = pc[v]
        /\ id_base'[u] = total - NumEntries[u]
        /\ \A v \in Units : v # u => id_base'[v] = id_base[v]
    BY <1>1, <2>1
  <2>3. NumEntries[u] <= total /\ added[u] = NumEntries[u]
    BY <2>1 DEF FedInv, Progress
  <2>4. Base(u)' = Base(u)
    BY <2>1, <2>2 DEF Base
  <2>5. Tables' /\ Contents' /\ (\A r \in Readers : ReaderOK(r)')
    BY <1>2, <1>4, <1>5, <2>1, <2>2, <2>4, QuietPhase
  <2>6. FedTypeOK'
    <3>1. pc' \in [Units -> Places] /\ id_base' \in [Units -> Int]
      BY <1>1, <2>1 DEF Places
    <3>. QED
      BY <1>2, <1>3, <2>1, <3>1 DEF FedInv, FedTypeOK, TypedTables
  <2>7. Exclusive'
    <3>1. \A v \in Units : InLock(v)' <=> InLock(v)
      BY <2>1, <2>2 DEF InLock
    <3>. QED
      BY <2>1, <3>1 DEF FedInv, Exclusive
  <2>8. Progress'
    <3>1. /\ id_base'[u] \in Nat /\ id_base'[u] + NumEntries[u] = total
          /\ id_base'[u] + NumEntries[u] <= total
      BY <1>1, <2>2, <2>3
    <3>. QED
      BY <1>3, <2>2, <2>3, <3>1 DEF FedInv, Progress
  <2>9. Objects' /\ PcTable'
    <3>1. \A v \in Units : \/ pc'[v] = pc[v] /\ id_base'[v] = id_base[v]
                           \/ v = u /\ pc[v] = "ids" /\ pc'[v] = "objects"
      BY <2>1, <2>2
    <3>. QED
      BY <1>3, <2>1, <3>1 DEF FedInv, Objects, PcTable, Behind
  <2>. QED
    BY <2>5, <2>6, <2>7, <2>8, <2>9 DEF FedInv
<1>8. CASE add_obj_table(u)
  <2>0. PICK new : new = [i \in 1..NumEntries[u] |-> [unit |-> u, local |-> i - 1]]
    OBVIOUS
  <2>1. /\ pc[u] = "objects" /\ obj_entries' = obj_entries \o new
        /\ pc' = [pc EXCEPT ![u] = "tool"]
        /\ UNCHANGED <<lock, pc_cap, id_base>>
    BY <1>8, <2>0 DEF add_obj_table
  <2>2. /\ pc'[u] = "tool" /\ \A v \in Units : v # u => pc'[v] = pc[v]
    BY <1>1, <2>1
  <2>3. /\ id_base[u] \in Nat /\ id_base[u] + NumEntries[u] = total
        /\ added[u] = NumEntries[u] /\ Len(obj_entries) = total - NumEntries[u]
    BY <2>1 DEF FedInv, Progress, Objects, Behind
  <2>4. new \in Seq(Registered) /\ Len(new) = NumEntries[u]
    <3>1. new \in [1..NumEntries[u] -> Registered]
      BY <1>1, <2>0 DEF Registered
    <3>. QED
      BY <1>1, <3>1, FunctionIsSeq
  <2>5. /\ obj_entries' \in Seq(Registered) /\ Len(obj_entries') = total
        /\ Len(obj_entries) = id_base[u] /\ Len(obj_entries) \in Nat
        /\ \A i \in 1..total : obj_entries'[i] =
              IF i <= Len(obj_entries) THEN obj_entries[i] ELSE new[i - Len(obj_entries)]
    <3>1. /\ obj_entries' \in Seq(Registered)
          /\ Len(obj_entries') = Len(obj_entries) + Len(new)
          /\ \A i \in 1..Len(obj_entries) + Len(new) : obj_entries'[i] =
                IF i <= Len(obj_entries) THEN obj_entries[i] ELSE new[i - Len(obj_entries)]
      BY <1>1, <2>1, <2>4, ConcatProperties
    <3>2. Len(obj_entries) + Len(new) = total /\ Len(obj_entries) = id_base[u]
      BY <1>1, <2>3, <2>4
    <3>. QED
      BY <2>3, <3>1, <3>2
  <2>6. Base(u)' = Base(u)
    BY <2>1, <2>2 DEF Base
  <2>7. Tables' /\ Contents' /\ (\A r \in Readers : ReaderOK(r)')
    BY <1>2, <1>4, <1>5, <2>1, <2>6, QuietPhase
  <2>8. FedTypeOK'
    <3>1. pc' \in [Units -> Places]
      BY <1>1, <2>1 DEF Places
    <3>. QED
      BY <1>2, <1>3, <2>1, <2>5, <3>1 DEF FedInv, FedTypeOK, TypedTables
  <2>9. Exclusive'
    <3>1. \A v \in Units : InLock(v)' <=> InLock(v)
      BY <2>1, <2>2 DEF InLock
    <3>. QED
      BY <2>1, <3>1 DEF FedInv, Exclusive
  <2>10. Progress'
    <3>1. id_base[u] + NumEntries[u] <= total
      BY <1>1, <2>3
    <3>. QED
      BY <1>3, <2>1, <2>2, <2>3, <3>1 DEF FedInv, Progress
  <2>11. \A v \in Units : v # u => pc'[v] \in {"start", "done"}
    BY <2>1, <2>2, OnlyOne DEF InLock
  <2>12. Objects'
    <3>1. Behind({"ids", "objects"}, Len(obj_entries))'
      BY <1>3, <2>2, <2>5, <2>11 DEF Behind
    <3>2. ASSUME NEW v \in Units, v # u, pc[v] = "done"
          PROVE  /\ id_base[v] + NumEntries[v] <= Len(obj_entries')
                 /\ \A k \in 0..(NumEntries[v] - 1) :
                       obj_entries'[id_base[v] + k + 1] = [unit |-> v, local |-> k]
      <4>1. /\ id_base[v] \in Nat /\ id_base[v] + NumEntries[v] <= Len(obj_entries)
            /\ \A k \in 0..(NumEntries[v] - 1) :
                  obj_entries[id_base[v] + k + 1] = [unit |-> v, local |-> k]
        BY <3>2 DEF FedInv, Progress, Objects
      <4>2. Len(obj_entries) <= total
        BY <1>1, <2>3
      <4>3. id_base[v] + NumEntries[v] <= Len(obj_entries')
        BY <1>1, <2>5, <4>1, <4>2
      <4>4. ASSUME NEW k \in 0..(NumEntries[v] - 1)
            PROVE  obj_entries'[id_base[v] + k + 1] = [unit |-> v, local |-> k]
        <5>1. id_base[v] + k + 1 \in 1..total /\ id_base[v] + k + 1 <= Len(obj_entries)
          BY <1>1, <2>5, <4>1, <4>2, SMTT(30)
        <5>. QED
          BY <2>5, <4>1, <5>1
      <4>. QED
        BY <4>3, <4>4
    <3>3. ASSUME NEW k \in 0..(NumEntries[u] - 1)
          PROVE  obj_entries'[id_base[u] + k + 1] = [unit |-> u, local |-> k]
      <4>1. /\ id_base[u] + k + 1 \in 1..total /\ ~(id_base[u] + k + 1 <= Len(obj_entries))
            /\ (id_base[u] + k + 1) - Len(obj_entries) = k + 1
            /\ k + 1 \in 1..NumEntries[u] /\ (k + 1) - 1 = k
        <5>1. PICK b \in Nat, n \in Nat :
                /\ b = id_base[u] /\ b = Len(obj_entries) /\ n = NumEntries[u]
                /\ b + n = total
          BY <1>1, <2>3, <2>5
        <5>2. /\ b + k + 1 \in 1..(b + n) /\ ~(b + k + 1 <= b) /\ (b + k + 1) - b = k + 1
              /\ k + 1 \in 1..n /\ (k + 1) - 1 = k
          BY <5>1
        <5>. QED
          BY <5>1, <5>2, SMTT(40)
      <4>2. obj_entries'[id_base[u] + k + 1] = new[k + 1]
        BY <2>5, <4>1
      <4>. QED
        BY <2>0, <4>1, <4>2
    <3>4. id_base[u] + NumEntries[u] <= Len(obj_entries')
      BY <1>1, <2>3, <2>5
    <3>. QED
      BY <2>1, <2>2, <2>11, <3>1, <3>2, <3>3, <3>4 DEF Objects
  <2>13. PcTable'
    <3>1. \A v \in Units : \/ pc'[v] = pc[v]
                           \/ v = u /\ pc[v] = "objects" /\ pc'[v] = "tool"
      BY <2>1, <2>2
    <3>. QED
      BY <1>3, <2>1, <3>1 DEF FedInv, PcTable, Behind
  <2>. QED
    BY <2>7, <2>8, <2>9, <2>10, <2>12, <2>13 DEF FedInv
<1>9. CASE unit_init(u)
  <2>1. /\ pc[u] = "tool" /\ pc_cap' = pc_cap + NumEntries[u]
        /\ pc' = [pc EXCEPT ![u] = "release"]
        /\ UNCHANGED <<lock, obj_entries, id_base>>
    BY <1>9 DEF unit_init
  <2>2. pc'[u] = "release" /\ \A v \in Units : v # u => pc'[v] = pc[v]
    BY <1>1, <2>1
  <2>3. Base(u)' = Base(u)
    BY <2>1, <2>2 DEF Base
  <2>4. Tables' /\ Contents' /\ (\A r \in Readers : ReaderOK(r)')
    BY <1>2, <1>4, <1>5, <2>1, <2>3, QuietPhase
  <2>5. FedTypeOK'
    <3>1. pc' \in [Units -> Places] /\ pc_cap' \in Nat
      BY <1>1, <2>1 DEF Places
    <3>. QED
      BY <1>2, <1>3, <2>1, <3>1 DEF FedInv, FedTypeOK, TypedTables
  <2>6. Exclusive'
    <3>1. \A v \in Units : InLock(v)' <=> InLock(v)
      BY <2>1, <2>2 DEF InLock
    <3>. QED
      BY <2>1, <3>1 DEF FedInv, Exclusive
  <2>7. Progress'
    BY <1>3, <2>1, <2>2 DEF FedInv, Progress
  <2>8. \A v \in Units : v # u => pc'[v] \in {"start", "done"}
    BY <2>1, <2>2, OnlyOne DEF InLock
  <2>9. Objects'
    <3>1. \A v \in Units : \/ pc'[v] = pc[v]
                           \/ v = u /\ pc[v] = "tool" /\ pc'[v] = "release"
      BY <2>1, <2>2
    <3>. QED
      BY <1>3, <2>1, <3>1 DEF FedInv, Objects, Behind
  <2>10. pc_cap' = total /\ pc_cap <= total
    <3>1. pc_cap = total - NumEntries[u]
      BY <2>1 DEF FedInv, PcTable, Behind
    <3>. QED
      BY <1>1, <2>1, <3>1
  <2>11. PcTable'
    <3>1. Behind({"ids", "objects", "tool"}, pc_cap)'
      BY <1>3, <2>2, <2>8, <2>10 DEF Behind
    <3>2. ASSUME NEW v \in Units, pc'[v] \in {"release", "done"}
          PROVE  id_base'[v] + NumEntries[v] <= pc_cap'
      <4>1. pc[v] \in {"tool", "release", "done"}
        BY <2>1, <2>2, <3>2
      <4>2. id_base[v] + NumEntries[v] <= total
        BY <4>1 DEF FedInv, Progress
      <4>. QED
        BY <2>1, <2>10, <4>2
    <3>. QED
      BY <3>1, <3>2 DEF PcTable
  <2>. QED
    BY <2>4, <2>5, <2>6, <2>7, <2>9, <2>11 DEF FedInv
<1>10. CASE release(u)
  <2>1. /\ pc[u] = "release" /\ lock' = 0 /\ pc' = [pc EXCEPT ![u] = "done"]
        /\ UNCHANGED <<obj_entries, pc_cap, id_base>>
    BY <1>10 DEF release, lock_released
  <2>2. pc'[u] = "done" /\ \A v \in Units : v # u => pc'[v] = pc[v]
    BY <1>1, <2>1
  <2>3. Base(u)' = Base(u)
    BY <2>1, <2>2 DEF Base
  <2>4. Tables' /\ Contents' /\ (\A r \in Readers : ReaderOK(r)')
    BY <1>2, <1>4, <1>5, <2>1, <2>3, QuietPhase
  <2>5. FedTypeOK'
    <3>1. pc' \in [Units -> Places]
      BY <1>1, <2>1 DEF Places
    <3>. QED
      BY <1>2, <1>3, <2>1, <3>1 DEF FedInv, FedTypeOK, TypedTables
  <2>6. Exclusive'
    <3>1. \A v \in Units : ~InLock(v)'
      BY <2>1, <2>2, OnlyOne DEF InLock
    <3>. QED
      BY <3>1 DEF Exclusive
  <2>7. Progress'
    BY <1>3, <2>1, <2>2 DEF FedInv, Progress
  <2>8. Objects' /\ PcTable'
    <3>1. \A v \in Units : \/ pc'[v] = pc[v]
                           \/ v = u /\ pc[v] = "release" /\ pc'[v] = "done"
      BY <2>1, <2>2
    <3>. QED
      BY <1>3, <2>1, <3>1 DEF FedInv, Objects, PcTable, Behind
  <2>. QED
    BY <2>4, <2>5, <2>6, <2>7, <2>8 DEF FedInv
<1>. QED
  BY <1>6, <1>7, <1>8, <1>9, <1>10

\* What a lookup's step leaves alone: everything but its own record.
LookupRecord == [at : ReaderPlaces, id : Nat, tables : Nat,
                 entry : Registered \cup {Null}, must : BOOLEAN]

\* A step of a lookup changes its own record and nothing of the tables.
LEMMA ReaderStep ==
    ASSUME FedInv, fed_tables.tables # 0, NEW r \in Readers, NEW l \in LookupRecord,
           UNCHANGED <<lock, tablevars, obj_entries, pc_cap, pc, added, id_base>>,
           reader' = [reader EXCEPT ![r] = l], ReaderOK(r)'
    PROVE  FedInv'
<1>1. /\ lock' = lock /\ fed_tables' = fed_tables /\ arrays' = arrays /\ stores' = stores
      /\ obj_entries' = obj_entries /\ pc_cap' = pc_cap /\ pc' = pc /\ added' = added
      /\ id_base' = id_base
  BY DEF tablevars
<1>2. reader \in [Readers -> LookupRecord]
  BY DEF FedInv, FedTypeOK, LookupRecord
<1>3. /\ reader' \in [Readers -> LookupRecord]
      /\ \A q \in Readers : q # r => reader'[q] = reader[q]
  BY <1>2
<1>4. Quiet /\ total' = total
  BY <1>1 DEF Quiet, total
<1>5. FedTypeOK'
  BY <1>1, <1>3 DEF FedInv, FedTypeOK, LookupRecord
<1>6. Exclusive' /\ Progress'
  BY <1>1, <1>4 DEF FedInv, Exclusive, Progress, InLock
<1>7. Tables'
  <2>1. /\ \A u \in Units : pc[u] = "add" => Layout(total + added[u])
        /\ (\A u \in Units : pc[u] # "add") => Layout(total)
    BY DEF FedInv, Tables
  <2>2. \A n : Layout(n) => Layout(n)'
    BY <1>4, QuietKept
  <2>3. \A u \in Units : pc'[u] = "add" => Layout(total + added[u])'
    BY <1>1, <1>4, <2>1, <2>2
  <2>4. (\A u \in Units : pc'[u] # "add") => Layout(total)'
    BY <1>1, <1>4, <2>1, <2>2
  <2>. QED
    BY <1>1, <2>3, <2>4 DEF Tables
<1>8. Contents'
  <2>1. \A u \in Units : Base(u)' = Base(u)
    BY <1>1, <1>4 DEF Base
  <2>2. \A g : EntryOf(g)' = EntryOf(g)
    BY <1>4, QuietKept
  <2>3. ASSUME NEW u \in Units, NEW k \in 0..(added[u] - 1)
        PROVE  EntryOf(Base(u) + k)' = [unit |-> u, local |-> k]
    <3>1. EntryOf(Base(u) + k) = [unit |-> u, local |-> k]
      BY DEF FedInv, Contents
    <3>. QED
      BY <1>1, <2>1, <3>1 DEF EntryOf, TableOf, PlaceOf
  <2>. QED
    BY <1>1, <2>3 DEF Contents
<1>9. Objects' /\ PcTable'
  BY <1>1, <1>4 DEF FedInv, Objects, PcTable, Behind
<1>10. ASSUME NEW q \in Readers PROVE ReaderOK(q)'
  <2>1. CASE q = r
    BY <2>1
  <2>2. CASE q # r
    <3>1. ReaderOK(q) /\ reader'[q] = reader[q]
      BY <1>3, <2>2 DEF FedInv
    <3>. QED
      BY <1>1, <1>4, <3>1 DEF ReaderOK, EntryOf, TableOf, PlaceOf
  <2>. QED
    BY <2>1, <2>2
<1>. QED
  BY <1>5, <1>6, <1>7, <1>8, <1>9, <1>10 DEF FedInv

\* The ids of a unit that knows its base have been counted.
LEMMA OwnedIds ==
    ASSUME FedInv, NEW u \in Units, NEW g \in Owned(u)
    PROVE  /\ pc[u] \in {"objects", "tool", "release", "done"}
           /\ id_base[u] \in Nat /\ g \in Nat /\ g < total /\ Base(u) = id_base[u]
           /\ fed_tables.tables # 0
           /\ \E k \in 0..(NumEntries[u] - 1) : k \in 0..(added[u] - 1) /\ g = id_base[u] + k
<1>1. /\ id_base[u] # -1 /\ id_base[u] \in Int /\ NumEntries[u] \in Nat /\ total \in Nat
      /\ pc[u] \in Places
      /\ g \in id_base[u] .. (id_base[u] + NumEntries[u] - 1)
  BY FedAssumption DEF FedInv, FedTypeOK, Owned, total
<1>2. pc[u] \in {"objects", "tool", "release", "done"}
  BY <1>1 DEF FedInv, Progress, Places
<1>3. id_base[u] \in Nat /\ id_base[u] + NumEntries[u] <= total /\ added[u] = NumEntries[u]
  BY <1>2 DEF FedInv, Progress
<1>4. Base(u) = id_base[u]
  BY <1>2 DEF Base
<1>5. fed_tables.tables # 0
  BY <1>2 DEF FedInv, Tables, NoTables
<1>6. PICK k : k = g - id_base[u]
  OBVIOUS
<1>7. k \in 0..(NumEntries[u] - 1) /\ g = id_base[u] + k /\ g \in Nat /\ g < total
  BY <1>1, <1>3, <1>6
<1>. QED
  BY <1>2, <1>3, <1>4, <1>5, <1>7

\* A counted id of which the array names the table gives its entry.
LEMMA EntryFound ==
    ASSUME FedInv, fed_tables.tables # 0, NEW g \in Nat, g < total,
           NEW a \in 1..Len(arrays), TableOf(g) <= Len(arrays[a]),
           arrays[a][TableOf(g)].store = TableOf(g)
    PROVE  EntryAt(arrays[a], g) = EntryOf(g) /\ EntryOf(g) \in Registered
<1>1. Stored(g)
  BY StoredNow
<1>2. TableOf(g) \in Nat /\ TableOf(g) >= 1 /\ PlaceOf(g) \in 1..PerTable
  BY IdsInTables
<1>3. TableOf(g) <= Len(stores) /\ PlaceOf(g) <= Len(stores[TableOf(g)])
  BY <1>1 DEF Stored
<1>4. EntryAt(arrays[a], g) = EntryOf(g)
  BY <1>2, <1>3 DEF EntryAt, EntryOf, TableOf, PlaceOf
<1>5. stores \in Seq(Seq(Registered)) /\ PerTable \in Nat
  BY FedAssumption DEF FedInv, FedTypeOK
<1>6. Len(stores) \in Nat /\ TableOf(g) \in 1..Len(stores)
  BY <1>2, <1>3, <1>5, LenProperties
<1>7. stores[TableOf(g)] \in Seq(Registered)
  BY <1>5, <1>6, ElementOfSeq
<1>8. PlaceOf(g) \in 1..Len(stores[TableOf(g)])
  <2>1. Len(stores[TableOf(g)]) \in Nat
    BY <1>7, LenProperties
  <2>. QED
    BY <1>2, <1>3, <2>1
<1>9. EntryOf(g) \in Registered
  BY <1>7, <1>8, ElementOfSeq DEF EntryOf
<1>. QED
  BY <1>4, <1>9

\* The current array names the table of every counted id.
LEMMA CurrentNamesTable ==
    ASSUME FedInv, fed_tables.tables # 0, NEW g \in Nat, g < total
    PROVE  /\ fed_tables.tables \in 1..Len(arrays)
           /\ CurrentArray = arrays[fed_tables.tables]
           /\ TableOf(g) <= Len(CurrentArray)
           /\ CurrentArray[TableOf(g)].store = TableOf(g)
<1>1. TypedTables /\ Stored(g)
  BY StoredNow DEF FedInv, FedTypeOK, TypedTables
<1>2. PICK n : Layout(n)
  BY DEF FedInv, Tables
<1>3. /\ fed_tables.num_tables \in Nat /\ fed_tables.capacity \in Nat
      /\ fed_tables.num_tables <= fed_tables.capacity
      /\ Len(arrays) \in Nat \ {0} /\ fed_tables.tables = Len(arrays)
      /\ Len(CurrentArray) = fed_tables.capacity /\ Len(stores) = fed_tables.num_tables
  BY <1>1, <1>2, LayoutFacts
<1>4. TableOf(g) \in Nat /\ TableOf(g) >= 1 /\ TableOf(g) <= Len(stores)
  BY <1>1, IdsInTables DEF Stored
<1>5. TableOf(g) \in 1..fed_tables.capacity /\ TableOf(g) <= fed_tables.num_tables
  BY <1>3, <1>4
<1>6. CurrentArray[TableOf(g)].store = TableOf(g)
  BY <1>2, <1>5 DEF Layout
<1>. QED
  BY <1>3, <1>5, <1>6 DEF CurrentArray

\* Every read of a lookup, whatever units were loaded since the one before.
LEMMA LookupStep == ASSUME FedInv, NEW r \in Readers, Lookup(r) PROVE FedInv'
<1>1. /\ reader \in [Readers -> LookupRecord] /\ ReaderOK(r) /\ total \in Nat
      /\ fed_tables.tables \in Nat
  BY DEF FedInv, FedTypeOK, LookupRecord, total
<1>2. PICK l : l = reader[r]
  OBVIOUS
<1>3. l \in LookupRecord
  BY <1>1, <1>2
<1>4. CASE \E id \in Ids : begin_lookup(r, id)
  <2>1. PICK id \in Ids : begin_lookup(r, id)
    BY <1>4
  <2>2. PICK must \in BOOLEAN : must = (\E u \in Units : id \in Owned(u))
    OBVIOUS
  <2>3. PICK m : m = [at |-> "total", id |-> id, tables |-> 0, entry |-> Null, must |-> must]
    OBVIOUS
  <2>4. /\ fed_tables.tables # 0 /\ reader' = [reader EXCEPT ![r] = m]
        /\ UNCHANGED <<lock, tablevars, obj_entries, pc_cap, pc, added, id_base>>
    BY <2>1, <2>2, <2>3 DEF begin_lookup
  <2>5. id \in Nat
    BY <1>1 DEF Ids, total
  <2>6. m \in LookupRecord
    BY <2>3, <2>5 DEF LookupRecord, ReaderPlaces
  <2>7. must => id < total
    BY <2>2, OwnedIds
  <2>8. reader'[r] = m /\ fed_tables' = fed_tables /\ total' = total
    BY <1>1, <2>4 DEF tablevars, total
  <2>9. ReaderOK(r)'
    BY <2>3, <2>4, <2>7, <2>8 DEF ReaderOK
  <2>. QED
    BY <2>4, <2>6, <2>9, ReaderStep
<1>5. CASE read_total(r)
  <2>1. PICK m : m = [l EXCEPT !.at = IF l.id < total THEN "tables" ELSE "answered"]
    OBVIOUS
  <2>2. /\ l.at = "total" /\ reader' = [reader EXCEPT ![r] = m]
        /\ UNCHANGED <<lock, tablevars, obj_entries, pc_cap, pc, added, id_base>>
    BY <1>1, <1>2, <1>5, <2>1 DEF read_total, total
  <2>3. fed_tables.tables # 0 /\ l.entry = Null /\ (l.must => l.id < total)
    BY <1>1, <1>2, <2>2 DEF ReaderOK
  <2>4. /\ m \in LookupRecord /\ m.id = l.id /\ m.entry = l.entry /\ m.must = l.must
        /\ m.at = IF l.id < total THEN "tables" ELSE "answered"
    BY <1>3, <2>1 DEF LookupRecord, ReaderPlaces
  <2>5. reader'[r] = m /\ fed_tables' = fed_tables /\ total' = total
    BY <1>1, <2>2 DEF tablevars, total
  <2>6. ReaderOK(r)'
    <3>1. CASE l.id < total
      BY <2>3, <2>4, <2>5, <3>1 DEF ReaderOK
    <3>2. CASE ~(l.id < total)
      BY <2>3, <2>4, <2>5, <3>2 DEF ReaderOK
    <3>. QED
      BY <3>1, <3>2
  <2>. QED
    BY <2>2, <2>3, <2>4, <2>6, ReaderStep
<1>6. CASE read_tables(r)
  <2>1. PICK m : m = [l EXCEPT !.at = "cell", !.tables = fed_tables.tables]
    OBVIOUS
  <2>2. /\ l.at = "tables" /\ reader' = [reader EXCEPT ![r] = m]
        /\ UNCHANGED <<lock, tablevars, obj_entries, pc_cap, pc, added, id_base>>
    BY <1>1, <1>2, <1>6, <2>1 DEF read_tables
  <2>3. fed_tables.tables # 0 /\ l.entry = Null /\ l.id < total /\ l.id \in Nat
    BY <1>1, <1>2, <1>3, <2>2 DEF ReaderOK, LookupRecord
  <2>4. /\ m \in LookupRecord /\ m.id = l.id /\ m.entry = l.entry /\ m.must = l.must
        /\ m.at = "cell" /\ m.tables = fed_tables.tables
    BY <1>1, <1>3, <2>1 DEF LookupRecord, ReaderPlaces
  <2>5. /\ reader'[r] = m /\ fed_tables' = fed_tables /\ total' = total
        /\ arrays' = arrays /\ stores' = stores
    BY <1>1, <2>2 DEF tablevars, total
  <2>6. /\ m.tables \in 1..Len(arrays) /\ TableOf(m.id) <= Len(arrays[m.tables])
        /\ arrays[m.tables][TableOf(m.id)].store = TableOf(m.id)
    BY <2>3, <2>4, CurrentNamesTable
  <2>7. ReaderOK(r)'
    BY <2>3, <2>4, <2>5, <2>6 DEF ReaderOK
  <2>. QED
    BY <2>2, <2>3, <2>4, <2>7, ReaderStep
<1>7. CASE read_entry(r)
  <2>1. PICK e : e = EntryAt(arrays[l.tables], l.id)
    OBVIOUS
  <2>2. PICK m : m = [l EXCEPT !.at = "answered", !.entry = e]
    OBVIOUS
  <2>3. /\ l.at = "cell" /\ reader' = [reader EXCEPT ![r] = m]
        /\ UNCHANGED <<lock, tablevars, obj_entries, pc_cap, pc, added, id_base>>
    BY <1>1, <1>2, <1>7, <2>1, <2>2 DEF read_entry
  <2>4. /\ fed_tables.tables # 0 /\ l.id < total /\ l.id \in Nat
        /\ l.tables \in 1..Len(arrays) /\ TableOf(l.id) <= Len(arrays[l.tables])
        /\ arrays[l.tables][TableOf(l.id)].store = TableOf(l.id)
    BY <1>1, <1>2, <1>3, <2>3 DEF ReaderOK, LookupRecord
  <2>5. e = EntryOf(l.id) /\ e \in Registered
    BY <2>1, <2>4, EntryFound
  <2>6. e # Null
    BY <2>5 DEF Registered, Null, Units
  <2>7. /\ m \in LookupRecord /\ m.id = l.id /\ m.entry = e /\ m.at = "answered"
    BY <1>3, <2>2, <2>5 DEF LookupRecord, ReaderPlaces
  <2>8. /\ reader'[r] = m /\ fed_tables' = fed_tables /\ total' = total
        /\ EntryOf(l.id)' = EntryOf(l.id)
    BY <1>1, <2>3 DEF tablevars, total, EntryOf
  <2>9. ReaderOK(r)'
    <3>1. /\ reader'[r].at = "answered" /\ reader'[r].entry = e /\ reader'[r].id = l.id
      BY <2>7, <2>8
    <3>2. EntryOf(reader[r].id)' = EntryOf(l.id)
      BY <3>1, <2>3 DEF EntryOf, tablevars
    <3>. QED
      BY <2>4, <2>5, <2>6, <2>8, <3>1, <3>2 DEF ReaderOK
  <2>. QED
    BY <2>3, <2>4, <2>7, <2>9, ReaderStep
<1>8. CASE end_lookup(r)
  <2>1. PICK m : m = [l EXCEPT !.at = "idle", !.id = 0, !.tables = 0, !.entry = Null,
                               !.must = FALSE]
    OBVIOUS
  <2>2. /\ l.at = "answered" /\ reader' = [reader EXCEPT ![r] = m]
        /\ UNCHANGED <<lock, tablevars, obj_entries, pc_cap, pc, added, id_base>>
    BY <1>1, <1>2, <1>8, <2>1 DEF end_lookup
  <2>3. fed_tables.tables # 0
    BY <1>1, <1>2, <2>2 DEF ReaderOK
  <2>4. m \in LookupRecord /\ m.at = "idle"
    BY <1>3, <2>1 DEF LookupRecord, ReaderPlaces
  <2>5. ReaderOK(r)'
    BY <1>1, <2>2, <2>4 DEF ReaderOK
  <2>. QED
    BY <2>2, <2>3, <2>4, <2>5, ReaderStep
<1>. QED
  BY <1>4, <1>5, <1>6, <1>7, <1>8 DEF Lookup

-----------------------------------------------------------------------------
(***************************************************************************)
(* The theorems.                                                           *)
(***************************************************************************)

\* Before any unit is loaded.
LEMMA FedInit == ASSUME Init PROVE FedInv
<1>1. /\ lock = 0
      /\ fed_tables = [num_tables |-> 0, capacity |-> 0, num_total_entries |-> 0,
                       tables |-> 0]
      /\ arrays = <<>> /\ stores = <<>> /\ obj_entries = <<>> /\ pc_cap = 0
      /\ pc = [u \in Units |-> "start"] /\ added = [u \in Units |-> 0]
      /\ id_base = [u \in Units |-> -1]
      /\ reader = [r \in Readers |-> [at |-> "idle", id |-> 0, tables |-> 0,
                                      entry |-> Null, must |-> FALSE]]
  BY DEF Init
<1>2. /\ total = 0 /\ fed_tables.tables = 0 /\ Len(obj_entries) = 0
      /\ \A u \in Units : pc[u] = "start" /\ added[u] = 0 /\ id_base[u] = -1
      /\ \A r \in Readers : reader[r].at = "idle"
  BY <1>1 DEF total
<1>3. FedTypeOK
  <2>1. /\ arrays \in Seq(Seq(Cell)) /\ stores \in Seq(Seq(Registered))
        /\ obj_entries \in Seq(Registered)
    BY <1>1, EmptySeq
  <2>2. reader \in [Readers -> LookupRecord]
    BY <1>1 DEF LookupRecord, ReaderPlaces
  <2>3. fed_tables \in [num_tables : Nat, capacity : Nat, num_total_entries : Nat,
                        tables : Nat]
    BY <1>1
  <2>4. pc \in [Units -> Places] /\ added \in [Units -> Nat] /\ id_base \in [Units -> Int]
    BY <1>1 DEF Places
  <2>. QED
    BY <1>1, <2>1, <2>2, <2>3, <2>4 DEF FedTypeOK, LookupRecord
<1>4. Exclusive /\ Progress /\ Tables
  BY <1>1, <1>2 DEF Exclusive, InLock, Progress, Tables, NoTables
<1>5. Contents
  BY <1>2 DEF Contents
<1>6. Objects /\ PcTable
  BY <1>1, <1>2 DEF Objects, PcTable, Behind
<1>7. \A r \in Readers : ReaderOK(r)
  BY <1>2 DEF ReaderOK
<1>. QED
  BY <1>3, <1>4, <1>5, <1>6, <1>7 DEF FedInv

\* Each step of a loading thread or a lookup.
LEMMA FedStep == FedInv /\ [Next]_vars => FedInv'
<1>. SUFFICES ASSUME FedInv, [Next]_vars PROVE FedInv'
  OBVIOUS
<1>1. CASE \E u \in Units : Load(u)
  BY <1>1, AddStep, TotalStep, ReadyStep, OtherSteps DEF Load
<1>2. CASE \E r \in Readers : Lookup(r)
  BY <1>2, LookupStep
<1>3. CASE UNCHANGED vars
  <2>1. /\ lock' = lock /\ fed_tables' = fed_tables /\ arrays' = arrays /\ stores' = stores
        /\ obj_entries' = obj_entries /\ pc_cap' = pc_cap /\ pc' = pc /\ added' = added
        /\ id_base' = id_base /\ reader' = reader
    BY <1>3 DEF vars
  <2>2. Quiet /\ total' = total
    BY <2>1 DEF Quiet, total
  <2>3. FedTypeOK' /\ Exclusive' /\ Progress'
    BY <2>1, <2>2 DEF FedInv, FedTypeOK, Exclusive, Progress, InLock
  <2>4. Tables'
    <3>1. CASE fed_tables.tables = 0
      BY <2>1, <2>2, <3>1 DEF FedInv, Tables, NoTables
    <3>2. CASE fed_tables.tables # 0
      <4>1. /\ \A u \in Units : pc[u] = "add" => Layout(total + added[u])
            /\ (\A u \in Units : pc[u] # "add") => Layout(total)
        BY <3>2 DEF FedInv, Tables
      <4>2. \A n : Layout(n) => Layout(n)'
        BY <2>2, QuietKept
      <4>3. \A u \in Units : pc'[u] = "add" => Layout(total + added[u])'
        BY <2>1, <2>2, <4>1, <4>2
      <4>4. (\A u \in Units : pc'[u] # "add") => Layout(total)'
        BY <2>1, <2>2, <4>1, <4>2
      <4>. QED
        BY <2>1, <3>2, <4>3, <4>4 DEF Tables
    <3>. QED
      BY <3>1, <3>2
  <2>5. Contents'
    <3>1. \A u \in Units : Base(u)' = Base(u)
      BY <2>1, <2>2 DEF Base
    <3>2. ASSUME NEW u \in Units, NEW k \in 0..(added[u] - 1)
          PROVE  EntryOf(Base(u) + k)' = [unit |-> u, local |-> k]
      <4>1. EntryOf(Base(u) + k) = [unit |-> u, local |-> k]
        BY DEF FedInv, Contents
      <4>. QED
        BY <2>1, <3>1, <4>1 DEF EntryOf, TableOf, PlaceOf
    <3>. QED
      BY <2>1, <3>2 DEF Contents
  <2>6. Objects' /\ PcTable'
    BY <2>1, <2>2 DEF FedInv, Objects, PcTable, Behind
  <2>7. \A r \in Readers : ReaderOK(r)'
    BY <2>1, <2>2 DEF FedInv, ReaderOK, EntryOf, TableOf, PlaceOf
  <2>. QED
    BY <2>3, <2>4, <2>5, <2>6, <2>7 DEF FedInv
<1>. QED
  BY <1>1, <1>2, <1>3 DEF Next

\* The invariant, for any number of units, entries and readers.
LEMMA FedInvariant == Spec => []FedInv
<1>1. Init => FedInv
  BY FedInit
<1>2. FedInv /\ [Next]_vars => FedInv'
  BY FedStep
<1>. QED
  BY <1>1, <1>2, PTL DEF Spec

\* get_fed_entry reads the total, the array's address and the table with no
\* lock; whatever was loaded in between, it answers with the entry that the
\* id's unit registered, never with memory it should not have read.
THEOREM LookupsRight == Spec => []LookupsFindEntry
<1>1. FedInv => LookupsFindEntry
  <2>. SUFFICES ASSUME FedInv, NEW r \in Readers, reader[r].at = "answered"
                PROVE  LET e == reader[r].entry IN
                       /\ e # Garbage
                       /\ reader[r].must => e # Null
                       /\ e # Null => \A u \in Units : reader[r].id \in Owned(u) =>
                            e = [unit |-> u, local |-> reader[r].id - id_base[u]]
    BY DEF LookupsFindEntry
  <2>1. ReaderOK(r) /\ reader[r] \in LookupRecord
    BY DEF FedInv, FedTypeOK, LookupRecord
  <2>2. reader[r].entry # Garbage
    <3>1. reader[r].entry \in Registered \cup {Null}
      BY <2>1 DEF LookupRecord
    <3>. QED
      BY <3>1 DEF Registered, Null, Garbage, Units
  <2>3. reader[r].must => reader[r].entry # Null
    BY <2>1 DEF ReaderOK
  <2>4. ASSUME reader[r].entry # Null, NEW u \in Units, reader[r].id \in Owned(u)
        PROVE  reader[r].entry = [unit |-> u, local |-> reader[r].id - id_base[u]]
    <3>1. reader[r].entry = EntryOf(reader[r].id)
      BY <2>1, <2>4 DEF ReaderOK
    <3>2. /\ id_base[u] \in Nat /\ Base(u) = id_base[u]
          /\ \E k \in 0..(NumEntries[u] - 1) : /\ k \in 0..(added[u] - 1)
                                               /\ reader[r].id = id_base[u] + k
      BY <2>4, OwnedIds
    <3>3. PICK k \in 0..(added[u] - 1) : reader[r].id = id_base[u] + k
      BY <3>2
    <3>4. EntryOf(Base(u) + k) = [unit |-> u, local |-> k]
      BY DEF FedInv, Contents
    <3>5. reader[r].id - id_base[u] = k
      BY <3>2, <3>3
    <3>. QED
      BY <3>1, <3>2, <3>3, <3>4, <3>5
  <2>. QED
    BY <2>2, <2>3, <2>4
<1>. QED
  BY <1>1, FedInvariant, PTL

\* A unit's local id i is global id id_base + i in the FED tables, in the
\* object table and within the tool's PC table, which __csanrt_unit_init and
\* the tool's unit_init grow one after the other under one lock.
THEOREM TablesInStep == Spec => []TablesAgree
<1>1. FedInv => TablesAgree
  <2>. SUFFICES ASSUME FedInv, NEW u \in Units, NEW id \in Owned(u)
                PROVE  LET e == [unit |-> u, local |-> id - id_base[u]] IN
                       /\ EntryAt(CurrentArray, id) = e
                       /\ pc[u] \in {"tool", "release", "done"} => obj_entries[id + 1] = e
                       /\ pc[u] = "done" => id < pc_cap
    BY DEF TablesAgree
  <2>1. /\ id_base[u] \in Nat /\ id \in Nat /\ id < total /\ Base(u) = id_base[u]
        /\ fed_tables.tables # 0
    BY OwnedIds
  <2>2. PICK k \in 0..(NumEntries[u] - 1) : k \in 0..(added[u] - 1) /\ id = id_base[u] + k
    BY OwnedIds
  <2>3. NumEntries[u] \in Nat /\ pc_cap \in Nat
    BY FedAssumption DEF FedInv, FedTypeOK
  <2>4. id - id_base[u] = k /\ id + 1 = id_base[u] + k + 1
    BY <2>1, <2>2, <2>3
  <2>5. EntryAt(CurrentArray, id) = [unit |-> u, local |-> k]
    <3>1. EntryOf(id) = [unit |-> u, local |-> k]
      BY <2>1, <2>2 DEF FedInv, Contents
    <3>2. /\ fed_tables.tables \in 1..Len(arrays)
          /\ CurrentArray = arrays[fed_tables.tables]
          /\ TableOf(id) <= Len(CurrentArray)
          /\ CurrentArray[TableOf(id)].store = TableOf(id)
      BY <2>1, CurrentNamesTable
    <3>. QED
      BY <2>1, <3>1, <3>2, EntryFound
  <2>6. pc[u] \in {"tool", "release", "done"} =>
          obj_entries[id + 1] = [unit |-> u, local |-> k]
    <3>1. pc[u] \in {"tool", "release", "done"} =>
            obj_entries[id_base[u] + k + 1] = [unit |-> u, local |-> k]
      BY DEF FedInv, Objects
    <3>. QED
      BY <2>4, <3>1
  <2>7. pc[u] = "done" => id < pc_cap
    <3>1. pc[u] = "done" => id_base[u] + NumEntries[u] <= pc_cap
      BY DEF FedInv, PcTable
    <3>. QED
      BY <2>1, <2>2, <2>3, <3>1
  <2>. QED
    BY <2>4, <2>5, <2>6, <2>7
<1>. QED
  BY <1>1, FedInvariant, PTL

-----------------------------------------------------------------------------
(***************************************************************************)
(* HyperTable: the arithmetic of a circular buffer.                        *)
(***************************************************************************)
\* The steps from index h to index i in a buffer of c buckets.
Off(c, h, i) == IF h <= i THEN i - h ELSE i - h + c

\* The index k steps after index i.
Fwd(c, i, k) == IF i + k < c THEN i + k ELSE i + k - c

\* Division with remainder is unique.
LEMMA RemainderUnique ==
    ASSUME NEW c \in Nat \ {0}, NEW q \in Int, NEW r \in 0..(c - 1)
    PROVE  (q * c + r) % c = r
  OBVIOUS

\* Steps round the buffer, without division.
LEMMA AtIsFwd ==
    ASSUME NEW c \in Nat \ {0}, NEW i \in 0..(c - 1), NEW k \in 0..c
    PROVE  (i + k) % c = Fwd(c, i, k)
<1>1. CASE i + k < c
  <2>1. i + k = 0 * c + (i + k) /\ i + k \in 0..(c - 1)
    BY <1>1
  <2>. QED
    BY <1>1, <2>1, RemainderUnique DEF Fwd
<1>2. CASE i + k >= c
  <2>1. i + k = 1 * c + (i + k - c) /\ i + k - c \in 0..(c - 1)
    BY <1>2
  <2>. QED
    BY <1>2, <2>1, RemainderUnique DEF Fwd
<1>. QED
  BY <1>1, <1>2

\* So is the distance of two indices.
LEMMA OffIsMod ==
    ASSUME NEW c \in Nat \ {0}, NEW i \in 0..(c - 1), NEW j \in 0..(c - 1)
    PROVE  (j - i) % c = Off(c, i, j)
<1>1. CASE i <= j
  <2>1. j - i = 0 * c + (j - i) /\ j - i \in 0..(c - 1)
    BY <1>1
  <2>. QED
    BY <1>1, <2>1, RemainderUnique DEF Off
<1>2. CASE ~(i <= j)
  <2>1. j - i = (-1) * c + (j - i + c) /\ j - i + c \in 0..(c - 1)
    BY <1>2
  <2>. QED
    BY <1>2, <2>1, RemainderUnique DEF Off
<1>. QED
  BY <1>1, <1>2

\* The comparison of unsigned differences compares the two distances: the
\* four cases of wrapping described at continue_probe.
LEMMA ContinueIsNearer ==
    ASSUME NEW c \in Nat \ {0}, c <= IndexMod, NEW t \in 0..(c - 1),
           NEW h \in 0..(c - 1), NEW i \in 0..(c - 1)
    PROVE  continue_probe(t, h, i) <=> Off(c, t, i) <= Off(c, h, i)
<1>1. IndexMod \in Nat \ {0}
  BY TableAssumption
<1>2. t \in 0..(IndexMod - 1) /\ h \in 0..(IndexMod - 1) /\ i \in 0..(IndexMod - 1)
  BY <1>1
<1>3. (i - t) % IndexMod = Off(IndexMod, t, i) /\ (i - h) % IndexMod = Off(IndexMod, h, i)
  BY <1>1, <1>2, OffIsMod
<1>. QED
  BY <1>1, <1>3 DEF continue_probe, Off

\* The index before j.
Pred(c, j) == IF j = 0 THEN c - 1 ELSE j - 1

\* Distances from h are those of a buffer.
LEMMA OffType ==
    ASSUME NEW c \in Nat \ {0}, NEW h \in 0..(c - 1), NEW j \in 0..(c - 1)
    PROVE  Off(c, h, j) \in 0..(c - 1) /\ Pred(c, j) \in 0..(c - 1)
  BY DEF Off, Pred

\* And naturals.
LEMMA OffNat ==
    ASSUME NEW c \in Nat \ {0}, NEW h \in 0..(c - 1), NEW j \in 0..(c - 1)
    PROVE  Off(c, h, j) \in Nat
  BY DEF Off

\* One less at the index before.
LEMMA OffPred ==
    ASSUME NEW c \in Nat \ {0}, NEW h \in 0..(c - 1), NEW j \in 0..(c - 1), Off(c, h, j) # 0
    PROVE  Off(c, h, Pred(c, j)) = Off(c, h, j) - 1
  BY DEF Off, Pred

\* One more at the next.
LEMMA OffNext ==
    ASSUME NEW c \in Nat \ {0}, NEW h \in 0..(c - 1), NEW j \in 0..(c - 1),
           Off(c, h, Pred(c, j)) < c - 1
    PROVE  Off(c, h, j) = Off(c, h, Pred(c, j)) + 1
  BY DEF Off, Pred

\* Nothing else is at distance zero.
LEMMA OffZero ==
    ASSUME NEW c \in Nat \ {0}, NEW h \in 0..(c - 1), NEW j \in 0..(c - 1)
    PROVE  Off(c, h, j) = 0 <=> h = j
  BY DEF Off

\* Steps and distances are inverses.
LEMMA FwdOff ==
    ASSUME NEW c \in Nat \ {0}, NEW h \in 0..(c - 1), NEW j \in 0..(c - 1)
    PROVE  /\ Fwd(c, h, Off(c, h, j)) = j
           /\ Fwd(c, h, j) \in 0..(c - 1) /\ Off(c, h, Fwd(c, h, j)) = j
  BY DEF Off, Fwd

\* Two indices as far from h are the same.
LEMMA SameDistance ==
    ASSUME NEW c \in Nat \ {0}, NEW h \in 0..(c - 1), NEW i \in 0..(c - 1), NEW j \in 0..(c - 1)
    PROVE  Off(c, h, i) = Off(c, h, j) <=> i = j
  BY DEF Off

(***************************************************************************)
(* Arrays of buckets.                                                      *)
(***************************************************************************)
BucketRec == [key : Keys \cup {KEY_EMPTY, KEY_DELETED}, hash : Nat, value : Values \cup {NoView}]
Buckets == {b \in BucketRec : b.key \in Keys => b.value \in Values}
Arrays(c) == [0..(c - 1) -> Buckets]

ValidIn(f, c) == {i \in 0..(c - 1) : is_valid(f[i])}

\* The valid buckets know where their keys hash to.
Homed(f, c) == \A i \in ValidIn(f, c) : f[i].hash = get_table_entry(c, f[i].key)

Unique(f, c) == \A i, j \in ValidIn(f, c) : f[i].key = f[j].key => i = j

\* A probe for hash h goes on at index p, for all it sees there.
Passes(f, c, h, p) ==
    ~is_empty(f[p]) /\ (is_valid(f[p]) => Off(c, h, p) <= Off(c, f[p].hash, p))

\* Ordered probing: the probe for the hash of a bucket gets as far as the bucket.
Ordered(f, c) ==
    \A i \in ValidIn(f, c), p \in 0..(c - 1) :
        Off(c, f[i].hash, p) < Off(c, f[i].hash, i) => Passes(f, c, f[i].hash, p)

\* Keys are neither of the two marks.
LEMMA ValidIsKey ==
    ASSUME NEW b \in Buckets
    PROVE  /\ is_valid(b) <=> b.key \in Keys
           /\ is_valid(b) => b.value \in Values /\ b.value # NoView
           /\ is_empty(b) <=> b.key = KEY_EMPTY
  BY TableAssumption DEF Buckets, BucketRec, is_valid, is_empty, is_tombstone, KEY_EMPTY, KEY_DELETED

\* A key hashes to an index.
LEMMA EntryIsIndex ==
    ASSUME NEW c \in Nat \ {0}, NEW k \in Keys
    PROVE  get_table_entry(c, k) \in 0..(c - 1)
<1>1. hash[k] \in Nat
  BY TableAssumption
<1>. QED
  BY <1>1 DEF get_table_entry

\* Homes are indices.
LEMMA HomeIsIndex ==
    ASSUME NEW c \in Nat \ {0}, NEW f \in Arrays(c), Homed(f, c), NEW i \in ValidIn(f, c)
    PROVE  i \in 0..(c - 1) /\ f[i] \in Buckets /\ f[i].key \in Keys /\ f[i].hash \in 0..(c - 1)
<1>1. i \in 0..(c - 1) /\ f[i] \in Buckets /\ is_valid(f[i])
  BY DEF ValidIn, Arrays
<1>. QED
  BY <1>1, ValidIsKey, EntryIsIndex DEF Homed

\* As long as a bucket is empty, none is the whole buffer away from its home.
LEMMA RoomLimitsDistance ==
    ASSUME NEW c \in Nat \ {0}, NEW f \in Arrays(c), Homed(f, c), Ordered(f, c),
           NEW e \in 0..(c - 1), is_empty(f[e]), NEW s \in ValidIn(f, c)
    PROVE  Off(c, f[s].hash, s) < c - 1
<1>1. s \in 0..(c - 1) /\ f[s].hash \in 0..(c - 1)
  BY HomeIsIndex
<1>2. s # e
  BY DEF ValidIn, is_valid
<1>3. Off(c, f[s].hash, e) # Off(c, f[s].hash, s)
  BY <1>1, <1>2, SameDistance
<1>4. ~(Off(c, f[s].hash, e) < Off(c, f[s].hash, s))
  BY DEF Ordered, Passes
<1>5. Off(c, f[s].hash, e) \in 0..(c - 1) /\ Off(c, f[s].hash, s) \in 0..(c - 1)
  BY <1>1, OffType
<1>. QED
  BY <1>3, <1>4, <1>5

(***************************************************************************)
(* Inserting a bucket into an array.                                       *)
(***************************************************************************)
\* The array g is f with b at index i and the buckets from i on shifted by one,
\* up to the first that is not valid, n steps further.
Shifted(f, g, c, i, n, b) ==
    /\ n \in 0..(c - 1)
    /\ g = [j \in 0..(c - 1) |->
               IF j = i THEN b
               ELSE IF Off(c, i, j) <= n THEN f[Pred(c, j)] ELSE f[j]]
    /\ \A j \in 0..(c - 1) : Off(c, i, j) < n => is_valid(f[j])
    /\ \A j \in 0..(c - 1) : Off(c, i, j) = n => ~is_valid(f[j])

\* What is where after the shift, and where it was.
LEMMA ShiftedCells ==
    ASSUME NEW c \in Nat \ {0}, NEW f \in Arrays(c), NEW g, NEW i \in 0..(c - 1), NEW n,
           NEW b \in Buckets, is_valid(b), Shifted(f, g, c, i, n, b)
    PROVE  /\ g \in Arrays(c)
           /\ g[i] = b
           /\ \A j \in 0..(c - 1) : j # i =>
                 \/ Off(c, i, j) > n /\ g[j] = f[j]
                 \/ /\ Off(c, i, j) \in 1..n
                    /\ g[j] = f[Pred(c, j)] /\ Pred(c, j) \in ValidIn(f, c)
           /\ \A j \in ValidIn(f, c) : \/ Off(c, i, j) > n /\ g[j] = f[j]
                                      \/ \E k \in 0..(c - 1) : /\ Off(c, i, k) \in 1..n
                                                              /\ Pred(c, k) = j /\ g[k] = f[j]
<1>0. n \in 0..(c - 1)
  BY DEF Shifted
<1>1. \A j \in 0..(c - 1) : Off(c, i, j) \in 0..(c - 1) /\ Pred(c, j) \in 0..(c - 1)
  BY OffType
<1>2. \A j \in 0..(c - 1) :
          g[j] = IF j = i THEN b ELSE IF Off(c, i, j) <= n THEN f[Pred(c, j)] ELSE f[j]
  BY DEF Shifted
<1>3. \A j \in 0..(c - 1) : f[j] \in Buckets /\ f[Pred(c, j)] \in Buckets
  BY <1>1 DEF Arrays
<1>4. g \in Arrays(c)
  <2>1. \A j \in 0..(c - 1) : g[j] \in Buckets
    BY <1>2, <1>3
  <2>2. g = [j \in 0..(c - 1) |-> g[j]]
    BY DEF Shifted
  <2>. QED
    BY <2>1, <2>2 DEF Arrays
<1>5. ASSUME NEW j \in 0..(c - 1), j # i, ~(Off(c, i, j) > n)
      PROVE  /\ Off(c, i, j) \in 1..n
             /\ g[j] = f[Pred(c, j)] /\ Pred(c, j) \in ValidIn(f, c)
  <2>1. Off(c, i, j) # 0 /\ Off(c, i, j) \in 0..(c - 1)
    BY <1>1, <1>5, OffZero
  <2>2. Off(c, i, j) \in 1..n
    BY <1>0, <1>5, <2>1
  <2>3. Off(c, i, Pred(c, j)) < n
    BY <1>0, <2>1, <2>2, OffPred
  <2>4. Pred(c, j) \in ValidIn(f, c)
    BY <1>1, <2>3 DEF Shifted, ValidIn
  <2>. QED
    BY <1>2, <1>5, <2>2, <2>4
<1>6. \A j \in 0..(c - 1) : j # i =>
          \/ Off(c, i, j) > n /\ g[j] = f[j]
          \/ /\ Off(c, i, j) \in 1..n
             /\ g[j] = f[Pred(c, j)] /\ Pred(c, j) \in ValidIn(f, c)
  <2>1. \A j \in 0..(c - 1) : j # i /\ Off(c, i, j) > n => g[j] = f[j]
    BY <1>0, <1>1, <1>2
  <2>. QED
    BY <1>5, <2>1
<1>7. ASSUME NEW j \in ValidIn(f, c), ~(Off(c, i, j) > n /\ g[j] = f[j])
      PROVE  \E k \in 0..(c - 1) : /\ Off(c, i, k) \in 1..n
                                   /\ Pred(c, k) = j /\ g[k] = f[j]
  <2>1. j \in 0..(c - 1) /\ is_valid(f[j])
    BY DEF ValidIn
  <2>2. Off(c, i, j) < n
    <3>1. Off(c, i, j) # n
      BY <2>1 DEF Shifted
    <3>2. Off(c, i, j) > n => j # i
      BY <1>0, <2>1, OffZero
    <3>3. ~(Off(c, i, j) > n)
      BY <1>7, <2>1, <1>2, <3>2, <1>0, <1>1
    <3>. QED
      BY <1>0, <1>1, <2>1, <3>1, <3>3
  <2>. DEFINE k == IF j = c - 1 THEN 0 ELSE j + 1
  <2>3. k \in 0..(c - 1) /\ Pred(c, k) = j
    BY <2>1 DEF Pred
  <2>. HIDE DEF k
  <2>4. Off(c, i, k) = Off(c, i, j) + 1
    BY <1>0, <1>1, <2>1, <2>2, <2>3, OffNext
  <2>5. Off(c, i, k) \in 1..n
    BY <1>0, <1>1, <2>1, <2>2, <2>4
  <2>6. k # i /\ ~(Off(c, i, k) > n)
    BY <1>0, <2>5, <2>3, OffZero
  <2>. QED
    BY <1>5, <2>3, <2>5, <2>6
<1>. QED
  BY <1>2, <1>4, <1>6, <1>7

\* A probe that gets past p gets past it, and no further from its home, after the shift, if b
\* is as far from its own home where the probe meets it.
LEMMA ProbeAfterShift ==
    ASSUME NEW c \in Nat \ {0}, NEW f \in Arrays(c), Homed(f, c), Ordered(f, c),
           NEW e \in 0..(c - 1), is_empty(f[e]),
           NEW g, NEW i \in 0..(c - 1), NEW n, NEW b \in Buckets, is_valid(b),
           b.hash \in 0..(c - 1), Shifted(f, g, c, i, n, b),
           NEW h \in 0..(c - 1), NEW p \in 0..(c - 1),
           \A j \in 0..(c - 1) : Off(c, h, j) <= Off(c, h, p) /\ j # i => Passes(f, c, h, j),
           p = i => Off(c, h, i) <= Off(c, b.hash, i),
           Off(c, h, i) < Off(c, h, p) => Passes(f, c, h, i)
    PROVE  Passes(g, c, h, p)
<1>0. n \in 0..(c - 1)
  BY DEF Shifted
<1>1. CASE p = i
  <2>1. g[p] = b /\ ~is_empty(b)
    BY <1>1, ShiftedCells DEF is_valid
  <2>. QED
    BY <1>1, <2>1 DEF Passes
<1>2. CASE p # i
  <2>1. Passes(f, c, h, p)
    BY <1>2, OffType
  <2>2. CASE g[p] = f[p]
    BY <2>1, <2>2 DEF Passes
  <2>3. CASE g[p] # f[p]
    <3>. DEFINE s == Pred(c, p)
    <3>1. Off(c, i, p) \in 1..n /\ g[p] = f[s] /\ s \in ValidIn(f, c)
      BY <1>2, <2>3, ShiftedCells
    <3>2. s \in 0..(c - 1) /\ f[s].hash \in 0..(c - 1) /\ is_valid(f[s]) /\ ~is_empty(f[s])
      BY <3>1, HomeIsIndex DEF ValidIn, is_valid
    <3>3. Off(c, f[s].hash, p) = Off(c, f[s].hash, s) + 1
      <4>1. Off(c, f[s].hash, s) < c - 1
        BY <3>1, RoomLimitsDistance
      <4>. QED
        BY <3>2, <4>1, OffNext
    <3>4. Off(c, f[s].hash, s) \in Nat /\ Off(c, h, p) \in Nat
      <4>. HIDE DEF s
      <4>. QED
        BY <3>2, OffNat
    <3>5. CASE Off(c, h, p) = 0
      <4>. HIDE DEF s
      <4>. QED
        BY <3>1, <3>2, <3>3, <3>4, <3>5 DEF Passes
    <3>6. CASE Off(c, h, p) # 0
      <4>1. Off(c, h, s) = Off(c, h, p) - 1
        BY <3>6, OffPred
      <4>2. Passes(f, c, h, s)
        BY <3>2, <3>4, <4>1
      <4>3. Off(c, h, s) <= Off(c, f[s].hash, s)
        BY <3>2, <4>2 DEF Passes
      <4>. HIDE DEF s
      <4>. QED
        BY <3>1, <3>2, <3>3, <3>4, <4>1, <4>3 DEF Passes
    <3>. QED
      BY <3>5, <3>6
  <2>. QED
    BY <2>2, <2>3
<1>. QED
  BY <1>1, <1>2

\* Where a bucket may be put: the probe for its hash gets there, and no probe for another
\* bucket that goes past the place is further from its home there.
Placed(f, c, i, h) ==
    /\ \A p \in 0..(c - 1) : Off(c, h, p) < Off(c, h, i) => Passes(f, c, h, p)
    /\ \A q \in ValidIn(f, c) :
          Off(c, f[q].hash, i) <= Off(c, f[q].hash, q) => Off(c, f[q].hash, i) <= Off(c, h, i)

\* Another bucket stays or comes from the index before.
LEMMA ShiftedFrom ==
    ASSUME NEW c \in Nat \ {0}, NEW f \in Arrays(c), NEW g, NEW i \in 0..(c - 1), NEW n,
           NEW b \in Buckets, is_valid(b), Shifted(f, g, c, i, n, b),
           NEW j \in 0..(c - 1), j # i
    PROVE  g[j] = f[j] \/ (g[j] = f[Pred(c, j)] /\ Pred(c, j) \in ValidIn(f, c))
<1>1. \/ Off(c, i, j) > n /\ g[j] = f[j]
      \/ /\ Off(c, i, j) \in 1..n
         /\ g[j] = f[Pred(c, j)] /\ Pred(c, j) \in ValidIn(f, c)
  BY ShiftedCells
<1>. QED
  BY <1>1

\* There, it keeps the order.
LEMMA ShiftKeepsOrder ==
    ASSUME NEW c \in Nat \ {0}, NEW f \in Arrays(c), Homed(f, c), Ordered(f, c),
           NEW e \in 0..(c - 1), is_empty(f[e]),
           NEW g, NEW i \in 0..(c - 1), NEW n, NEW b \in Buckets, is_valid(b),
           b.hash \in 0..(c - 1), Shifted(f, g, c, i, n, b), Placed(f, c, i, b.hash)
    PROVE  Ordered(g, c)
<1>0. n \in 0..(c - 1)
  BY DEF Shifted
<1>. SUFFICES ASSUME NEW q \in ValidIn(g, c), NEW p \in 0..(c - 1),
                     Off(c, g[q].hash, p) < Off(c, g[q].hash, q)
              PROVE  Passes(g, c, g[q].hash, p)
  BY DEF Ordered
<1>1. q \in 0..(c - 1) /\ is_valid(g[q])
  BY DEF ValidIn
<1>2. CASE q = i
  <2>1. g[q] = b
    BY <1>2, ShiftedCells
  <2>2. Off(c, b.hash, p) < Off(c, b.hash, i)
    BY <1>2, <2>1
  <2>3. \A j \in 0..(c - 1) : Off(c, b.hash, j) <= Off(c, b.hash, p) => Passes(f, c, b.hash, j)
    <3>1. ASSUME NEW j \in 0..(c - 1) PROVE Off(c, b.hash, j) \in Nat
      BY OffNat
    <3>. QED
      BY <2>2, <3>1 DEF Placed
  <2>4. p # i /\ ~(Off(c, b.hash, i) < Off(c, b.hash, p))
    <3>1. Off(c, b.hash, i) \in Nat /\ Off(c, b.hash, p) \in Nat
      BY OffNat
    <3>. QED
      BY <2>2, <3>1
  <2>. QED
    BY <2>1, <2>3, <2>4, ProbeAfterShift
<1>3. CASE q # i
  <2>1. PICK s \in ValidIn(f, c) :
            /\ g[q] = f[s]
            /\ s = q \/ s = Pred(c, q)
    <3>1. g[q] = f[q] => q \in ValidIn(f, c)
      BY <1>1 DEF ValidIn
    <3>2. g[q] = f[q] \/ (g[q] = f[Pred(c, q)] /\ Pred(c, q) \in ValidIn(f, c))
      BY <1>1, <1>3, ShiftedFrom
    <3>. QED
      BY <3>1, <3>2
  <2>. DEFINE h == f[s].hash
  <2>2. s \in 0..(c - 1) /\ h \in 0..(c - 1) /\ is_valid(f[s])
    BY HomeIsIndex DEF ValidIn
  <2>3. Off(c, h, q) \in Nat /\ Off(c, h, s) \in Nat /\ Off(c, h, q) <= Off(c, h, s) + 1
    <3>1. Off(c, h, s) < c - 1
      BY RoomLimitsDistance
    <3>2. Off(c, h, q) \in Nat /\ Off(c, h, s) \in Nat
      <4>. HIDE DEF h
      <4>. QED
        BY <1>1, <2>2, OffNat
    <3>3. s # q => Off(c, h, q) = Off(c, h, s) + 1
      <4>. HIDE DEF h
      <4>. QED
        BY <1>1, <2>1, <2>2, <3>1, OffNext
    <3>. HIDE DEF h
    <3>. QED
      BY <3>2, <3>3
  <2>4. \A j \in 0..(c - 1) : Off(c, h, j) \in Nat
    <3>. HIDE DEF h
    <3>. QED
      BY <2>2, OffNat
  <2>5. Off(c, h, p) <= Off(c, h, s)
    BY <2>1, <2>3, <2>4
  <2>6. ASSUME NEW j \in 0..(c - 1), Off(c, h, j) <= Off(c, h, p) PROVE Passes(f, c, h, j)
    <3>1. CASE Off(c, h, j) < Off(c, h, s)
      BY <3>1 DEF Ordered
    <3>2. CASE Off(c, h, j) = Off(c, h, s)
      <4>1. j = s
        BY <2>2, <3>2, SameDistance
      <4>. QED
        BY <2>2, <2>4, <4>1 DEF Passes, is_valid
    <3>3. Off(c, h, j) \in Nat /\ Off(c, h, p) \in Nat /\ Off(c, h, j) <= Off(c, h, p)
      BY <2>4, <2>6
    <3>. HIDE DEF h
    <3>. QED
      BY <2>3, <2>5, <3>1, <3>2, <3>3
  <2>7. p = i => Off(c, h, i) <= Off(c, b.hash, i)
    BY <2>5 DEF Placed
  <2>8. Off(c, h, i) < Off(c, h, p) => Passes(f, c, h, i)
    BY <2>4, <2>6
  <2>9. Passes(g, c, h, p)
    <3>. HIDE DEF h
    <3>. QED
      BY <2>2, <2>6, <2>7, <2>8, ProbeAfterShift
  <2>. QED
    BY <2>1, <2>9
<1>. QED
  BY <1>2, <1>3

\* The buckets in use, tombstones among them, and the keys and views that are stored.
UsedIn(f, c) == {i \in 0..(c - 1) : ~is_empty(f[i])}
StoredIn(f, c) == {<<f[i].key, f[i].value>> : i \in ValidIn(f, c)}
KeysIn(f, c) == {f[i].key : i \in ValidIn(f, c)}

\* The pairs stored after a shift.
LEMMA ShiftStores ==
    ASSUME NEW c \in Nat \ {0}, NEW f \in Arrays(c), NEW g, NEW i \in 0..(c - 1), NEW n,
           NEW b \in Buckets, is_valid(b), Shifted(f, g, c, i, n, b)
    PROVE  StoredIn(g, c) = StoredIn(f, c) \cup {<<b.key, b.value>>}
<1>1. ASSUME NEW j \in ValidIn(g, c)
      PROVE  g[j] = b \/ \E k \in ValidIn(f, c) : g[j] = f[k]
  <2>1. j \in 0..(c - 1) /\ is_valid(g[j])
    BY DEF ValidIn
  <2>2. CASE j = i
    BY <2>2, ShiftedCells
  <2>3. CASE j # i
    <3>1. g[j] = f[j] \/ (g[j] = f[Pred(c, j)] /\ Pred(c, j) \in ValidIn(f, c))
      BY <2>1, <2>3, ShiftedFrom
    <3>2. g[j] = f[j] => j \in ValidIn(f, c)
      BY <2>1 DEF ValidIn
    <3>. QED
      BY <3>1, <3>2
  <2>. QED
    BY <2>2, <2>3
<1>2. i \in ValidIn(g, c) /\ g[i] = b
  BY ShiftedCells DEF ValidIn
<1>3. ASSUME NEW j \in ValidIn(f, c) PROVE \E k \in ValidIn(g, c) : g[k] = f[j]
  <2>1. j \in 0..(c - 1) /\ is_valid(f[j])
    BY DEF ValidIn
  <2>2. \E k \in 0..(c - 1) : g[k] = f[j]
    BY <2>1, ShiftedCells
  <2>. QED
    BY <2>1, <2>2 DEF ValidIn
<1>. QED
  BY <1>1, <1>2, <1>3 DEF StoredIn

\* A shift takes one bucket that was not valid, and adds what is inserted.
LEMMA ShiftAdds ==
    ASSUME NEW c \in Nat \ {0}, NEW f \in Arrays(c), NEW g, NEW i \in 0..(c - 1), NEW n,
           NEW b \in Buckets, is_valid(b), Shifted(f, g, c, i, n, b)
    PROVE  /\ Fwd(c, i, n) \in 0..(c - 1) /\ Fwd(c, i, n) \notin ValidIn(f, c)
           /\ ValidIn(g, c) = ValidIn(f, c) \cup {Fwd(c, i, n)}
           /\ UsedIn(g, c) = UsedIn(f, c) \cup {Fwd(c, i, n)}
<1>. DEFINE last == Fwd(c, i, n)
<1>0. n \in 0..(c - 1)
  BY DEF Shifted
<1>1. last \in 0..(c - 1) /\ Off(c, i, last) = n
  BY <1>0, FwdOff
<1>2. last \notin ValidIn(f, c)
  BY <1>1 DEF Shifted, ValidIn
<1>3. \A j \in 0..(c - 1) : Off(c, i, j) = n <=> j = last
  BY <1>0, <1>1, SameDistance
<1>4. \A j \in 0..(c - 1) : Off(c, i, j) \in Nat
  BY OffNat
<1>5. \A j \in 0..(c - 1) : is_valid(g[j]) <=> is_valid(f[j]) \/ j = last
  <2>. SUFFICES ASSUME NEW j \in 0..(c - 1) PROVE is_valid(g[j]) <=> is_valid(f[j]) \/ j = last
    OBVIOUS
  <2>1. CASE Off(c, i, j) > n
    <3>1. j # i /\ j # last
      BY <1>0, <1>1, <2>1, OffZero
    <3>2. g[j] = f[j]
      BY <1>0, <2>1, <3>1, ShiftedCells
    <3>. QED
      BY <3>1, <3>2
  <2>2. CASE ~(Off(c, i, j) > n)
    <3>1. is_valid(g[j])
      <4>1. CASE j = i
        BY <4>1, ShiftedCells
      <4>2. CASE j # i
        <5>1. g[j] = f[Pred(c, j)] /\ Pred(c, j) \in ValidIn(f, c)
          BY <2>2, <4>2, ShiftedCells
        <5>. QED
          BY <5>1 DEF ValidIn
      <4>. QED
        BY <4>1, <4>2
    <3>2. j = last \/ Off(c, i, j) < n
      BY <1>0, <1>3, <1>4, <2>2
    <3>3. Off(c, i, j) < n => is_valid(f[j])
      BY DEF Shifted
    <3>. QED
      BY <3>1, <3>2, <3>3
  <2>. QED
    BY <2>1, <2>2
<1>6. ValidIn(g, c) = ValidIn(f, c) \cup {last}
  <2>. HIDE DEF last
  <2>. QED
    BY <1>1, <1>5 DEF ValidIn
<1>7. UsedIn(g, c) = UsedIn(f, c) \cup {last}
  <2>1. \A j \in 0..(c - 1) : ~is_empty(g[j]) <=> ~is_empty(f[j]) \/ j = last
    <3>. SUFFICES ASSUME NEW j \in 0..(c - 1)
                  PROVE  ~is_empty(g[j]) <=> ~is_empty(f[j]) \/ j = last
      OBVIOUS
    <3>1. CASE Off(c, i, j) > n
      <4>1. j # i /\ j # last
        BY <1>0, <1>1, <3>1, OffZero
      <4>2. g[j] = f[j]
        BY <1>0, <3>1, <4>1, ShiftedCells
      <4>. QED
        BY <4>1, <4>2
    <3>2. CASE ~(Off(c, i, j) > n)
      <4>1. j = last \/ Off(c, i, j) < n
        BY <1>0, <1>3, <1>4, <3>2
      <4>2. is_valid(g[j]) /\ (is_valid(f[j]) \/ j = last)
        BY <1>5, <4>1 DEF Shifted
      <4>. QED
        BY <4>2 DEF is_valid
    <3>. QED
      BY <3>1, <3>2
  <2>. HIDE DEF last
  <2>. QED
    BY <1>1, <2>1 DEF UsedIn
<1>. QED
  BY <1>1, <1>2, <1>6, <1>7

\* One element more.
LEMMA CountMore ==
    ASSUME NEW S, NEW T, NEW x, IsFiniteSet(S), x \notin S, T = S \cup {x}
    PROVE  Cardinality(T) = Cardinality(S) + 1
  BY FS_AddElement

\* And a key that is new stays the only one.
LEMMA ShiftKeepsKeys ==
    ASSUME NEW c \in Nat \ {0}, NEW f \in Arrays(c), NEW g, NEW i \in 0..(c - 1), NEW n,
           NEW b \in Buckets, is_valid(b), Shifted(f, g, c, i, n, b)
    PROVE  /\ Homed(f, c) /\ b.hash = get_table_entry(c, b.key) => Homed(g, c)
           /\ Unique(f, c) /\ b.key \notin KeysIn(f, c) => Unique(g, c)
<1>1. \A j \in ValidIn(g, c) : j = i \/ \E k \in ValidIn(f, c) : g[j] = f[k]
  <2>. SUFFICES ASSUME NEW j \in ValidIn(g, c), j # i PROVE \E k \in ValidIn(f, c) : g[j] = f[k]
    OBVIOUS
  <2>1. j \in 0..(c - 1) /\ is_valid(g[j])
    BY DEF ValidIn
  <2>2. g[j] = f[j] \/ (g[j] = f[Pred(c, j)] /\ Pred(c, j) \in ValidIn(f, c))
    BY <2>1, ShiftedCells
  <2>3. g[j] = f[j] => j \in ValidIn(f, c)
    BY <2>1 DEF ValidIn
  <2>. QED
    BY <2>2, <2>3
<1>2. g[i] = b
  BY ShiftedCells
<1>3. ASSUME Homed(f, c), b.hash = get_table_entry(c, b.key) PROVE Homed(g, c)
  BY <1>1, <1>2, <1>3 DEF Homed
<1>4. ASSUME Unique(f, c), b.key \notin KeysIn(f, c),
             NEW j \in ValidIn(g, c), NEW k \in ValidIn(g, c), g[j].key = g[k].key
      PROVE  j = k
  <2>1. j = i \/ k = i => j = k
    BY <1>1, <1>2, <1>4 DEF KeysIn
  <2>2. ASSUME j # i, k # i PROVE j = k
    <3>0. j \in 0..(c - 1) /\ k \in 0..(c - 1) /\ is_valid(g[j]) /\ is_valid(g[k])
      BY DEF ValidIn
    <3>1. \/ Off(c, i, j) > n /\ g[j] = f[j] /\ j \in ValidIn(f, c)
          \/ Off(c, i, j) \in 1..n /\ g[j] = f[Pred(c, j)] /\ Pred(c, j) \in ValidIn(f, c)
      <4>1. g[j] = f[j] => j \in ValidIn(f, c)
        BY <3>0 DEF ValidIn
      <4>. QED
        BY <2>2, <3>0, <4>1, ShiftedCells
    <3>2. \/ Off(c, i, k) > n /\ g[k] = f[k] /\ k \in ValidIn(f, c)
          \/ Off(c, i, k) \in 1..n /\ g[k] = f[Pred(c, k)] /\ Pred(c, k) \in ValidIn(f, c)
      <4>1. g[k] = f[k] => k \in ValidIn(f, c)
        BY <3>0 DEF ValidIn
      <4>. QED
        BY <2>2, <3>0, <4>1, ShiftedCells
    <3>3. n \in 0..(c - 1)
      BY DEF Shifted
    <3>4. ASSUME NEW x \in 0..(c - 1), NEW y \in 0..(c - 1), Off(c, i, x) > n,
                 Off(c, i, y) \in 1..n
          PROVE  x # Pred(c, y)
      <4>1. Off(c, i, Pred(c, y)) = Off(c, i, y) - 1
        BY <3>3, <3>4, OffPred
      <4>. QED
        BY <3>3, <3>4, <4>1
    <3>5. Pred(c, j) = Pred(c, k) => j = k
      BY <3>0 DEF Pred
    <3>6. \A x \in ValidIn(f, c), y \in ValidIn(f, c) : f[x].key = f[y].key => x = y
      BY <1>4 DEF Unique
    <3>7. CASE Off(c, i, j) > n /\ g[j] = f[j] /\ j \in ValidIn(f, c)
      BY <1>4, <3>0, <3>2, <3>4, <3>6, <3>7
    <3>8. CASE Off(c, i, j) \in 1..n /\ g[j] = f[Pred(c, j)] /\ Pred(c, j) \in ValidIn(f, c)
      BY <1>4, <3>0, <3>2, <3>4, <3>5, <3>6, <3>8
    <3>. QED
      BY <3>1, <3>7, <3>8
  <2>. QED
    BY <2>1, <2>2
<1>. QED
  BY <1>3, <1>4 DEF Unique

\* The least of some naturals.
LEMMA MinLeast ==
    ASSUME NEW S \in SUBSET Nat, S # {}
    PROVE  Min(S) \in S /\ \A k \in S : Min(S) <= k
<1>1. \E m \in S : \A k \in S : m <= k
  BY LeastNatural
<1>. QED
  BY <1>1 DEF Min

\* There are finitely many indices.
LEMMA ArrayCounts ==
    ASSUME NEW c \in Nat \ {0}, NEW S \in SUBSET (0..(c - 1))
    PROVE  /\ IsFiniteSet(S) /\ Cardinality(S) \in Nat /\ Cardinality(S) <= c
           /\ Cardinality(S) = c <=> S = 0..(c - 1)
<1>1. IsFiniteSet(0..(c - 1)) /\ Cardinality(0..(c - 1)) = c
  BY FS_Interval
<1>2. IsFiniteSet(S) /\ Cardinality(S) <= c /\ (Cardinality(S) = c => S = 0..(c - 1))
  BY <1>1, FS_Subset
<1>. QED
  BY <1>1, <1>2, FS_CardinalityType

(***************************************************************************)
(* Inserting a bucket into a table.                                        *)
(***************************************************************************)
TablesOf(c) == [capacity : {c}, occupancy : Nat, ins_rm_count : Int, buckets : Arrays(c)]

\* The table r is t with b at index i and n buckets shifted.
Adds(t, r, c, i, n, b) ==
    /\ Shifted(t.buckets, r.buckets, c, i, n, b)
    /\ r = [t EXCEPT !.buckets = r.buckets, !.occupancy = @ + 1, !.ins_rm_count = @ + 1]

\* ShiftIn shifts, if there is a bucket to end at.
LEMMA ShiftInShifts ==
    ASSUME NEW c \in Nat \ {0}, NEW t \in TablesOf(c), NEW i \in 0..(c - 1), NEW b,
           ValidIn(t.buckets, c) # 0..(c - 1)
    PROVE  \E n \in 0..(c - 1) : Adds(t, ShiftIn(t, i, b), c, i, n, b)
<1>. DEFINE f == t.buckets
            free == {k \in Offsets(t) : ~is_valid(f[At(t, i, k)])}
            last == IF free = {} THEN c - 1 ELSE Min(free)
            g == [j \in 0..(c - 1) |->
                     LET k == (j - i) % c IN
                     IF k = 0 THEN b
                     ELSE IF k <= last THEN f[At(t, i, k - 1)]
                     ELSE f[j]]
<1>0. t.capacity = c /\ f \in Arrays(c)
  BY DEF TablesOf
<1>1. \A k \in 0..(c - 1) : At(t, i, k) = Fwd(c, i, k)
  BY <1>0, AtIsFwd DEF At
<1>2. free = {k \in 0..(c - 1) : ~is_valid(f[Fwd(c, i, k)])}
  BY <1>0, <1>1 DEF Offsets
<1>3. free # {}
  <2>1. PICK j \in 0..(c - 1) : j \notin ValidIn(f, c)
    BY DEF ValidIn
  <2>2. Off(c, i, j) \in 0..(c - 1) /\ Fwd(c, i, Off(c, i, j)) = j
    BY OffType, FwdOff
  <2>3. Off(c, i, j) \in free
    BY <1>2, <2>1, <2>2 DEF ValidIn
  <2>. QED
    BY <2>3
<1>4. last = Min(free) /\ last \in free /\ (\A k \in free : last <= k) /\ last \in 0..(c - 1)
  <2>1. free \subseteq 0..(c - 1) /\ free \in SUBSET Nat
    BY <1>2
  <2>. HIDE DEF free
  <2>. QED
    BY <1>3, <2>1, MinLeast
<1>5. \A j \in 0..(c - 1) : /\ Off(c, i, j) \in 0..(c - 1) /\ Fwd(c, i, Off(c, i, j)) = j
                            /\ (j - i) % c = Off(c, i, j) /\ (Off(c, i, j) = 0 <=> j = i)
  <2>1. \A j \in 0..(c - 1) : Off(c, i, j) \in 0..(c - 1)
    BY OffType
  <2>2. \A j \in 0..(c - 1) : Fwd(c, i, Off(c, i, j)) = j
    BY FwdOff
  <2>3. \A j \in 0..(c - 1) : (j - i) % c = Off(c, i, j)
    BY OffIsMod
  <2>4. \A j \in 0..(c - 1) : Off(c, i, j) = 0 <=> j = i
    BY OffZero
  <2>. QED
    BY <2>1, <2>2, <2>3, <2>4
<1>6. \A j \in 0..(c - 1) : Off(c, i, j) # 0 => At(t, i, Off(c, i, j) - 1) = Pred(c, j)
  <2>. SUFFICES ASSUME NEW j \in 0..(c - 1), Off(c, i, j) # 0
                PROVE  At(t, i, Off(c, i, j) - 1) = Pred(c, j)
    OBVIOUS
  <2>1. Off(c, i, Pred(c, j)) = Off(c, i, j) - 1 /\ Pred(c, j) \in 0..(c - 1)
    BY OffPred, OffType
  <2>2. Off(c, i, Pred(c, j)) \in 0..(c - 1) /\ Fwd(c, i, Off(c, i, Pred(c, j))) = Pred(c, j)
    BY <2>1, OffType, FwdOff
  <2>. QED
    BY <1>1, <2>1, <2>2
<1>7. g = [j \in 0..(c - 1) |->
             IF j = i THEN b ELSE IF Off(c, i, j) <= last THEN f[Pred(c, j)] ELSE f[j]]
  <2>. HIDE DEF last, f
  <2>. QED
    BY <1>5, <1>6
<1>8. Shifted(f, g, c, i, last, b)
  <2>1. \A j \in 0..(c - 1) : Off(c, i, j) < last => is_valid(f[j])
    <3>. HIDE DEF last, f, free
    <3>1. \A k \in 0..(c - 1) : k < last => is_valid(f[Fwd(c, i, k)])
      BY <1>2, <1>4
    <3>. QED
      BY <1>5, <3>1
  <2>2. \A j \in 0..(c - 1) : Off(c, i, j) = last => ~is_valid(f[j])
    <3>. HIDE DEF last, f, free
    <3>1. ~is_valid(f[Fwd(c, i, last)])
      BY <1>2, <1>4
    <3>. QED
      BY <1>5, <3>1
  <2>. HIDE DEF last, f, g
  <2>. QED
    BY <1>4, <1>7, <2>1, <2>2 DEF Shifted
<1>9. ShiftIn(t, i, b) = [t EXCEPT !.buckets = g, !.occupancy = @ + 1, !.ins_rm_count = @ + 1]
  BY <1>0, <1>3 DEF ShiftIn
<1>10. ShiftIn(t, i, b).buckets = g
  <2>. HIDE DEF g
  <2>. QED
    BY <1>9 DEF TablesOf
<1>. QED
  <2>. HIDE DEF g, last
  <2>. QED
    BY <1>4, <1>8, <1>9, <1>10 DEF Adds

\* Put is a shift of no bucket.
LEMMA PutShifts ==
    ASSUME NEW c \in Nat \ {0}, NEW t \in TablesOf(c), NEW i \in 0..(c - 1), NEW b,
           ~is_valid(t.buckets[i])
    PROVE  Adds(t, Put(t, i, b), c, i, 0, b)
<1>. DEFINE f == t.buckets
            g == [f EXCEPT ![i] = b]
<1>0. f \in Arrays(c)
  BY DEF TablesOf
<1>1. Put(t, i, b) = [t EXCEPT !.buckets = g, !.occupancy = @ + 1, !.ins_rm_count = @ + 1]
  BY DEF Put
<1>2. Put(t, i, b).buckets = g
  <2>. HIDE DEF g
  <2>. QED
    BY <1>1 DEF TablesOf
<1>3. \A j \in 0..(c - 1) : Off(c, i, j) \in Nat /\ (Off(c, i, j) = 0 <=> j = i)
  BY OffNat, OffZero
<1>4. g = [j \in 0..(c - 1) |->
             IF j = i THEN b ELSE IF Off(c, i, j) <= 0 THEN f[Pred(c, j)] ELSE f[j]]
  <2>1. \A j \in 0..(c - 1) : Off(c, i, j) <= 0 <=> j = i
    BY <1>3
  <2>2. g = [j \in 0..(c - 1) |-> IF j = i THEN b ELSE f[j]]
    <3>. HIDE DEF f
    <3>. QED
      BY <1>0 DEF Arrays
  <2>. HIDE DEF f, g
  <2>. QED
    BY <2>1, <2>2
<1>5. Shifted(f, g, c, i, 0, b)
  <2>. HIDE DEF g
  <2>. QED
    BY <1>3, <1>4 DEF Shifted
<1>. QED
  <2>. HIDE DEF g
  <2>. QED
    BY <1>1, <1>2, <1>5 DEF Adds

\* Where insert ends its probe for key x.
Stops(t, x) == {k \in Offsets(t) : StopsInsert(t, x, k)}
Target(t, x) ==
    LET tgt == get_table_entry(t.capacity, x) IN
    IF Stops(t, x) = {} THEN tgt ELSE At(t, tgt, Min(Stops(t, x)))

\* It ends at an index.
LEMMA TargetIsIndex ==
    ASSUME NEW c \in Nat \ {0}, NEW t \in TablesOf(c), NEW x \in Keys
    PROVE  /\ Target(t, x) \in 0..(c - 1)
           /\ Stops(t, x) # {} =>
                /\ Min(Stops(t, x)) = Off(c, get_table_entry(c, x), Target(t, x))
                /\ Off(c, get_table_entry(c, x), Target(t, x)) \in Stops(t, x)
                /\ \A k \in Stops(t, x) : Off(c, get_table_entry(c, x), Target(t, x)) <= k
<1>. DEFINE h == get_table_entry(c, x)
            m == Min(Stops(t, x))
<1>1. h \in 0..(c - 1) /\ t.capacity = c
  BY EntryIsIndex DEF TablesOf
<1>2. Stops(t, x) \subseteq 0..(c - 1) /\ Stops(t, x) \in SUBSET Nat
  BY <1>1 DEF Stops, Offsets
<1>3. CASE Stops(t, x) = {}
  BY <1>1, <1>3 DEF Target
<1>4. CASE Stops(t, x) # {}
  <2>1. m \in Stops(t, x) /\ m \in 0..(c - 1) /\ \A k \in Stops(t, x) : m <= k
    BY <1>2, <1>4, MinLeast
  <2>2. Target(t, x) = Fwd(c, h, m)
    <3>1. Target(t, x) = (h + m) % c
      BY <1>1, <1>4 DEF Target, At
    <3>. HIDE DEF h, m
    <3>. QED
      BY <1>1, <2>1, <3>1, AtIsFwd
  <2>3. Target(t, x) \in 0..(c - 1) /\ Off(c, h, Target(t, x)) = m
    <3>. HIDE DEF h, m
    <3>. QED
      BY <1>1, <2>1, <2>2, FwdOff
  <2>. QED
    BY <2>1, <2>3
<1>. QED
  BY <1>3, <1>4

\* A key that is marked neither empty nor deleted is a key.
LEMMA KeyAtIsValid ==
    ASSUME NEW c \in Nat \ {0}, NEW f \in Arrays(c), NEW x \in Keys, NEW i \in 0..(c - 1),
           f[i].key = x
    PROVE  i \in ValidIn(f, c)
<1>1. f[i] \in Buckets
  BY DEF Arrays
<1>. QED
  BY <1>1, ValidIsKey DEF ValidIn

\* Inserting into a hash table that is not full replaces a view or adds a bucket.
LEMMA InsertHashCases ==
    ASSUME NEW c \in Nat \ {0}, NEW t \in TablesOf(c), NEW b0 \in Buckets, is_valid(b0),
           ValidIn(t.buckets, c) # 0..(c - 1)
    PROVE  LET i == Target(t, b0.key)
               b == Rehashed(t, b0)
               r == InsertHash(t, b0)
           IN  \/ /\ i \in ValidIn(t.buckets, c) /\ t.buckets[i].key = b.key
                  /\ r = [t EXCEPT !.buckets[i].value = b.value]
               \/ /\ t.buckets[i].key # b.key
                  /\ \E n \in 0..(c - 1) : Adds(t, r, c, i, n, b)
<1>. DEFINE i == Target(t, b0.key)
            b == Rehashed(t, b0)
            stops == {k \in Offsets(t) : StopsInsert(t, b.key, k)}
            at == t.buckets[i]
<1>0. b.key = b0.key /\ b.key \in Keys
  BY ValidIsKey DEF Rehashed, Buckets, BucketRec
<1>1. i \in 0..(c - 1) /\ t.capacity = c /\ t.buckets \in Arrays(c)
  BY <1>0, TargetIsIndex DEF TablesOf
<1>2. InsertHash(t, b0) = IF at.key = b.key THEN [t EXCEPT !.buckets[i].value = b.value]
                          ELSE IF stops # {} /\ ~is_valid(at) THEN Put(t, i, b)
                          ELSE ShiftIn(t, i, b)
  BY <1>0 DEF InsertHash, Target, Stops
<1>. HIDE DEF i, b, stops
<1>3. CASE at.key = b.key
  BY <1>0, <1>1, <1>2, <1>3, KeyAtIsValid DEF i, b
<1>4. CASE at.key # b.key /\ stops # {} /\ ~is_valid(at)
  <2>1. InsertHash(t, b0) = Put(t, i, b) /\ Adds(t, Put(t, i, b), c, i, 0, b) /\ 0 \in 0..(c - 1)
    BY <1>1, <1>2, <1>4, PutShifts
  <2>. QED
    BY <1>4, <2>1 DEF i, b
<1>5. CASE at.key # b.key /\ ~(stops # {} /\ ~is_valid(at))
  <2>1. InsertHash(t, b0) = ShiftIn(t, i, b)
    BY <1>2, <1>5
  <2>2. \E n \in 0..(c - 1) : Adds(t, ShiftIn(t, i, b), c, i, n, b)
    BY <1>1, ShiftInShifts
  <2>. QED
    BY <1>5, <2>1, <2>2 DEF i, b
<1>. QED
  BY <1>3, <1>4, <1>5

\* The end of a run of tombstones.
LEMMA TombEndIs ==
    ASSUME NEW c \in Nat \ {0}, NEW t \in TablesOf(c), NEW h \in 0..(c - 1), NEW k \in 0..(c - 1)
    PROVE  LET end == TombEnd(t, h, k) IN
           /\ end \in (k + 1)..c
           /\ end = c \/ ~is_tombstone(t.buckets[Fwd(c, h, end)])
           /\ \A q \in 0..(c - 1) :
                 Off(c, h, q) > k /\ ~is_tombstone(t.buckets[q]) => end <= Off(c, h, q)
<1>. DEFINE S == {j \in (k + 1)..t.capacity :
                     j = t.capacity \/ ~is_tombstone(t.buckets[At(t, h, j)])}
            end == TombEnd(t, h, k)
<1>1. t.capacity = c
  BY DEF TablesOf
<1>2. \A j \in (k + 1)..c : At(t, h, j) = Fwd(c, h, j)
  BY <1>1, AtIsFwd DEF At
<1>3. S = {j \in (k + 1)..c : j = c \/ ~is_tombstone(t.buckets[Fwd(c, h, j)])}
  BY <1>1, <1>2
<1>4. c \in S /\ S \in SUBSET Nat
  BY <1>3
<1>5. end = Min(S)
  BY DEF TombEnd
<1>6. end \in S /\ \A j \in S : end <= j
  <2>. HIDE DEF S, end
  <2>. QED
    BY <1>4, <1>5, MinLeast
<1>7. ASSUME NEW q \in 0..(c - 1), Off(c, h, q) > k, ~is_tombstone(t.buckets[q])
      PROVE  end <= Off(c, h, q)
  <2>1. Off(c, h, q) \in (k + 1)..c /\ Fwd(c, h, Off(c, h, q)) = q
    <3>1. Off(c, h, q) \in 0..(c - 1)
      BY OffType
    <3>2. Fwd(c, h, Off(c, h, q)) = q
      BY FwdOff
    <3>. QED
      BY <1>7, <3>1, <3>2
  <2>2. Off(c, h, q) \in S
    BY <1>3, <1>7, <2>1
  <2>. QED
    BY <1>6, <2>2
<1>. QED
  <2>. HIDE DEF end
  <2>. QED
    BY <1>3, <1>6, <1>7 DEF end

\* Whether insert ends its probe for x at index p.
LEMMA StopsAt ==
    ASSUME NEW c \in Nat \ {0}, c <= IndexMod, NEW t \in TablesOf(c), Homed(t.buckets, c),
           NEW x \in Keys, NEW p \in 0..(c - 1)
    PROVE  LET f == t.buckets
               h == get_table_entry(c, x)
               end == TombEnd(t, h, Off(c, h, p))
               next == Fwd(c, h, end)
           IN  Off(c, h, p) \in Stops(t, x) <=>
                 \/ f[p].key = x
                 \/ ~Passes(f, c, h, p)
                 \/ is_tombstone(f[p]) /\ (end = c \/ ~Passes(f, c, h, next))
<1>. DEFINE f == t.buckets
            h == get_table_entry(c, x)
            k == Off(c, h, p)
            end == TombEnd(t, h, k)
            next == Fwd(c, h, end)
<1>1. h \in 0..(c - 1) /\ t.capacity = c /\ f \in Arrays(c) /\ Homed(f, c)
  BY EntryIsIndex DEF TablesOf
<1>2. k \in 0..(c - 1) /\ Fwd(c, h, k) = p
  <2>. HIDE DEF h
  <2>1. k \in 0..(c - 1)
    BY <1>1, OffType
  <2>2. Fwd(c, h, k) = p
    BY <1>1, FwdOff
  <2>. QED
    BY <2>1, <2>2
<1>3. /\ end \in (k + 1)..c
      /\ end = c \/ ~is_tombstone(f[next])
  <2>. HIDE DEF h, k
  <2>. QED
    BY <1>1, <1>2, TombEndIs
<1>4. At(t, h, k) = p /\ At(t, h, end) = next
  <2>. HIDE DEF h, k, end
  <2>1. (h + k) % c = Fwd(c, h, k)
    BY <1>1, <1>2, AtIsFwd
  <2>2. end \in 0..c
    BY <1>2, <1>3
  <2>3. (h + end) % c = Fwd(c, h, end)
    BY <1>1, <2>2, AtIsFwd
  <2>. QED
    BY <1>1, <1>2, <2>1, <2>3 DEF At
<1>5. k \in Stops(t, x) <=>
          \/ f[p].key = x
          \/ is_empty(f[p])
          \/ /\ is_tombstone(f[p])
             /\ \/ is_empty(f[next])
                \/ end = c
                \/ ~continue_probe(h, f[next].hash, next)
          \/ is_valid(f[p]) /\ ~continue_probe(h, f[p].hash, p)
  <2>1. k \in Stops(t, x) <=> StopsInsert(t, x, k)
    BY <1>1, <1>2 DEF Stops, Offsets
  <2>. HIDE DEF f, h, k, end, next
  <2>. QED
    BY <1>1, <1>4, <2>1 DEF StopsInsert, f, h, end
<1>6. \A q \in 0..(c - 1) : is_valid(f[q]) =>
          (continue_probe(h, f[q].hash, q) <=> Off(c, h, q) <= Off(c, f[q].hash, q))
  <2>1. \A q \in ValidIn(f, c) : f[q].hash \in 0..(c - 1)
    <3>. HIDE DEF f
    <3>. QED
      BY <1>1, HomeIsIndex
  <2>2. \A q \in 0..(c - 1) : is_valid(f[q]) => f[q].hash \in 0..(c - 1)
    BY <2>1 DEF ValidIn
  <2>. HIDE DEF f, h
  <2>. QED
    BY <1>1, <2>2, ContinueIsNearer
<1>7. Passes(f, c, h, p) <=>
          ~is_empty(f[p]) /\ (is_valid(f[p]) => continue_probe(h, f[p].hash, p))
  BY <1>6 DEF Passes
<1>8. end # c => (Passes(f, c, h, next) <=>
                    ~is_empty(f[next]) /\ continue_probe(h, f[next].hash, next))
  <2>. SUFFICES ASSUME end # c
                PROVE  Passes(f, c, h, next) <=>
                         ~is_empty(f[next]) /\ continue_probe(h, f[next].hash, next)
    OBVIOUS
  <2>1. next \in 0..(c - 1)
    <3>1. end \in 0..(c - 1)
      BY <1>2, <1>3
    <3>. HIDE DEF h, end
    <3>. QED
      BY <1>1, <3>1, FwdOff
  <2>2. is_valid(f[next]) <=> ~is_empty(f[next])
    BY <1>3 DEF is_valid
  <2>. HIDE DEF f, h, end, next
  <2>. QED
    BY <1>6, <2>1, <2>2 DEF Passes
<1>9. is_tombstone(f[p]) => ~is_empty(f[p]) /\ ~is_valid(f[p])
  BY DEF is_tombstone, is_empty, is_valid, KEY_EMPTY, KEY_DELETED
<1>. HIDE DEF f, h, k, end, next
<1>10. k \in Stops(t, x) <=>
          \/ f[p].key = x
          \/ ~Passes(f, c, h, p)
          \/ is_tombstone(f[p]) /\ (end = c \/ ~Passes(f, c, h, next))
  BY <1>5, <1>7, <1>8, <1>9 DEF is_valid
<1>. QED
  BY <1>10 DEF f, h, k, end, next

\* Distances from two homes grow together, until one of them wraps.
LEMMA OffAdd ==
    ASSUME NEW c \in Nat \ {0}, NEW h \in 0..(c - 1), NEW g \in 0..(c - 1),
           NEW i \in 0..(c - 1), NEW q \in 0..(c - 1), Off(c, g, i) <= Off(c, g, q),
           Off(c, h, i) + Off(c, g, q) - Off(c, g, i) < c
    PROVE  Off(c, h, q) = Off(c, h, i) + Off(c, g, q) - Off(c, g, i)
  BY DEF Off

\* With an empty bucket in the table, insert ends its probe at the key if it is there, and
\* otherwise where the bucket may be put.
LEMMA InsertIsPlaced ==
    ASSUME NEW c \in Nat \ {0}, c <= IndexMod, NEW t \in TablesOf(c), Homed(t.buckets, c),
           Ordered(t.buckets, c), Unique(t.buckets, c),
           NEW e \in 0..(c - 1), is_empty(t.buckets[e]), NEW x \in Keys
    PROVE  LET i == Target(t, x) IN
           \/ t.buckets[i].key = x
           \/ x \notin KeysIn(t.buckets, c) /\ Placed(t.buckets, c, i, get_table_entry(c, x))
<1>. DEFINE f == t.buckets
            h == get_table_entry(c, x)
            i == Target(t, x)
            k == Off(c, h, i)
            End(p) == TombEnd(t, h, Off(c, h, p))
            After(p) == Fwd(c, h, End(p))
<1>1. h \in 0..(c - 1) /\ f \in Arrays(c) /\ i \in 0..(c - 1)
  BY EntryIsIndex, TargetIsIndex DEF TablesOf
<1>2. \A p \in 0..(c - 1) :
          Off(c, h, p) \in Stops(t, x) <=>
            \/ f[p].key = x
            \/ ~Passes(f, c, h, p)
            \/ is_tombstone(f[p]) /\ (End(p) = c \/ ~Passes(f, c, h, After(p)))
  BY StopsAt
<1>3. \A p \in 0..(c - 1) :
          /\ End(p) \in (Off(c, h, p) + 1)..c
          /\ End(p) = c \/ ~is_tombstone(f[After(p)])
          /\ \A q \in 0..(c - 1) :
                Off(c, h, q) > Off(c, h, p) /\ ~is_tombstone(f[q]) => End(p) <= Off(c, h, q)
  <2>1. \A p \in 0..(c - 1) : Off(c, h, p) \in 0..(c - 1)
    <3>. HIDE DEF h
    <3>. QED
      BY <1>1, OffType
  <2>. HIDE DEF h, f
  <2>. QED
    BY <1>1, <2>1, TombEndIs DEF f
<1>4. Off(c, h, e) \in Stops(t, x)
  BY <1>2 DEF Passes
<1>5. k \in Stops(t, x) /\ \A j \in Stops(t, x) : k <= j
  BY <1>4, TargetIsIndex
<1>6. \A q \in ValidIn(f, c) : q \in 0..(c - 1) /\ is_valid(f[q]) /\ f[q].hash \in 0..(c - 1)
  <2>1. \A q \in ValidIn(f, c) : f[q].hash \in 0..(c - 1)
    BY <1>1, HomeIsIndex
  <2>. QED
    BY <2>1 DEF ValidIn
<1>7. \A q \in ValidIn(f, c), p \in 0..(c - 1) :
          Off(c, f[q].hash, p) < Off(c, f[q].hash, q) => Passes(f, c, f[q].hash, p)
  BY DEF Ordered
<1>8. \A q \in 0..(c - 1) : Off(c, h, q) \in 0..(c - 1)
  <2>. HIDE DEF h
  <2>. QED
    BY <1>1, OffType
<1>9. \A p \in 0..(c - 1) : End(p) # c => After(p) \in 0..(c - 1) /\ Off(c, h, After(p)) = End(p)
  <2>. SUFFICES ASSUME NEW p \in 0..(c - 1), End(p) # c
                PROVE  After(p) \in 0..(c - 1) /\ Off(c, h, After(p)) = End(p)
    OBVIOUS
  <2>1. End(p) \in 0..(c - 1)
    <3>1. Off(c, h, p) \in 0..(c - 1) /\ End(p) \in (Off(c, h, p) + 1)..c /\ End(p) # c
      BY <1>3, <1>8
    <3>. HIDE DEF h, End
    <3>. QED
      BY <3>1
  <2>. HIDE DEF h, End
  <2>. QED
    BY <1>1, <2>1, FwdOff
<1>10. ASSUME x \in KeysIn(f, c) PROVE f[i].key = x
  <2>1. PICK q \in ValidIn(f, c) : f[q].key = x
    BY <1>10 DEF KeysIn
  <2>2. f[q].hash = h /\ q \in 0..(c - 1) /\ is_valid(f[q])
    BY <1>6, <2>1 DEF Homed
  <2>3. ASSUME NEW p \in 0..(c - 1), Off(c, h, p) < Off(c, h, q)
        PROVE  ~(Off(c, h, p) \in Stops(t, x))
    <3>1. Passes(f, c, h, p)
      BY <1>7, <2>2, <2>3
    <3>2. f[p].key # x
      <4>1. f[p].key = x => p \in ValidIn(f, c)
        BY <1>1, KeyAtIsValid
      <4>2. p # q
        BY <1>8, <2>2, <2>3
      <4>. QED
        BY <2>1, <4>1, <4>2 DEF Unique
    <3>3. ~is_tombstone(f[q])
      BY <2>2 DEF is_valid
    <3>4. End(p) <= Off(c, h, q) /\ End(p) # c
      <4>. HIDE DEF h, f, End, After
      <4>. QED
        BY <1>3, <1>8, <2>2, <2>3, <3>3
    <3>5. Passes(f, c, h, After(p))
      <4>1. After(p) \in 0..(c - 1) /\ Off(c, h, After(p)) = End(p)
        BY <1>9, <3>4
      <4>2. CASE Off(c, h, After(p)) < Off(c, h, q)
        BY <1>7, <2>2, <4>1, <4>2
      <4>3. CASE Off(c, h, After(p)) = Off(c, h, q)
        <5>1. After(p) = q
          <6>. HIDE DEF h, After
          <6>. QED
            BY <1>1, <2>2, <4>1, <4>3, SameDistance
        <5>2. Off(c, h, q) <= Off(c, h, q)
          BY <1>8, <2>2
        <5>. HIDE DEF h, f, After
        <5>. QED
          BY <2>2, <5>1, <5>2 DEF Passes, is_valid
      <4>4. Off(c, h, After(p)) \in 0..(c - 1) /\ Off(c, h, q) \in 0..(c - 1)
        <5>. HIDE DEF h, After
        <5>. QED
          BY <1>8, <2>2, <4>1
      <4>. HIDE DEF h, After, End
      <4>. QED
        BY <3>4, <4>1, <4>2, <4>3, <4>4
    <3>. HIDE DEF f, h, End, After
    <3>. QED
      BY <1>2, <3>1, <3>2, <3>4, <3>5
  <2>4. Off(c, h, q) \in Stops(t, x)
    BY <1>2, <2>1, <2>2
  <2>5. ~(k < Off(c, h, q)) /\ k <= Off(c, h, q)
    BY <1>1, <1>5, <2>3, <2>4
  <2>6. k = Off(c, h, q)
    <3>. HIDE DEF h, i
    <3>. QED
      BY <1>1, <1>8, <2>2, <2>5
  <2>7. i = q
    <3>. HIDE DEF h, i
    <3>. QED
      BY <1>1, <2>2, <2>6, SameDistance
  <2>. QED
    BY <2>1, <2>7
<1>11. ASSUME f[i].key # x PROVE Placed(f, c, i, h)
  <2>1. ASSUME NEW p \in 0..(c - 1), Off(c, h, p) < k PROVE Passes(f, c, h, p)
    <3>1. Off(c, h, p) \notin Stops(t, x)
      <4>. HIDE DEF h, i
      <4>. QED
        BY <1>1, <1>5, <1>8, <2>1
    <3>. QED
      BY <1>2, <3>1
  <2>2. ASSUME NEW q \in ValidIn(f, c), Off(c, f[q].hash, i) <= Off(c, f[q].hash, q)
        PROVE  Off(c, f[q].hash, i) <= k
    <3>. DEFINE g == f[q].hash
    <3>1. g \in 0..(c - 1) /\ q \in 0..(c - 1) /\ is_valid(f[q])
      BY <1>6
    <3>2. \A p \in 0..(c - 1) : Off(c, g, p) \in 0..(c - 1)
      <4>. HIDE DEF g
      <4>. QED
        BY <3>1, OffType
    <3>3. i # q => Off(c, g, i) < Off(c, g, q)
      <4>1. i # q => Off(c, g, i) # Off(c, g, q)
        <5>. HIDE DEF g, i
        <5>. QED
          BY <1>1, <3>1, SameDistance
      <4>. HIDE DEF g, i
      <4>. QED
        BY <1>1, <2>2, <3>1, <3>2, <4>1 DEF g
    <3>4. i # q => Passes(f, c, g, i)
      BY <1>1, <1>7, <3>3
    <3>5. CASE ~Passes(f, c, h, i)
      <4>1. ~is_empty(f[i])
        BY <3>1, <3>4 DEF Passes, is_valid
      <4>2. is_valid(f[i]) /\ ~(k <= Off(c, f[i].hash, i))
        BY <3>5, <4>1 DEF Passes
      <4>3. Off(c, g, i) <= Off(c, f[i].hash, i)
        <5>1. CASE i = q
          BY <1>1, <3>2, <5>1
        <5>2. CASE i # q
          BY <3>4, <4>2, <5>2 DEF Passes
        <5>. QED
          BY <5>1, <5>2
      <4>4. Off(c, f[i].hash, i) \in Nat
        <5>1. i \in ValidIn(f, c)
          BY <1>1, <4>2 DEF ValidIn
        <5>2. f[i].hash \in 0..(c - 1)
          BY <1>6, <5>1
        <5>. QED
          BY <1>1, <5>2, OffNat
      <4>. HIDE DEF g, h, i
      <4>. QED
        BY <1>1, <1>8, <3>2, <4>2, <4>3, <4>4 DEF g
    <3>6. CASE is_tombstone(f[i]) /\ (End(i) = c \/ ~Passes(f, c, h, After(i)))
      <4>. SUFFICES ASSUME Off(c, g, i) > k PROVE FALSE
        <5>1. Off(c, g, i) \in Nat /\ k \in Nat
          <6>. HIDE DEF g, h, i
          <6>. QED
            BY <1>1, <1>8, <3>2
        <5>2. ~(Off(c, g, i) > k)
          OBVIOUS
        <5>. HIDE DEF h, i
        <5>. QED
          BY <5>1, <5>2
      <4>1. i # q /\ Off(c, g, i) < Off(c, g, q)
        BY <3>1, <3>3, <3>6 DEF is_valid
      <4>2. Off(c, h, q) = k + Off(c, g, q) - Off(c, g, i)
        <5>1. k + Off(c, g, q) - Off(c, g, i) < c /\ Off(c, g, i) <= Off(c, g, q)
          <6>. HIDE DEF g, h, i
          <6>. QED
            BY <1>1, <1>8, <3>1, <3>2, <4>1
        <5>. HIDE DEF g, h, i
        <5>. QED
          BY <1>1, <3>1, <5>1, OffAdd
      <4>3. Off(c, h, q) > k /\ ~is_tombstone(f[q])
        <5>1. Off(c, h, q) > k
          <6>. HIDE DEF g, h, i
          <6>. QED
            BY <1>1, <1>8, <3>1, <3>2, <4>1, <4>2
        <5>. QED
          BY <3>1, <5>1 DEF is_valid
      <4>4. End(i) <= Off(c, h, q) /\ End(i) # c /\ End(i) > k
        <5>. HIDE DEF g, h, i, f, End, After
        <5>. QED
          BY <1>1, <1>3, <1>8, <3>1, <4>3
      <4>5. After(i) \in 0..(c - 1) /\ Off(c, h, After(i)) = End(i) /\ ~Passes(f, c, h, After(i))
             /\ ~is_tombstone(f[After(i)])
        BY <1>1, <1>3, <1>9, <3>6, <4>4
      <4>6. Off(c, g, After(i)) = Off(c, g, i) + End(i) - k
        <5>1. Off(c, g, i) + Off(c, h, After(i)) - Off(c, h, i) < c
              /\ Off(c, h, i) <= Off(c, h, After(i))
          <6>. HIDE DEF g, h, i, End, After
          <6>. QED
            BY <1>1, <1>8, <3>1, <3>2, <4>2, <4>4, <4>5
        <5>2. Off(c, g, After(i)) = Off(c, g, i) + Off(c, h, After(i)) - Off(c, h, i)
          <6>. HIDE DEF g, h, i, End, After
          <6>. QED
            BY <1>1, <3>1, <4>5, <5>1, OffAdd
        <5>. HIDE DEF g, h, i, End, After
        <5>. QED
          BY <4>5, <5>2
      <4>7. CASE After(i) = q
        <5>1. is_valid(f[After(i)]) /\ ~is_empty(f[After(i)]) /\ f[After(i)].hash = g
          BY <3>1, <4>7 DEF is_valid
        <5>2. ~(End(i) <= Off(c, g, After(i)))
          <6>. HIDE DEF g, h, i, f, End, After
          <6>. QED
            BY <4>5, <5>1 DEF Passes
        <5>. HIDE DEF g, h, i, f, End, After
        <5>. QED
          BY <1>1, <1>3, <1>8, <3>2, <4>6, <5>2
      <4>8. CASE After(i) # q
        <5>1. Off(c, g, After(i)) < Off(c, g, q)
          <6>1. Off(c, g, After(i)) # Off(c, g, q)
            <7>. HIDE DEF g, h, i, End, After
            <7>. QED
              BY <3>1, <4>5, <4>8, SameDistance
          <6>2. Off(c, g, After(i)) <= Off(c, g, q)
            <7>. HIDE DEF g, h, i, End, After
            <7>. QED
              BY <1>1, <1>3, <1>8, <3>1, <3>2, <4>2, <4>4, <4>6
          <6>. HIDE DEF g, h, i, End, After
          <6>. QED
            BY <3>1, <3>2, <4>5, <6>1, <6>2
        <5>2. Passes(f, c, g, After(i))
          BY <1>7, <4>5, <5>1
        <5>3. is_valid(f[After(i)]) /\ ~is_empty(f[After(i)])
          BY <4>5, <5>2 DEF Passes, is_valid
        <5>4. Off(c, g, After(i)) <= Off(c, f[After(i)].hash, After(i))
          BY <5>2, <5>3 DEF Passes
        <5>5. ~(End(i) <= Off(c, f[After(i)].hash, After(i)))
          <6>. HIDE DEF g, h, i, f, End, After
          <6>. QED
            BY <4>5, <5>3 DEF Passes
        <5>6. Off(c, f[After(i)].hash, After(i)) \in Nat
          <6>1. After(i) \in ValidIn(f, c)
            BY <4>5, <5>3 DEF ValidIn
          <6>2. f[After(i)].hash \in 0..(c - 1)
            BY <1>6, <6>1
          <6>. HIDE DEF h, i, f, End, After
          <6>. QED
            BY <4>5, <6>2, OffNat
        <5>. HIDE DEF g, h, i, f, End, After
        <5>. QED
          BY <1>1, <1>3, <1>8, <3>2, <4>6, <5>4, <5>5, <5>6
      <4>. QED
        BY <4>7, <4>8
    <3>. QED
      BY <1>1, <1>2, <1>5, <1>11, <3>5, <3>6
  <2>. QED
    BY <2>1, <2>2 DEF Placed
<1>. QED
  BY <1>10, <1>11

\* The pairs of other keys.
Without(S, k) == {p \in S : p[1] # k}

\* The array g is f with another view at index i.
Overwritten(f, g, i, v) == g = [f EXCEPT ![i].value = v]

\* Replacing the view of a key moves nothing.
LEMMA OverwriteKeeps ==
    ASSUME NEW c \in Nat \ {0}, NEW f \in Arrays(c), NEW i \in ValidIn(f, c), NEW v \in Values,
           NEW g, Overwritten(f, g, i, v)
    PROVE  /\ g \in Arrays(c) /\ ValidIn(g, c) = ValidIn(f, c) /\ UsedIn(g, c) = UsedIn(f, c)
           /\ Homed(f, c) => Homed(g, c)
           /\ Unique(f, c) => Unique(g, c)
           /\ Ordered(f, c) => Ordered(g, c)
           /\ Unique(f, c) =>
                StoredIn(g, c) = Without(StoredIn(f, c), f[i].key) \cup {<<f[i].key, v>>}
<1>1. i \in 0..(c - 1) /\ f[i] \in Buckets /\ is_valid(f[i])
  BY DEF ValidIn, Arrays
<1>2. \A j \in 0..(c - 1) :
          /\ f[j] \in Buckets /\ g[j] \in Buckets
          /\ g[j].key = f[j].key /\ g[j].hash = f[j].hash
          /\ g[j].value = IF j = i THEN v ELSE f[j].value
  <2>1. g = [j \in 0..(c - 1) |-> IF j = i THEN [f[i] EXCEPT !.value = v] ELSE f[j]]
    BY DEF Arrays, Overwritten
  <2>2. \A j \in 0..(c - 1) : f[j] \in Buckets
    BY DEF Arrays
  <2>3. [f[i] EXCEPT !.value = v] \in Buckets
    BY <1>1 DEF Buckets, BucketRec
  <2>4. /\ [f[i] EXCEPT !.value = v].key = f[i].key
        /\ [f[i] EXCEPT !.value = v].hash = f[i].hash
        /\ [f[i] EXCEPT !.value = v].value = v
    BY <1>1 DEF Buckets, BucketRec
  <2>. QED
    BY <2>1, <2>2, <2>3, <2>4
<1>3. g \in Arrays(c)
  <2>1. g = [j \in 0..(c - 1) |-> g[j]]
    BY DEF Arrays, Overwritten
  <2>. QED
    BY <1>2, <2>1 DEF Arrays
<1>4. ValidIn(g, c) = ValidIn(f, c) /\ UsedIn(g, c) = UsedIn(f, c)
  BY <1>2 DEF ValidIn, UsedIn, is_valid, is_empty, is_tombstone
<1>5. Homed(f, c) => Homed(g, c)
  BY <1>2, <1>4 DEF Homed, ValidIn
<1>6. Unique(f, c) => Unique(g, c)
  BY <1>2, <1>4 DEF Unique, ValidIn
<1>7. Ordered(f, c) => Ordered(g, c)
  <2>1. \A h : \A j \in 0..(c - 1) : Passes(g, c, h, j) <=> Passes(f, c, h, j)
    BY <1>2 DEF Passes, is_valid, is_empty, is_tombstone
  <2>2. \A j \in ValidIn(f, c) : j \in 0..(c - 1)
    BY DEF ValidIn
  <2>. QED
    BY <1>2, <1>4, <2>1, <2>2 DEF Ordered
<1>8. ASSUME Unique(f, c)
      PROVE  StoredIn(g, c) = Without(StoredIn(f, c), f[i].key) \cup {<<f[i].key, v>>}
  <2>1. \A j \in ValidIn(f, c) : j \in 0..(c - 1) /\ (f[j].key = f[i].key => j = i)
    BY <1>8 DEF Unique, ValidIn
  <2>2. \A j \in ValidIn(f, c) :
            <<g[j].key, g[j].value>> = IF j = i THEN <<f[i].key, v>> ELSE <<f[j].key, f[j].value>>
    BY <1>2, <2>1
  <2>3. ASSUME NEW p \in StoredIn(g, c)
        PROVE  p \in {q \in StoredIn(f, c) : q[1] # f[i].key} \cup {<<f[i].key, v>>}
    <3>1. PICK j \in ValidIn(f, c) : p = <<g[j].key, g[j].value>>
      BY <1>4 DEF StoredIn
    <3>2. CASE j = i
      BY <2>2, <3>1, <3>2
    <3>3. CASE j # i
      <4>1. p = <<f[j].key, f[j].value>> /\ f[j].key # f[i].key
        BY <2>1, <2>2, <3>1, <3>3
      <4>2. p \in StoredIn(f, c) /\ p[1] = f[j].key
        BY <4>1 DEF StoredIn
      <4>. QED
        BY <4>1, <4>2
    <3>. QED
      BY <3>2, <3>3
  <2>4. ASSUME NEW p \in StoredIn(f, c), p[1] # f[i].key PROVE p \in StoredIn(g, c)
    <3>1. PICK j \in ValidIn(f, c) : p = <<f[j].key, f[j].value>>
      BY DEF StoredIn
    <3>2. j # i
      BY <2>4, <3>1
    <3>. QED
      BY <1>4, <2>2, <3>1, <3>2 DEF StoredIn
  <2>5. <<f[i].key, v>> \in StoredIn(g, c)
    BY <1>4, <2>2 DEF StoredIn
  <2>. QED
    BY <2>3, <2>4, <2>5 DEF Without
<1>. QED
  BY <1>3, <1>4, <1>5, <1>6, <1>7, <1>8

(***************************************************************************)
(* Hash tables.                                                            *)
(***************************************************************************)
\* The counts of a hash table are right and its buckets know their homes.
HashShape(t, c) ==
    /\ t \in TablesOf(c) /\ Homed(t.buckets, c)
    /\ t.occupancy = Cardinality(ValidIn(t.buckets, c))

\* A key is stored once, where its probe finds it.
HashOrder(t, c) == Unique(t.buckets, c) /\ Ordered(t.buckets, c)

\* How many of the buckets in use are tombstones.
Waste(t, c) == Cardinality(UsedIn(t.buckets, c)) - t.occupancy

\* Counting one more bucket.
LEMMA CountOne ==
    ASSUME NEW c, NEW t \in TablesOf(c), NEW r, NEW g, g = r.buckets, g \in Arrays(c),
           r = [t EXCEPT !.buckets = g, !.occupancy = @ + 1, !.ins_rm_count = @ + 1]
    PROVE  r \in TablesOf(c) /\ r.occupancy = t.occupancy + 1
<1>1. t.occupancy + 1 \in Nat /\ t.ins_rm_count + 1 \in Int
  BY DEF TablesOf
<1>. QED
  BY <1>1 DEF TablesOf

\* The table is not full.
LEMMA NotFull ==
    ASSUME NEW c \in Nat \ {0}, NEW t, HashShape(t, c), t.occupancy < c
    PROVE  ValidIn(t.buckets, c) # 0..(c - 1)
<1>1. ValidIn(t.buckets, c) \subseteq 0..(c - 1)
  BY DEF ValidIn
<1>2. Cardinality(ValidIn(t.buckets, c)) = c <=> ValidIn(t.buckets, c) = 0..(c - 1)
  BY <1>1, ArrayCounts
<1>3. t.occupancy = Cardinality(ValidIn(t.buckets, c)) /\ t.occupancy \in Nat
  BY DEF HashShape, TablesOf
<1>. QED
  BY <1>2, <1>3

\* What insert is given, with its hash.
LEMMA RehashedIs ==
    ASSUME NEW c \in Nat \ {0}, NEW t \in TablesOf(c), NEW b0 \in Buckets, is_valid(b0)
    PROVE  LET b == Rehashed(t, b0) IN
           /\ b \in Buckets /\ is_valid(b) /\ b.key = b0.key /\ b.value = b0.value
           /\ b.key \in Keys /\ b.value \in Values
           /\ b.hash = get_table_entry(c, b.key) /\ b.hash \in 0..(c - 1)
<1>1. b0.key \in Keys /\ b0.value \in Values
  BY ValidIsKey
<1>2. get_table_entry(c, b0.key) \in 0..(c - 1) /\ t.capacity = c
  BY <1>1, EntryIsIndex DEF TablesOf
<1>. DEFINE e == get_table_entry(c, b0.key)
            b == [b0 EXCEPT !.hash = e]
<1>3. Rehashed(t, b0) = b
  BY <1>2 DEF Rehashed
<1>4. e \in Nat
  BY <1>2
<1>5. b \in Buckets /\ b.key = b0.key /\ b.value = b0.value /\ b.hash = e
  <2>. HIDE DEF e
  <2>. QED
    BY <1>4 DEF Buckets, BucketRec
<1>6. is_valid(b)
  BY <1>1, <1>5, ValidIsKey
<1>. QED
  BY <1>1, <1>2, <1>3, <1>5, <1>6

\* Inserting keeps the counts right, whatever the order.
LEMMA InsertHashShape ==
    ASSUME NEW c \in Nat \ {0}, NEW t, HashShape(t, c), t.occupancy < c,
           NEW b0 \in Buckets, is_valid(b0)
    PROVE  LET r == InsertHash(t, b0) IN
           /\ HashShape(r, c) /\ r.occupancy \in {t.occupancy, t.occupancy + 1}
           /\ Waste(r, c) <= Waste(t, c) /\ Waste(t, c) \in Int /\ Waste(r, c) \in Int
<1>. DEFINE f == t.buckets
            i == Target(t, b0.key)
            b == Rehashed(t, b0)
            r == InsertHash(t, b0)
<1>1. t \in TablesOf(c) /\ f \in Arrays(c) /\ Homed(f, c) /\ t.occupancy \in Nat
      /\ t.occupancy = Cardinality(ValidIn(f, c)) /\ t.ins_rm_count \in Int
  BY DEF HashShape, TablesOf
<1>2. /\ b \in Buckets /\ is_valid(b) /\ b.key = b0.key /\ b.value = b0.value
      /\ b.key \in Keys /\ b.value \in Values
      /\ b.hash = get_table_entry(c, b.key) /\ b.hash \in 0..(c - 1)
  BY <1>1, RehashedIs
<1>3. i \in 0..(c - 1)
  BY <1>1, <1>2, TargetIsIndex
<1>4. Cardinality(UsedIn(f, c)) \in Nat
  <2>1. UsedIn(f, c) \subseteq 0..(c - 1)
    BY DEF UsedIn
  <2>. QED
    BY <2>1, ArrayCounts
<1>5. \/ /\ i \in ValidIn(f, c) /\ f[i].key = b.key
         /\ r = [t EXCEPT !.buckets[i].value = b.value]
      \/ \E n \in 0..(c - 1) : Adds(t, r, c, i, n, b)
  BY <1>1, NotFull, InsertHashCases
<1>. HIDE DEF r, i, b
<1>6. CASE /\ i \in ValidIn(f, c)
           /\ r = [t EXCEPT !.buckets[i].value = b.value]
  <2>. DEFINE g == [f EXCEPT ![i].value = b.value]
  <2>0. i \in ValidIn(f, c) /\ Overwritten(f, g, i, b.value)
    BY <1>6 DEF Overwritten
  <2>1. g \in Arrays(c) /\ ValidIn(g, c) = ValidIn(f, c) /\ UsedIn(g, c) = UsedIn(f, c) /\ Homed(g, c)
    <3>. HIDE DEF f, g
    <3>. QED
      BY <1>1, <1>2, <2>0, OverwriteKeeps
  <2>2. r = [t EXCEPT !.buckets = g]
    BY <1>6
  <2>3. r \in TablesOf(c) /\ r.buckets = g /\ r.occupancy = t.occupancy
    <3>. HIDE DEF g
    <3>. QED
      BY <1>1, <2>1, <2>2 DEF TablesOf
  <2>. HIDE DEF g
  <2>. QED
    BY <1>1, <1>4, <2>1, <2>3 DEF HashShape, Waste, r
<1>7. CASE \E n \in 0..(c - 1) : Adds(t, r, c, i, n, b)
  <2>1. PICK n \in 0..(c - 1) : Adds(t, r, c, i, n, b)
    BY <1>7
  <2>. DEFINE g == r.buckets
              last == Fwd(c, i, n)
  <2>2. Shifted(f, g, c, i, n, b)
    BY <2>1 DEF Adds
  <2>9. r = [t EXCEPT !.buckets = g, !.occupancy = @ + 1, !.ins_rm_count = @ + 1]
    BY <2>1 DEF Adds
  <2>3. g \in Arrays(c) /\ Homed(g, c) /\ last \in 0..(c - 1) /\ last \notin ValidIn(f, c)
        /\ ValidIn(g, c) = ValidIn(f, c) \cup {last} /\ UsedIn(g, c) = UsedIn(f, c) \cup {last}
    <3>. HIDE DEF f, g
    <3>1. g \in Arrays(c)
      BY <1>1, <1>2, <1>3, <2>2, ShiftedCells
    <3>2. last \in 0..(c - 1) /\ last \notin ValidIn(f, c)
          /\ ValidIn(g, c) = ValidIn(f, c) \cup {last} /\ UsedIn(g, c) = UsedIn(f, c) \cup {last}
      <4>1. /\ Fwd(c, i, n) \in 0..(c - 1) /\ Fwd(c, i, n) \notin ValidIn(f, c)
            /\ ValidIn(g, c) = ValidIn(f, c) \cup {Fwd(c, i, n)}
            /\ UsedIn(g, c) = UsedIn(f, c) \cup {Fwd(c, i, n)}
        <5>. HIDE DEF last
        <5>. QED
          BY <1>1, <1>2, <1>3, <2>2, ShiftAdds
      <4>. QED
        BY <4>1
    <3>3. Homed(g, c)
      BY <1>1, <1>2, <1>3, <2>2, ShiftKeepsKeys
    <3>. QED
      BY <3>1, <3>2, <3>3
  <2>4. r \in TablesOf(c) /\ r.occupancy = t.occupancy + 1
    <3>. QED
      BY <1>1, <2>9, <2>3, CountOne
  <2>5. IsFiniteSet(ValidIn(f, c)) /\ IsFiniteSet(UsedIn(f, c))
    <3>1. ValidIn(f, c) \subseteq 0..(c - 1) /\ UsedIn(f, c) \subseteq 0..(c - 1)
      BY DEF ValidIn, UsedIn
    <3>. QED
      BY <3>1, ArrayCounts
  <2>6. Cardinality(ValidIn(g, c)) = t.occupancy + 1
    <3>1. Cardinality(ValidIn(f, c)) = t.occupancy
      BY <1>1
    <3>2. last \notin ValidIn(f, c) /\ ValidIn(g, c) = ValidIn(f, c) \cup {last}
      BY <2>3
    <3>. HIDE DEF g, f, last
    <3>. QED
      BY <2>5, <3>1, <3>2, CountMore
  <2>7. Cardinality(UsedIn(g, c)) \in {Cardinality(UsedIn(f, c)), Cardinality(UsedIn(f, c)) + 1}
    <3>. HIDE DEF g, f, last
    <3>. QED
      BY <2>3, <2>5, FS_AddElement
  <2>8. HashShape(r, c)
    BY <2>3, <2>4, <2>6 DEF HashShape
  <2>. QED
    BY <1>1, <1>4, <2>4, <2>7, <2>8 DEF Waste, r
<1>. QED
  BY <1>5, <1>6, <1>7 DEF r

\* A key is in the array with some view, or not at all.
LEMMA StoredKeys ==
    ASSUME NEW c, NEW f, NEW k
    PROVE  /\ k \in KeysIn(f, c) <=> \E p \in StoredIn(f, c) : p[1] = k
           /\ k \notin KeysIn(f, c) => Without(StoredIn(f, c), k) = StoredIn(f, c)
<1>1. k \in KeysIn(f, c) => \E p \in StoredIn(f, c) : p[1] = k
  <2>. SUFFICES ASSUME k \in KeysIn(f, c) PROVE \E p \in StoredIn(f, c) : p[1] = k
    OBVIOUS
  <2>1. PICK i \in ValidIn(f, c) : f[i].key = k
    BY DEF KeysIn
  <2>2. <<f[i].key, f[i].value>> \in StoredIn(f, c)
    BY DEF StoredIn
  <2>. QED
    BY <2>1, <2>2
<1>2. ASSUME NEW p \in StoredIn(f, c) PROVE p[1] \in KeysIn(f, c)
  <2>1. PICK i \in ValidIn(f, c) : p = <<f[i].key, f[i].value>>
    BY DEF StoredIn
  <2>. QED
    BY <2>1 DEF KeysIn
<1>. QED
  BY <1>1, <1>2 DEF Without

\* With an empty bucket in the table, inserting keeps every probe right and
\* changes the view of its key alone.
LEMMA InsertHashOrders ==
    ASSUME NEW c \in Nat \ {0}, c <= IndexMod, NEW t, HashShape(t, c), HashOrder(t, c),
           NEW e \in 0..(c - 1), is_empty(t.buckets[e]),
           NEW b0 \in Buckets, is_valid(b0)
    PROVE  LET r == InsertHash(t, b0) IN
           /\ HashOrder(r, c)
           /\ StoredIn(r.buckets, c) = Without(StoredIn(t.buckets, c), b0.key)
                                          \cup {<<b0.key, b0.value>>}
           /\ b0.key \notin KeysIn(t.buckets, c) => r.occupancy = t.occupancy + 1
<1>. DEFINE f == t.buckets
            i == Target(t, b0.key)
            b == Rehashed(t, b0)
            r == InsertHash(t, b0)
<1>1. t \in TablesOf(c) /\ f \in Arrays(c) /\ Homed(f, c) /\ Unique(f, c) /\ Ordered(f, c)
  BY DEF HashShape, HashOrder, TablesOf
<1>2. /\ b \in Buckets /\ is_valid(b) /\ b.key = b0.key /\ b.value = b0.value
      /\ b.key \in Keys /\ b.value \in Values
      /\ b.hash = get_table_entry(c, b.key) /\ b.hash \in 0..(c - 1)
  BY <1>1, RehashedIs
<1>3. i \in 0..(c - 1)
  BY <1>1, <1>2, TargetIsIndex
<1>4. ValidIn(f, c) # 0..(c - 1)
  BY DEF ValidIn, is_valid
<1>5. \/ /\ i \in ValidIn(f, c) /\ f[i].key = b.key
         /\ r = [t EXCEPT !.buckets[i].value = b.value]
      \/ /\ f[i].key # b.key
         /\ \E n \in 0..(c - 1) : Adds(t, r, c, i, n, b)
  BY <1>1, <1>4, InsertHashCases
<1>6. f[i].key = b.key \/ (b.key \notin KeysIn(f, c) /\ Placed(f, c, i, b.hash))
  BY <1>1, <1>2, InsertIsPlaced
<1>. HIDE DEF r, i, b
<1>7. CASE /\ i \in ValidIn(f, c) /\ f[i].key = b.key
           /\ r = [t EXCEPT !.buckets[i].value = b.value]
  <2>. DEFINE g == [f EXCEPT ![i].value = b.value]
  <2>0. i \in ValidIn(f, c) /\ f[i].key = b.key
    BY <1>7
  <2>1. Unique(g, c) /\ Ordered(g, c)
        /\ StoredIn(g, c) = Without(StoredIn(f, c), f[i].key) \cup {<<f[i].key, b.value>>}
    <3>1. b.value \in Values /\ f \in Arrays(c) /\ Unique(f, c) /\ Ordered(f, c)
      BY <1>1, <1>2
    <3>. HIDE DEF f
    <3>2. Overwritten(f, g, i, b.value)
      BY DEF Overwritten
    <3>. HIDE DEF g
    <3>. QED
      BY <2>0, <3>1, <3>2, OverwriteKeeps
  <2>2. r = [t EXCEPT !.buckets = g]
    BY <1>7
  <2>3. r.buckets = g
    <3>. HIDE DEF g
    <3>. QED
      BY <1>1, <2>2 DEF TablesOf
  <2>4. b.key \in KeysIn(f, c)
    BY <1>7 DEF KeysIn
  <2>. HIDE DEF g
  <2>. QED
    BY <1>2, <1>7, <2>1, <2>3, <2>4 DEF HashOrder, r
<1>8. CASE /\ f[i].key # b.key
           /\ \E n \in 0..(c - 1) : Adds(t, r, c, i, n, b)
  <2>1. PICK n \in 0..(c - 1) : Adds(t, r, c, i, n, b)
    BY <1>8
  <2>. DEFINE g == r.buckets
  <2>2. Shifted(f, g, c, i, n, b)
    BY <2>1 DEF Adds
  <2>3. r = [t EXCEPT !.buckets = g, !.occupancy = @ + 1, !.ins_rm_count = @ + 1]
    BY <2>1 DEF Adds
  <2>4. b.key \notin KeysIn(f, c) /\ Placed(f, c, i, b.hash)
    BY <1>6, <1>8
  <2>5. Ordered(g, c)
    <3>. HIDE DEF g
    <3>. QED
      BY <1>1, <1>2, <1>3, <2>2, <2>4, ShiftKeepsOrder
  <2>6. Unique(g, c)
    <3>. HIDE DEF f, g
    <3>. QED
      BY <1>1, <1>2, <1>3, <2>2, <2>4, ShiftKeepsKeys
  <2>7. StoredIn(g, c) = StoredIn(f, c) \cup {<<b.key, b.value>>}
    <3>. HIDE DEF f, g
    <3>. QED
      BY <1>1, <1>2, <1>3, <2>2, ShiftStores
  <2>8. g \in Arrays(c)
    <3>. HIDE DEF f, g
    <3>. QED
      BY <1>1, <1>2, <1>3, <2>2, ShiftedCells
  <2>9. r.occupancy = t.occupancy + 1
    BY <1>1, <2>3, <2>8, CountOne
  <2>10. Without(StoredIn(f, c), b.key) = StoredIn(f, c)
    BY <2>4, StoredKeys
  <2>. QED
    BY <1>2, <2>5, <2>6, <2>7, <2>9, <2>10 DEF HashOrder, r
<1>. QED
  BY <1>5, <1>7, <1>8 DEF r, i, b

\* The array g is f with a tombstone at index i.
Buried(f, g, i) == g = [f EXCEPT ![i] = Tombstone]

\* Removing a bucket leaves a tombstone and moves nothing.
LEMMA TombstoneKeeps ==
    ASSUME NEW c \in Nat \ {0}, NEW f \in Arrays(c), NEW i \in ValidIn(f, c),
           NEW g, Buried(f, g, i)
    PROVE  /\ g \in Arrays(c) /\ ValidIn(g, c) = ValidIn(f, c) \ {i} /\ UsedIn(g, c) = UsedIn(f, c)
           /\ Homed(f, c) => Homed(g, c)
           /\ Unique(f, c) => Unique(g, c)
           /\ Ordered(f, c) => Ordered(g, c)
           /\ Unique(f, c) => StoredIn(g, c) = Without(StoredIn(f, c), f[i].key)
<1>1. i \in 0..(c - 1) /\ is_valid(f[i]) /\ ~is_empty(f[i])
  BY DEF ValidIn, is_valid
<1>2. Tombstone \in Buckets /\ ~is_valid(Tombstone) /\ ~is_empty(Tombstone)
  BY TableAssumption
     DEF Tombstone, Buckets, BucketRec, is_valid, is_empty, is_tombstone, KEY_EMPTY, KEY_DELETED
<1>3. \A j \in 0..(c - 1) : g[j] = IF j = i THEN Tombstone ELSE f[j]
  BY DEF Arrays, Buried
<1>4. g \in Arrays(c)
  BY <1>2 DEF Arrays, Buried
<1>. HIDE DEF Tombstone
<1>5. ValidIn(g, c) = ValidIn(f, c) \ {i} /\ UsedIn(g, c) = UsedIn(f, c)
  BY <1>1, <1>2, <1>3 DEF ValidIn, UsedIn
<1>6. \A j \in ValidIn(g, c) : j \in 0..(c - 1) /\ g[j] = f[j] /\ j \in ValidIn(f, c)
  BY <1>3, <1>5 DEF ValidIn
<1>7. Homed(f, c) => Homed(g, c)
  BY <1>6 DEF Homed
<1>8. Unique(f, c) => Unique(g, c)
  BY <1>6 DEF Unique
<1>9. Ordered(f, c) => Ordered(g, c)
  <2>1. \A h : \A j \in 0..(c - 1) : Passes(f, c, h, j) => Passes(g, c, h, j)
    BY <1>2, <1>3 DEF Passes
  <2>. QED
    BY <1>6, <2>1 DEF Ordered
<1>10. ASSUME Unique(f, c)
       PROVE  StoredIn(g, c) = Without(StoredIn(f, c), f[i].key)
  <2>1. \A j \in ValidIn(f, c) : f[j].key = f[i].key => j = i
    BY <1>10 DEF Unique
  <2>2. ASSUME NEW p \in StoredIn(g, c) PROVE p \in Without(StoredIn(f, c), f[i].key)
    <3>1. PICK j \in ValidIn(g, c) : p = <<g[j].key, g[j].value>>
      BY DEF StoredIn
    <3>2. j \in ValidIn(f, c) /\ j # i /\ p = <<f[j].key, f[j].value>>
      BY <1>5, <1>6, <3>1
    <3>3. p \in StoredIn(f, c) /\ p[1] # f[i].key
      BY <2>1, <3>2 DEF StoredIn
    <3>. QED
      BY <3>3 DEF Without
  <2>3. ASSUME NEW p \in Without(StoredIn(f, c), f[i].key) PROVE p \in StoredIn(g, c)
    <3>1. p \in StoredIn(f, c) /\ p[1] # f[i].key
      BY DEF Without
    <3>2. PICK j \in ValidIn(f, c) : p = <<f[j].key, f[j].value>>
      BY <3>1 DEF StoredIn
    <3>3. j \in ValidIn(g, c)
      BY <1>5, <3>1, <3>2
    <3>. QED
      BY <1>6, <3>2, <3>3 DEF StoredIn
  <2>. QED
    BY <2>2, <2>3
<1>. QED
  BY <1>4, <1>5, <1>7, <1>8, <1>9, <1>10

\* Whether find ends its probe for x at index p.
LEMMA StopsFindAt ==
    ASSUME NEW c \in Nat \ {0}, c <= IndexMod, NEW t \in TablesOf(c), Homed(t.buckets, c),
           NEW x \in Keys, NEW p \in 0..(c - 1)
    PROVE  LET f == t.buckets
               h == get_table_entry(c, x)
           IN  /\ At(t, h, Off(c, h, p)) = p
               /\ StopsFind(t, x, Off(c, h, p)) <=> f[p].key = x \/ ~Passes(f, c, h, p)
<1>. DEFINE f == t.buckets
            h == get_table_entry(c, x)
            k == Off(c, h, p)
<1>1. h \in 0..(c - 1) /\ t.capacity = c /\ f \in Arrays(c) /\ Homed(f, c)
  BY EntryIsIndex DEF TablesOf
<1>2. k \in 0..(c - 1) /\ Fwd(c, h, k) = p
  <2>. HIDE DEF h
  <2>1. k \in 0..(c - 1)
    BY <1>1, OffType
  <2>2. Fwd(c, h, k) = p
    BY <1>1, FwdOff
  <2>. QED
    BY <2>1, <2>2
<1>3. At(t, h, k) = p
  <2>. HIDE DEF h, k
  <2>1. (h + k) % c = Fwd(c, h, k)
    BY <1>1, <1>2, AtIsFwd
  <2>. QED
    BY <1>1, <1>2, <2>1 DEF At
<1>4. StopsFind(t, x, k) <=> \/ f[p].key = x
                             \/ is_empty(f[p])
                             \/ is_valid(f[p]) /\ ~continue_probe(h, f[p].hash, p)
  <2>. HIDE DEF k
  <2>. QED
    BY <1>1, <1>3 DEF StopsFind
<1>5. is_valid(f[p]) => (continue_probe(h, f[p].hash, p) <=> Off(c, h, p) <= Off(c, f[p].hash, p))
  <2>. SUFFICES ASSUME is_valid(f[p])
                PROVE  continue_probe(h, f[p].hash, p) <=> Off(c, h, p) <= Off(c, f[p].hash, p)
    OBVIOUS
  <2>1. p \in ValidIn(f, c)
    BY DEF ValidIn
  <2>. HIDE DEF f, h, k
  <2>2. f[p].hash \in 0..(c - 1)
    BY <1>1, <2>1, HomeIsIndex
  <2>. QED
    BY <1>1, <2>2, ContinueIsNearer
<1>6. StopsFind(t, x, k) <=> f[p].key = x \/ ~Passes(f, c, h, p)
  <2>. HIDE DEF f, h, k
  <2>. QED
    BY <1>4, <1>5 DEF Passes
<1>. QED
  BY <1>3, <1>6

\* What find finds is a bucket of the key.
LEMMA FoundIsStored ==
    ASSUME NEW c \in Nat \ {0}, NEW t \in TablesOf(c), NEW x \in Keys, FoundAt(t, x) # {}
    PROVE  LET i == At(t, get_table_entry(t.capacity, x), Min(FoundAt(t, x))) IN
           i \in ValidIn(t.buckets, c) /\ t.buckets[i].key = x
<1>. DEFINE f == t.buckets
            h == get_table_entry(c, x)
            k == Min(FoundAt(t, x))
            i == At(t, h, k)
<1>1. h \in 0..(c - 1) /\ t.capacity = c /\ f \in Arrays(c)
  BY EntryIsIndex DEF TablesOf
<1>2. FoundAt(t, x) \in SUBSET Nat /\ \A j \in FoundAt(t, x) : j \in 0..(c - 1) /\ f[At(t, h, j)].key = x
  <2>. HIDE DEF h
  <2>. QED
    BY <1>1 DEF FoundAt, Offsets, h
<1>3. k \in FoundAt(t, x)
  BY <1>2, MinLeast
<1>4. i \in 0..(c - 1)
  <2>1. k \in 0..(c - 1) /\ i = (h + k) % c
    BY <1>1, <1>2, <1>3 DEF At
  <2>. HIDE DEF h, k, i
  <2>2. (h + k) % c = Fwd(c, h, k)
    BY <1>1, <2>1, AtIsFwd
  <2>3. Fwd(c, h, k) \in 0..(c - 1)
    BY <1>1, <2>1, FwdOff
  <2>. QED
    BY <2>1, <2>2, <2>3
<1>5. f[i].key = x
  BY <1>2, <1>3
<1>6. i \in ValidIn(f, c)
  <2>. HIDE DEF f, i
  <2>. QED
    BY <1>1, <1>4, <1>5, KeyAtIsValid
<1>. QED
  BY <1>1, <1>5, <1>6

\* A probe for a stored key stops at its bucket; one for another key finds nothing.
LEMMA FoundAtIs ==
    ASSUME NEW c \in Nat \ {0}, c <= IndexMod, NEW t, HashShape(t, c), HashOrder(t, c),
           NEW x \in Keys
    PROVE  /\ \A q \in ValidIn(t.buckets, c) : t.buckets[q].key = x =>
                 /\ FoundAt(t, x) = {Off(c, get_table_entry(c, x), q)}
                 /\ At(t, get_table_entry(t.capacity, x), Min(FoundAt(t, x))) = q
           /\ x \notin KeysIn(t.buckets, c) => FoundAt(t, x) = {}
<1>. DEFINE f == t.buckets
            h == get_table_entry(c, x)
<1>1. /\ h \in 0..(c - 1) /\ t.capacity = c /\ f \in Arrays(c) /\ t \in TablesOf(c)
      /\ Homed(f, c) /\ Unique(f, c) /\ Ordered(f, c)
  BY EntryIsIndex DEF TablesOf, HashShape, HashOrder
<1>2. \A p \in 0..(c - 1) : /\ At(t, h, Off(c, h, p)) = p
                            /\ StopsFind(t, x, Off(c, h, p)) <=> f[p].key = x \/ ~Passes(f, c, h, p)
                            /\ Off(c, h, p) \in 0..(c - 1)
  <2>1. \A p \in 0..(c - 1) : Off(c, h, p) \in 0..(c - 1)
    <3>. HIDE DEF h
    <3>. QED
      BY <1>1, OffType
  <2>. QED
    BY <1>1, <2>1, StopsFindAt
<1>3. \A k \in 0..(c - 1) : Fwd(c, h, k) \in 0..(c - 1) /\ Off(c, h, Fwd(c, h, k)) = k
  <2>. HIDE DEF h
  <2>. QED
    BY <1>1, FwdOff
<1>4. FoundAt(t, x) = {k \in 0..(c - 1) : /\ f[At(t, h, k)].key = x
                                          /\ \A j \in 0..(k - 1) : ~StopsFind(t, x, j)}
  BY <1>1 DEF FoundAt, Offsets
<1>. HIDE DEF f, h
<1>5. \A k \in 0..(c - 1) : At(t, h, k) = Fwd(c, h, k)
  BY <1>2, <1>3
<1>6. ASSUME NEW q \in ValidIn(f, c), f[q].key = x
      PROVE  FoundAt(t, x) = {Off(c, h, q)} /\ At(t, h, Min(FoundAt(t, x))) = q
  <2>1. q \in 0..(c - 1) /\ f[q].hash = h
    BY <1>1, <1>6 DEF ValidIn, Homed, h
  <2>2. ASSUME NEW k \in FoundAt(t, x) PROVE k = Off(c, h, q)
    <3>1. k \in 0..(c - 1) /\ f[Fwd(c, h, k)].key = x
      BY <1>4, <1>5
    <3>2. Fwd(c, h, k) \in ValidIn(f, c)
      BY <1>1, <1>3, <3>1, KeyAtIsValid
    <3>3. Fwd(c, h, k) = q
      BY <1>1, <1>6, <3>1, <3>2 DEF Unique
    <3>. QED
      BY <1>3, <3>1, <3>3
  <2>3. ASSUME NEW j \in 0..(Off(c, h, q) - 1) PROVE ~StopsFind(t, x, j)
    <3>1. j \in 0..(c - 1) /\ j < Off(c, h, q)
      BY <1>2, <2>1
    <3>. DEFINE p == Fwd(c, h, j)
    <3>2. p \in 0..(c - 1) /\ Off(c, h, p) = j
      BY <1>3, <3>1
    <3>. HIDE DEF p
    <3>3. Passes(f, c, h, p)
      BY <1>1, <1>6, <2>1, <3>1, <3>2 DEF Ordered
    <3>4. f[p].key # x
      <4>1. f[p].key = x => p \in ValidIn(f, c)
        BY <1>1, <3>2, KeyAtIsValid
      <4>2. p # q
        BY <3>1, <3>2, <1>2, <2>1
      <4>. QED
        BY <1>1, <1>6, <4>1, <4>2 DEF Unique
    <3>. QED
      BY <1>2, <3>2, <3>3, <3>4
  <2>4. Off(c, h, q) \in FoundAt(t, x)
    <3>1. Off(c, h, q) \in 0..(c - 1) /\ At(t, h, Off(c, h, q)) = q
      BY <1>2, <2>1
    <3>. QED
      BY <1>4, <1>6, <2>3, <3>1
  <2>5. FoundAt(t, x) = {Off(c, h, q)}
    BY <2>2, <2>4
  <2>6. Min(FoundAt(t, x)) \in FoundAt(t, x)
    <3>1. FoundAt(t, x) \in SUBSET Nat /\ FoundAt(t, x) # {}
      BY <1>2, <2>1, <2>5
    <3>. QED
      BY <3>1, MinLeast
  <2>. QED
    BY <1>2, <2>1, <2>5, <2>6
<1>7. ASSUME FoundAt(t, x) # {} PROVE x \in KeysIn(f, c)
  <2>1. PICK i \in ValidIn(f, c) : f[i].key = x
    BY <1>1, <1>7, FoundIsStored DEF f
  <2>. QED
    BY <2>1 DEF KeysIn
<1>. QED
  BY <1>1, <1>6, <1>7 DEF f, h

\* find is right about every key.
LEMMA FindHashIs ==
    ASSUME NEW c \in Nat \ {0}, c <= IndexMod, NEW t, HashShape(t, c), HashOrder(t, c),
           NEW x \in Keys
    PROVE  /\ \A q \in ValidIn(t.buckets, c) : t.buckets[q].key = x =>
                 find_hash(t, x) = t.buckets[q].value
           /\ x \notin KeysIn(t.buckets, c) => find_hash(t, x) = NoView
<1>1. \A q \in ValidIn(t.buckets, c) : t.buckets[q].key = x =>
          /\ FoundAt(t, x) # {}
          /\ At(t, get_table_entry(t.capacity, x), Min(FoundAt(t, x))) = q
  BY FoundAtIs
<1>2. x \notin KeysIn(t.buckets, c) => FoundAt(t, x) = {}
  BY FoundAtIs
<1>. QED
  BY <1>1, <1>2 DEF find_hash

(***************************************************************************)
(* Small tables.                                                           *)
(***************************************************************************)
\* The buckets in use are the first ones.
LinearShape(t, c) ==
    /\ t \in TablesOf(c) /\ t.occupancy <= c
    /\ ValidIn(t.buckets, c) = 0..(t.occupancy - 1)

\* The array g is f with bucket b at index i, where its key is or where there is none.
Written(f, g, c, i, b) ==
    /\ i \in 0..(c - 1) /\ g = [f EXCEPT ![i] = b]
    /\ \/ i \in ValidIn(f, c) /\ f[i].key = b.key
       \/ i \notin ValidIn(f, c) /\ b.key \notin KeysIn(f, c)

\* Writing it changes the view of its key alone.
LEMMA WriteKeeps ==
    ASSUME NEW c \in Nat \ {0}, NEW f \in Arrays(c), NEW i, NEW b \in Buckets, is_valid(b),
           NEW g, Written(f, g, c, i, b)
    PROVE  /\ g \in Arrays(c) /\ ValidIn(g, c) = ValidIn(f, c) \cup {i}
           /\ Unique(f, c) =>
                /\ Unique(g, c)
                /\ StoredIn(g, c) = Without(StoredIn(f, c), b.key) \cup {<<b.key, b.value>>}
<1>0. /\ i \in 0..(c - 1) /\ g = [f EXCEPT ![i] = b]
      /\ \/ i \in ValidIn(f, c) /\ f[i].key = b.key
         \/ i \notin ValidIn(f, c) /\ b.key \notin KeysIn(f, c)
  BY DEF Written
<1>1. \A j \in 0..(c - 1) : g[j] = IF j = i THEN b ELSE f[j]
  BY <1>0 DEF Arrays
<1>2. g \in Arrays(c)
  BY <1>0 DEF Arrays
<1>3. ValidIn(g, c) = ValidIn(f, c) \cup {i}
  BY <1>0, <1>1 DEF ValidIn
<1>4. \A j \in ValidIn(g, c) : j # i => j \in ValidIn(f, c) /\ g[j] = f[j]
  BY <1>1, <1>3 DEF ValidIn
<1>5. \A j \in ValidIn(f, c) : j # i => j \in ValidIn(g, c) /\ g[j] = f[j]
  BY <1>1, <1>3 DEF ValidIn
<1>6. g[i] = b /\ i \in ValidIn(g, c)
  BY <1>0, <1>1, <1>3
<1>7. ASSUME Unique(f, c)
      PROVE  /\ \A j \in ValidIn(f, c) : f[j].key = b.key => j = i
             /\ Unique(g, c)
  <2>1. \A j \in ValidIn(f, c) : f[j].key = b.key => j = i
    BY <1>0, <1>7 DEF Unique, KeysIn
  <2>2. ASSUME NEW j \in ValidIn(g, c), NEW k \in ValidIn(g, c), g[j].key = g[k].key, j # i
        PROVE  j = k
    <3>1. j \in ValidIn(f, c) /\ g[j] = f[j]
      BY <1>4, <2>2
    <3>2. k # i
      BY <1>6, <2>1, <2>2, <3>1
    <3>3. k \in ValidIn(f, c) /\ g[k] = f[k]
      BY <1>4, <3>2
    <3>. QED
      BY <1>7, <2>2, <3>1, <3>3 DEF Unique
  <2>3. Unique(g, c)
    BY <2>2 DEF Unique
  <2>. QED
    BY <2>1, <2>3
<1>8. ASSUME Unique(f, c)
      PROVE  StoredIn(g, c) = Without(StoredIn(f, c), b.key) \cup {<<b.key, b.value>>}
  <2>1. ASSUME NEW p \in StoredIn(g, c)
        PROVE  p \in Without(StoredIn(f, c), b.key) \cup {<<b.key, b.value>>}
    <3>1. PICK j \in ValidIn(g, c) : p = <<g[j].key, g[j].value>>
      BY DEF StoredIn
    <3>2. CASE j = i
      BY <1>6, <3>1, <3>2
    <3>3. CASE j # i
      <4>1. j \in ValidIn(f, c) /\ p = <<f[j].key, f[j].value>> /\ f[j].key # b.key
        BY <1>4, <1>7, <1>8, <3>1, <3>3
      <4>2. p \in StoredIn(f, c) /\ p[1] # b.key
        BY <4>1 DEF StoredIn
      <4>. QED
        BY <4>2 DEF Without
    <3>. QED
      BY <3>2, <3>3
  <2>2. ASSUME NEW p \in Without(StoredIn(f, c), b.key) PROVE p \in StoredIn(g, c)
    <3>1. p \in StoredIn(f, c) /\ p[1] # b.key
      BY DEF Without
    <3>2. PICK j \in ValidIn(f, c) : p = <<f[j].key, f[j].value>>
      BY <3>1 DEF StoredIn
    <3>3. j # i
      <4>1. f[j].key # b.key
        BY <3>1, <3>2
      <4>. QED
        BY <1>0, <4>1
    <3>. QED
      BY <1>5, <3>2, <3>3 DEF StoredIn
  <2>3. <<b.key, b.value>> \in StoredIn(g, c)
    BY <1>6 DEF StoredIn
  <2>. QED
    BY <2>1, <2>2, <2>3
<1>. QED
  BY <1>2, <1>3, <1>7, <1>8

\* The places of a key in a small table.
Hits(t, x) == {i \in 0..(t.occupancy - 1) : t.buckets[i].key = x}

\* There is one if the key is stored.
LEMMA HitsAre ==
    ASSUME NEW c \in Nat \ {0}, NEW t, LinearShape(t, c), NEW x
    PROVE  /\ Hits(t, x) = {} <=> x \notin KeysIn(t.buckets, c)
           /\ \A i \in Hits(t, x) : i \in ValidIn(t.buckets, c) /\ t.buckets[i].key = x
           /\ Hits(t, x) # {} => Min(Hits(t, x)) \in Hits(t, x)
           /\ Unique(t.buckets, c) => \A q \in ValidIn(t.buckets, c) :
                 t.buckets[q].key = x => Hits(t, x) = {q} /\ Max(Hits(t, x)) = q
<1>1. Hits(t, x) = {i \in ValidIn(t.buckets, c) : t.buckets[i].key = x}
  BY DEF LinearShape, Hits
<1>2. Hits(t, x) \in SUBSET Nat
  BY <1>1 DEF ValidIn
<1>3. Hits(t, x) # {} => Min(Hits(t, x)) \in Hits(t, x)
  BY <1>2, MinLeast
<1>4. ASSUME Unique(t.buckets, c), NEW q \in ValidIn(t.buckets, c), t.buckets[q].key = x
      PROVE  Hits(t, x) = {q} /\ Max(Hits(t, x)) = q
  <2>1. Hits(t, x) = {q}
    BY <1>1, <1>4 DEF Unique
  <2>2. q \in Int
    BY DEF ValidIn
  <2>. QED
    BY <2>1, <2>2 DEF Max
<1>. QED
  BY <1>1, <1>3, <1>4 DEF KeysIn

\* find is right about every key.
LEMMA FindLinearIs ==
    ASSUME NEW c \in Nat \ {0}, NEW t, LinearShape(t, c), Unique(t.buckets, c), NEW x
    PROVE  /\ \A q \in ValidIn(t.buckets, c) : t.buckets[q].key = x =>
                 find_linear(t, x) = t.buckets[q].value
           /\ x \notin KeysIn(t.buckets, c) => find_linear(t, x) = NoView
<1>1. find_linear(t, x) = IF Hits(t, x) = {} THEN NoView ELSE t.buckets[Max(Hits(t, x))].value
  BY DEF find_linear, Hits
<1>2. x \notin KeysIn(t.buckets, c) => Hits(t, x) = {}
  BY HitsAre
<1>3. \A q \in ValidIn(t.buckets, c) : t.buckets[q].key = x =>
          Hits(t, x) = {q} /\ Max(Hits(t, x)) = q
  BY HitsAre
<1>. QED
  BY <1>1, <1>2, <1>3

\* Inserting into a small table that is not full.
LEMMA InsertLinearIs ==
    ASSUME NEW c \in Nat \ {0}, NEW t, LinearShape(t, c), t.occupancy < c,
           NEW b \in Buckets, is_valid(b)
    PROVE  LET r == InsertLinear(t, b) IN
           /\ LinearShape(r, c) /\ r.occupancy \in {t.occupancy, t.occupancy + 1}
           /\ b.key \notin KeysIn(t.buckets, c) => r.occupancy = t.occupancy + 1
           /\ Unique(t.buckets, c) =>
                /\ Unique(r.buckets, c)
                /\ StoredIn(r.buckets, c) = Without(StoredIn(t.buckets, c), b.key)
                                              \cup {<<b.key, b.value>>}
<1>. DEFINE f == t.buckets
            i == IF Hits(t, b.key) # {} THEN Min(Hits(t, b.key)) ELSE t.occupancy
            g == [f EXCEPT ![i] = b]
            r == InsertLinear(t, b)
<1>1. t \in TablesOf(c) /\ f \in Arrays(c) /\ t.occupancy \in Nat /\ t.occupancy < c
      /\ ValidIn(f, c) = 0..(t.occupancy - 1) /\ t.ins_rm_count \in Int /\ t.capacity = c
  BY DEF LinearShape, TablesOf
<1>2. \/ Hits(t, b.key) # {} /\ i \in ValidIn(f, c) /\ f[i].key = b.key /\ b.key \in KeysIn(f, c)
      \/ /\ Hits(t, b.key) = {} /\ i = t.occupancy /\ i \notin ValidIn(f, c)
         /\ b.key \notin KeysIn(f, c)
  <2>1. Hits(t, b.key) = {} => b.key \notin KeysIn(f, c)
    BY HitsAre
  <2>2. Hits(t, b.key) # {} => i \in ValidIn(f, c) /\ f[i].key = b.key /\ b.key \in KeysIn(f, c)
    <3>1. Hits(t, b.key) # {} => i \in Hits(t, b.key)
      BY HitsAre
    <3>2. \A j \in Hits(t, b.key) : j \in ValidIn(f, c) /\ f[j].key = b.key
      BY HitsAre
    <3>. QED
      BY <3>1, <3>2 DEF KeysIn
  <2>3. t.occupancy \notin ValidIn(f, c)
    BY <1>1
  <2>. QED
    BY <2>1, <2>2, <2>3
<1>3. i \in 0..(c - 1)
  BY <1>1, <1>2
<1>4. /\ g \in Arrays(c) /\ ValidIn(g, c) = ValidIn(f, c) \cup {i}
      /\ Unique(f, c) =>
           /\ Unique(g, c)
           /\ StoredIn(g, c) = Without(StoredIn(f, c), b.key) \cup {<<b.key, b.value>>}
  <2>1. g = [f EXCEPT ![i] = b]
    OBVIOUS
  <2>2. \/ i \in ValidIn(f, c) /\ f[i].key = b.key
        \/ i \notin ValidIn(f, c) /\ b.key \notin KeysIn(f, c)
    BY <1>2
  <2>3. f \in Arrays(c)
    BY <1>1
  <2>4. Written(f, g, c, i, b)
    BY <1>3, <2>1, <2>2 DEF Written
  <2>. HIDE DEF f, g, i
  <2>. QED
    BY <2>3, <2>4, WriteKeeps
<1>5. r = IF Hits(t, b.key) # {} THEN [t EXCEPT !.buckets = g]
          ELSE [t EXCEPT !.buckets = g, !.occupancy = @ + 1]
  BY DEF InsertLinear, Hits
<1>6. r \in TablesOf(c) /\ r.buckets = g
      /\ r.occupancy = IF Hits(t, b.key) # {} THEN t.occupancy ELSE t.occupancy + 1
  <2>1. t.occupancy + 1 \in Nat
    BY <1>1
  <2>. HIDE DEF g, r, f
  <2>. QED
    BY <1>1, <1>4, <1>5, <2>1 DEF TablesOf
<1>7. ValidIn(g, c) = 0..(r.occupancy - 1)
  <2>. HIDE DEF g, r, f
  <2>. QED
    BY <1>1, <1>2, <1>4, <1>6
<1>. HIDE DEF g, r, f
<1>. QED
  BY <1>1, <1>2, <1>4, <1>6, <1>7 DEF LinearShape, r, f

\* Removing from a small table: the last bucket takes the place.
LEMMA RemoveLinearIs ==
    ASSUME NEW c \in Nat \ {0}, NEW t, LinearShape(t, c), NEW x, x \in KeysIn(t.buckets, c)
    PROVE  LET r == RemoveLinear(t, x) IN
           /\ LinearShape(r, c) /\ t.occupancy > 0 /\ r.occupancy = t.occupancy - 1
           /\ Unique(t.buckets, c) =>
                /\ Unique(r.buckets, c)
                /\ StoredIn(r.buckets, c) = Without(StoredIn(t.buckets, c), x)
<1>. DEFINE f == t.buckets
            i == Min(Hits(t, x))
            last == t.occupancy - 1
            g == [[f EXCEPT ![i] = f[last]] EXCEPT ![last] = Empty]
            r == RemoveLinear(t, x)
<1>1. t \in TablesOf(c) /\ f \in Arrays(c) /\ t.occupancy \in Nat /\ t.occupancy <= c
      /\ ValidIn(f, c) = 0..(t.occupancy - 1)
  BY DEF LinearShape, TablesOf
<1>2. i \in ValidIn(f, c) /\ f[i].key = x
  <2>1. Hits(t, x) # {}
    BY HitsAre
  <2>2. i \in Hits(t, x)
    BY <2>1, HitsAre
  <2>3. \A j \in Hits(t, x) : j \in ValidIn(f, c) /\ f[j].key = x
    BY HitsAre
  <2>. QED
    BY <2>2, <2>3
<1>. HIDE DEF i
<1>3. i \in 0..last /\ last \in 0..(c - 1) /\ last \in ValidIn(f, c) /\ t.occupancy > 0
  BY <1>1, <1>2
<1>4. Empty \in Buckets /\ ~is_valid(Empty)
  BY TableAssumption
     DEF Empty, Buckets, BucketRec, is_valid, is_empty, is_tombstone, KEY_EMPTY, KEY_DELETED
<1>5. g \in Arrays(c)
  <2>1. f[last] \in Buckets
    BY <1>1, <1>3 DEF Arrays
  <2>. HIDE DEF f, last, Empty
  <2>. QED
    BY <1>1, <1>4, <2>1 DEF Arrays
<1>6. \A j \in 0..(c - 1) :
          g[j] = IF j = last THEN Empty ELSE IF j = i THEN f[last] ELSE f[j]
  <2>. HIDE DEF last, Empty, f
  <2>. QED
    BY <1>1 DEF Arrays
<1>7. r = [t EXCEPT !.buckets = g, !.occupancy = @ - 1]
  BY DEF RemoveLinear, Hits, i
<1>8. r \in TablesOf(c) /\ r.buckets = g /\ r.occupancy = t.occupancy - 1
  <2>1. t.occupancy - 1 \in Nat
    BY <1>1, <1>3
  <2>. HIDE DEF g, r, f
  <2>. QED
    BY <1>1, <1>5, <1>7, <2>1 DEF TablesOf
<1>. HIDE DEF g, r, Empty
<1>9. ValidIn(g, c) = 0..(last - 1)
  <2>1. \A j \in 0..(c - 1) : is_valid(f[j]) <=> j \in 0..last
    BY <1>1, <1>3 DEF ValidIn
  <2>2. \A j \in 0..(c - 1) : is_valid(g[j]) <=> j \in 0..(last - 1)
    <3>1. last \in Nat /\ c \in Nat /\ i <= last
      BY <1>3
    <3>. HIDE DEF last, f
    <3>. QED
      BY <1>3, <1>4, <1>6, <2>1, <3>1
  <2>3. \A j \in 0..(last - 1) : j \in 0..(c - 1)
    BY <1>1, <1>3
  <2>. HIDE DEF last, f
  <2>. QED
    BY <2>2, <2>3 DEF ValidIn
<1>10. \A j \in 0..(last - 1) : j \in ValidIn(f, c) /\ j \in ValidIn(g, c) /\ j # last
                                /\ g[j] = IF j = i THEN f[last] ELSE f[j]
  BY <1>1, <1>3, <1>6, <1>9
<1>11. \A j \in ValidIn(f, c) : j \in 0..(last - 1) \/ j = last
  BY <1>1, <1>3
<1>12. ASSUME Unique(f, c) PROVE Unique(g, c)
  <2>. SUFFICES ASSUME NEW j \in 0..(last - 1), NEW k \in 0..(last - 1), g[j].key = g[k].key
                PROVE  j = k
    BY <1>9 DEF Unique
  <2>. DEFINE J == IF j = i THEN last ELSE j
              K == IF k = i THEN last ELSE k
  <2>1. J \in ValidIn(f, c) /\ K \in ValidIn(f, c) /\ g[j] = f[J] /\ g[k] = f[K]
    BY <1>3, <1>10
  <2>2. J = K
    <3>. HIDE DEF J, K, last
    <3>. QED
      BY <1>12, <2>1 DEF Unique
  <2>. QED
    BY <1>10, <2>2
<1>13. ASSUME Unique(f, c) PROVE StoredIn(g, c) = Without(StoredIn(f, c), x)
  <2>1. \A j \in ValidIn(f, c) : f[j].key = x => j = i
    BY <1>2, <1>13 DEF Unique
  <2>2. ASSUME NEW p \in StoredIn(g, c) PROVE p \in Without(StoredIn(f, c), x)
    <3>1. PICK j \in 0..(last - 1) : p = <<g[j].key, g[j].value>>
      BY <1>9 DEF StoredIn
    <3>. DEFINE J == IF j = i THEN last ELSE j
    <3>2. J \in ValidIn(f, c) /\ g[j] = f[J] /\ J # i
      BY <1>3, <1>10
    <3>. HIDE DEF J, last
    <3>3. p = <<f[J].key, f[J].value>> /\ f[J].key # x
      BY <2>1, <3>1, <3>2
    <3>4. p \in StoredIn(f, c) /\ p[1] # x
      BY <3>2, <3>3 DEF StoredIn
    <3>. QED
      BY <3>4 DEF Without
  <2>3. ASSUME NEW p \in Without(StoredIn(f, c), x) PROVE p \in StoredIn(g, c)
    <3>1. p \in StoredIn(f, c) /\ p[1] # x
      BY DEF Without
    <3>2. PICK j \in ValidIn(f, c) : p = <<f[j].key, f[j].value>>
      BY <3>1 DEF StoredIn
    <3>3. j # i
      BY <1>2, <3>1, <3>2
    <3>4. \E k \in 0..(last - 1) : k \in ValidIn(g, c) /\ g[k] = f[j]
      <4>1. CASE j = last
        <5>1. i \in 0..(last - 1)
          BY <1>3, <3>3, <4>1
        <5>. QED
          BY <1>10, <4>1, <5>1
      <4>2. CASE j # last
        BY <1>10, <1>11, <3>3, <4>2
      <4>. QED
        BY <4>1, <4>2
    <3>. QED
      BY <3>2, <3>4 DEF StoredIn
  <2>. QED
    BY <2>2, <2>3
<1>14. LinearShape(r, c)
  <2>1. r.occupancy <= c
    BY <1>1, <1>3, <1>8
  <2>. QED
    BY <1>8, <1>9, <2>1 DEF LinearShape
<1>. QED
  BY <1>3, <1>8, <1>12, <1>13, <1>14 DEF r

(***************************************************************************)
(* Rebuilding.                                                             *)
(***************************************************************************)
\* Whole parts of x.
LEMMA Parts ==
    ASSUME NEW x \in Nat, NEW y \in Nat \ {0}
    PROVE  /\ x \div y \in Nat /\ y * (x \div y) <= x
           /\ x = y * (x \div y) + (x % y) /\ x % y \in 0..(y - 1)
  OBVIOUS

\* The distance between the tombstones of a new array.
Gap == 2 * LOAD_FACTOR_CONSTANT + 1

\* A new array stores nothing, and its tombstones are far apart.
LEMMA CreatedIs ==
    ASSUME NEW c \in Nat \ {0}
    PROVE  LET a == bucket_array_create(c) IN
           /\ a \in Arrays(c) /\ ValidIn(a, c) = {}
           /\ Gap * Cardinality(UsedIn(a, c)) <= c
<1>. DEFINE a == bucket_array_create(c)
            U == UsedIn(a, c)
            M == c \div Gap
            T == 0..(M - 1)
            part == [i \in U |-> i \div Gap]
<1>0. Gap \in Nat \ {0}
  BY TableAssumption DEF Gap
<1>1. a = [i \in 0..(c - 1) |->
              IF c >= MIN_HT_CAPACITY /\ i % Gap = Gap - 1 THEN Tombstone ELSE Empty]
  BY DEF bucket_array_create, Gap
<1>. HIDE DEF a, Gap
<1>2. /\ Tombstone \in Buckets /\ ~is_valid(Tombstone)
      /\ Empty \in Buckets /\ ~is_valid(Empty) /\ is_empty(Empty)
  BY TableAssumption
     DEF Tombstone, Empty, Buckets, BucketRec, is_valid, is_empty, is_tombstone, KEY_EMPTY, KEY_DELETED
<1>. HIDE DEF Tombstone, Empty
<1>3. a \in Arrays(c) /\ ValidIn(a, c) = {}
  BY <1>1, <1>2 DEF Arrays, ValidIn
<1>4. \A i \in U : i \in 0..(c - 1) /\ i % Gap = Gap - 1
  BY <1>1, <1>2 DEF UsedIn
<1>5. M \in Nat /\ Gap * M <= c /\ c = Gap * M + (c % Gap) /\ c % Gap \in 0..(Gap - 1)
  BY <1>0, Parts
<1>. HIDE DEF M, U
<1>6. ASSUME NEW i \in U
      PROVE  i \div Gap \in T /\ i = Gap * (i \div Gap) + (Gap - 1)
  <2>1. i \in Nat /\ i < c /\ i % Gap = Gap - 1
    BY <1>4
  <2>2. i \div Gap \in Nat /\ i = Gap * (i \div Gap) + (i % Gap)
    BY <1>0, <2>1, Parts
  <2>3. \A q \in Nat : i = Gap * q + (Gap - 1) => q < M
    <3>. SUFFICES ASSUME NEW q \in Nat, i = Gap * q + (Gap - 1), M <= q PROVE FALSE
      BY <1>5
    <3>1. Gap * M <= Gap * q
      BY <1>0, <1>5
    <3>2. Gap * M \in Int /\ Gap * q \in Int
      BY <1>0, <1>5
    <3>. QED
      BY <1>0, <1>5, <2>1, <3>1, <3>2
  <2>. QED
    BY <1>5, <2>1, <2>2, <2>3
<1>7. part \in Injection(U, T)
  <2>1. part \in [U -> T]
    BY <1>6
  <2>2. \A i, j \in U : part[i] = part[j] => i = j
    BY <1>6
  <2>. QED
    BY <2>1, <2>2 DEF Injection, IsInjective
<1>8. IsFiniteSet(T) /\ Cardinality(T) = M
  <2>1. M - 1 \in Int /\ 0 \in Int
    BY <1>5
  <2>2. IsFiniteSet(0..(M - 1)) /\ Cardinality(0..(M - 1)) = IF 0 > M - 1 THEN 0 ELSE (M - 1) - 0 + 1
    BY <2>1, FS_Interval
  <2>. QED
    BY <1>5, <2>2
<1>9. Cardinality(U) <= M /\ Cardinality(U) \in Nat
  <2>1. IsFiniteSet(U) /\ Cardinality(U) <= Cardinality(T)
    <3>. HIDE DEF part, T
    <3>. QED
      BY <1>7, <1>8, FS_Injection
  <2>. QED
    BY <1>8, <2>1, FS_CardinalityType
<1>10. Gap * Cardinality(U) <= Gap * M
  BY <1>0, <1>5, <1>9
<1>11. Gap * Cardinality(U) \in Int /\ Gap * M \in Int
  BY <1>0, <1>5, <1>9
<1>12. Gap * Cardinality(U) <= c
  BY <1>5, <1>10, <1>11
<1>. QED
  BY <1>3, <1>12 DEF U, a

\* The load threshold, without division.
LEMMA NotOverloaded ==
    ASSUME NEW n \in Nat, NEW c \in Nat
    PROVE  /\ ~is_overloaded(n, c) <=> LOAD_FACTOR_CONSTANT * n <= LOAD_FACTOR_CONSTANT * c - c
           /\ \A m \in Nat : m <= n /\ ~is_overloaded(n, c) => ~is_overloaded(m, c)
<1>. DEFINE L == LOAD_FACTOR_CONSTANT
            x == (L - 1) * c
            q == x \div L
<1>1. L \in Nat /\ L >= 2
  BY TableAssumption
<1>2. x \in Nat /\ x = L * c - c
  BY <1>1
<1>3. q \in Nat /\ x = L * q + (x % L) /\ x % L \in 0..(L - 1)
  <2>1. L \in Nat \ {0}
    BY <1>1
  <2>. HIDE DEF x, L
  <2>. QED
    BY <1>2, <2>1, Parts
<1>4. \A m \in Nat : is_overloaded(m, c) <=> m > q
  BY DEF is_overloaded
<1>. HIDE DEF x, q, L
<1>5. n <= q => L * n <= x
  <2>1. n <= q => L * n <= L * q
    BY <1>1, <1>3
  <2>2. L * n \in Int /\ L * q \in Int
    BY <1>1, <1>3
  <2>. QED
    BY <1>2, <1>3, <2>1, <2>2
<1>6. n > q => L * n > x
  <2>1. n >= q + 1 => L * n >= L * (q + 1)
    BY <1>1, <1>3
  <2>2. L * (q + 1) = L * q + L
    BY <1>1, <1>3
  <2>3. L * n \in Int /\ L * q \in Int
    BY <1>1, <1>3
  <2>. QED
    BY <1>1, <1>2, <1>3, <2>1, <2>2, <2>3
<1>7. L * n \in Int
  BY <1>1
<1>8. ~is_overloaded(n, c) <=> L * n <= L * c - c
  BY <1>2, <1>3, <1>4, <1>5, <1>6, <1>7
<1>. QED
  BY <1>3, <1>4, <1>8 DEF L

\* Below the load threshold the tombstones of a new array leave a bucket empty.
LEMMA RoomLeft ==
    ASSUME NEW c \in Nat \ {0}, NEW n \in Nat, NEW w \in Nat,
           ~is_overloaded(n + 1, c), Gap * w <= c
    PROVE  w + n < c
<1>. DEFINE L == LOAD_FACTOR_CONSTANT
<1>1. L \in Nat /\ L >= 2
  BY TableAssumption
<1>2. L * (n + 1) <= L * c - c
  BY NotOverloaded
<1>3. L * (n + 1) = L * n + L /\ L * n \in Int /\ L * c \in Int /\ L * w \in Int
  BY <1>1
<1>4. Gap * w = L * w + L * w + w
  BY <1>1 DEF Gap
<1>. SUFFICES ASSUME w >= c - n PROVE FALSE
  OBVIOUS
<1>5. L * w >= L * (c - n)
  BY <1>1
<1>6. L * (c - n) = L * c - L * n
  BY <1>1
<1>. HIDE DEF L
<1>. QED
  BY <1>1, <1>2, <1>3, <1>4, <1>5, <1>6

\* Tombstones are counted by a natural.
LEMMA WasteIs ==
    ASSUME NEW c \in Nat \ {0}, NEW t, HashShape(t, c)
    PROVE  /\ Waste(t, c) \in Nat /\ t.occupancy \in Nat
           /\ Waste(t, c) + t.occupancy < c => \E e \in 0..(c - 1) : is_empty(t.buckets[e])
<1>. DEFINE U == UsedIn(t.buckets, c)
            V == ValidIn(t.buckets, c)
<1>1. U \subseteq 0..(c - 1) /\ V \subseteq U
  BY DEF UsedIn, ValidIn, is_valid
<1>2. IsFiniteSet(U) /\ Cardinality(U) \in Nat /\ (Cardinality(U) = c <=> U = 0..(c - 1))
  <2>. HIDE DEF U
  <2>. QED
    BY <1>1, ArrayCounts
<1>3. Cardinality(V) \in Nat /\ Cardinality(V) <= Cardinality(U)
  <2>. HIDE DEF U, V
  <2>1. IsFiniteSet(V) /\ Cardinality(V) <= Cardinality(U)
    BY <1>1, <1>2, FS_Subset
  <2>. QED
    BY <2>1, FS_CardinalityType
<1>4. t.occupancy = Cardinality(V)
  BY DEF HashShape
<1>5. Cardinality(U) < c => \E e \in 0..(c - 1) : is_empty(t.buckets[e])
  BY <1>2 DEF UsedIn
<1>. HIDE DEF U, V
<1>. QED
  BY <1>2, <1>3, <1>4, <1>5 DEF Waste, U

\* The valid buckets before index i, and what they store.
Upto(f, c, i) == {j \in ValidIn(f, c) : j < i}
StoredUpto(f, c, i) == {<<f[j].key, f[j].value>> : j \in Upto(f, c, i)}

\* One by one.
LEMMA UptoIs ==
    ASSUME NEW c \in Nat \ {0}, NEW f
    PROVE  /\ Upto(f, c, 0) = {} /\ StoredUpto(f, c, 0) = {}
           /\ Upto(f, c, c) = ValidIn(f, c) /\ StoredUpto(f, c, c) = StoredIn(f, c)
           /\ \A i \in 0..(c - 1) : i \notin ValidIn(f, c) =>
                 Upto(f, c, i + 1) = Upto(f, c, i) /\ StoredUpto(f, c, i + 1) = StoredUpto(f, c, i)
           /\ \A i \in ValidIn(f, c) :
                 /\ StoredUpto(f, c, i + 1) = StoredUpto(f, c, i) \cup {<<f[i].key, f[i].value>>}
                 /\ Cardinality(Upto(f, c, i + 1)) = Cardinality(Upto(f, c, i)) + 1
           /\ \A i \in 0..c : /\ Cardinality(Upto(f, c, i)) \in Nat
                              /\ Cardinality(Upto(f, c, i)) <= Cardinality(ValidIn(f, c))
           /\ Cardinality(ValidIn(f, c)) \in Nat
<1>1. ValidIn(f, c) \subseteq 0..(c - 1)
  BY DEF ValidIn
<1>2. Upto(f, c, 0) = {} /\ Upto(f, c, c) = ValidIn(f, c)
  BY <1>1 DEF Upto
<1>3. \A i \in 0..(c - 1) : i \notin ValidIn(f, c) => Upto(f, c, i + 1) = Upto(f, c, i)
  BY <1>1 DEF Upto
<1>4. \A i \in ValidIn(f, c) : Upto(f, c, i + 1) = Upto(f, c, i) \cup {i} /\ i \notin Upto(f, c, i)
  BY <1>1 DEF Upto
<1>5. ASSUME NEW i \in 0..c
      PROVE  /\ IsFiniteSet(Upto(f, c, i)) /\ Cardinality(Upto(f, c, i)) \in Nat
             /\ Cardinality(Upto(f, c, i)) <= Cardinality(ValidIn(f, c))
  <2>1. Upto(f, c, i) \subseteq ValidIn(f, c)
    BY DEF Upto
  <2>2. IsFiniteSet(ValidIn(f, c))
    BY <1>1, ArrayCounts
  <2>3. IsFiniteSet(Upto(f, c, i)) /\ Cardinality(Upto(f, c, i)) <= Cardinality(ValidIn(f, c))
    BY <2>1, <2>2, FS_Subset
  <2>. QED
    BY <2>3, FS_CardinalityType
<1>6. ASSUME NEW i \in ValidIn(f, c)
      PROVE  Cardinality(Upto(f, c, i + 1)) = Cardinality(Upto(f, c, i)) + 1
  <2>1. IsFiniteSet(Upto(f, c, i))
    BY <1>1, <1>5
  <2>. QED
    BY <1>4, <2>1, FS_AddElement
<1>7. StoredUpto(f, c, 0) = {} /\ StoredUpto(f, c, c) = StoredIn(f, c)
  BY <1>2 DEF StoredUpto, StoredIn
<1>8. \A i \in ValidIn(f, c) :
          StoredUpto(f, c, i + 1) = StoredUpto(f, c, i) \cup {<<f[i].key, f[i].value>>}
  BY <1>4 DEF StoredUpto
<1>9. \A i \in 0..(c - 1) : i \notin ValidIn(f, c) => StoredUpto(f, c, i + 1) = StoredUpto(f, c, i)
  BY <1>3 DEF StoredUpto
<1>10. Cardinality(ValidIn(f, c)) \in Nat
  BY <1>1, ArrayCounts
<1>. QED
  BY <1>2, <1>3, <1>5, <1>6, <1>7, <1>8, <1>9, <1>10

Shape(t, c) == IF c < MIN_HT_CAPACITY THEN LinearShape(t, c) ELSE HashShape(t, c)
Order(t, c) == IF c < MIN_HT_CAPACITY THEN Unique(t.buckets, c) ELSE HashOrder(t, c)

\* A table of capacity c has room for n buckets.
Fits(n, c) == IF c < MIN_HT_CAPACITY THEN n <= c ELSE ~is_overloaded(n, c)

\* What a table of capacity c is that was rebuilt from the array f of capacity d, after i
\* buckets: if f held no key twice, it holds their views.
Rebuilt(f, d, c, i) ==
    {u \in TablesOf(c) :
        /\ Shape(u, c) /\ u.occupancy <= Cardinality(Upto(f, d, i))
        /\ c >= MIN_HT_CAPACITY => Gap * Waste(u, c) <= c
        /\ Unique(f, d) /\ c <= IndexMod =>
              /\ Order(u, c) /\ u.occupancy = Cardinality(Upto(f, d, i))
              /\ StoredIn(u.buckets, c) = StoredUpto(f, d, i)}

\* A bucket of an array with no key twice is not among those before it.
LEMMA KeyIsNew ==
    ASSUME NEW d \in Nat \ {0}, NEW f, Unique(f, d), NEW i \in ValidIn(f, d),
           NEW c, NEW g, StoredIn(g, c) = StoredUpto(f, d, i)
    PROVE  /\ f[i].key \notin KeysIn(g, c)
           /\ Without(StoredIn(g, c), f[i].key) = StoredIn(g, c)
<1>1. ASSUME NEW p \in StoredUpto(f, d, i), p[1] = f[i].key PROVE FALSE
  <2>1. PICK j \in Upto(f, d, i) : p = <<f[j].key, f[j].value>>
    BY DEF StoredUpto
  <2>2. j \in ValidIn(f, d) /\ j < i /\ f[j].key = f[i].key
    BY <1>1, <2>1 DEF Upto
  <2>3. j = i
    BY <2>2 DEF Unique
  <2>4. i \in Nat
    BY DEF ValidIn
  <2>. QED
    BY <2>2, <2>3, <2>4
<1>2. f[i].key \notin KeysIn(g, c)
  BY <1>1, StoredKeys
<1>. QED
  BY <1>2, StoredKeys

\* Inserting the next bucket again.
LEMMA ReinsertedIs ==
    ASSUME NEW d \in Nat \ {0}, NEW f \in Arrays(d), NEW c \in Nat \ {0},
           Fits(Cardinality(ValidIn(f, d)), c),
           NEW i \in 0..(d - 1), NEW u \in Rebuilt(f, d, c, i)
    PROVE  Reinserted(u, f[i]) \in Rebuilt(f, d, c, i + 1)
<1>. DEFINE b == f[i]
            n == Cardinality(Upto(f, d, i))
            N == Cardinality(ValidIn(f, d))
<1>1. /\ u \in TablesOf(c) /\ Shape(u, c) /\ u.occupancy <= n /\ u.occupancy \in Nat
      /\ c >= MIN_HT_CAPACITY => Gap * Waste(u, c) <= c
      /\ u.capacity = c
  BY DEF Rebuilt, TablesOf
<1>2. Unique(f, d) /\ c <= IndexMod =>
         Order(u, c) /\ u.occupancy = n /\ StoredIn(u.buckets, c) = StoredUpto(f, d, i)
  BY DEF Rebuilt
<1>3. b \in Buckets /\ (is_valid(b) <=> i \in ValidIn(f, d))
  BY DEF Arrays, ValidIn
<1>4. n \in Nat /\ N \in Nat /\ n <= N /\ Cardinality(Upto(f, d, i + 1)) \in Nat
      /\ Cardinality(Upto(f, d, i + 1)) <= N
  BY UptoIs
<1>. HIDE DEF b, n, N
<1>5. CASE i \notin ValidIn(f, d)
  <2>1. Upto(f, d, i + 1) = Upto(f, d, i) /\ StoredUpto(f, d, i + 1) = StoredUpto(f, d, i)
    BY <1>5, UptoIs
  <2>2. Rebuilt(f, d, c, i + 1) = Rebuilt(f, d, c, i)
    BY <2>1 DEF Rebuilt
  <2>3. Reinserted(u, b) = u
    BY <1>3, <1>5 DEF Reinserted
  <2>. QED
    BY <2>2, <2>3 DEF b
<1>6. CASE i \in ValidIn(f, d)
  <2>. DEFINE r == Reinserted(u, b)
  <2>1. /\ StoredUpto(f, d, i + 1) = StoredUpto(f, d, i) \cup {<<b.key, b.value>>}
        /\ Cardinality(Upto(f, d, i + 1)) = n + 1
    BY <1>6, UptoIs DEF b, n
  <2>2. is_valid(b) /\ n + 1 <= N
    BY <1>3, <1>4, <1>6, <2>1
  <2>3. Unique(f, d) /\ c <= IndexMod =>
           b.key \notin KeysIn(u.buckets, c) /\ Without(StoredIn(u.buckets, c), b.key) = StoredIn(u.buckets, c)
    BY <1>2, <1>6, KeyIsNew DEF b
  <2>4. /\ r \in TablesOf(c) /\ Shape(r, c) /\ r.occupancy \in {u.occupancy, u.occupancy + 1}
        /\ c >= MIN_HT_CAPACITY => Gap * Waste(r, c) <= c
        /\ Unique(f, d) /\ c <= IndexMod =>
              /\ Order(r, c) /\ r.occupancy = u.occupancy + 1
              /\ StoredIn(r.buckets, c) = StoredIn(u.buckets, c) \cup {<<b.key, b.value>>}
    <3>1. CASE c < MIN_HT_CAPACITY
      <4>1. r = InsertLinear(u, b)
        BY <1>1, <2>2, <3>1 DEF Reinserted
      <4>2. LinearShape(u, c) /\ u.occupancy < c
        <5>1. N <= c
          BY <3>1 DEF Fits, N
        <5>. QED
          BY <1>1, <1>4, <2>2, <3>1, <5>1 DEF Shape
      <4>. HIDE DEF r
      <4>3. LinearShape(r, c) /\ r.occupancy \in {u.occupancy, u.occupancy + 1}
        BY <1>3, <2>2, <4>1, <4>2, InsertLinearIs
      <4>4. b.key \notin KeysIn(u.buckets, c) => r.occupancy = u.occupancy + 1
        BY <1>3, <2>2, <4>1, <4>2, InsertLinearIs
      <4>5. Unique(u.buckets, c) =>
               /\ Unique(r.buckets, c)
               /\ StoredIn(r.buckets, c) = Without(StoredIn(u.buckets, c), b.key) \cup {<<b.key, b.value>>}
        BY <1>3, <2>2, <4>1, <4>2, InsertLinearIs
      <4>6. ~(c >= MIN_HT_CAPACITY)
        BY <3>1, TableAssumption
      <4>. QED
        BY <1>2, <2>3, <3>1, <4>3, <4>4, <4>5, <4>6 DEF Shape, Order, LinearShape
    <3>2. CASE ~(c < MIN_HT_CAPACITY)
      <4>0. c >= MIN_HT_CAPACITY
        BY <3>2, TableAssumption
      <4>1. r = InsertHash(u, b)
        BY <1>1, <2>2, <3>2 DEF Reinserted
      <4>2. HashShape(u, c) /\ ~is_overloaded(N, c)
        BY <1>1, <3>2 DEF Shape, Fits, N
      <4>3. ~is_overloaded(u.occupancy + 1, c)
        <5>1. u.occupancy + 1 \in Nat /\ u.occupancy + 1 <= N /\ N \in Nat
          BY <1>1, <1>4, <2>2
        <5>. QED
          BY <4>2, <5>1, NotOverloaded
      <4>4. Waste(u, c) \in Nat /\ Gap * Waste(u, c) <= c
        BY <1>1, <4>0, <4>2, WasteIs
      <4>5. Waste(u, c) + u.occupancy < c
        BY <1>1, <4>3, <4>4, RoomLeft
      <4>6. u.occupancy < c
        BY <1>1, <4>4, <4>5
      <4>7. PICK e \in 0..(c - 1) : is_empty(u.buckets[e])
        BY <4>2, <4>5, WasteIs
      <4>. HIDE DEF r
      <4>8. HashShape(r, c) /\ r.occupancy \in {u.occupancy, u.occupancy + 1}
            /\ Waste(r, c) <= Waste(u, c)
        BY <1>3, <2>2, <4>1, <4>2, <4>6, InsertHashShape
      <4>9. Gap * Waste(r, c) <= c
        <5>1. Waste(r, c) \in Nat
          BY <4>8, WasteIs
        <5>2. Gap \in Nat
          BY TableAssumption DEF Gap
        <5>3. Gap * Waste(r, c) <= Gap * Waste(u, c)
          BY <4>4, <4>8, <5>1, <5>2
        <5>4. Gap * Waste(r, c) \in Int /\ Gap * Waste(u, c) \in Int
          BY <4>4, <5>1, <5>2
        <5>. QED
          BY <4>4, <5>3, <5>4
      <4>10. ASSUME HashOrder(u, c), c <= IndexMod
             PROVE  /\ HashOrder(r, c)
                    /\ StoredIn(r.buckets, c) = Without(StoredIn(u.buckets, c), b.key) \cup {<<b.key, b.value>>}
                    /\ b.key \notin KeysIn(u.buckets, c) => r.occupancy = u.occupancy + 1
        BY <1>3, <2>2, <4>1, <4>2, <4>7, <4>10, InsertHashOrders
      <4>. QED
        BY <1>2, <2>3, <3>2, <4>8, <4>9, <4>10 DEF Shape, Order, HashShape
    <3>. QED
      BY <3>1, <3>2
  <2>. HIDE DEF r
  <2>5. r.occupancy <= n + 1
    BY <1>1, <1>4, <2>4
  <2>6. Unique(f, d) /\ c <= IndexMod =>
           /\ Order(r, c) /\ r.occupancy = n + 1
           /\ StoredIn(r.buckets, c) = StoredUpto(f, d, i + 1)
    BY <1>2, <2>1, <2>4
  <2>7. r \in Rebuilt(f, d, c, i + 1)
    BY <2>1, <2>4, <2>5, <2>6 DEF Rebuilt
  <2>. QED
    BY <2>7 DEF r, b
<1>. QED
  BY <1>5, <1>6

\* A new table to copy to.
LEMMA NewIs ==
    ASSUME NEW d \in Nat \ {0}, NEW f, NEW c \in Nat \ {0}, NEW m \in Int, NEW u,
           u = [capacity |-> c, occupancy |-> 0, ins_rm_count |-> m,
                buckets |-> bucket_array_create(c)]
    PROVE  u \in Rebuilt(f, d, c, 0)
<1>. DEFINE a == bucket_array_create(c)
<1>1. a \in Arrays(c) /\ ValidIn(a, c) = {} /\ Gap * Cardinality(UsedIn(a, c)) <= c
  BY CreatedIs
<1>2. u \in TablesOf(c) /\ u.buckets = a /\ u.occupancy = 0
  <2>. HIDE DEF a
  <2>. QED
    BY <1>1 DEF TablesOf, a
<1>. HIDE DEF a
<1>3. Cardinality({}) = 0
  BY FS_EmptySet
<1>4. LinearShape(u, c)
  BY <1>1, <1>2 DEF LinearShape
<1>5. HashShape(u, c)
  BY <1>1, <1>2, <1>3 DEF HashShape, Homed
<1>6. Order(u, c) /\ StoredIn(u.buckets, c) = {}
  BY <1>1, <1>2 DEF Order, HashOrder, Unique, Ordered, StoredIn
<1>7. Waste(u, c) = Cardinality(UsedIn(a, c))
  <2>1. UsedIn(a, c) \subseteq 0..(c - 1)
    BY DEF UsedIn
  <2>2. Cardinality(UsedIn(a, c)) \in Nat
    BY <2>1, ArrayCounts
  <2>. QED
    BY <1>2, <2>2 DEF Waste
<1>8. Upto(f, d, 0) = {} /\ StoredUpto(f, d, 0) = {}
  BY UptoIs
<1>. QED
  BY <1>1, <1>2, <1>3, <1>4, <1>5, <1>6, <1>7, <1>8 DEF Rebuilt, Shape

\* Rebuilding keeps what was stored.
LEMMA RebuildIs ==
    ASSUME NEW d \in Nat \ {0}, NEW t \in TablesOf(d), NEW c \in Nat \ {0},
           Fits(Cardinality(ValidIn(t.buckets, d)), c)
    PROVE  rebuild(t, c) \in Rebuilt(t.buckets, d, c, d)
<1>. DEFINE f == t.buckets
            new == [capacity |-> c, occupancy |-> 0, ins_rm_count |-> -t.occupancy,
                    buckets |-> bucket_array_create(c)]
            V == UNION {Rebuilt(f, d, c, i) : i \in 0..d}
            G == [p \in (1..d) \X V |->
                    IF p[2] \in Rebuilt(f, d, c, p[1] - 1) THEN Reinserted(p[2], f[p[1] - 1]) ELSE p[2]]
            copied == CHOOSE h : h = [i \in 0..t.capacity |->
                        IF i = 0 THEN new ELSE Reinserted(h[i - 1], t.buckets[i - 1])]
<1>0. f \in Arrays(d) /\ t.capacity = d /\ t.occupancy \in Nat
  BY DEF TablesOf
<1>1. rebuild(t, c) = copied[t.capacity]
  BY DEF rebuild
<1>2. new \in Rebuilt(f, d, c, 0)
  <2>1. -t.occupancy \in Int
    BY <1>0
  <2>. HIDE DEF new
  <2>. QED
    BY <2>1, NewIs DEF new
<1>3. \A i \in 1..d : \A u \in Rebuilt(f, d, c, i - 1) : Reinserted(u, f[i - 1]) \in Rebuilt(f, d, c, i)
  <2>. SUFFICES ASSUME NEW i \in 1..d, NEW u \in Rebuilt(f, d, c, i - 1)
                PROVE  Reinserted(u, f[i - 1]) \in Rebuilt(f, d, c, i)
    OBVIOUS
  <2>1. i - 1 \in 0..(d - 1) /\ (i - 1) + 1 = i
    OBVIOUS
  <2>2. Reinserted(u, f[i - 1]) \in Rebuilt(f, d, c, (i - 1) + 1)
    <3>. HIDE DEF f
    <3>. QED
      BY <1>0, <2>1, ReinsertedIs DEF f
  <2>. QED
    BY <2>1, <2>2
<1>. HIDE DEF f, new
<1>4. ASSUME NEW h, h[0] = new,
             \A i \in 1..d : h[i - 1] \in Rebuilt(f, d, c, i - 1) => h[i] = Reinserted(h[i - 1], f[i - 1])
      PROVE  \A i \in 0..d : h[i] \in Rebuilt(f, d, c, i)
  <2>. DEFINE S == {i \in 0..d : h[i] \in Rebuilt(f, d, c, i)}
  <2>1. 0 \in S
    BY <1>2, <1>4
  <2>2. \A i \in 0..(d - 1) : i \in S => i + 1 \in S
    <3>. SUFFICES ASSUME NEW i \in 0..(d - 1), i \in S PROVE i + 1 \in S
      OBVIOUS
    <3>1. i + 1 \in 1..d /\ (i + 1) - 1 = i
      OBVIOUS
    <3>2. h[i + 1] = Reinserted(h[i], f[i])
      BY <1>4, <3>1
    <3>3. Reinserted(h[i], f[i]) \in Rebuilt(f, d, c, i + 1)
      BY <1>3, <3>1
    <3>. QED
      BY <3>1, <3>2, <3>3
  <2>. HIDE DEF S
  <2>3. \A i \in 0..d : i \in S
    BY <2>1, <2>2, UpTo
  <2>. QED
    BY <2>3 DEF S
<1>5. \A i \in 0..d : Rebuilt(f, d, c, i) \subseteq V
  OBVIOUS
<1>6. \A i \in 1..d, u \in V :
          G[<<i, u>>] = IF u \in Rebuilt(f, d, c, i - 1) THEN Reinserted(u, f[i - 1]) ELSE u
  <2>. HIDE DEF V
  <2>. QED
    OBVIOUS
<1>. HIDE DEF V
<1>7. new \in V /\ G \in [(1..d) \X V -> V]
  <2>1. new \in V
    BY <1>2, <1>5
  <2>2. ASSUME NEW i \in 1..d, NEW u \in V
        PROVE  (IF u \in Rebuilt(f, d, c, i - 1) THEN Reinserted(u, f[i - 1]) ELSE u) \in V
    <3>1. i \in 0..d
      OBVIOUS
    <3>. QED
      BY <1>3, <1>5, <3>1
  <2>. QED
    BY <2>1, <2>2
<1>. HIDE DEF G
<1>8. PICK g : Iterates(g, new, G, d, V)
  <2>1. d \in Nat
    OBVIOUS
  <2>. QED
    BY <1>7, <2>1, Iteration
<1>9. g \in [0..d -> V] /\ g[0] = new /\ \A i \in 1..d : g[i] = G[<<i, g[i - 1]>>]
  BY <1>8 DEF Iterates
<1>10. \A i \in 1..d : g[i - 1] \in Rebuilt(f, d, c, i - 1) => g[i] = Reinserted(g[i - 1], f[i - 1])
  <2>1. \A i \in 1..d : i - 1 \in 0..d
    OBVIOUS
  <2>2. \A i \in 1..d : g[i - 1] \in V
    BY <1>9, <2>1
  <2>. QED
    BY <1>6, <1>9, <2>2
<1>11. \A i \in 0..d : g[i] \in Rebuilt(f, d, c, i)
  BY <1>4, <1>9, <1>10
<1>12. g = [i \in 0..t.capacity |-> IF i = 0 THEN new ELSE Reinserted(g[i - 1], t.buckets[i - 1])]
  <2>1. \A i \in 0..d : i # 0 => i \in 1..d /\ i - 1 \in 0..d
    OBVIOUS
  <2>2. \A i \in 0..d : g[i] = IF i = 0 THEN new ELSE Reinserted(g[i - 1], t.buckets[i - 1])
    BY <1>9, <1>10, <1>11, <2>1 DEF f
  <2>. QED
    BY <1>0, <1>9, <2>2
<1>13. copied = [i \in 0..t.capacity |->
                    IF i = 0 THEN new ELSE Reinserted(copied[i - 1], t.buckets[i - 1])]
  BY <1>12
<1>. HIDE DEF copied
<1>14. \A i \in 0..d : copied[i] = IF i = 0 THEN new ELSE Reinserted(copied[i - 1], f[i - 1])
  BY <1>0, <1>13 DEF f
<1>15. copied[0] = new /\ \A i \in 1..d : copied[i] = Reinserted(copied[i - 1], f[i - 1])
  <2>1. 0 \in 0..d /\ \A i \in 1..d : i \in 0..d /\ i # 0
    OBVIOUS
  <2>. QED
    BY <1>14, <2>1
<1>16. \A i \in 0..d : copied[i] \in Rebuilt(f, d, c, i)
  BY <1>4, <1>15
<1>17. d \in 0..d
  OBVIOUS
<1>. QED
  BY <1>0, <1>1, <1>16, <1>17 DEF f

\* Rebuilding a table to a capacity it has room for.
LEMMA RebuildKeeps ==
    ASSUME NEW d \in Nat \ {0}, NEW t, Shape(t, d), NEW c \in Nat \ {0}, Fits(t.occupancy, c)
    PROVE  LET r == rebuild(t, c) IN
           /\ Shape(r, c) /\ r.capacity = c /\ r.occupancy <= t.occupancy
           /\ r.occupancy \in Nat /\ t.occupancy \in Nat
           /\ c >= MIN_HT_CAPACITY => Gap * Waste(r, c) <= c
           /\ Order(t, d) /\ c <= IndexMod =>
                /\ Order(r, c) /\ r.occupancy = t.occupancy
                /\ StoredIn(r.buckets, c) = StoredIn(t.buckets, d)
<1>. DEFINE r == rebuild(t, c)
            f == t.buckets
<1>1. t \in TablesOf(d) /\ t.occupancy = Cardinality(ValidIn(f, d)) /\ t.occupancy \in Nat
  <2>1. CASE d < MIN_HT_CAPACITY
    <3>1. t \in TablesOf(d) /\ ValidIn(f, d) = 0..(t.occupancy - 1)
      BY <2>1 DEF Shape, LinearShape
    <3>2. t.occupancy \in Nat
      BY <3>1 DEF TablesOf
    <3>3. Cardinality(0..(t.occupancy - 1)) =
            IF 0 > t.occupancy - 1 THEN 0 ELSE (t.occupancy - 1) - 0 + 1
      <4>1. t.occupancy - 1 \in Int /\ 0 \in Int
        BY <3>2
      <4>. QED
        BY <4>1, FS_Interval
    <3>. QED
      BY <3>1, <3>2, <3>3
  <2>2. CASE ~(d < MIN_HT_CAPACITY)
    BY <2>2 DEF Shape, HashShape, TablesOf
  <2>. QED
    BY <2>1, <2>2
<1>2. r \in Rebuilt(f, d, c, d)
  BY <1>1, RebuildIs
<1>3. Upto(f, d, d) = ValidIn(f, d) /\ StoredUpto(f, d, d) = StoredIn(f, d)
  BY UptoIs
<1>4. Order(t, d) => Unique(f, d)
  BY DEF Order, HashOrder
<1>5. r \in TablesOf(c)
  BY <1>2 DEF Rebuilt
<1>6. r.capacity = c /\ r.occupancy \in Nat
  <2>. HIDE DEF r
  <2>. QED
    BY <1>5 DEF TablesOf
<1>. HIDE DEF r, f
<1>7. /\ Shape(r, c) /\ r.occupancy <= t.occupancy
      /\ c >= MIN_HT_CAPACITY => Gap * Waste(r, c) <= c
      /\ Unique(f, d) /\ c <= IndexMod =>
              /\ Order(r, c) /\ r.occupancy = t.occupancy
              /\ StoredIn(r.buckets, c) = StoredIn(f, d)
  BY <1>1, <1>2, <1>3 DEF Rebuilt
<1>. QED
  BY <1>1, <1>4, <1>6, <1>7 DEF r, f

(***************************************************************************)
(* Capacities.                                                             *)
(***************************************************************************)
\* MIN_CAPACITY doubled any number of times.
Capacities ==
    {c \in Nat : \A S \in SUBSET Nat :
        MIN_CAPACITY \in S /\ (\A x \in S : 2 * x \in S) => c \in S}

\* They double, and halve down to MIN_CAPACITY.
LEMMA CapacitiesAre ==
    /\ MIN_CAPACITY \in Capacities
    /\ \A c \in Capacities :
          /\ c \in Nat \ {0} /\ c >= MIN_CAPACITY
          /\ 2 * c \in Capacities /\ 2 * c >= MIN_HT_CAPACITY
          /\ c # MIN_CAPACITY => c \div 2 \in Capacities /\ c = 2 * (c \div 2)
          /\ c < MIN_HT_CAPACITY <=> c = MIN_CAPACITY
<1>1. MIN_CAPACITY \in Nat \ {0} /\ MIN_HT_CAPACITY = 2 * MIN_CAPACITY
  BY TableAssumption
<1>2. MIN_CAPACITY \in Capacities
  BY <1>1 DEF Capacities
<1>3. ASSUME NEW c \in Capacities PROVE 2 * c \in Capacities
  BY <1>1 DEF Capacities
<1>4. ASSUME NEW S \in SUBSET Nat, MIN_CAPACITY \in S, \A x \in S : 2 * x \in S, NEW c \in Capacities
      PROVE  c \in S
  BY <1>4 DEF Capacities
<1>5. ASSUME NEW c \in Capacities PROVE c \in Nat /\ c >= MIN_CAPACITY
  <2>. DEFINE S == {x \in Nat : x >= MIN_CAPACITY}
  <2>1. S \in SUBSET Nat /\ MIN_CAPACITY \in S /\ \A x \in S : 2 * x \in S
    BY <1>1
  <2>2. c \in S
    <3>. HIDE DEF S
    <3>. QED
      BY <1>4, <2>1
  <2>. QED
    BY <2>2
<1>6. ASSUME NEW c \in Capacities PROVE c = MIN_CAPACITY \/ \E y \in Capacities : c = 2 * y
  <2>. DEFINE S == {x \in Nat : x = MIN_CAPACITY \/ \E y \in Capacities : x = 2 * y}
  <2>1. \A x \in S : x \in Capacities
    BY <1>2, <1>3
  <2>2. S \in SUBSET Nat /\ MIN_CAPACITY \in S
    BY <1>1
  <2>3. \A x \in S : 2 * x \in S
    BY <2>1
  <2>4. c \in S
    <3>. HIDE DEF S
    <3>. QED
      BY <1>4, <2>2, <2>3
  <2>. QED
    BY <2>4
<1>7. ASSUME NEW c \in Capacities, c # MIN_CAPACITY
      PROVE  c \div 2 \in Capacities /\ c = 2 * (c \div 2) /\ c >= MIN_HT_CAPACITY
  <2>1. PICK y \in Capacities : c = 2 * y
    BY <1>6, <1>7
  <2>2. y \in Nat /\ y >= MIN_CAPACITY
    BY <1>5
  <2>3. c \div 2 = y
    BY <2>1, <2>2
  <2>. QED
    BY <1>1, <2>1, <2>2, <2>3
<1>8. \A c \in Capacities : c \in Nat \ {0} /\ c >= MIN_CAPACITY /\ 2 * c >= MIN_HT_CAPACITY
  BY <1>1, <1>5
<1>9. ASSUME NEW c \in Capacities PROVE c < MIN_HT_CAPACITY <=> c = MIN_CAPACITY
  <2>1. c \in Nat /\ (c # MIN_CAPACITY => c >= MIN_HT_CAPACITY)
    BY <1>7, <1>8
  <2>. QED
    BY <1>1, <2>1
<1>. QED
  BY <1>2, <1>3, <1>7, <1>8, <1>9

\* Twice the capacity has room for a full table.
LEMMA DoubleFits ==
    ASSUME NEW c \in Nat \ {0}, NEW n \in Nat, n <= c
    PROVE  ~is_overloaded(n, 2 * c)
<1>. DEFINE L == LOAD_FACTOR_CONSTANT
<1>1. L \in Nat /\ L >= 2
  BY TableAssumption
<1>2. L * n <= L * c
  BY <1>1
<1>3. L * (2 * c) = L * c + L * c /\ 2 * c <= L * c
  BY <1>1
<1>4. L * n \in Int /\ L * c \in Int
  BY <1>1
<1>5. L * n <= L * (2 * c) - 2 * c
  BY <1>2, <1>3, <1>4
<1>. QED
  BY <1>5, NotOverloaded

\* A table that is not overloaded is not full.
LEMMA LoadIsLess ==
    ASSUME NEW c \in Nat \ {0}, NEW n \in Nat, ~is_overloaded(n, c)
    PROVE  n < c
<1>. DEFINE L == LOAD_FACTOR_CONSTANT
<1>1. L \in Nat /\ L >= 2
  BY TableAssumption
<1>2. L * n <= L * c - c
  BY NotOverloaded
<1>3. n >= c => L * n >= L * c
  BY <1>1
<1>4. L * n \in Int /\ L * c \in Int
  BY <1>1
<1>. QED
  BY <1>2, <1>3, <1>4

\* Half the capacity has room for an underloaded table.
LEMMA HalfFits ==
    ASSUME NEW c \in Nat \ {0}, NEW n \in Nat, is_underloaded(n, 2 * c)
    PROVE  Fits(n, c)
<1>. DEFINE L == LOAD_FACTOR_CONSTANT
            K == L \div 2
            x == (K - 1) * (2 * c)
            q == x \div L
<1>1. L \in Nat /\ L >= 2
  BY TableAssumption
<1>2. K \in Nat /\ K >= 1 /\ 2 * K <= L
  BY <1>1
<1>3. n <= q
  BY DEF is_underloaded
<1>. HIDE DEF L, K
<1>4. x \in Nat /\ x = 2 * (K * c) - 2 * c
  BY <1>2
<1>5. q \in Nat /\ L * q <= x
  <2>1. L \in Nat \ {0}
    BY <1>1
  <2>. HIDE DEF x
  <2>. QED
    BY <1>4, <2>1, Parts
<1>. HIDE DEF q, x
<1>6. L * n <= L * q
  BY <1>1, <1>3, <1>5
<1>7. 2 * (K * c) <= L * c
  <2>1. (2 * K) * c <= L * c
    BY <1>1, <1>2
  <2>2. (2 * K) * c = 2 * (K * c)
    BY <1>2
  <2>. QED
    BY <2>1, <2>2
<1>8. L * n \in Int /\ L * q \in Int /\ L * c \in Int /\ K * c \in Int
  BY <1>1, <1>2, <1>5
<1>9. L * n <= L * c - c
  BY <1>4, <1>5, <1>6, <1>7, <1>8
<1>10. ~is_overloaded(n, c)
  BY <1>9, NotOverloaded DEF L
<1>11. n < c
  BY <1>10, LoadIsLess
<1>. QED
  BY <1>10, <1>11 DEF Fits

(***************************************************************************)
(* The operations on tables.                                               *)
(***************************************************************************)
\* The buckets of a hash table were inserted below the load threshold.
LoadKept(t, c) == c >= MIN_HT_CAPACITY => \A o \in 0..(t.occupancy - 1) : ~is_overloaded(o, c)

\* What insert has made of table t, of capacity c, before it puts bucket b into a hash table.
ReadyFrom(t, c, p) ==
    /\ p.capacity \in Capacities /\ p.capacity >= MIN_HT_CAPACITY
    /\ HashShape(p, p.capacity) /\ ~is_overloaded(p.occupancy, p.capacity)
    /\ c <= p.capacity
    /\ Order(t, c) /\ p.capacity <= IndexMod =>
         /\ HashOrder(p, p.capacity)
         /\ StoredIn(p.buckets, p.capacity) = StoredIn(t.buckets, c)
         /\ c < MIN_HT_CAPACITY => HasRoom(p)

\* A hash table that was rebuilt is ready.
LEMMA RebuiltIsReady ==
    ASSUME NEW d \in Capacities, NEW t, Shape(t, d), NEW c \in Capacities, c >= MIN_HT_CAPACITY,
           ~is_overloaded(t.occupancy, c), d <= c,
           d < MIN_HT_CAPACITY => t.occupancy <= d /\ c = 2 * d
    PROVE  ReadyFrom(t, d, rebuild(t, c))
<1>. DEFINE r == rebuild(t, c)
<1>1. c \in Nat \ {0} /\ d \in Nat \ {0} /\ ~(c < MIN_HT_CAPACITY)
  BY CapacitiesAre, TableAssumption
<1>2. Fits(t.occupancy, c)
  BY <1>1 DEF Fits
<1>3. /\ Shape(r, c) /\ r.capacity = c /\ r.occupancy <= t.occupancy
      /\ r.occupancy \in Nat /\ t.occupancy \in Nat
      /\ Gap * Waste(r, c) <= c
      /\ Order(t, d) /\ c <= IndexMod =>
           /\ Order(r, c) /\ r.occupancy = t.occupancy
           /\ StoredIn(r.buckets, c) = StoredIn(t.buckets, d)
  BY <1>1, <1>2, RebuildKeeps
<1>. HIDE DEF r
<1>4. HashShape(r, c) /\ (Order(r, c) => HashOrder(r, c))
  BY <1>1, <1>3 DEF Shape, Order
<1>5. ~is_overloaded(r.occupancy, c)
  BY <1>1, <1>3, NotOverloaded
<1>6. ASSUME d < MIN_HT_CAPACITY PROVE HasRoom(r)
  <2>1. Waste(r, c) \in Nat
    BY <1>1, <1>4, WasteIs
  <2>2. Waste(r, c) + r.occupancy < c
    <3>1. r.occupancy <= d /\ c = d + d
      BY <1>1, <1>3, <1>6
    <3>2. Gap * Waste(r, c) >= 5 * Waste(r, c)
      <4>1. Gap \in Nat /\ Gap >= 5
        BY TableAssumption DEF Gap
      <4>. QED
        BY <2>1, <4>1
    <3>3. Gap * Waste(r, c) \in Int
      <4>1. Gap \in Nat
        BY TableAssumption DEF Gap
      <4>. QED
        BY <2>1, <4>1
    <3>. QED
      BY <1>1, <1>3, <2>1, <3>1, <3>2, <3>3
  <2>3. \E e \in 0..(c - 1) : is_empty(r.buckets[e])
    BY <1>1, <1>4, <2>2, WasteIs
  <2>. QED
    BY <1>3, <2>3 DEF HasRoom, Offsets
<1>. QED
  BY <1>1, <1>3, <1>4, <1>5, <1>6 DEF ReadyFrom, r

\* A table that is ready, rebuilt at its capacity.
LEMMA ReadyAgain ==
    ASSUME NEW d \in Capacities, NEW t, NEW p, ReadyFrom(t, d, p), p.capacity = 2 * d,
           d < MIN_HT_CAPACITY, p.occupancy <= d
    PROVE  ReadyFrom(t, d, rebuild(p, p.capacity))
<1>. DEFINE c == p.capacity
            r == rebuild(p, c)
<1>1. /\ c \in Capacities /\ c >= MIN_HT_CAPACITY /\ HashShape(p, c) /\ ~is_overloaded(p.occupancy, c)
      /\ d <= c
      /\ Order(t, d) /\ c <= IndexMod =>
           HashOrder(p, c) /\ StoredIn(p.buckets, c) = StoredIn(t.buckets, d)
  BY DEF ReadyFrom
<1>2. c \in Nat \ {0} /\ d \in Nat \ {0} /\ ~(c < MIN_HT_CAPACITY)
  BY <1>1, CapacitiesAre, TableAssumption
<1>3. Fits(p.occupancy, c) /\ Shape(p, c)
  BY <1>1, <1>2 DEF Fits, Shape
<1>. HIDE DEF c
<1>4. /\ Shape(r, c) /\ r.capacity = c /\ r.occupancy <= p.occupancy
      /\ r.occupancy \in Nat /\ p.occupancy \in Nat
      /\ Gap * Waste(r, c) <= c
      /\ Order(p, c) /\ c <= IndexMod =>
           /\ Order(r, c) /\ r.occupancy = p.occupancy
           /\ StoredIn(r.buckets, c) = StoredIn(p.buckets, c)
  BY <1>1, <1>2, <1>3, RebuildKeeps
<1>. HIDE DEF r
<1>5. HashShape(r, c) /\ (Order(r, c) <=> HashOrder(r, c)) /\ (Order(p, c) <=> HashOrder(p, c))
  BY <1>2, <1>4 DEF Shape, Order
<1>6. ~is_overloaded(r.occupancy, c)
  BY <1>1, <1>2, <1>4, NotOverloaded
<1>7. HasRoom(r)
  <2>1. Waste(r, c) \in Nat
    BY <1>2, <1>5, WasteIs
  <2>2. Waste(r, c) + r.occupancy < c
    <3>1. r.occupancy <= d /\ c = d + d
      BY <1>2, <1>4 DEF c
    <3>2. Gap * Waste(r, c) >= 5 * Waste(r, c)
      <4>1. Gap \in Nat /\ Gap >= 5
        BY TableAssumption DEF Gap
      <4>. QED
        BY <2>1, <4>1
    <3>3. Gap * Waste(r, c) \in Int
      <4>1. Gap \in Nat
        BY TableAssumption DEF Gap
      <4>. QED
        BY <2>1, <4>1
    <3>. QED
      BY <1>2, <1>4, <2>1, <3>1, <3>2, <3>3
  <2>3. \E e \in 0..(c - 1) : is_empty(r.buckets[e])
    BY <1>2, <1>5, <2>2, WasteIs
  <2>. QED
    BY <1>4, <2>3 DEF HasRoom, Offsets
<1>. QED
  BY <1>1, <1>4, <1>5, <1>6, <1>7 DEF ReadyFrom, r, c

\* The shape of a table bounds its occupancy.
LEMMA ShapeIs ==
    ASSUME NEW c \in Capacities, NEW t, Shape(t, c)
    PROVE  /\ t \in TablesOf(c) /\ t.capacity = c /\ t.occupancy \in Nat /\ t.occupancy <= c
           /\ t.occupancy = Cardinality(ValidIn(t.buckets, c))
<1>0. c \in Nat \ {0}
  BY CapacitiesAre
<1>1. t \in TablesOf(c)
  BY DEF Shape, LinearShape, HashShape
<1>2. t.capacity = c /\ t.occupancy \in Nat
  BY <1>1 DEF TablesOf
<1>3. CASE c < MIN_HT_CAPACITY
  <2>1. ValidIn(t.buckets, c) = 0..(t.occupancy - 1) /\ t.occupancy <= c
    BY <1>3 DEF Shape, LinearShape
  <2>2. t.occupancy - 1 \in Int /\ 0 \in Int
    BY <1>2
  <2>3. Cardinality(0..(t.occupancy - 1)) =
          IF 0 > t.occupancy - 1 THEN 0 ELSE (t.occupancy - 1) - 0 + 1
    BY <2>2, FS_Interval
  <2>. QED
    BY <1>1, <1>2, <2>1, <2>3
<1>4. CASE ~(c < MIN_HT_CAPACITY)
  <2>1. t.occupancy = Cardinality(ValidIn(t.buckets, c))
    BY <1>4 DEF Shape, HashShape
  <2>2. ValidIn(t.buckets, c) \subseteq 0..(c - 1)
    BY DEF ValidIn
  <2>3. Cardinality(ValidIn(t.buckets, c)) <= c
    BY <1>0, <2>2, ArrayCounts
  <2>. QED
    BY <1>1, <1>2, <2>1, <2>3
<1>. QED
  BY <1>3, <1>4

\* insert prepares a hash table with room.
LEMMA PreparedIs ==
    ASSUME NEW c \in Capacities, NEW t, Shape(t, c),
           ~(c < MIN_HT_CAPACITY /\ t.occupancy < c)
    PROVE  ReadyFrom(t, c, Prepared(t))
<1>0. /\ c \in Nat \ {0} /\ c >= MIN_CAPACITY /\ 2 * c \in Capacities /\ 2 * c >= MIN_HT_CAPACITY
      /\ c < MIN_HT_CAPACITY <=> c = MIN_CAPACITY
      /\ MIN_CAPACITY \in Nat \ {0} /\ MIN_HT_CAPACITY = 2 * MIN_CAPACITY
  BY CapacitiesAre, TableAssumption
<1>1. t.capacity = c /\ t.occupancy \in Nat /\ t.occupancy <= c
  BY ShapeIs
<1>2. ~is_overloaded(t.occupancy, 2 * c)
  BY <1>0, <1>1, DoubleFits
<1>3. CASE c < MIN_HT_CAPACITY
  <2>. DEFINE u == rebuild(t, 2 * c)
  <2>1. ReadyFrom(t, c, u)
    <3>1. c <= 2 * c
      BY <1>0
    <3>. QED
      BY <1>0, <1>1, <1>2, <1>3, <3>1, RebuiltIsReady
  <2>2. u.capacity = 2 * c /\ u.occupancy <= t.occupancy /\ u.occupancy \in Nat
    <3>1. 2 * c \in Nat \ {0} /\ ~(2 * c < MIN_HT_CAPACITY)
      BY <1>0
    <3>2. Fits(t.occupancy, 2 * c)
      BY <1>2, <3>1 DEF Fits
    <3>. QED
      BY <1>0, <3>1, <3>2, RebuildKeeps
  <2>. HIDE DEF u
  <2>3. ReadyFrom(t, c, rebuild(u, u.capacity))
    <3>1. u.occupancy <= c
      BY <1>0, <1>1, <2>2
    <3>. QED
      BY <1>3, <2>1, <2>2, <3>1, ReadyAgain
  <2>4. ~is_overloaded(u.occupancy, u.capacity)
    BY <2>1 DEF ReadyFrom
  <2>5. Prepared(t) = IF time_to_rebuild(u.ins_rm_count, u.capacity) THEN rebuild(u, u.capacity) ELSE u
    BY <1>1, <1>3, <2>4 DEF Prepared, u
  <2>. QED
    BY <2>1, <2>3, <2>5
<1>4. CASE ~(c < MIN_HT_CAPACITY)
  <2>0. c >= MIN_HT_CAPACITY
    BY <1>0, <1>4
  <2>1. CASE is_overloaded(t.occupancy, c)
    <3>1. Prepared(t) = rebuild(t, 2 * c)
      BY <1>1, <1>4, <2>1 DEF Prepared
    <3>2. c <= 2 * c
      BY <1>0
    <3>3. ReadyFrom(t, c, rebuild(t, 2 * c))
      BY <1>0, <1>2, <1>4, <3>2, RebuiltIsReady
    <3>. QED
      BY <3>1, <3>3
  <2>2. CASE ~is_overloaded(t.occupancy, c)
    <3>1. ReadyFrom(t, c, rebuild(t, c))
      BY <1>0, <1>4, <2>0, <2>2, RebuiltIsReady
    <3>2. ReadyFrom(t, c, t)
      <4>1. HashShape(t, c) /\ (Order(t, c) => HashOrder(t, c))
        BY <1>4 DEF Shape, Order
      <4>2. c <= c
        BY <1>0
      <4>. QED
        BY <1>1, <1>4, <2>0, <2>2, <4>1, <4>2 DEF ReadyFrom
    <3>3. Prepared(t) = IF time_to_rebuild(t.ins_rm_count, c) THEN rebuild(t, c) ELSE t
      BY <1>1, <1>4, <2>2 DEF Prepared
    <3>. QED
      BY <3>1, <3>2, <3>3
  <2>. QED
    BY <2>1, <2>2
<1>. QED
  BY <1>3, <1>4

\* A bucket of the key k and the view v is stored.
StoredOf(t, c) == StoredIn(t.buckets, c)

\* insert changes the view of its key alone, if it finds an empty bucket.
LEMMA InsertedIs ==
    ASSUME NEW c \in Capacities, NEW t, Shape(t, c), LoadKept(t, c), NEW b \in Buckets, is_valid(b)
    PROVE  LET r == Inserted(t, b)
               C == r.capacity
           IN  /\ C \in Capacities /\ Shape(r, C) /\ LoadKept(r, C) /\ c <= C
               /\ /\ Order(t, c) /\ C <= IndexMod
                  /\ c < MIN_HT_CAPACITY \/ HasRoom(Prepared(t))
                  => /\ Order(r, C)
                     /\ StoredOf(r, C) = Without(StoredOf(t, c), b.key) \cup {<<b.key, b.value>>}
<1>. DEFINE r == Inserted(t, b)
<1>0. c \in Nat \ {0} /\ MIN_HT_CAPACITY \in Nat
  BY CapacitiesAre, TableAssumption
<1>1. t.capacity = c /\ t.occupancy \in Nat /\ t.occupancy <= c
  BY ShapeIs
<1>2. CASE c < MIN_HT_CAPACITY /\ t.occupancy < c
  <2>1. r = InsertLinear(t, b)
    BY <1>1, <1>2 DEF Inserted
  <2>2. LinearShape(t, c)
    BY <1>2 DEF Shape
  <2>. HIDE DEF r
  <2>3. LinearShape(r, c)
    BY <1>0, <1>2, <2>1, <2>2, InsertLinearIs
  <2>4. Unique(t.buckets, c) =>
           /\ Unique(r.buckets, c)
           /\ StoredIn(r.buckets, c) = Without(StoredIn(t.buckets, c), b.key) \cup {<<b.key, b.value>>}
    BY <1>0, <1>2, <2>1, <2>2, InsertLinearIs
  <2>5. r.capacity = c
    BY <2>3 DEF LinearShape, TablesOf
  <2>6. ~(c >= MIN_HT_CAPACITY) /\ c <= c
    BY <1>0, <1>2
  <2>. QED
    BY <1>2, <2>3, <2>4, <2>5, <2>6 DEF Shape, Order, LoadKept, StoredOf, r
<1>3. CASE ~(c < MIN_HT_CAPACITY /\ t.occupancy < c)
  <2>. DEFINE p == Prepared(t)
              C == p.capacity
  <2>1. r = InsertHash(p, b)
    BY <1>1, <1>3 DEF Inserted
  <2>2. ReadyFrom(t, c, p)
    BY <1>3, PreparedIs
  <2>. HIDE DEF p
  <2>3. /\ C \in Capacities /\ C >= MIN_HT_CAPACITY
        /\ HashShape(p, C) /\ ~is_overloaded(p.occupancy, C) /\ c <= C
        /\ Order(t, c) /\ C <= IndexMod =>
              /\ HashOrder(p, C) /\ StoredIn(p.buckets, C) = StoredIn(t.buckets, c)
              /\ c < MIN_HT_CAPACITY => HasRoom(p)
    BY <2>2 DEF ReadyFrom
  <2>4. C \in Nat \ {0} /\ ~(C < MIN_HT_CAPACITY) /\ p.occupancy \in Nat
    <3>1. p.occupancy \in Nat
      BY <2>3 DEF HashShape, TablesOf
    <3>. HIDE DEF C
    <3>2. C \in Nat \ {0}
      BY <2>3, CapacitiesAre
    <3>. QED
      BY <1>0, <2>3, <3>1, <3>2
  <2>5. p.occupancy < C
    BY <2>3, <2>4, LoadIsLess
  <2>. HIDE DEF r, C
  <2>6. HashShape(r, C) /\ r.occupancy \in {p.occupancy, p.occupancy + 1}
    BY <2>1, <2>3, <2>4, <2>5, InsertHashShape
  <2>7. r.capacity = C
    BY <2>6 DEF HashShape, TablesOf
  <2>8. LoadKept(r, C)
    <3>1. \A o \in 0..(r.occupancy - 1) : o \in Nat /\ o <= p.occupancy
      BY <2>4, <2>6
    <3>2. \A o \in 0..(r.occupancy - 1) : ~is_overloaded(o, C)
      BY <2>3, <2>4, <3>1, NotOverloaded
    <3>. QED
      BY <3>2 DEF LoadKept
  <2>9. ASSUME Order(t, c), C <= IndexMod, c < MIN_HT_CAPACITY \/ HasRoom(p)
        PROVE  /\ HashOrder(r, C)
               /\ StoredIn(r.buckets, C) = Without(StoredIn(t.buckets, c), b.key) \cup {<<b.key, b.value>>}
    <3>1. /\ HashOrder(p, C) /\ StoredIn(p.buckets, C) = StoredIn(t.buckets, c)
          /\ HasRoom(p)
      BY <2>3, <2>9
    <3>2. PICK e \in 0..(C - 1) : is_empty(p.buckets[e])
      BY <3>1 DEF HasRoom, Offsets, C
    <3>3. /\ HashOrder(r, C)
          /\ StoredIn(r.buckets, C) = Without(StoredIn(p.buckets, C), b.key) \cup {<<b.key, b.value>>}
      BY <2>1, <2>3, <2>4, <2>9, <3>1, <3>2, InsertHashOrders
    <3>. QED
      BY <3>1, <3>3
  <2>. QED
    BY <2>3, <2>4, <2>6, <2>7, <2>8, <2>9 DEF Shape, Order, StoredOf, r, p
<1>. QED
  BY <1>2, <1>3

\* remove deletes its key alone from a hash table.
LEMMA RemoveHashIs ==
    ASSUME NEW c \in Capacities, c >= MIN_HT_CAPACITY, NEW t, HashShape(t, c), LoadKept(t, c),
           NEW x \in Keys, FoundAt(t, x) # {}
    PROVE  LET r == RemoveHash(t, x)
               C == r.capacity
           IN  /\ C \in Capacities /\ Shape(r, C) /\ LoadKept(r, C) /\ C <= c
               /\ HashOrder(t, c) /\ c <= IndexMod =>
                    /\ Order(r, C)
                    /\ StoredOf(r, C) = Without(StoredOf(t, c), x)
<1>. DEFINE r == RemoveHash(t, x)
            f == t.buckets
            i == At(t, get_table_entry(t.capacity, x), Min(FoundAt(t, x)))
            g == [f EXCEPT ![i] = Tombstone]
            t1 == [t EXCEPT !.buckets = g, !.occupancy = @ - 1, !.ins_rm_count = @ + 1]
<1>0. /\ c \in Nat \ {0} /\ ~(c < MIN_HT_CAPACITY) /\ MIN_CAPACITY \in Nat \ {0}
      /\ MIN_HT_CAPACITY = 2 * MIN_CAPACITY /\ c # MIN_CAPACITY
  <2>1. c \in Nat \ {0}
    BY CapacitiesAre
  <2>. QED
    BY <2>1, TableAssumption
<1>1. /\ t \in TablesOf(c) /\ f \in Arrays(c) /\ Homed(f, c) /\ t.capacity = c
      /\ t.occupancy = Cardinality(ValidIn(f, c)) /\ t.occupancy \in Nat /\ t.ins_rm_count \in Int
  BY DEF HashShape, TablesOf
<1>2. i \in ValidIn(f, c) /\ f[i].key = x
  BY <1>0, <1>1, FoundIsStored
<1>. HIDE DEF i
<1>3. IsFiniteSet(ValidIn(f, c)) /\ t.occupancy > 0
      /\ Cardinality(ValidIn(f, c) \ {i}) = t.occupancy - 1
  <2>1. ValidIn(f, c) \subseteq 0..(c - 1)
    BY DEF ValidIn
  <2>2. IsFiniteSet(ValidIn(f, c))
    BY <1>0, <2>1, ArrayCounts
  <2>3. Cardinality(ValidIn(f, c) \ {i}) = t.occupancy - 1
    <3>. HIDE DEF f
    <3>1. Cardinality(ValidIn(f, c) \ {i}) = Cardinality(ValidIn(f, c)) - 1
      BY <1>2, <2>2, FS_RemoveElement
    <3>. QED
      BY <1>1, <3>1
  <2>4. Cardinality(ValidIn(f, c)) # 0
    BY <1>2, <2>2, FS_EmptySet
  <2>. QED
    BY <1>1, <2>2, <2>3, <2>4
<1>4. /\ g \in Arrays(c) /\ ValidIn(g, c) = ValidIn(f, c) \ {i} /\ Homed(g, c)
      /\ HashOrder(t, c) =>
           Unique(g, c) /\ Ordered(g, c) /\ StoredIn(g, c) = Without(StoredIn(f, c), x)
  <2>1. Buried(f, g, i)
    BY DEF Buried
  <2>2. HashOrder(t, c) => Unique(f, c) /\ Ordered(f, c)
    BY DEF HashOrder
  <2>. HIDE DEF g, f
  <2>3. g \in Arrays(c) /\ ValidIn(g, c) = ValidIn(f, c) \ {i} /\ Homed(g, c)
    BY <1>0, <1>1, <1>2, <2>1, TombstoneKeeps
  <2>4. ASSUME Unique(f, c), Ordered(f, c)
        PROVE  Unique(g, c) /\ Ordered(g, c) /\ StoredIn(g, c) = Without(StoredIn(f, c), x)
    BY <1>0, <1>1, <1>2, <2>1, <2>4, TombstoneKeeps
  <2>. QED
    BY <2>2, <2>3, <2>4
<1>5. t1 \in TablesOf(c) /\ t1.buckets = g /\ t1.occupancy = t.occupancy - 1 /\ t1.capacity = c
  <2>1. t.occupancy - 1 \in Nat /\ t.ins_rm_count + 1 \in Int
    BY <1>1, <1>3
  <2>. HIDE DEF g, f
  <2>. QED
    BY <1>1, <1>4, <2>1 DEF TablesOf
<1>6. r = IF is_underloaded(t1.occupancy, c) THEN rebuild(t1, c \div 2)
          ELSE IF time_to_rebuild(t1.ins_rm_count, c) THEN rebuild(t1, c)
          ELSE t1
  BY <1>1 DEF RemoveHash, i
<1>. HIDE DEF t1, g, f, r
<1>7. Shape(t1, c) /\ HashShape(t1, c)
  BY <1>0, <1>3, <1>4, <1>5 DEF HashShape, Shape
<1>8. HashOrder(t, c) => Order(t1, c) /\ StoredIn(t1.buckets, c) = Without(StoredIn(f, c), x)
  BY <1>0, <1>4, <1>5 DEF HashOrder, Order
<1>9. ~is_overloaded(t1.occupancy, c) /\ t1.occupancy \in Nat
  BY <1>1, <1>3, <1>5 DEF LoadKept
<1>10. ASSUME NEW C \in Capacities, Fits(t1.occupancy, C), C <= c
       PROVE  LET u == rebuild(t1, C) IN
              /\ u.capacity = C /\ Shape(u, C) /\ LoadKept(u, C)
              /\ HashOrder(t, c) /\ c <= IndexMod =>
                   /\ Order(u, C)
                   /\ StoredIn(u.buckets, C) = Without(StoredIn(f, c), x)
  <2>. DEFINE u == rebuild(t1, C)
  <2>0. C \in Nat \ {0}
    BY CapacitiesAre
  <2>1. /\ Shape(u, C) /\ u.capacity = C /\ u.occupancy <= t1.occupancy
        /\ u.occupancy \in Nat
        /\ Order(t1, c) /\ C <= IndexMod =>
             /\ Order(u, C)
             /\ StoredIn(u.buckets, C) = StoredIn(t1.buckets, c)
    BY <1>0, <1>7, <1>10, <2>0, RebuildKeeps
  <2>. HIDE DEF u
  <2>2. LoadKept(u, C)
    <3>1. ASSUME C >= MIN_HT_CAPACITY, NEW o \in 0..(u.occupancy - 1) PROVE ~is_overloaded(o, C)
      <4>1. o \in Nat /\ o <= t1.occupancy
        BY <1>9, <2>1
      <4>2. ~is_overloaded(t1.occupancy, C)
        BY <1>0, <1>10, <2>0, <3>1 DEF Fits
      <4>. QED
        BY <1>9, <2>0, <4>1, <4>2, NotOverloaded
    <3>. QED
      BY <3>1 DEF LoadKept
  <2>3. c <= IndexMod => C <= IndexMod
    BY <1>0, <1>10, <2>0, TableAssumption
  <2>. QED
    BY <1>8, <2>1, <2>2, <2>3 DEF u
<1>11. CASE is_underloaded(t1.occupancy, c)
  <2>. DEFINE C == c \div 2
  <2>1. C \in Capacities /\ c = 2 * C
    BY <1>0, CapacitiesAre
  <2>. HIDE DEF C
  <2>2. C \in Nat \ {0}
    BY <2>1, CapacitiesAre
  <2>3. Fits(t1.occupancy, C) /\ C <= c
    BY <1>9, <1>11, <2>1, <2>2, HalfFits
  <2>4. r = rebuild(t1, C)
    BY <1>6, <1>11 DEF C
  <2>. QED
    BY <1>10, <2>1, <2>3, <2>4 DEF StoredOf, r, f
<1>12. CASE ~is_underloaded(t1.occupancy, c) /\ time_to_rebuild(t1.ins_rm_count, c)
  <2>1. Fits(t1.occupancy, c) /\ c <= c
    BY <1>0, <1>9 DEF Fits
  <2>2. r = rebuild(t1, c)
    BY <1>6, <1>12
  <2>. QED
    BY <1>10, <2>1, <2>2 DEF StoredOf, r, f
<1>13. CASE ~is_underloaded(t1.occupancy, c) /\ ~time_to_rebuild(t1.ins_rm_count, c)
  <2>1. r = t1 /\ c <= c
    BY <1>0, <1>6, <1>13
  <2>2. LoadKept(t1, c)
    <3>1. \A o \in 0..(t1.occupancy - 1) : o \in Nat /\ o <= t1.occupancy
      BY <1>9
    <3>. QED
      BY <1>0, <1>9, <3>1, NotOverloaded DEF LoadKept
  <2>. QED
    BY <1>5, <1>7, <1>8, <2>1, <2>2 DEF StoredOf, r, f
<1>. QED
  BY <1>11, <1>12, <1>13

\* find gives the view that is stored for a key, if there is one.
LEMMA FindIs ==
    ASSUME NEW c \in Capacities, c <= IndexMod, NEW t, Shape(t, c), Order(t, c), NEW x \in Keys
    PROVE  /\ \A q \in ValidIn(t.buckets, c) : t.buckets[q].key = x => find(t, x) = t.buckets[q].value
           /\ \A v : <<x, v>> \in StoredOf(t, c) => find(t, x) = v
           /\ (\A v : <<x, v>> \notin StoredOf(t, c)) => find(t, x) = NoView
<1>. DEFINE f == t.buckets
<1>0. c \in Nat \ {0} /\ t.capacity = c
  BY CapacitiesAre, ShapeIs
<1>1. /\ \A q \in ValidIn(f, c) : f[q].key = x => find(t, x) = f[q].value
      /\ x \notin KeysIn(f, c) => find(t, x) = NoView
  <2>1. CASE c < MIN_HT_CAPACITY
    <3>1. find(t, x) = find_linear(t, x)
      BY <1>0, <2>1 DEF find
    <3>2. LinearShape(t, c) /\ Unique(f, c)
      BY <2>1 DEF Shape, Order
    <3>. HIDE DEF f
    <3>. QED
      BY <1>0, <3>1, <3>2, FindLinearIs DEF f
  <2>2. CASE ~(c < MIN_HT_CAPACITY)
    <3>1. find(t, x) = find_hash(t, x)
      BY <1>0, <2>2 DEF find
    <3>2. HashShape(t, c) /\ HashOrder(t, c)
      BY <2>2 DEF Shape, Order
    <3>. QED
      BY <1>0, <3>1, <3>2, FindHashIs
  <2>. QED
    BY <2>1, <2>2
<1>2. ASSUME NEW v, <<x, v>> \in StoredOf(t, c) PROVE find(t, x) = v
  <2>1. PICK q \in ValidIn(f, c) : <<x, v>> = <<f[q].key, f[q].value>>
    BY <1>2 DEF StoredOf, StoredIn
  <2>. QED
    BY <1>1, <2>1
<1>3. ASSUME \A v : <<x, v>> \notin StoredOf(t, c) PROVE x \notin KeysIn(f, c)
  <2>1. \A q \in ValidIn(f, c) : <<f[q].key, f[q].value>> \in StoredOf(t, c)
    BY DEF StoredOf, StoredIn
  <2>. QED
    BY <1>3, <2>1 DEF KeysIn
<1>. QED
  BY <1>1, <1>2, <1>3

\* A view that find gives is stored.
LEMMA FoundIs ==
    ASSUME NEW c \in Capacities, NEW t, Shape(t, c), NEW x, find(t, x) # NoView
    PROVE  IF c < MIN_HT_CAPACITY THEN x \in KeysIn(t.buckets, c) ELSE FoundAt(t, x) # {}
<1>0. c \in Nat \ {0} /\ t.capacity = c
  BY CapacitiesAre, ShapeIs
<1>1. CASE c < MIN_HT_CAPACITY
  <2>1. find(t, x) = IF Hits(t, x) = {} THEN NoView ELSE t.buckets[Max(Hits(t, x))].value
    BY <1>0, <1>1 DEF find, find_linear, Hits
  <2>2. LinearShape(t, c)
    BY <1>1 DEF Shape
  <2>3. Hits(t, x) = {} <=> x \notin KeysIn(t.buckets, c)
    BY <1>0, <2>2, HitsAre
  <2>. QED
    BY <1>1, <2>1, <2>3
<1>2. CASE ~(c < MIN_HT_CAPACITY)
  <2>1. find(t, x) = find_hash(t, x)
    BY <1>0, <1>2 DEF find
  <2>. QED
    BY <1>2, <2>1 DEF find_hash
<1>. QED
  BY <1>1, <1>2

\* remove deletes its key alone.
LEMMA RemovedIs ==
    ASSUME NEW c \in Capacities, NEW t, Shape(t, c), LoadKept(t, c), NEW x \in Keys,
           find(t, x) # NoView, NEW r,
           r = IF c < MIN_HT_CAPACITY THEN RemoveLinear(t, x) ELSE RemoveHash(t, x)
    PROVE  /\ r.capacity \in Capacities /\ Shape(r, r.capacity) /\ LoadKept(r, r.capacity)
           /\ r.capacity <= c
           /\ Order(t, c) /\ c <= IndexMod =>
                /\ Order(r, r.capacity)
                /\ StoredOf(r, r.capacity) = Without(StoredOf(t, c), x)
<1>0. c \in Nat \ {0} /\ MIN_HT_CAPACITY \in Nat
  BY CapacitiesAre, TableAssumption
<1>1. CASE c < MIN_HT_CAPACITY
  <2>1. LinearShape(t, c) /\ x \in KeysIn(t.buckets, c) /\ r = RemoveLinear(t, x)
    BY <1>1, FoundIs DEF Shape
  <2>2. LinearShape(r, c)
    BY <1>0, <2>1, RemoveLinearIs
  <2>3. Unique(t.buckets, c) =>
           Unique(r.buckets, c) /\ StoredIn(r.buckets, c) = Without(StoredIn(t.buckets, c), x)
    BY <1>0, <2>1, RemoveLinearIs
  <2>4. r.capacity = c
    BY <2>2 DEF LinearShape, TablesOf
  <2>5. ~(c >= MIN_HT_CAPACITY) /\ c <= c
    BY <1>0, <1>1
  <2>. QED
    BY <1>1, <2>2, <2>3, <2>4, <2>5 DEF Shape, LoadKept, Order, StoredOf
<1>2. CASE ~(c < MIN_HT_CAPACITY)
  <2>1. HashShape(t, c) /\ FoundAt(t, x) # {} /\ r = RemoveHash(t, x)
    BY <1>2, FoundIs DEF Shape
  <2>2. c >= MIN_HT_CAPACITY /\ (Order(t, c) => HashOrder(t, c))
    BY <1>0, <1>2 DEF Order
  <2>. QED
    BY <2>1, <2>2, RemoveHashIs
<1>. QED
  BY <1>1, <1>2

\* The new table stores nothing.
LEMMA NewTableIs ==
    /\ NewTable.capacity = MIN_CAPACITY /\ Shape(NewTable, MIN_CAPACITY)
    /\ LoadKept(NewTable, MIN_CAPACITY) /\ Order(NewTable, MIN_CAPACITY)
    /\ StoredOf(NewTable, MIN_CAPACITY) = {}
<1>. DEFINE c == MIN_CAPACITY
            f == bucket_array_create(c)
<1>0. c \in Nat \ {0} /\ MIN_HT_CAPACITY = 2 * c /\ c <= IndexMod /\ 0 \in Int
  BY TableAssumption
<1>1. ValidIn(f, c) = {}
  BY <1>0, CreatedIs
<1>2. Unique(f, c)
  BY <1>1 DEF Unique
<1>3. NewTable \in Rebuilt(f, c, c, 0)
  <2>. HIDE DEF f
  <2>. QED
    BY <1>0, NewIs DEF NewTable
<1>4. NewTable.capacity = c /\ NewTable.occupancy = 0
  BY DEF NewTable
<1>5. StoredUpto(f, c, 0) = {}
  BY <1>0, UptoIs
<1>6. LoadKept(NewTable, c)
  BY <1>0 DEF LoadKept
<1>. HIDE DEF f, c
<1>. QED
  BY <1>0, <1>2, <1>3, <1>4, <1>5, <1>6 DEF Rebuilt, StoredOf, c

\* The table t with every bucket empty.
Cleared(t) == [t EXCEPT !.buckets = [i \in DOMAIN @ |-> Empty], !.occupancy = 0]

\* clear forgets every key.
LEMMA ClearedIs ==
    ASSUME NEW t, Shape(t, MIN_CAPACITY), NEW r, r = Cleared(t)
    PROVE  /\ r.capacity = MIN_CAPACITY /\ Shape(r, MIN_CAPACITY) /\ LoadKept(r, MIN_CAPACITY)
           /\ Order(r, MIN_CAPACITY) /\ StoredOf(r, MIN_CAPACITY) = {}
<1>. DEFINE c == MIN_CAPACITY
            g == [i \in 0..(c - 1) |-> Empty]
<1>0. c \in Nat \ {0} /\ MIN_HT_CAPACITY = 2 * c /\ c < MIN_HT_CAPACITY /\ ~(c >= MIN_HT_CAPACITY)
  BY TableAssumption
<1>1. t \in TablesOf(c) /\ t.buckets \in Arrays(c)
  BY <1>0 DEF Shape, LinearShape, TablesOf
<1>2. DOMAIN t.buckets = 0..(c - 1)
  BY <1>1 DEF Arrays
<1>3. Empty \in Buckets /\ ~is_valid(Empty)
  BY TableAssumption
     DEF Empty, Buckets, BucketRec, is_valid, is_empty, is_tombstone, KEY_EMPTY, KEY_DELETED
<1>. HIDE DEF Empty
<1>4. g \in Arrays(c) /\ ValidIn(g, c) = {}
  BY <1>3 DEF Arrays, ValidIn
<1>5. r = [t EXCEPT !.buckets = g, !.occupancy = 0]
  <2>1. Cleared(t) = [t EXCEPT !.buckets = [i \in DOMAIN t.buckets |-> Empty], !.occupancy = 0]
    BY DEF Cleared
  <2>. QED
    BY <1>2, <2>1, Zenon
<1>. HIDE DEF g
<1>6. r \in TablesOf(c) /\ r.buckets = g /\ r.occupancy = 0 /\ r.capacity = c
  <2>1. t \in TablesOf(c) /\ g \in Arrays(c)
    BY <1>1, <1>4
  <2>. HIDE DEF c
  <2>. DEFINE u == [t EXCEPT !.buckets = g]
  <2>2. u \in TablesOf(c) /\ u.buckets = g
    BY <2>1 DEF TablesOf
  <2>3. r = [u EXCEPT !.occupancy = 0]
    BY <1>5
  <2>. HIDE DEF u
  <2>4. 0 \in Nat
    OBVIOUS
  <2>. QED
    BY <2>2, <2>3, <2>4 DEF TablesOf
<1>7. LinearShape(r, c) /\ Unique(g, c) /\ StoredIn(g, c) = {}
  BY <1>0, <1>4, <1>6 DEF LinearShape, Unique, StoredIn
<1>. QED
  BY <1>0, <1>6, <1>7 DEF Shape, LoadKept, Order, StoredOf

(***************************************************************************)
(* The invariants of a hyper_table.                                        *)
(***************************************************************************)
\* Whatever the program inserts: capacities double and halve, the counts are right, buckets
\* know their homes and the table is not overloaded.
Counted(t) ==
    /\ t.capacity \in Capacities /\ t.capacity <= IndexMod
    /\ Shape(t, t.capacity) /\ LoadKept(t, t.capacity)

\* As long as no insertion fills the table: keys are stored once, where their probes pass.
Probed(t) == Order(t, t.capacity)

\* What table t stores.
Pairs(t) == StoredOf(t, t.capacity)

\* What insert is given.
LEMMA BucketIs ==
    ASSUME NEW k \in Keys, NEW v \in Values
    PROVE  Bucket(k, v) \in Buckets /\ is_valid(Bucket(k, v))
           /\ Bucket(k, v).key = k /\ Bucket(k, v).value = v
<1>1. Bucket(k, v) \in Buckets /\ Bucket(k, v).key = k /\ Bucket(k, v).value = v
  BY DEF Bucket, Buckets, BucketRec
<1>. QED
  BY <1>1, ValidIsKey

\* insert.
LEMMA InsertStep ==
    ASSUME Counted(table), NEW k \in Keys, NEW v \in Values, insert(k, v)
    PROVE  /\ Counted(table')
           /\ ~FillTables /\ Probed(table) =>
                Probed(table') /\ Pairs(table') = Without(Pairs(table), k) \cup {<<k, v>>}
<1>. DEFINE b == Bucket(k, v)
            r == Inserted(table, b)
            c == table.capacity
<1>1. b \in Buckets /\ is_valid(b) /\ b.key = k /\ b.value = v
  BY BucketIs
<1>2. /\ FillTables \/ c < MIN_HT_CAPACITY \/ HasRoom(Prepared(table))
      /\ table' = r /\ table'.capacity <= IndexMod
  BY DEF insert, capacity
<1>3. c \in Capacities /\ Shape(table, c) /\ LoadKept(table, c)
  BY DEF Counted
<1>. HIDE DEF b, c
<1>4. /\ r.capacity \in Capacities /\ Shape(r, r.capacity) /\ LoadKept(r, r.capacity)
      /\ /\ Order(table, c) /\ r.capacity <= IndexMod
         /\ c < MIN_HT_CAPACITY \/ HasRoom(Prepared(table))
         => /\ Order(r, r.capacity)
            /\ StoredOf(r, r.capacity) = Without(StoredOf(table, c), b.key) \cup {<<b.key, b.value>>}
  BY <1>1, <1>3, InsertedIs
<1>. HIDE DEF r
<1>. QED
  BY <1>1, <1>2, <1>4 DEF Counted, Probed, Pairs, c

\* remove.
LEMMA RemoveStep ==
    ASSUME Counted(table), NEW k \in Keys, remove(k)
    PROVE  /\ Counted(table')
           /\ Probed(table) => Probed(table') /\ Pairs(table') = Without(Pairs(table), k)
<1>. DEFINE c == table.capacity
<1>1. /\ find(table, k) # NoView
      /\ table' = IF c < MIN_HT_CAPACITY THEN RemoveLinear(table, k) ELSE RemoveHash(table, k)
  BY DEF remove, capacity
<1>2. c \in Capacities /\ c <= IndexMod /\ Shape(table, c) /\ LoadKept(table, c)
  BY DEF Counted
<1>. HIDE DEF c
<1>3. /\ table'.capacity \in Capacities /\ Shape(table', table'.capacity)
      /\ LoadKept(table', table'.capacity) /\ table'.capacity <= c
      /\ Order(table, c) /\ c <= IndexMod =>
           /\ Order(table', table'.capacity)
           /\ StoredOf(table', table'.capacity) = Without(StoredOf(table, c), k)
  BY <1>1, <1>2, RemovedIs
<1>4. table'.capacity <= IndexMod
  <2>1. c \in Nat /\ table'.capacity \in Nat /\ IndexMod \in Nat
    BY <1>2, <1>3, CapacitiesAre, TableAssumption
  <2>. QED
    BY <1>2, <1>3, <2>1
<1>. QED
  BY <1>2, <1>3, <1>4 DEF Counted, Probed, Pairs, c

\* clear.
LEMMA ClearStep ==
    ASSUME Counted(table), clear
    PROVE  Counted(table') /\ Probed(table') /\ Pairs(table') = {}
<1>0. MIN_CAPACITY \in Capacities /\ MIN_CAPACITY <= IndexMod
  BY CapacitiesAre, TableAssumption
<1>1. CASE table.capacity = MIN_CAPACITY
  <2>1. table' = Cleared(table) /\ Shape(table, MIN_CAPACITY)
    BY <1>1 DEF clear, Cleared, capacity, Counted
  <2>. QED
    BY <1>0, <2>1, ClearedIs DEF Counted, Probed, Pairs
<1>2. CASE table.capacity # MIN_CAPACITY
  <2>1. table' = NewTable
    BY <1>2 DEF clear, capacity
  <2>. QED
    BY <1>0, <2>1, NewTableIs DEF Counted, Probed, Pairs
<1>. QED
  BY <1>1, <1>2

\* The invariant holds of every table.
THEOREM TableCounted == TableSpec => []Counted(table)
<1>1. TableInit => Counted(table)
  BY NewTableIs, CapacitiesAre, TableAssumption DEF TableInit, Counted
<1>2. Counted(table) /\ [TableNext]_table => Counted(table)'
  <2>. SUFFICES ASSUME Counted(table), [TableNext]_table PROVE Counted(table')
    OBVIOUS
  <2>1. CASE \E k \in Keys, v \in Values : insert(k, v)
    BY <2>1, InsertStep
  <2>2. CASE \E k \in Keys : remove(k)
    BY <2>2, RemoveStep
  <2>3. CASE clear
    BY <2>3, ClearStep
  <2>4. CASE UNCHANGED table
    BY <2>4
  <2>. QED
    BY <2>1, <2>2, <2>3, <2>4 DEF TableNext
<1>. QED
  BY <1>1, <1>2, PTL DEF TableSpec

\* And, of a program that never fills a table, the order.
THEOREM TableProbed == ASSUME ~FillTables PROVE TableSpec => []Probed(table)
<1>1. TableInit => Probed(table)
  BY NewTableIs DEF TableInit, Probed
<1>2. Counted(table) /\ Probed(table) /\ [TableNext]_table => Probed(table)'
  <2>. SUFFICES ASSUME Counted(table), Probed(table), [TableNext]_table PROVE Probed(table')
    OBVIOUS
  <2>1. CASE \E k \in Keys, v \in Values : insert(k, v)
    BY <2>1, InsertStep
  <2>2. CASE \E k \in Keys : remove(k)
    BY <2>2, RemoveStep
  <2>3. CASE clear
    BY <2>3, ClearStep
  <2>4. CASE UNCHANGED table
    BY <2>4
  <2>. QED
    BY <2>1, <2>2, <2>3, <2>4 DEF TableNext
<1>. QED
  BY <1>1, <1>2, TableCounted, PTL DEF TableSpec

\* Every bucket was inserted below the load threshold, so that no insertion of a rebuilding
\* rebuilds again and none of the program fails.
THEOREM LoadIsBounded == TableSpec => []LoadBounded
<1>1. Counted(table) => LoadBounded
  <2>. SUFFICES ASSUME Counted(table) PROVE LoadBounded
    OBVIOUS
  <2>. DEFINE c == table.capacity
  <2>1. c \in Capacities /\ Shape(table, c) /\ LoadKept(table, c)
    BY DEF Counted
  <2>. HIDE DEF c
  <2>2. c \in Nat \ {0} /\ MIN_HT_CAPACITY \in Nat
    BY <2>1, CapacitiesAre, TableAssumption
  <2>3. table \in TablesOf(c) /\ table.occupancy \in 0..c /\ table.ins_rm_count \in Int
    <3>1. table \in TablesOf(c) /\ table.occupancy \in Nat /\ table.occupancy <= c
      BY <2>1, ShapeIs
    <3>2. table.ins_rm_count \in Int
      BY <3>1 DEF TablesOf
    <3>. QED
      BY <2>2, <3>1, <3>2
  <2>4. table.buckets \in Arrays(c)
    BY <2>3 DEF TablesOf
  <2>5. ASSUME NEW i \in 0..(c - 1), is_valid(table.buckets[i])
        PROVE  /\ table.buckets[i].key \in Keys /\ table.buckets[i].value \in Values
               /\ c >= MIN_HT_CAPACITY =>
                    table.buckets[i].hash = get_table_entry(c, table.buckets[i].key)
    <3>1. table.buckets[i] \in Buckets /\ i \in ValidIn(table.buckets, c)
      BY <2>4, <2>5 DEF Arrays, ValidIn
    <3>2. c >= MIN_HT_CAPACITY => Homed(table.buckets, c)
      BY <2>1, <2>2 DEF Shape, HashShape
    <3>3. table.buckets[i].key \in Keys /\ table.buckets[i].value \in Values
      BY <2>5, <3>1, ValidIsKey
    <3>. QED
      BY <3>1, <3>2, <3>3 DEF Homed
  <2>6. DOMAIN table.buckets = 0..(c - 1)
    BY <2>4 DEF Arrays
  <2>7. TableTypeOK
    BY <2>2, <2>3, <2>5, <2>6 DEF TableTypeOK, capacity, c
  <2>. QED
    BY <2>1, <2>7 DEF LoadBounded, LoadKept, capacity, c
<1>. QED
  BY <1>1, TableCounted, PTL

\* occupancy counts the valid buckets, and a key is never stored twice.
THEOREM OccupancyIsCounted == ASSUME ~FillTables PROVE TableSpec => []OccupancyCounts
<1>1. Counted(table) /\ Probed(table) => OccupancyCounts
  <2>. SUFFICES ASSUME Counted(table), Probed(table) PROVE OccupancyCounts
    OBVIOUS
  <2>. DEFINE c == table.capacity
  <2>1. c \in Capacities /\ Shape(table, c) /\ Order(table, c)
    BY DEF Counted, Probed
  <2>2. ValidIndices = ValidIn(table.buckets, c)
    BY DEF ValidIndices, ValidIn, capacity
  <2>. HIDE DEF c
  <2>3. table.occupancy = Cardinality(ValidIn(table.buckets, c))
    BY <2>1, ShapeIs
  <2>4. Unique(table.buckets, c)
    BY <2>1 DEF Order, HashOrder
  <2>. QED
    BY <2>2, <2>3, <2>4 DEF OccupancyCounts, Unique
<1>. QED
  BY <1>1, TableCounted, TableProbed, PTL

\* find returns every bucket of the table.
THEOREM BucketsAreFound == ASSUME ~FillTables PROVE TableSpec => []FindsEveryBucket
<1>1. Counted(table) /\ Probed(table) => FindsEveryBucket
  <2>. SUFFICES ASSUME Counted(table), Probed(table) PROVE FindsEveryBucket
    OBVIOUS
  <2>. DEFINE c == table.capacity
  <2>1. c \in Capacities /\ c <= IndexMod /\ Shape(table, c) /\ Order(table, c)
    BY DEF Counted, Probed
  <2>2. ValidIndices = ValidIn(table.buckets, c)
    BY DEF ValidIndices, ValidIn, capacity
  <2>. HIDE DEF c
  <2>3. ASSUME NEW i \in ValidIn(table.buckets, c)
        PROVE  find(table, table.buckets[i].key) = table.buckets[i].value
    <3>1. table \in TablesOf(c)
      BY <2>1, ShapeIs
    <3>2. table.buckets[i] \in Buckets /\ is_valid(table.buckets[i])
      BY <3>1 DEF TablesOf, Arrays, ValidIn
    <3>3. table.buckets[i].key \in Keys
      BY <3>2, ValidIsKey
    <3>. QED
      BY <2>1, <3>3, FindIs
  <2>. QED
    BY <2>2, <2>3 DEF FindsEveryBucket
<1>. QED
  BY <1>1, TableCounted, TableProbed, PTL

\* Seen through find, a table is what it stores.
LEMMA ViewsAre ==
    ASSUME NEW t, Counted(t), Probed(t), NEW x \in Keys
    PROVE  /\ \A v : <<x, v>> \in Pairs(t) => find(t, x) = v
           /\ (\A v : <<x, v>> \notin Pairs(t)) => find(t, x) = NoView
  BY FindIs DEF Counted, Probed, Pairs

\* With one view changed, the others are found as before.
LEMMA OtherViews ==
    ASSUME NEW t, NEW r, Counted(t), Probed(t), Counted(r), Probed(r), NEW k, NEW x \in Keys, x # k,
           \A v : <<x, v>> \in Pairs(r) <=> <<x, v>> \in Pairs(t)
    PROVE  find(r, x) = find(t, x)
<1>1. CASE \E v : <<x, v>> \in Pairs(t)
  <2>1. PICK v : <<x, v>> \in Pairs(t)
    BY <1>1
  <2>2. find(t, x) = v
    BY <2>1, ViewsAre
  <2>3. find(r, x) = v
    BY <2>1, ViewsAre
  <2>. QED
    BY <2>2, <2>3
<1>2. CASE \A v : <<x, v>> \notin Pairs(t)
  <2>1. find(t, x) = NoView
    BY <1>2, ViewsAre
  <2>2. find(r, x) = NoView
    BY <1>2, ViewsAre
  <2>. QED
    BY <2>1, <2>2
<1>. QED
  BY <1>1, <1>2

\* Seen through find, a hyper_table is a map, as long as the program never fills it.
THEOREM TableImplementsMap == ASSUME ~FillTables PROVE TableSpec => ImplementsMap
<1>1. TableInit => Map!MapInit
  <2>. SUFFICES ASSUME TableInit PROVE Map!MapInit
    OBVIOUS
  <2>1. Counted(table) /\ Probed(table) /\ Pairs(table) = {}
    BY NewTableIs, CapacitiesAre, TableAssumption DEF TableInit, Counted, Probed, Pairs
  <2>2. \A x \in Keys : find(table, x) = NoView
    BY <2>1, ViewsAre
  <2>. QED
    BY <2>2 DEF Map!MapInit, Views
<1>2. Counted(table) /\ Counted(table)' /\ Probed(table) /\ Probed(table)' /\ [TableNext]_table
        => [Map!MapNext]_Views
  <2>. SUFFICES ASSUME Counted(table), Counted(table'), Probed(table), Probed(table'), [TableNext]_table
                PROVE  [Map!MapNext]_Views
    OBVIOUS
  <2>0. Views = [x \in Keys |-> find(table, x)] /\ Views' = [x \in Keys |-> find(table', x)]
    BY DEF Views
  <2>1. ASSUME NEW k \in Keys, NEW v \in Values, insert(k, v) PROVE Map!Insert(k, v)
    <3>1. Pairs(table') = Without(Pairs(table), k) \cup {<<k, v>>}
      BY <2>1, InsertStep
    <3>2. find(table', k) = v
      BY <3>1, ViewsAre
    <3>3. ASSUME NEW x \in Keys, x # k PROVE find(table', x) = find(table, x)
      <4>1. \A w : <<x, w>> \in Pairs(table') <=> <<x, w>> \in Pairs(table)
        BY <3>1, <3>3 DEF Without
      <4>. QED
        BY <3>3, <4>1, OtherViews
    <3>4. Views' = [Views EXCEPT ![k] = v]
      BY <2>0, <3>2, <3>3
    <3>. QED
      BY <3>4 DEF Map!Insert
  <2>2. ASSUME NEW k \in Keys, remove(k) PROVE Map!Remove(k)
    <3>1. Pairs(table') = Without(Pairs(table), k)
      BY <2>2, RemoveStep
    <3>2. find(table', k) = NoView
      <4>1. \A w : <<k, w>> \notin Pairs(table')
        BY <3>1 DEF Without
      <4>. QED
        BY <4>1, ViewsAre
    <3>3. ASSUME NEW x \in Keys, x # k PROVE find(table', x) = find(table, x)
      <4>1. \A w : <<x, w>> \in Pairs(table') <=> <<x, w>> \in Pairs(table)
        BY <3>1, <3>3 DEF Without
      <4>. QED
        BY <3>3, <4>1, OtherViews
    <3>4. Views' = [Views EXCEPT ![k] = NoView]
      BY <2>0, <3>2, <3>3
    <3>. QED
      BY <3>4 DEF Map!Remove
  <2>3. ASSUME clear PROVE Map!Clear
    <3>1. Pairs(table') = {}
      BY <2>3, ClearStep
    <3>2. \A x \in Keys : find(table', x) = NoView
      BY <3>1, ViewsAre
    <3>. QED
      BY <2>0, <3>2 DEF Map!Clear
  <2>4. ASSUME UNCHANGED table PROVE UNCHANGED Views
    BY <2>4 DEF Views
  <2>. QED
    BY <2>1, <2>2, <2>3, <2>4 DEF TableNext, Map!MapNext
<1>. QED
  BY <1>1, <1>2, TableCounted, TableProbed, PTL DEF TableSpec, ImplementsMap, Map!MapSpec
=============================================================================
