---------------------------- MODULE DisjointSet ----------------------------
(***************************************************************************)
(* The reference-counted disjoint sets of Cilksan: union by rank, path     *)
(* compression in every query, and nodes freed when the last child, bag or *)
(* shadow-memory entry that points at them goes.  A bag is created with a  *)
(* node of its own (S-bag) or empty (P-bag), merged into another bag and   *)
(* deleted, or deleted unused.                                             *)
(***************************************************************************)
EXTENDS Integers, FiniteSets, FiniteSetsExt

CONSTANTS
    MaxNodes,   \* bound: nodes alive at once
    MaxRank,    \* bound: rank of a node
    SBags, PBags,
    NoBag,      \* the null pointer
    Entries     \* shadow-memory entries (MemoryAccess_t)

Bags == SBags \cup PBags

ASSUME SetAssumption ==
    /\ MaxNodes \in Nat \ {0} /\ MaxRank \in Nat
    /\ NoBag \notin Bags /\ SBags \cap PBags = {}
    /\ IsFiniteSet(Bags) /\ IsFiniteSet(Entries)

Nodes == 1..MaxNodes

VARIABLES
    heap,    \* the DisjointSet_t nodes: parent or bag, rank, reference count
    bags,    \* the bags that exist
    dsOf,    \* bag |-> its _ds, 0 if null
    entry    \* entry |-> the node of the access in it, 0 if invalid

svars == <<heap, bags, dsOf, entry>>

(***************************************************************************)
(* Nodes.  up is the parent, or 0 at a root; bag is the bag of a root.     *)
(***************************************************************************)
isRoot(h, d) == h.up[d] = 0
Alive(h) == {d \in Nodes : h.ref[d] > 0}

\* The nodes from d to its root, and the root.
PathTo(h, d) ==
    LET path[e \in Nodes] == IF isRoot(h, e) THEN {e} ELSE {e} \cup path[h.up[e]]
    IN path[d]
RootOf(h, d) == CHOOSE e \in PathTo(h, d) : isRoot(h, e)

inc_ref_count(h, d) == [h EXCEPT !.ref[d] = @ + 1]

\* The nodes deleted when d loses a reference: d if it was the last one, and
\* then its parent in turn.
Freed(h, d) ==
    LET freed[e \in Nodes] ==
            IF h.ref[e] # 1 THEN {}
            ELSE {e} \cup (IF isRoot(h, e) THEN {} ELSE freed[h.up[e]])
    IN freed[d]

\* The nodes of F are deleted: the allocator gets them back.
Deleted(h, F) ==
    [up   |-> [e \in Nodes |-> IF e \in F THEN 0 ELSE h.up[e]],
     bag  |-> [e \in Nodes |-> IF e \in F THEN NoBag ELSE h.bag[e]],
     rank |-> [e \in Nodes |-> IF e \in F THEN 0 ELSE h.rank[e]],
     ref  |-> [e \in Nodes |-> IF e \in F THEN 0 ELSE h.ref[e]]]

dec_ref_count(h, d) ==
    LET F == Freed(h, d)
        hit == {d} \cup {h.up[e] : e \in F} IN
    Deleted([h EXCEPT !.ref = [e \in Nodes |-> IF e \in hit THEN @[e] - 1 ELSE @[e]]], F)

\* find_set: every node above which the root is not next is pointed at the
\* root, from the root downwards; a node passed over loses a child, and with
\* its last reference its own on the root.
Compressed(h, d) == {e \in PathTo(h, d) : ~isRoot(h, e) /\ ~isRoot(h, h.up[e])}

\* Mutant: the parents passed over keep their counts.
find_set_keeps(h, d) ==
    LET root == RootOf(h, d)
        moved == Compressed(h, d) IN
    [h EXCEPT !.up = [e \in Nodes |-> IF e \in moved THEN root ELSE @[e]],
              !.ref[root] = @ + Cardinality(moved)]

find_set(h, d) ==
    LET root == RootOf(h, d)
        moved == Compressed(h, d)
        lose == {h.up[e] : e \in moved}
        F == {e \in lose : h.ref[e] = 1} IN
    Deleted([h EXCEPT
        !.up = [e \in Nodes |-> IF e \in moved THEN root ELSE @[e]],
        !.ref = [e \in Nodes |->
            IF e = root THEN @[e] + Cardinality(moved) - Cardinality(F)
            ELSE IF e \in lose THEN @[e] - 1 ELSE @[e]]], F)

root_set_parent(h, d, e) ==
    inc_ref_count([h EXCEPT !.up[d] = e, !.bag[d] = NoBag], e)

\* Mutant: the rank of the new root is never raised.
link_flat(h, d, e) ==
    IF h.rank[d] > h.rank[e] THEN root_set_parent(h, e, d) ELSE root_set_parent(h, d, e)

\* Union by rank of the sets with roots d and e.
link(h, d, e) ==
    IF h.rank[d] > h.rank[e] THEN root_set_parent(h, e, d)
    ELSE [root_set_parent(h, d, e) EXCEPT
            !.rank[e] = IF h.rank[d] = h.rank[e] THEN @ + 1 ELSE @]

(***************************************************************************)
(* Bags.                                                                   *)
(***************************************************************************)
\* Mutant: the node that becomes the root is not told its new bag.
set_ds_only(h, b, root) == dec_ref_count(inc_ref_count(h, root), dsOf[b])

\* set_ds, then set_sbag or set_pbag on the new root.
set_ds(h, b, root) ==
    [dec_ref_count(inc_ref_count(h, root), dsOf[b]) EXCEPT !.bag[root] = b]

\* SPBagInterface::combine of bag b with the set of node e: the heap and the
\* new _ds of b.  The new root is told its bag only if _ds has changed
\* (SBag_t::combine, PBag_t::combine).
combine(h, b, e) ==
    IF dsOf[b] = 0
    THEN [h |-> [inc_ref_count(h, e) EXCEPT !.bag[e] = b], ds |-> e]
    ELSE LET h1 == find_set(find_set(h, dsOf[b]), e)
             d == RootOf(h1, dsOf[b])
             h2 == link(h1, d, RootOf(h1, e))
             root == RootOf(h2, d) IN
         IF root = dsOf[b] THEN [h |-> h2, ds |-> root]
         ELSE [h |-> set_ds(h2, b, root), ds |-> root]

\* createNewSBag: the lowest free node is the new bag's set.
create_sbag(b) ==
    LET d == Min(Nodes \ Alive(heap)) IN
    /\ b \notin bags /\ Alive(heap) # Nodes
    /\ heap' = [heap EXCEPT !.bag[d] = b, !.ref[d] = 1]
    /\ bags' = bags \cup {b}
    /\ dsOf' = [dsOf EXCEPT ![b] = d]
    /\ UNCHANGED entry

\* createNewPBag.
create_pbag(b) ==
    /\ b \notin bags
    /\ bags' = bags \cup {b}
    /\ UNCHANGED <<heap, dsOf, entry>>

\* The engine combines bag b with bag c and deletes c.
merge(b, c) ==
    LET made == IF dsOf[c] = 0 THEN [h |-> heap, ds |-> dsOf[b]]
                ELSE combine(heap, b, dsOf[c]) IN
    /\ b \in bags /\ c \in bags /\ b # c
    /\ heap' = IF dsOf[c] = 0 THEN heap ELSE dec_ref_count(made.h, dsOf[c])
    /\ dsOf' = [dsOf EXCEPT ![b] = made.ds, ![c] = 0]
    /\ bags' = bags \ {c}
    /\ \A d \in Nodes : heap'.rank[d] <= MaxRank
    /\ UNCHANGED entry

\* A bag that is not marked used is deleted; SPBags shows that no access is
\* in it.
InBag(b) == {l \in Entries : entry[l] # 0 /\ heap.bag[RootOf(heap, entry[l])] = b}

delete_bag(b) ==
    /\ b \in bags /\ InBag(b) = {}
    /\ heap' = IF dsOf[b] = 0 THEN heap ELSE dec_ref_count(heap, dsOf[b])
    /\ dsOf' = [dsOf EXCEPT ![b] = 0]
    /\ bags' = bags \ {b}
    /\ UNCHANGED entry

(***************************************************************************)
(* Shadow-memory entries.                                                  *)
(***************************************************************************)
\* MemoryAccess_t::set and operator=: count the new node, then drop the old.
Assign(l, d) ==
    /\ entry' = [entry EXCEPT ![l] = d]
    /\ heap' = IF entry[l] = d THEN heap
               ELSE LET h == IF d = 0 THEN heap ELSE inc_ref_count(heap, d) IN
                    IF entry[l] = 0 THEN h ELSE dec_ref_count(h, entry[l])
    /\ UNCHANGED <<bags, dsOf>>

\* An access is recorded under the S-bag or Iter-bag b.
set(l, b) == b \in bags /\ dsOf[b] # 0 /\ Assign(l, dsOf[b])

\* An entry is copied when a line is split or its grain changes.
copy(l, m) == Assign(l, entry[m])

invalidate(l) == entry[l] # 0 /\ Assign(l, 0)

\* get_sbag_or_null of the node in entry l.
get_sbag_or_null(l) ==
    /\ entry[l] # 0
    /\ heap' = find_set(heap, entry[l])
    /\ UNCHANGED <<bags, dsOf, entry>>

-----------------------------------------------------------------------------
SetInit ==
    /\ heap = [up |-> [d \in Nodes |-> 0], bag |-> [d \in Nodes |-> NoBag],
               rank |-> [d \in Nodes |-> 0], ref |-> [d \in Nodes |-> 0]]
    /\ bags = {}
    /\ dsOf = [b \in Bags |-> 0]
    /\ entry = [l \in Entries |-> 0]

SetNext ==
    \/ \E b \in SBags : create_sbag(b)
    \/ \E b \in PBags : create_pbag(b)
    \/ \E b, c \in Bags : merge(b, c)
    \/ \E b \in Bags : delete_bag(b)
    \/ \E l \in Entries, b \in SBags : set(l, b)
    \/ \E l, m \in Entries : copy(l, m)
    \/ \E l \in Entries : invalidate(l)
    \/ \E l \in Entries : get_sbag_or_null(l)

SetSpec == SetInit /\ [][SetNext]_svars

-----------------------------------------------------------------------------
\* Nodes point at nodes, bags and counts.
SetTypeOK ==
    /\ heap \in [up : [Nodes -> 0..MaxNodes], bag : [Nodes -> Bags \cup {NoBag}],
                 rank : [Nodes -> 0..MaxRank], ref : [Nodes -> Nat]]
    /\ bags \subseteq Bags
    /\ dsOf \in [Bags -> 0..MaxNodes]
    /\ entry \in [Entries -> 0..MaxNodes]

References(d) ==
    Cardinality({e \in Nodes : heap.up[e] = d})
      + Cardinality({b \in Bags : dsOf[b] = d})
      + Cardinality({l \in Entries : entry[l] = d})

\* _ref_count is the number of children, bags and entries that point at the
\* node.  A node is deleted when it reaches zero, so nothing ever points at a
\* deleted node and no node that is unreachable stays.
RefCountsExact == \A d \in Nodes : heap.ref[d] = References(d)

\* The node of a bag is the root of its set, and the root knows the bag:
\* combine compares roots and get_sbag reads the bag off the root.
BagHoldsRoot ==
    /\ \A b \in bags : dsOf[b] # 0 =>
          isRoot(heap, dsOf[b]) /\ heap.bag[dsOf[b]] = b
    /\ \A d \in Alive(heap) : isRoot(heap, d) => dsOf[heap.bag[d]] = d

\* A parent outranks its children, whatever was compressed or deleted: paths
\* end at a root and are no longer than the rank.
RanksIncrease ==
    /\ SetTypeOK
    /\ \A d \in Nodes : ~isRoot(heap, d) => heap.rank[d] < heap.rank[heap.up[d]]

\* The bag of the access in each entry.
Where == [l \in Entries |->
            IF entry[l] = 0 THEN NoBag ELSE heap.bag[RootOf(heap, entry[l])]]

Abstract == INSTANCE Partition WITH live <- bags, where <- Where

\* Queries change no answer, and unions change exactly the answers for the
\* bag that is merged, in whatever order nodes are linked, compressed,
\* deleted and allocated again.
ImplementsPartition == Abstract!PartitionSpec
=============================================================================
