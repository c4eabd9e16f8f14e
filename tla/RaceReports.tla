----------------------------- MODULE RaceReports -----------------------------
(***************************************************************************)
(* Race reports and the call stacks they print (race_info.h,               *)
(* print_addr.cpp).  The call stack is a linked list of reference-counted  *)
(* nodes from a free list; a holder (the data of a disjoint-set node, made *)
(* with an S-bag) keeps the call stack of its frame by pointing at the     *)
(* tail of that moment.  A race is printed unless an equivalent one has    *)
(* been found before.                                                      *)
(***************************************************************************)
EXTENDS Integers, Sequences, FiniteSets

CONSTANTS
    CallIDs,      \* call sites, spawns and loops: CallID_t
    Holders,      \* disjoint-set nodes with a copy of the call stack
    Nodes,        \* addresses of nodes: the bound on nodes alive
    MaxPushes,    \* bound: activations
    ReportPushes, \* bound: activations of an execution with a race
    AccIDs,       \* CSI IDs of accesses
    AccTypes,     \* the MAType_t of accesses
    AllocIDs,     \* CSI IDs of allocations, UNKNOWN_CSI_ID among them
    MaxReports    \* bound: calls of report_race

Null == 0
ASSUME ReportsAssumption ==
    /\ Nodes \subseteq Nat \ {Null} /\ IsFiniteSet(Nodes) /\ IsFiniteSet(Holders)
    /\ MaxPushes \in Nat /\ ReportPushes \in 0 .. MaxPushes /\ MaxReports \in Nat
    /\ AccIDs \subseteq Nat /\ AccTypes \subseteq Nat

VARIABLES
    nodes,         \* address |-> call_stack_node_t
    free_list,     \* its addresses, head first
    tail,          \* call_stack.tail
    data,          \* holder |-> the tail its copy of the call stack points at
    races_found,   \* the RaceInfo_t printed, with the key each is filed under
    duplicated_races,
    pushes,        \* history: activations so far; the serial of a node is its activation
    taken          \* history: holder |-> the call stack when it took its copy

lists == <<nodes, free_list, tail, data, pushes, taken>>
found == <<races_found, duplicated_races>>
vars == <<lists, found>>

NoNode == [id |-> "none", prev |-> Null, ref_count |-> 0, serial |-> 0]
Min2(a, b) == IF a < b THEN a ELSE b

\* The list from its first frame to the node at address n.
Chain(ns, n) ==
    LET chain[m \in Nodes \cup {Null}] ==
            IF m = Null THEN <<>> ELSE Append(chain[ns[m].prev], m)
    IN  chain[n]

Activations(ns, n) ==
    LET c == Chain(ns, n)
    IN  [i \in 1 .. Len(c) |-> [id |-> ns[c[i]].id, serial |-> ns[c[i]].serial]]

-----------------------------------------------------------------------------
(***************************************************************************)
(* call_stack_t.                                                           *)
(***************************************************************************)
inc_ref_count(ns, n) == IF n = Null THEN ns ELSE [ns EXCEPT ![n].ref_count = @ + 1]

\* Mutant: the destructor of a node does not release the frame below.
DyingAlone(ns, n) == IF n # Null /\ ns[n].ref_count = 1 THEN {n} ELSE {}

\* The nodes that die with the last reference to n: n and every frame below it that only the next
\* one refers to (~call_stack_node_t).
Dying(ns, n) ==
    LET c == Chain(ns, n)
    IN  {c[i] : i \in {j \in 1 .. Len(c) : \A k \in j .. Len(c) : ns[c[k]].ref_count = 1}}

\* One reference to n goes away.  The destructor runs before operator delete, so the frame nearest
\* to the start is put on the free list first.
release(ns, n) ==
    LET c == Chain(ns, n)
        dead == Dying(ns, n)
        k == Len(c) - Cardinality(dead)
    IN  [ns |-> IF n = Null THEN ns
                ELSE [m \in Nodes |-> IF m \in dead THEN NoNode
                                      ELSE IF k > 0 /\ m = c[k] THEN [ns[m] EXCEPT !.ref_count = @ - 1]
                                      ELSE ns[m]],
         dead |-> [i \in 1 .. Cardinality(dead) |-> c[Len(c) + 1 - i]]]

\* operator new: the head of the free list, or new memory if the list is empty.
NewNodes == IF free_list # <<>> THEN {free_list[1]}
            ELSE {n \in Nodes : nodes[n].ref_count = 0}

\* record_call: the new node takes over the reference the tail was.
push(id) ==
    /\ pushes < IF races_found = {} THEN MaxPushes ELSE ReportPushes
    /\ \E n \in NewNodes :
          /\ nodes' = [nodes EXCEPT ![n] = [id |-> id, prev |-> tail, ref_count |-> 1,
                                            serial |-> pushes + 1]]
          /\ tail' = n
    /\ free_list' = IF free_list # <<>> THEN Tail(free_list) ELSE free_list
    /\ pushes' = pushes + 1
    /\ UNCHANGED <<data, taken, found>>

\* Mutant: pop does not count the reference from the new tail.
pop_uncounted ==
    /\ tail # Null
    /\ LET r == release(nodes, tail)
       IN  nodes' = r.ns /\ free_list' = r.dead \o free_list
    /\ tail' = nodes[tail].prev
    /\ UNCHANGED <<data, pushes, taken, found>>

\* record_call_return.
pop ==
    /\ tail # Null
    /\ LET r == release(inc_ref_count(nodes, nodes[tail].prev), tail)
       IN  nodes' = r.ns /\ free_list' = r.dead \o free_list
    /\ tail' = nodes[tail].prev
    /\ UNCHANGED <<data, pushes, taken, found>>

\* createNewSBag(func_id, call_stack): the disjoint-set node copies the call stack.
copy(h) ==
    /\ data[h] = Null
    /\ nodes' = inc_ref_count(nodes, tail)
    /\ data' = [data EXCEPT ![h] = tail]
    /\ taken' = [taken EXCEPT ![h] = Activations(nodes, tail)]
    /\ UNCHANGED <<free_list, tail, pushes, found>>

\* The disjoint-set node is freed, and its data destroyed.
destroy(h) ==
    /\ data[h] # Null
    /\ LET r == release(nodes, data[h])
       IN  nodes' = r.ns /\ free_list' = r.dead \o free_list
    /\ data' = [data EXCEPT ![h] = Null]
    /\ taken' = [taken EXCEPT ![h] = <<>>]
    /\ UNCHANGED <<tail, pushes, found>>

(***************************************************************************)
(* Reports.                                                                *)
(***************************************************************************)
RaceTypes == {"RW", "WW", "WR"}
AccessLoc == [acc_loc : AccIDs, type : AccTypes]
RaceInfo == [first_acc : AccessLoc, second_acc : AccessLoc, alloc_id : AllocIDs, type : RaceTypes]

flipRaceType(t) == CASE t = "RW" -> "WR" [] t = "WW" -> "WW" [] t = "WR" -> "RW"

is_equivalent_race(r, other) ==
    /\ r.alloc_id = other.alloc_id
    /\ \/ r.first_acc = other.first_acc /\ r.second_acc = other.second_acc /\ r.type = other.type
       \/ /\ r.first_acc = other.second_acc /\ r.second_acc = other.first_acc
          /\ r.type = flipRaceType(other.type)

\* AccessLoc_t::operator<
LessThan(a, b) == a.acc_loc < b.acc_loc \/ (a.acc_loc = b.acc_loc /\ a.type < b.type)

\* Mutant: a race is filed under its first access.
KeyOfFirst(race) == race.first_acc.acc_loc

RaceKey(race) ==
    IF LessThan(race.first_acc, race.second_acc) THEN race.first_acc.acc_loc ELSE race.second_acc.acc_loc

report_race(race) ==
    /\ pushes <= ReportPushes
    /\ Cardinality(races_found) + duplicated_races < MaxReports
    /\ IF \E f \in races_found : f.key = RaceKey(race) /\ is_equivalent_race(race, f.race)
       THEN duplicated_races' = duplicated_races + 1 /\ UNCHANGED races_found
       ELSE races_found' = races_found \cup {[key |-> RaceKey(race), race |-> race]}
            /\ UNCHANGED duplicated_races
    /\ UNCHANGED lists

\* Mutant: frames are compared by call site, as a line of the code commented out does.
divergence_by_id(n1, n2) ==
    LET a1 == Activations(nodes, n1)
        a2 == Activations(nodes, n2)
        end == Min2(Len(a1), Len(a2))
    IN  CHOOSE i \in 0 .. end : /\ \A j \in 1 .. i : a1[j].id = a2[j].id
                                /\ i < end => a1[i + 1].id # a2[i + 1].id

\* get_call_stack_divergence_pt: the frames common to the stacks that end at two nodes, told by
\* the addresses of their nodes.
get_call_stack_divergence_pt(n1, n2) ==
    LET c1 == Chain(nodes, n1)
        c2 == Chain(nodes, n2)
        end == Min2(Len(c1), Len(c2))
    IN  CHOOSE i \in 0 .. end : /\ \A j \in 1 .. i : c1[j] = c2[j]
                                /\ i < end => c1[i + 1] # c2[i + 1]

-----------------------------------------------------------------------------
Init ==
    /\ nodes = [n \in Nodes |-> NoNode] /\ free_list = <<>> /\ tail = Null
    /\ data = [h \in Holders |-> Null] /\ taken = [h \in Holders |-> <<>>]
    /\ pushes = 0 /\ races_found = {} /\ duplicated_races = 0

Next ==
    \/ \E id \in CallIDs : push(id)
    \/ pop
    \/ \E h \in Holders : copy(h)
    \/ \E h \in Holders : destroy(h)
    \/ \E race \in RaceInfo : report_race(race)

Spec == Init /\ [][Next]_vars

-----------------------------------------------------------------------------
Alive == {n \in Nodes : nodes[n].ref_count > 0}

ReportsTypeOK ==
    /\ \A n \in Nodes : nodes[n].prev \in Nodes \cup {Null} /\ nodes[n].ref_count \in Nat
    /\ tail \in Nodes \cup {Null} /\ data \in [Holders -> Nodes \cup {Null}]
    /\ races_found \subseteq [key : AccIDs, race : RaceInfo]
    /\ duplicated_races \in 0 .. MaxReports

\* Every count is the number of pointers to its node, so a node is freed when the last holder lets
\* go of it and not before, and an address is on the free list at most once (race_info.h: "Now the
\* ref_count's should reflect the pointer structure").
RefCountsReflectPointers ==
    /\ \A n \in Alive :
          nodes[n].ref_count = (IF tail = n THEN 1 ELSE 0) + Cardinality({h \in Holders : data[h] = n})
                               + Cardinality({m \in Alive : nodes[m].prev = n})
    /\ \A i \in 1 .. Len(free_list) :
          free_list[i] \notin Alive /\ \A j \in 1 .. (i - 1) : free_list[i] # free_list[j]
    /\ \A n \in Alive : nodes[n].prev \in Alive \cup {Null}

\* The linked list implements a call stack: what a holder took stays what it was, whatever is
\* pushed, popped and recycled since (race_info.h: "the call stack for that race is preserved by
\* saving a pointer to the tail of the call stack").
Stacks == INSTANCE CallStack WITH
    Serials <- 1 .. MaxPushes,
    stack <- Activations(nodes, tail),
    snapshots <- [h \in Holders |-> Activations(nodes, data[h])]
CallStacksPersist == Stacks!Spec

\* The "Common calling context" of a report is the activations the two stacks have in common: the
\* addresses that match are the same activation, never a recycled node.
CommonContextIsShared ==
    \A h \in Holders :
        LET d == get_call_stack_divergence_pt(data[h], tail)
            s == Activations(nodes, tail)
            t == taken[h]
        IN  /\ d <= Len(t) /\ \A i \in 1 .. d : t[i] = s[i]
            /\ d < Min2(Len(t), Len(s)) => t[d + 1] # s[d + 1]

\* "Cilksan detected N distinct races": no two races found are equivalent, whichever of their
\* accesses came first (print_addr.cpp:609).
DistinctRaces ==
    /\ ReportsTypeOK
    /\ \A f, g \in races_found : f # g => ~is_equivalent_race(f.race, g.race)
=============================================================================
