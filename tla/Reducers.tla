------------------------------ MODULE Reducers ------------------------------
(***************************************************************************)
(* Reducer hyperobjects on the frame stack.  Cilksan pretends that every   *)
(* continuation is stolen: a strand in a continuation gets a view of its   *)
(* own, kept in the table of the nearest frame that is in a continuation,  *)
(* and the views are reduced, left to right, at every point where a real   *)
(* steal would end.  A table is the partial map that HyperTable shows its  *)
(* hash table to be.                                                       *)
(*                                                                         *)
(* A reducer is identified with its leftmost view.  The program appends    *)
(* numbered updates; reduce_fn is concatenation, which does not commute.   *)
(***************************************************************************)
EXTENDS SPBags, Sequences, FiniteSetsExt

CONSTANTS
    Keys,          \* reducers, by the address of their leftmost view
    MaxViews,      \* bound: views allocated at once
    MaxUpdates,    \* bound: updates of one reducer
    RegisterInContinuation  \* program class: may a frame register a reducer
                            \* of its own while one of its spawns is open?

ASSUME ReducersAssumption ==
    /\ MaxViews \in Nat /\ MaxUpdates \in Nat
    /\ Keys \cap Nat = {} /\ RegisterInContinuation \in BOOLEAN

ViewIds == 1..MaxViews
None == 0

VARIABLES
    tables,   \* slot |-> reducer_views; made is FALSE for a null pointer
    views,    \* the views: allocated, their values, history of their users
    owner,    \* reducer |-> the slot that declares it, and frame_id then
    updates   \* history: reducer |-> number of updates

rvars == <<vars, tables, views, owner, updates>>
hyper == <<tables, views, owner, updates>>

NullTable == [made |-> FALSE, view |-> [k \in Keys |-> None]]
NewTable == [NullTable EXCEPT !.made = TRUE]
NoOwner == [slot |-> 0, since |-> 0]
IsLeftmost(T, k) == T.view[k] = k
Holds(T) == {k \in Keys : T.view[k] # None}

(***************************************************************************)
(* Which table a strand uses.                                              *)
(***************************************************************************)
in_continuation == head.InContin # {}

\* Mutant: only strands below the frame in a continuation count as stolen.
stealable_below == head.ParentContin > 0

\* The current strand could have been stolen.
stealable == in_continuation \/ head.ParentContin > 0

\* parallel_execution.back(): a task, a loop or an open spawn encloses the
\* strand.
is_execution_parallel ==
    \E i \in 1..depth : frames[i].type \in {"detacher", "loop"}
                        \/ frames[i].InContin # {}

\* The slot of the table: the head's own, or that of the nearest ancestor in
\* a continuation.  get_or_create_reducer_views makes it if it is null.
ViewSlot == IF in_continuation THEN depth ELSE depth - head.ParentContin

get_or_create(T) == IF T.made THEN T ELSE NewTable

checkMAAP(val, flag) == flag \in val
Mod == "Mod"
Ref == "Ref"

\* check_read_bytes: a read is checked if the alias information says that
\* the location may be modified in parallel.
check_read_bytes(maap) ==
    strands' = IF is_execution_parallel /\ checkMAAP(maap, Mod)
               THEN strands \cup {CurrentAccess} ELSE strands

(***************************************************************************)
(* The hooks on reducers.                                                  *)
(***************************************************************************)
MayRegister ==
    \/ head.InContin = {} \/ RegisterInContinuation
    \/ head.type = "loop" /\ ~LoopBodySpawns

\* A parallel loop is followed at once by its sync.
LoopSynced == \A c \in 1..frame_id :
    /\ tree[c].level = depth + 1 /\ tree[c].path[depth] = head.fid
    /\ tree[c].type = "loop"
    => c \in joined

SameEngine == UNCHANGED <<depth, frames, bagOf, nds, frame_id, pc, sync_reg, tree, joined>>

register(k) ==
    /\ pc = "body" /\ LoopSynced /\ owner[k] = NoOwner /\ MayRegister
    /\ owner' = [owner EXCEPT ![k] = [slot |-> depth, since |-> frame_id]]
    /\ updates' = [updates EXCEPT ![k] = 0]
    /\ views' = [views EXCEPT !.value[k] = <<>>, !.users[k] = {}]
    /\ tables' = IF stealable
                 THEN [tables EXCEPT ![ViewSlot] =
                          [get_or_create(@) EXCEPT !.view[k] = k]]
                 ELSE tables
    /\ check_read_bytes({Ref})
    /\ SameEngine

\* The tasks and loops that the declaring frame started since have joined.
AllJoined(k) ==
    \A c \in (owner[k].since + 1)..frame_id :
        tree[c].level = depth + 1 /\ tree[c].type # "spawner" => c \in joined

unregister(k) ==
    /\ pc = "body" /\ LoopSynced /\ owner[k].slot = depth /\ AllJoined(k)
    /\ owner' = [owner EXCEPT ![k] = NoOwner]
    /\ tables' = IF stealable THEN [tables EXCEPT ![ViewSlot].view[k] = None]
                 ELSE tables
    /\ check_read_bytes({Ref})
    /\ SameEngine /\ UNCHANGED <<views, updates>>

\* The program updates view w, and with a new table entry if there is one.
Update(k, w, vs) ==
    /\ updates' = [updates EXCEPT ![k] = @ + 1]
    /\ views' = [vs EXCEPT
                    !.value[w] = Append(@, updates[k] + 1),
                    !.users[w] = @ \cup {[owner |-> head.fid, iter |-> head.iter]}]

\* __csan_llvm_hyper_lookup, and the update made through the view it returns.
hyper_lookup(k) ==
    LET T == get_or_create(tables[ViewSlot])
        free == ViewIds \ views.alloc
        new == Min(free) IN
    /\ pc = "body" /\ LoopSynced /\ owner[k] # NoOwner /\ updates[k] < MaxUpdates
    /\ \/ /\ ~(is_execution_parallel /\ stealable)
          /\ Update(k, k, views)
          /\ UNCHANGED tables
       \/ /\ is_execution_parallel /\ stealable
          /\ T.view[k] # None
          /\ Update(k, T.view[k], views)
          /\ UNCHANGED tables
       \/ /\ is_execution_parallel /\ stealable
          /\ T.view[k] = None /\ free # {}
          /\ Update(k, new, [views EXCEPT !.alloc = @ \cup {new},
                                          !.value[new] = <<>>, !.users[new] = {}])
          /\ tables' = [tables EXCEPT ![ViewSlot] = [T EXCEPT !.view[k] = new]]
    /\ SameEngine /\ UNCHANGED <<strands, owner>>

(***************************************************************************)
(* Reducing.                                                               *)
(***************************************************************************)
\* Mutant: the right view comes first.
ReducedRightFirst(vs, P) ==
    [alloc |-> vs.alloc \ {p[2] : p \in P},
     value |-> [w \in DOMAIN vs.value |->
        LET right == {p[2] : p \in {q \in P : q[1] = w}} IN
        IF right = {} THEN vs.value[w]
        ELSE vs.value[CHOOSE r \in right : TRUE] \o vs.value[w]],
     users |-> vs.users]

\* Mutant: the right views are not freed.
ReducedLeaks(vs, P) ==
    [vs EXCEPT !.value = [w \in DOMAIN vs.value |->
        LET right == {p[2] : p \in {q \in P : q[1] = w}} IN
        IF right = {} THEN vs.value[w]
        ELSE vs.value[w] \o vs.value[CHOOSE r \in right : TRUE]]]

\* reduce_fn(left, right) and free(right) for every pair in P.
Reduced(vs, P) ==
    [alloc |-> vs.alloc \ {p[2] : p \in P},
     value |-> [w \in DOMAIN vs.value |->
        LET right == {p[2] : p \in {q \in P : q[1] = w}} IN
        IF right = {} THEN vs.value[w]
        ELSE vs.value[w] \o vs.value[CHOOSE r \in right : TRUE]],
     users |-> vs.users]

\* merge_two_hyper_tables: the left view of a key survives, whichever table
\* is the destination.
merge_two_hyper_tables(L, R) ==
    IF ~L.made THEN R
    ELSE [L EXCEPT !.view = [k \in Keys |-> IF @[k] # None THEN @[k] ELSE R.view[k]]]

ReduceIntoParent ==
    LET anc == depth - head.ParentContin
        L == tables[anc]
        R == tables[depth]
        both == Holds(L) \cap Holds(R) IN
    /\ tables' = [tables EXCEPT ![anc] = merge_two_hyper_tables(L, R),
                                ![depth] = NullTable]
    /\ views' = Reduced(views, {<<L.view[k], R.view[k]>> : k \in both})

\* Mutant: the emptied table is not deleted.
TablesAfterEmptied(reduced, leftmost) == {NewTable}

\* With no ancestor in a continuation every view is reduced into its leftmost
\* view.  A table that holds a leftmost view is kept.  The keys reduced are
\* meant to be removed from it, but keysToRemove holds addresses cut to 32
\* bits and used as indices: each round removes the key found out of bounds,
\* any one or none.
TablesAfter(reduced, leftmost) ==
    IF leftmost = {} THEN {NullTable}
    ELSE {[tables[depth] EXCEPT !.view = [k \in Keys |-> IF k \in X THEN None ELSE @[k]]] :
             X \in {Y \in SUBSET Holds(tables[depth]) : Cardinality(Y) <= Cardinality(reduced)}}

ReduceIntoLeftmost ==
    LET T == tables[depth]
        leftmost == {k \in Holds(T) : IsLeftmost(T, k)}
        reduced == Holds(T) \ leftmost IN
    /\ views' = Reduced(views, {<<k, T.view[k]>> : k \in reduced})
    /\ \E U \in TablesAfter(reduced, leftmost) : tables' = [tables EXCEPT ![depth] = U]

reduce_local_views ==
    \/ ~tables[depth].made /\ UNCHANGED <<tables, views>>
    \/ tables[depth].made /\ head.ParentContin > 0 /\ ReduceIntoParent
    \/ tables[depth].made /\ head.ParentContin = 0 /\ ReduceIntoLeftmost

(***************************************************************************)
(* The engine's hooks.  The compiler syncs every region of a frame before  *)
(* the frame ends, and a reducer dies before the frame or the iteration    *)
(* that declares it.  FrameData_t::reset leaves reducer_views alone.       *)
(***************************************************************************)
Reducing(A) == A /\ reduce_local_views /\ UNCHANGED <<owner, updates>>
Plain(A) == LoopSynced /\ A /\ UNCHANGED hyper
MayEnd == LoopSynced /\ head.InContin \subseteq {Loop} /\ \A k \in Keys : owner[k].slot # depth

Control ==
    \/ \E n \in SyncRegCounts : Plain(do_enter(n))
    \/ MayEnd /\ Plain(leave_cilk_function)
    \/ \E n \in SyncRegCounts, r \in Regs : Plain(do_task(n, r))
    \/ MayEnd /\ Plain(return_from_detach)
    \/ Reducing(do_detach_continue)
    \/ \E r \in Regs : Reducing(do_sync(r))
    \/ Plain(do_loop_begin)
    \/ \E n \in SyncRegCounts, r \in Regs : Plain(do_loop_iteration_first(n, r))
    \/ Plain(do_loop_iteration_begin)
    \/ MayEnd /\ Reducing(do_loop_iteration_end)
    \/ Plain(do_loop_end)

Hyper(k) == register(k) \/ unregister(k) \/ hyper_lookup(k)

ReducersInit ==
    /\ Init
    /\ tables = [i \in Slots |-> NullTable]
    /\ views = [alloc |-> {}, value |-> [w \in Keys \cup ViewIds |-> <<>>],
                users |-> [w \in Keys \cup ViewIds |-> {}]]
    /\ owner = [k \in Keys |-> NoOwner]
    /\ updates = [k \in Keys |-> 0]

ReducersNext == Control \/ \E k \in Keys : Hyper(k)

ReducersSpec == ReducersInit /\ [][ReducersNext]_rvars

-----------------------------------------------------------------------------
\* Tables map reducers to their leftmost view or to views the tool allocated;
\* only existing frames declare reducers.
ReducersTypeOK ==
    /\ TypeOK
    /\ tables \in [Slots -> [made : BOOLEAN, view : [Keys -> {None} \cup Keys \cup ViewIds]]]
    /\ \A i \in Slots : tables[i].made \/ tables[i] = NullTable
    /\ views.alloc \subseteq ViewIds
    /\ owner \in [Keys -> [slot : 0..depth, since : Frames]]
    /\ updates \in [Keys -> 0..MaxUpdates]

\* The values of reducer k from left to right: its leftmost view, then the
\* views in the tables of the frames, oldest frame first.
LeftToRight(k) ==
    LET upto[i \in 0..MaxDepth] ==
            IF i = 0 THEN views.value[k]
            ELSE LET w == tables[i].view[k] IN
                 IF w \in ViewIds THEN upto[i - 1] \o views.value[w] ELSE upto[i - 1]
    IN upto[depth]

\* reducer_lookup, create_reducer_view, reduce_local_views and
\* merge_two_hyper_tables ("being sure to preserve left-to-right ordering"):
\* at every moment the views of a reducer, reduced from left to right, are the
\* serial sequence of its updates: none lost, none doubled, none out of order.
SerialOrder ==
    \A k \in Keys : owner[k] # NoOwner =>
        LeftToRight(k) = [n \in 1..updates[k] |-> n]

Entries == {e \in Slots \X Keys : tables[e[1]].view[e[2]] \in ViewIds}

\* free(rb.view): the views in the tables are exactly the allocated ones, each
\* in one place: none leaks, and no table holds a view that has been freed.
ViewsExact ==
    /\ {tables[e[1]].view[e[2]] : e \in Entries} = views.alloc
    /\ Cardinality(Entries) = Cardinality(views.alloc)

\* reduce_local_views, "Delete the right view.": a view that has been reduced
\* and freed is not found by a later look-up.
NoDanglingView == \A e \in Entries : tables[e[1]].view[e[2]] \in views.alloc

\* start_new_function, "New function has non-null table of reducer views": the
\* slot of a new frame holds no table.
FreshFrameHasNoViews ==
    /\ ReducersTypeOK
    /\ \A i \in (depth + 1)..MaxDepth : ~tables[i].made

\* hyper_lookup never gives two logically parallel strands the same view, so
\* that updates of a reducer are never reported as races.
ParallelStrandsHaveOwnViews ==
    [][\A w \in Keys \cup ViewIds :
        \A a \in views.users[w] :
            views'.users[w] # views.users[w] /\ views'.users[w] # {}
                /\ a \in views'.users[w]
            => ~LogicallyParallel(a)]_rvars
=============================================================================
