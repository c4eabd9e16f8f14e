------------------------------- MODULE SPBags -------------------------------
(***************************************************************************)
(* The SP-bags engine of Cilksan: the stack of shadow frames, the S-bag,   *)
(* P-bags and Iter-bag of every frame, and the query "is this recorded     *)
(* access logically in parallel with the current strand?".                 *)
(*                                                                         *)
(* Cilksan runs the program serially (a depth-first execution), so the     *)
(* program is the environment: every well-formed sequence of CSI hooks is  *)
(* a behaviour.  A disjoint-set node is a number, and bagOf gives the bag  *)
(* at the root of the node's set (DisjointSet_t::find_set and the bag      *)
(* pointer of the root).  Bags are named by the slot of frame_stack that   *)
(* owns them.                                                              *)
(***************************************************************************)
EXTENDS Integers, FiniteSets

CONSTANTS
    MaxDepth,     \* bound: slots of frame_stack
    MaxFrames,    \* bound: frames ever created (frame_id)
    MaxDS,        \* bound: disjoint-set nodes ever created
    MaxIters,     \* bound: iterations of one parallel loop
    MaxRegs,      \* bound: sync regions of one frame
    SyncRegCounts,\* the num_sync_reg properties the compiler may pass
    VersionMod,   \* 2^16 in the code: version_t of an Iter-bag wraps here
    LoopBodySpawns \* program class: may a loop body spawn and sync itself?

ASSUME BoundsAssumption ==
    /\ MaxDepth \in Nat \ {0}
    /\ MaxFrames \in Nat \ {0}
    /\ MaxDS \in Nat \ {0}
    /\ MaxIters \in Nat
    /\ MaxRegs \in Nat \ {0}
    /\ SyncRegCounts \subseteq 0..MaxRegs
    /\ VersionMod \in Nat \ {0}
    /\ LoopBodySpawns \in BOOLEAN

VARIABLES
    depth,     \* frame_stack.size()
    frames,    \* the FrameData_t in each slot of frame_stack
    bagOf,     \* disjoint-set node |-> the bag its set belongs to
    nds,       \* disjoint-set nodes created so far
    frame_id,  \* frames created so far
    pc,        \* what the program must do next; "newloop" is start_new_loop
    sync_reg,  \* the region of the detach whose continuation comes next
    tree,      \* history: where in the invocation tree each frame was born
    joined,    \* history: tasks and loops whose sync has been executed
    strands    \* history: the accesses made so far

vars == <<depth, frames, bagOf, nds, frame_id, pc, sync_reg, tree, joined, strands>>

Slots == 1..MaxDepth
Regs == 0..(MaxRegs - 1)
DS == 1..MaxDS
Frames == 0..MaxFrames
Loop == 0   \* bit 0 of InContin; bit r + 1 is for sync region r

(***************************************************************************)
(* Bags and frames.                                                        *)
(***************************************************************************)
Bag == [kind : {"S", "P", "I"}, slot : Slots, reg : Regs]
NoBag == [kind |-> "freed", slot |-> 0, reg |-> 0]

Sbag(i) == [kind |-> "S", slot |-> i, reg |-> 0]
Iterbag(i) == [kind |-> "I", slot |-> i, reg |-> 0]
Pbag(i, r) == [kind |-> "P", slot |-> i, reg |-> r]

FrameData == [type : {"none", "spawner", "detacher", "loop"},
              Sbag_used : BOOLEAN, Iterbag_used : BOOLEAN,
              num_Pbags : 0..MaxRegs,
              Pbags : [Regs -> BOOLEAN],       \* non-null entries
              sds : 0..MaxDS,                  \* the node made for the S-bag
              ids : 0..MaxDS,                  \* the node made for the Iter-bag
              version : 0..(VersionMod - 1),   \* of the Iter-bag
              InContin : SUBSET (0..MaxRegs),
              ParentContin : Nat,
              fid : Frames,                    \* frame_id
              iter : 0..MaxIters]              \* history: iterations finished

\* FrameData_t::reset, which leaves the slot as start_new_function wants it.
ResetFrame ==
    [type |-> "none", Sbag_used |-> FALSE, Iterbag_used |-> FALSE,
     num_Pbags |-> 0, Pbags |-> [r \in Regs |-> FALSE], sds |-> 0, ids |-> 0,
     version |-> 0, InContin |-> {}, ParentContin |-> 0, fid |-> 0,
     iter |-> 0]

head == frames[depth]
is_loop_frame(i) == frames[i].type = "loop"
HasPbags(f) == \E r \in Regs : f.Pbags[r]

\* The sets of Bs are united with the set of bag b (SPBagInterface::combine:
\* the root of the united set is pointed at b).
combine(bags, Bs, b) == [d \in DS |-> IF bags[d] \in Bs THEN b ELSE bags[d]]

\* Bags deleted without having been combined: their nodes point nowhere.
delete(bags, Bs) == combine(bags, Bs, NoBag)

(***************************************************************************)
(* start_new_function: push a frame with a fresh S-bag.  A loop frame gets *)
(* an Iter-bag as well (create_iterbag).                                   *)
(***************************************************************************)
CanPush == depth < MaxDepth /\ frame_id < MaxFrames /\ nds + 2 <= MaxDS

\* Mutant: the distance is inherited without counting the parent.
ParentContinInherited == IF head.InContin # {} THEN 1 ELSE head.ParentContin

ParentContinOfChild ==
    IF head.InContin # {} THEN 1
    ELSE IF head.ParentContin > 0 THEN head.ParentContin + 1 ELSE 0

NewFrame(type, n) ==
    [type |-> type, Sbag_used |-> FALSE, Iterbag_used |-> FALSE,
     num_Pbags |-> n, Pbags |-> [r \in Regs |-> FALSE], sds |-> nds + 1,
     ids |-> IF type = "loop" THEN nds + 2 ELSE 0, version |-> 0,
     InContin |-> {}, ParentContin |-> ParentContinOfChild,
     fid |-> frame_id + 1, iter |-> 0]

start_new_function(type, n, r) ==
    /\ depth' = depth + 1
    /\ frame_id' = frame_id + 1
    /\ frames' = [frames EXCEPT ![depth + 1] = NewFrame(type, n)]
    /\ nds' = IF type = "loop" THEN nds + 2 ELSE nds + 1
    /\ bagOf' = [bagOf EXCEPT ![nds + 1] = Sbag(depth + 1),
                              ![nds + 2] = IF type = "loop" THEN Iterbag(depth + 1)
                                           ELSE bagOf[nds + 2]]
    /\ tree' = [tree EXCEPT ![frame_id + 1] =
                  [path |-> [i \in Slots |-> IF i <= depth THEN frames[i].fid
                                             ELSE IF i = depth + 1 THEN frame_id + 1
                                             ELSE 0],
                   level |-> depth + 1, type |-> type, reg |-> r,
                   iter |-> head.iter]]
    /\ UNCHANGED <<sync_reg, joined, strands>>

(***************************************************************************)
(* merge_bag_from_returning_child and exit_function.                       *)
(***************************************************************************)
\* The bags of slot i that hold a set which must survive the frame.
PbagsKept(i) == {Pbag(i, r) : r \in {q \in Regs : frames[i].Pbags[q]}}
BagsKept(i) == PbagsKept(i) \cup (IF frames[i].Sbag_used THEN {Sbag(i)} ELSE {})
BagsOfSlot(i) == {b \in Bag : b.slot = i}

\* Mutant: a detached child is merged into its parent's S-bag.
merge_detach_into_sbag(r) ==
    /\ bagOf' = delete(combine(bagOf, BagsKept(depth), Sbag(depth - 1)),
                       BagsOfSlot(depth))
    /\ frames' = [frames EXCEPT ![depth - 1].Sbag_used = TRUE,
                                ![depth] = ResetFrame]

\* Returning from a detach: everything goes to the parent's P-bag, which is
\* created if it is null.
merge_from_detach(r) ==
    /\ bagOf' = delete(combine(bagOf, BagsKept(depth), Pbag(depth - 1, r)),
                       BagsOfSlot(depth))
    /\ frames' = [frames EXCEPT ![depth - 1].Pbags[r] = TRUE,
                                ![depth] = ResetFrame]

\* Returning from a call: S-bag into S-bag, and any P-bags into P-bag r.
merge_from_call(r) ==
    LET orphans == BagsKept(depth) \ {Sbag(depth)}
        b1 == combine(bagOf, BagsKept(depth) \ orphans, Sbag(depth - 1))
        b2 == combine(b1, orphans, Pbag(depth - 1, r)) IN
    /\ bagOf' = delete(b2, BagsOfSlot(depth))
    /\ frames' = [frames EXCEPT
                    ![depth - 1].Sbag_used = @ \/ head.Sbag_used,
                    ![depth - 1].Pbags[r] = @ \/ HasPbags(head),
                    ![depth] = ResetFrame]

exit_function == depth' = depth - 1

(***************************************************************************)
(* Hooks.                                                                  *)
(***************************************************************************)
\* __csan_func_entry for a function that gets a frame of its own.
do_enter(n) ==
    /\ pc = "body" /\ CanPush
    /\ start_new_function("spawner", n, 0)
    /\ UNCHANGED pc

\* __csan_func_exit.  The compiler ends every Cilk function with a sync, so
\* no task of the frame is outstanding (driver.cpp: "This case should never
\* arise in Cilk programs").
leave_cilk_function ==
    /\ pc = "body" /\ depth > 1 /\ head.type = "spawner" /\ ~HasPbags(head)
    /\ merge_from_call(0)
    /\ exit_function
    /\ UNCHANGED <<nds, frame_id, pc, sync_reg, tree, joined, strands>>

\* The program class: which frames may spawn and sync.
MaySpawn == head.type # "loop" \/ LoopBodySpawns

\* __csan_detach and __csan_task: the task will join sync region r.
do_task(n, r) ==
    /\ pc = "body" /\ CanPush /\ MaySpawn /\ r < head.num_Pbags
    /\ start_new_function("detacher", n, r)
    /\ UNCHANGED pc

\* __csan_task_exit; the program goes on at the continuation.
return_from_detach ==
    /\ pc = "body" /\ head.type = "detacher"
    /\ merge_from_detach(tree[head.fid].reg)
    /\ exit_function
    /\ pc' = "continue"
    /\ sync_reg' = tree[head.fid].reg
    /\ UNCHANGED <<nds, frame_id, tree, joined, strands>>

\* __csan_detach_continue on the normal path.
do_detach_continue ==
    /\ pc = "continue"
    /\ frames' = [frames EXCEPT ![depth].InContin = @ \cup {sync_reg + 1}]
    /\ pc' = "body"
    /\ UNCHANGED <<depth, bagOf, nds, frame_id, sync_reg, tree, joined, strands>>

\* complete_sync: the P-bag of region r into the S-bag.
complete_sync(r) ==
    bagOf' = IF head.Pbags[r] THEN combine(bagOf, {Pbag(depth, r)}, Sbag(depth))
             ELSE bagOf

\* History: the finished children of the head that join sync region r.
Joining(r) == {c \in 1..frame_id :
    /\ tree[c].level = depth + 1 /\ tree[c].path[depth] = head.fid
    /\ tree[c].reg = r /\ tree[c].type # "spawner"}

\* __csan_sync.
do_sync(r) ==
    /\ pc = "body" /\ MaySpawn /\ r < head.num_Pbags
    /\ complete_sync(r)
    /\ frames' = [frames EXCEPT ![depth].Sbag_used = @ \/ head.Pbags[r],
                                ![depth].Pbags[r] = FALSE,
                                ![depth].InContin = @ \ {r + 1}]
    /\ joined' = joined \cup Joining(r)
    /\ UNCHANGED <<depth, nds, frame_id, pc, sync_reg, tree, strands>>

\* __csan_detach_continue on the unwind path: an implicit sync, after which
\* the frame is marked as in the continuation of the region.
do_detach_unwind ==
    /\ pc = "continue"
    /\ complete_sync(sync_reg)
    /\ frames' = [frames EXCEPT
                    ![depth] = [head EXCEPT
                        !.Sbag_used = head.Sbag_used \/ head.Pbags[sync_reg],
                        !.Pbags[sync_reg] = FALSE,
                        !.InContin = head.InContin \cup {sync_reg + 1}]]
    /\ joined' = joined \cup Joining(sync_reg)
    /\ pc' = "body"
    /\ UNCHANGED <<depth, nds, frame_id, sync_reg, tree, strands>>

\* __csan_before_loop.
do_loop_begin ==
    /\ pc = "body" /\ CanPush /\ MaySpawn /\ head.num_Pbags > 0 /\ MaxIters > 0
    /\ pc' = "newloop"
    /\ UNCHANGED <<depth, frames, bagOf, nds, frame_id, sync_reg, tree, joined, strands>>

\* __csan_task for a loop body: the first iteration pushes the loop frame,
\* which will join sync region r of its parent.
do_loop_iteration_first(n, r) ==
    /\ pc = "newloop" /\ CanPush /\ r < head.num_Pbags
    /\ start_new_function("loop", IF n > 0 THEN n ELSE 1, r)
    /\ pc' = "body"

do_loop_iteration_begin ==
    /\ pc = "between" /\ head.iter < MaxIters
    /\ frames' = [frames EXCEPT ![depth].InContin = @ \cup {Loop}]
    /\ pc' = "body"
    /\ UNCHANGED <<depth, bagOf, nds, frame_id, sync_reg, tree, joined, strands>>

\* SBag_t::inc_version, and two mutants: a version that never wraps and one
\* that sticks at the last value.
inc_version_unbounded(v) == v + 1
inc_version_stuck(v) == IF v + 1 = VersionMod THEN v ELSE v + 1
inc_version(v) == (v + 1) % VersionMod

\* __csan_task_exit for a loop body.  Tasks of the body joined its regions
\* other than 0 before the body ended.
do_loop_iteration_end ==
    LET newS == head.Sbag_used
        version == inc_version(head.version)
        newI == version = 0 /\ head.Iterbag_used
        b1 == IF newS THEN combine(bagOf, {Sbag(depth)}, Pbag(depth, 0)) ELSE bagOf
        b2 == IF newI THEN combine(b1, {Iterbag(depth)}, Pbag(depth, 0)) ELSE b1
        sds == IF newS THEN nds + 1 ELSE head.sds
        ids == IF newI THEN nds + 2 ELSE head.ids IN
    /\ pc = "body" /\ head.type = "loop" /\ nds + 2 <= MaxDS
    /\ head.iter < MaxIters /\ \A r \in Regs \ {0} : ~head.Pbags[r]
    /\ bagOf' = [b2 EXCEPT ![sds] = Sbag(depth), ![ids] = Iterbag(depth)]
    /\ nds' = IF newS \/ newI THEN nds + 2 ELSE nds
    /\ frames' = [frames EXCEPT
          ![depth] = [head EXCEPT
              !.InContin = head.InContin \ {Loop}, !.Pbags[0] = TRUE,
              !.Sbag_used = FALSE, !.sds = sds,
              !.Iterbag_used = head.Iterbag_used /\ ~newI, !.ids = ids,
              !.version = version, !.iter = head.iter + 1]]
    /\ pc' = "between"
    /\ UNCHANGED <<depth, frame_id, sync_reg, tree, joined, strands>>

LoopBagsKept(i) ==
    BagsKept(i) \cup {Pbag(i, 0)}
                \cup (IF frames[i].Iterbag_used THEN {Iterbag(i)} ELSE {})

\* __csan_after_loop: the Iter-bag goes to P-bag 0 of the loop frame, which
\* then returns to its parent as a detached task does.
do_loop_end ==
    LET r == tree[head.fid].reg IN
    /\ pc = "between"
    /\ bagOf' = delete(combine(bagOf, LoopBagsKept(depth), Pbag(depth - 1, r)),
                       BagsOfSlot(depth))
    /\ frames' = [frames EXCEPT ![depth - 1].Pbags[r] = TRUE,
                                ![depth] = ResetFrame]
    /\ exit_function
    /\ pc' = "body"
    /\ UNCHANGED <<nds, frame_id, sync_reg, tree, joined, strands>>

(***************************************************************************)
(* Accesses.  A shadow-memory entry keeps the node and the version of the  *)
(* bag that getSbagForAccess returns; owner and iter are history.          *)
(***************************************************************************)
MemoryAccess == [ds : DS, version : 0..(VersionMod - 1),
                 owner : Frames, iter : 0..MaxIters]

\* The access is recorded under the bag's get_ds(), any node of the frame's
\* set: the model takes the node the bag was created with.
CurrentAccess ==
    [ds |-> IF head.type = "loop" THEN head.ids ELSE head.sds,
     version |-> IF head.type = "loop" THEN head.version ELSE 0,
     owner |-> head.fid, iter |-> head.iter]

\* FrameData_t::getSbagForAccess marks the bag used.
getSbagForAccess ==
    frames' = [frames EXCEPT ![depth].Sbag_used = @ \/ head.type # "loop",
                             ![depth].Iterbag_used = @ \/ head.type = "loop"]

record_access ==
    /\ pc = "body"
    /\ getSbagForAccess
    /\ strands' = strands \cup {CurrentAccess}
    /\ UNCHANGED <<depth, bagOf, nds, frame_id, pc, sync_reg, tree, joined>>

\* FrameData_t::check_parallel_iter on the head frame.
check_parallel_iter(b, version) ==
    head.type = "loop" /\ b = Iterbag(depth) /\ version < head.version

\* MemoryAccess_t::previousAccessInParallel.
previousAccessInParallel(a) ==
    LET b == bagOf[a.ds] IN
    b.kind = "P" \/ check_parallel_iter(b, a.version)

-----------------------------------------------------------------------------
\* CilkSanImpl_t::init: the frame of the code before the first Cilk context.
Init ==
    /\ depth = 1 /\ nds = 1 /\ frame_id = 0 /\ pc = "body" /\ sync_reg = 0
    /\ frames = [i \in Slots |-> IF i = 1 THEN [ResetFrame EXCEPT !.sds = 1]
                                 ELSE ResetFrame]
    /\ bagOf = [d \in DS |-> IF d = 1 THEN Sbag(1) ELSE NoBag]
    /\ tree = [f \in Frames |->
                 [path |-> [i \in Slots |-> 0], level |-> IF f = 0 THEN 1 ELSE 0,
                  type |-> "none", reg |-> 0, iter |-> 0]]
    /\ joined = {} /\ strands = {}

Next ==
    \/ \E n \in SyncRegCounts : do_enter(n)
    \/ leave_cilk_function
    \/ \E n \in SyncRegCounts, r \in Regs : do_task(n, r)
    \/ return_from_detach
    \/ do_detach_continue
    \/ do_detach_unwind
    \/ \E r \in Regs : do_sync(r)
    \/ do_loop_begin
    \/ \E n \in SyncRegCounts, r \in Regs : do_loop_iteration_first(n, r)
    \/ do_loop_iteration_begin
    \/ do_loop_iteration_end
    \/ do_loop_end
    \/ record_access

Spec == Init /\ [][Next]_vars

-----------------------------------------------------------------------------
(***************************************************************************)
(* What the engine promises.                                               *)
(***************************************************************************)
\* The state is well typed: counters within their bounds, every frame a
\* FrameData_t, every disjoint-set node in a bag or freed.
TypeOK ==
    /\ depth \in Slots
    /\ frames \in [Slots -> FrameData]
    /\ bagOf \in [DS -> Bag \cup {NoBag}]
    /\ nds \in DS
    /\ frame_id \in Frames
    /\ pc \in {"body", "continue", "newloop", "between"}
    /\ sync_reg \in Regs
    /\ tree \in [Frames -> [path : [Slots -> Frames], level : 0..MaxDepth,
                             type : {"none", "spawner", "detacher", "loop"},
                             reg : Regs, iter : 0..MaxIters]]
    /\ joined \subseteq Frames
    /\ strands \subseteq MemoryAccess

\* Slot k holds the youngest running frame the access was made under.
IsLCA(a, k) ==
    LET t == tree[a.owner] IN
    /\ k <= t.level /\ t.path[k] = frames[k].fid
    /\ k < depth /\ k < t.level => t.path[k + 1] # frames[k + 1].fid

\* The ground truth, from the invocation tree alone: an access is logically
\* parallel to the running strand iff, below their youngest common frame, it
\* was made in another iteration of that frame's loop, or in a task (or
\* loop) whose region has not been synced since.
LogicallyParallel(a) ==
    \E k \in 1..depth :
        LET t == tree[a.owner]
            c == t.path[k + 1] IN
        /\ IsLCA(a, k)
        /\ IF t.level = k THEN is_loop_frame(k) /\ a.iter # frames[k].iter
           ELSE \/ tree[c].type # "spawner" /\ c \notin joined
                \/ is_loop_frame(k) /\ tree[c].iter # frames[k].iter

\* The access was made by the body of a loop that is still running, and the
\* running strand is in a frame below the loop frame.
HiddenByCallee(a) ==
    \E k \in 1..(depth - 1) : is_loop_frame(k) /\ frames[k].fid = a.owner

\* No false parallelism: whatever sequence of spawns, calls, syncs, loops and
\* unwinds came before, previousAccessInParallel answers yes only for an
\* access that is logically parallel to the running strand.
NoFalseParallelism ==
    pc = "body" => \A a \in strands :
        previousAccessInParallel(a) => LogicallyParallel(a)

\* No missed parallelism: previousAccessInParallel answers yes for every
\* access that is logically parallel to the running strand, except for the
\* loop body's own accesses as seen from a frame the body has called.
NoMissedParallelism ==
    pc = "body" => \A a \in strands :
        LogicallyParallel(a) /\ ~HiddenByCallee(a) => previousAccessInParallel(a)

\* What dictionary.h says previousAccessInParallel decides: whether the
\* previous access "is logically in parallel with the current strand".
ParallelismDecided ==
    pc = "body" => \A a \in strands :
        LogicallyParallel(a) => previousAccessInParallel(a)

\* A bag of the running stack which the code regards as in use.
LiveAt(i, b) ==
    \/ b = Sbag(i) /\ frames[i].Sbag_used
    \/ b = Iterbag(i) /\ frames[i].Iterbag_used
    \/ \E r \in Regs : b = Pbag(i, r) /\ frames[i].Pbags[r]

LiveBag(b) == \E i \in 1..depth : LiveAt(i, b)

\* The set of every access that shadow memory may still hold is in a bag of a
\* frame on the stack, marked used: no bag is deleted (set_sbag, set_iterbag,
\* clear_pbag_array) while an access can still be asked about.
NoDanglingBag == \A a \in strands : LiveBag(bagOf[a.ds])

\* ParentContin is the distance to the nearest frame below the frame that is
\* in a continuation, 0 if there is none: get_reducer_views relies on it to
\* find the frame that holds the views of the running strand.
ParentContinIsNearest ==
    \A i \in 1..depth :
        LET c == frames[i].ParentContin IN
        /\ c > 0 => c < i /\ frames[i - c].InContin # {}
        /\ \A j \in 1..(i - 1) :
              frames[j].InContin # {} => c > 0 /\ i - c >= j

\* An access that this step moves out of a P-bag was in a P-bag of the head,
\* is moved to the head's S-bag, and the P-bag is gone.
SerialisedBySync ==
    \A a \in strands :
        bagOf[a.ds].kind = "P" /\ bagOf'[a.ds].kind # "P"
          => /\ bagOf[a.ds].slot = depth /\ depth' = depth
             /\ bagOf'[a.ds] = Sbag(depth)
             /\ frames'[depth].Pbags[bagOf[a.ds].reg] = FALSE

\* Parallel accesses become serial only when the frame that owns their P-bag
\* executes a sync (or returns into a continuation that syncs): a return, a
\* loop iteration or a call never moves an access out of a P-bag.
OnlySyncSerialises == [][SerialisedBySync]_vars
=============================================================================
