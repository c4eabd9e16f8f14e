---------------------------- MODULE SPBagsProofs ----------------------------
(***************************************************************************)
(* Proofs about SPBags, for every value of the bounds, every set of sync   *)
(* region counts and every version width: first types and live bags, then  *)
(* that the bags say what the invocation tree says.                        *)
(***************************************************************************)
EXTENDS SPBags, TLAPS

(***************************************************************************)
(* The part of the inductive invariant that says how frames, nodes and the *)
(* program counter fit together.                                           *)
(***************************************************************************)
Shape ==
    /\ frames[1].type = "none"
    /\ pc = "between" => head.type = "loop"
    /\ \A i \in 1..depth :
          /\ frames[i].sds \in 1..nds
          /\ frames[i].type = "loop" => frames[i].ids \in 1..nds

USE BoundsAssumption DEF Slots, Regs, DS, Frames, Loop

\* The remainder of a version by the number of versions is a version.
LEMMA VersionWraps ==
    \A v \in 0..(VersionMod - 1) : inc_version(v) \in 0..(VersionMod - 1)
  BY DEF inc_version

\* A reset slot is a frame.
LEMMA ResetFrameType == ResetFrame \in FrameData
  BY DEF ResetFrame, FrameData

\* The fields of a frame.
LEMMA FrameFields ==
    ASSUME NEW f \in FrameData
    PROVE  /\ f.type \in {"none", "spawner", "detacher", "loop"}
           /\ f.Sbag_used \in BOOLEAN /\ f.Iterbag_used \in BOOLEAN
           /\ f.num_Pbags \in 0..MaxRegs /\ f.Pbags \in [Regs -> BOOLEAN]
           /\ f.sds \in 0..MaxDS /\ f.ids \in 0..MaxDS
           /\ f.version \in 0..(VersionMod - 1)
           /\ f.InContin \in SUBSET (0..MaxRegs) /\ f.ParentContin \in Nat
           /\ f.fid \in Frames /\ f.iter \in 0..MaxIters
  BY DEF FrameData

\* The frame at the head of the stack is a frame.
LEMMA HeadType == TypeOK => head \in FrameData
  BY DEF TypeOK, head

\* A pushed frame is a frame.
LEMMA NewFrameType ==
    ASSUME TypeOK, CanPush, NEW type \in {"spawner", "detacher", "loop"},
           NEW n \in 0..MaxRegs
    PROVE  NewFrame(type, n) \in FrameData
  <1>1. ParentContinOfChild \in Nat
    BY HeadType, FrameFields DEF ParentContinOfChild
  <1>2. nds + 1 \in 0..MaxDS /\ nds + 2 \in 0..MaxDS /\ frame_id + 1 \in 0..MaxFrames
    BY DEF TypeOK, CanPush
  <1>3. (IF type = "loop" THEN nds + 2 ELSE 0) \in 0..MaxDS
    BY <1>2
  <1>4. 0 \in 0..(VersionMod - 1) /\ 0 \in 0..MaxIters
    OBVIOUS
  <1>. QED
    BY <1>1, <1>2, <1>3, <1>4 DEF NewFrame, FrameData

\* Bags of a slot are bags.
LEMMA BagType ==
    \A i \in Slots, r \in Regs :
       Sbag(i) \in Bag /\ Iterbag(i) \in Bag /\ Pbag(i, r) \in Bag
  BY DEF Sbag, Iterbag, Pbag, Bag

\* Moving nodes between bags keeps every node in a bag or freed.
LEMMA CombineType ==
    ASSUME NEW b \in [DS -> Bag \cup {NoBag}], NEW Bs,
           NEW t \in Bag \cup {NoBag}
    PROVE  /\ combine(b, Bs, t) \in [DS -> Bag \cup {NoBag}]
           /\ delete(b, Bs) \in [DS -> Bag \cup {NoBag}]
  BY DEF combine, delete

\* start_new_function keeps the state well typed.
LEMMA PushType ==
    ASSUME TypeOK, CanPush, NEW type \in {"spawner", "detacher", "loop"},
           NEW n \in 0..MaxRegs, NEW r \in Regs, start_new_function(type, n, r),
           pc' \in {"body", "continue", "newloop", "between"}
    PROVE  TypeOK'
  <1>0. /\ depth' = depth + 1 /\ frame_id' = frame_id + 1
        /\ nds' = IF type = "loop" THEN nds + 2 ELSE nds + 1
    BY DEF start_new_function
  <1>1. depth' \in Slots /\ frame_id' \in Frames /\ nds' \in DS
    BY <1>0 DEF TypeOK, CanPush
  <1>2. frames' \in [Slots -> FrameData]
    BY NewFrameType DEF start_new_function, TypeOK, CanPush
  <1>3. bagOf' \in [DS -> Bag \cup {NoBag}]
    <2>1. depth + 1 \in Slots
      BY DEF TypeOK, CanPush
    <2>2. Sbag(depth + 1) \in Bag /\ Iterbag(depth + 1) \in Bag
      BY <2>1, BagType
    <2>. QED
      BY <2>2 DEF start_new_function, TypeOK
  <1>4. head.iter \in 0..MaxIters
    BY HeadType, FrameFields
  <1>5. \A i \in Slots : frames[i].fid \in Frames
    BY FrameFields DEF TypeOK
  <1>6. frame_id + 1 \in Frames /\ depth + 1 \in 0..MaxDepth
    BY DEF TypeOK, CanPush
  <1>7. [i \in Slots |-> IF i <= depth THEN frames[i].fid
                         ELSE IF i = depth + 1 THEN frame_id + 1 ELSE 0]
          \in [Slots -> Frames]
    BY <1>5, <1>6
  <1>8. tree' \in [Frames -> [path : [Slots -> Frames], level : 0..MaxDepth,
                              type : {"none", "spawner", "detacher", "loop"},
                              reg : Regs, iter : 0..MaxIters]]
    BY <1>4, <1>6, <1>7 DEF start_new_function, TypeOK
  <1>. QED
    BY <1>1, <1>2, <1>3, <1>8 DEF start_new_function, TypeOK

\* Updates of one frame.
LEMMA FrameUpdates ==
    ASSUME NEW f \in FrameData, NEW r \in Regs, NEW v \in BOOLEAN, NEW u \in BOOLEAN,
           NEW C \in SUBSET (0..MaxRegs)
    PROVE  /\ [f EXCEPT !.Pbags[r] = v] \in FrameData
           /\ [f EXCEPT !.Sbag_used = u, !.Pbags[r] = v] \in FrameData
           /\ [f EXCEPT !.InContin = C] \in FrameData
           /\ [f EXCEPT !.Sbag_used = u, !.Pbags[r] = v, !.InContin = C] \in FrameData
           /\ [f EXCEPT !.Sbag_used = u, !.Iterbag_used = v] \in FrameData
  BY DEF FrameData

\* What the hooks leave in the stack of frames is a stack of frames.
LEMMA StackUpdates ==
    ASSUME TypeOK, NEW r \in Regs, NEW v \in BOOLEAN, NEW u \in BOOLEAN,
           NEW C \in SUBSET (0..MaxRegs)
    PROVE  /\ depth > 1 =>
                /\ [frames EXCEPT ![depth - 1].Pbags[r] = v, ![depth] = ResetFrame]
                      \in [Slots -> FrameData]
                /\ [frames EXCEPT ![depth - 1].Sbag_used = u,
                                  ![depth - 1].Pbags[r] = v, ![depth] = ResetFrame]
                      \in [Slots -> FrameData]
           /\ [frames EXCEPT ![depth].Sbag_used = u, ![depth].Pbags[r] = v,
                             ![depth].InContin = C] \in [Slots -> FrameData]
           /\ [frames EXCEPT ![depth].Sbag_used = u, ![depth].Iterbag_used = v]
                 \in [Slots -> FrameData]
  BY FrameUpdates, ResetFrameType, ZenonT(40) DEF TypeOK

\* Setting InContin of the head leaves the frames well typed.
LEMMA ContinUpdate ==
    ASSUME TypeOK, NEW C \in SUBSET (0..MaxRegs)
    PROVE  [frames EXCEPT ![depth].InContin = C] \in [Slots -> FrameData]
  <1>1. 0 \in Regs /\ frames[depth] \in FrameData
    BY DEF TypeOK
  <1>2. [frames[depth] EXCEPT !.InContin = C] \in FrameData
    BY <1>1, FrameUpdates
  <1>. QED
    BY <1>2 DEF TypeOK

\* Every step keeps the state well typed.
LEMMA TypeStep == TypeOK /\ Shape /\ [Next]_vars => TypeOK'
<1>. SUFFICES ASSUME TypeOK, Shape, [Next]_vars PROVE TypeOK'
  OBVIOUS
<1>t. /\ head \in FrameData /\ depth \in Slots /\ frames \in [Slots -> FrameData]
      /\ bagOf \in [DS -> Bag \cup {NoBag}] /\ sync_reg \in Regs
      /\ frame_id \in Frames /\ joined \subseteq Frames
  BY HeadType DEF TypeOK
<1>j. \A r : joined \cup Joining(r) \subseteq Frames
  <2>. TAKE r
  <2>1. Joining(r) \subseteq 1..frame_id
    BY DEF Joining
  <2>2. 1..frame_id \subseteq Frames
    BY <1>t
  <2>. QED
    BY <2>1, <2>2, <1>t
<1>f. /\ head.Sbag_used \in BOOLEAN /\ head.Iterbag_used \in BOOLEAN
      /\ head.Pbags \in [Regs -> BOOLEAN] /\ head.InContin \in SUBSET (0..MaxRegs)
      /\ head.fid \in Frames /\ head.sds \in 0..MaxDS /\ head.ids \in 0..MaxDS
      /\ head.version \in 0..(VersionMod - 1) /\ head.iter \in 0..MaxIters
      /\ HasPbags(head) \in BOOLEAN
  BY <1>t, FrameFields DEF HasPbags
<1>g. head.type # "none" => depth > 1 /\ depth - 1 \in Slots
  <2>1. frames[1].type = "none"
    BY DEF Shape
  <2>2. head.type # "none" => depth # 1
    BY <2>1 DEF head
  <2>. QED
    BY <2>2, <1>t
<1>r. tree[head.fid].reg \in Regs
  BY <1>f DEF TypeOK
<1>1. ASSUME NEW n \in SyncRegCounts, do_enter(n) PROVE TypeOK'
  <2>1. n \in 0..MaxRegs /\ 0 \in Regs
    OBVIOUS
  <2>. QED
    BY <1>1, <2>1, PushType DEF do_enter
<1>2. CASE leave_cilk_function
  <2>1. /\ depth > 1 /\ depth' = depth - 1 /\ head.type = "spawner"
        /\ UNCHANGED <<nds, frame_id, pc, sync_reg, tree, joined, strands>>
        /\ merge_from_call(0)
    BY <1>2 DEF leave_cilk_function, exit_function
  <2>2. 0 \in Regs /\ depth - 1 \in Slots /\ frames[depth - 1] \in FrameData
    BY <2>1, <1>t
  <2>3. /\ frames[depth - 1].Sbag_used \in BOOLEAN
        /\ frames[depth - 1].Pbags[0] \in BOOLEAN
    BY <2>2, FrameFields
  <2>4. frames' \in [Slots -> FrameData]
    <3>1. (frames[depth - 1].Sbag_used \/ head.Sbag_used) \in BOOLEAN
      BY <2>3, <1>f
    <3>2. (frames[depth - 1].Pbags[0] \/ HasPbags(head)) \in BOOLEAN
      BY <2>3, <1>f
    <3>. QED
      BY <3>1, <3>2, <2>1, <2>2, StackUpdates DEF merge_from_call
  <2>5. Sbag(depth - 1) \in Bag /\ Pbag(depth - 1, 0) \in Bag
    BY <2>2, BagType
  <2>6. bagOf' \in [DS -> Bag \cup {NoBag}]
    <3>. DEFINE orphans == BagsKept(depth) \ {Sbag(depth)}
                b1 == combine(bagOf, BagsKept(depth) \ orphans, Sbag(depth - 1))
                b2 == combine(b1, orphans, Pbag(depth - 1, 0))
    <3>1. b1 \in [DS -> Bag \cup {NoBag}]
      BY <2>5, <1>t, CombineType
    <3>2. b2 \in [DS -> Bag \cup {NoBag}]
      BY <2>5, <3>1, CombineType
    <3>3. bagOf' = delete(b2, BagsOfSlot(depth))
      BY <2>1 DEF merge_from_call
    <3>. QED
      BY <3>2, <3>3, CombineType
  <2>. QED
    BY <2>1, <2>2, <2>4, <2>6 DEF TypeOK
<1>3. ASSUME NEW n \in SyncRegCounts, NEW r \in Regs, do_task(n, r) PROVE TypeOK'
  <2>1. n \in 0..MaxRegs
    OBVIOUS
  <2>. QED
    BY <1>3, <2>1, PushType DEF do_task
<1>4. CASE return_from_detach
  <2>1. /\ depth > 1 /\ depth - 1 \in Slots /\ depth' = depth - 1
        /\ pc' = "continue" /\ sync_reg' = tree[head.fid].reg
        /\ UNCHANGED <<nds, frame_id, tree, joined, strands>>
        /\ merge_from_detach(tree[head.fid].reg)
    BY <1>4, <1>g DEF return_from_detach, exit_function
  <2>2. frames' \in [Slots -> FrameData]
    BY <2>1, <1>r, StackUpdates DEF merge_from_detach
  <2>3. Pbag(depth - 1, tree[head.fid].reg) \in Bag
    BY <2>1, <1>r, <1>g, BagType
  <2>4. bagOf' \in [DS -> Bag \cup {NoBag}]
    <3>. DEFINE b1 == combine(bagOf, BagsKept(depth),
                              Pbag(depth - 1, tree[head.fid].reg))
    <3>1. b1 \in [DS -> Bag \cup {NoBag}]
      BY <2>3, <1>t, CombineType
    <3>2. bagOf' = delete(b1, BagsOfSlot(depth))
      BY <2>1 DEF merge_from_detach
    <3>. QED
      BY <3>1, <3>2, CombineType
  <2>. QED
    BY <2>1, <2>2, <2>4, <1>r DEF TypeOK
<1>5. CASE do_detach_continue
  <2>1. sync_reg + 1 \in 0..MaxRegs
    BY <1>t
  <2>2. frames[depth].InContin \cup {sync_reg + 1} \in SUBSET (0..MaxRegs)
    BY <2>1, <1>f DEF head
  <2>3. frames' \in [Slots -> FrameData]
    BY <1>5, <2>2, ContinUpdate DEF do_detach_continue
  <2>. QED
    BY <1>5, <2>3 DEF do_detach_continue, TypeOK
<1>6. CASE do_detach_unwind
  <2>1. sync_reg + 1 \in 0..MaxRegs
    BY <1>t
  <2>2. /\ head.InContin \cup {sync_reg + 1} \in SUBSET (0..MaxRegs)
        /\ (head.Sbag_used \/ head.Pbags[sync_reg]) \in BOOLEAN
    BY <2>1, <1>f
  <2>3. frames' \in [Slots -> FrameData]
    <3>. DEFINE new == [head EXCEPT
                          !.Sbag_used = head.Sbag_used \/ head.Pbags[sync_reg],
                          !.Pbags[sync_reg] = FALSE,
                          !.InContin = head.InContin \cup {sync_reg + 1}]
    <3>1. new \in FrameData
      BY <1>t, <2>2, FrameUpdates
    <3>2. frames' = [frames EXCEPT ![depth] = new]
      BY <1>6 DEF do_detach_unwind
    <3>. HIDE DEF new
    <3>. QED
      BY <1>t, <3>1, <3>2
  <2>4. bagOf' \in [DS -> Bag \cup {NoBag}]
    BY <1>6, <1>t, BagType, CombineType DEF do_detach_unwind, complete_sync
  <2>5. joined' \subseteq Frames
    BY <1>6, <1>j DEF do_detach_unwind
  <2>. QED
    BY <1>6, <2>3, <2>4, <2>5 DEF do_detach_unwind, TypeOK
<1>7. ASSUME NEW r \in Regs, do_sync(r) PROVE TypeOK'
  <2>1. /\ frames[depth].InContin \ {r + 1} \in SUBSET (0..MaxRegs)
        /\ (frames[depth].Sbag_used \/ head.Pbags[r]) \in BOOLEAN
    BY <1>f DEF head
  <2>2. frames' \in [Slots -> FrameData]
    BY <1>7, <1>t, <2>1, StackUpdates DEF do_sync
  <2>3. bagOf' \in [DS -> Bag \cup {NoBag}]
    BY <1>7, <1>t, BagType, CombineType DEF do_sync, complete_sync
  <2>4. joined' \subseteq Frames
    BY <1>7, <1>j DEF do_sync
  <2>. QED
    BY <1>7, <2>2, <2>3, <2>4 DEF do_sync, TypeOK
<1>8. CASE do_loop_begin
  BY <1>8 DEF do_loop_begin, TypeOK
<1>9. ASSUME NEW n \in SyncRegCounts, NEW r \in Regs, do_loop_iteration_first(n, r)
      PROVE  TypeOK'
  <2>1. (IF n > 0 THEN n ELSE 1) \in 0..MaxRegs
    OBVIOUS
  <2>2. /\ start_new_function("loop", IF n > 0 THEN n ELSE 1, r)
        /\ pc' = "body" /\ CanPush
    BY <1>9 DEF do_loop_iteration_first
  <2>. QED
    BY <2>1, <2>2, PushType
<1>10. CASE do_loop_iteration_begin
  <2>1. frames[depth].InContin \cup {Loop} \in SUBSET (0..MaxRegs)
    <3>1. Loop \in 0..MaxRegs
      OBVIOUS
    <3>. QED
      BY <3>1, <1>f DEF head
  <2>2. frames' \in [Slots -> FrameData]
    BY <1>10, <2>1, ContinUpdate DEF do_loop_iteration_begin
  <2>. QED
    BY <1>10, <2>2 DEF do_loop_iteration_begin, TypeOK
<1>11. CASE do_loop_iteration_end
  <2>. DEFINE newS == head.Sbag_used
              version == inc_version(head.version)
              newI == version = 0 /\ head.Iterbag_used
              b1 == IF newS THEN combine(bagOf, {Sbag(depth)}, Pbag(depth, 0)) ELSE bagOf
              b2 == IF newI THEN combine(b1, {Iterbag(depth)}, Pbag(depth, 0)) ELSE b1
              sds == IF newS THEN nds + 1 ELSE head.sds
              ids == IF newI THEN nds + 2 ELSE head.ids
              new == [head EXCEPT
                        !.InContin = head.InContin \ {Loop}, !.Pbags[0] = TRUE,
                        !.Sbag_used = FALSE, !.sds = sds,
                        !.Iterbag_used = head.Iterbag_used /\ ~newI, !.ids = ids,
                        !.version = version, !.iter = head.iter + 1]
  <2>0. nds + 2 <= MaxDS /\ head.iter < MaxIters /\ nds \in DS
    BY <1>11 DEF do_loop_iteration_end, TypeOK
  <2>1. /\ nds + 2 <= MaxDS /\ head.iter < MaxIters
        /\ bagOf' = [b2 EXCEPT ![sds] = Sbag(depth), ![ids] = Iterbag(depth)]
        /\ nds' = IF newS \/ newI THEN nds + 2 ELSE nds
        /\ frames' = [frames EXCEPT ![depth] = new]
        /\ pc' = "between"
        /\ UNCHANGED <<depth, frame_id, sync_reg, tree, joined, strands>>
    BY <1>11 DEF do_loop_iteration_end
  <2>2. nds' \in DS /\ sds \in 0..MaxDS /\ ids \in 0..MaxDS
    <3>1. nds + 1 \in DS /\ nds + 2 \in DS /\ nds \in DS
      BY <2>0
    <3>2. nds' = IF newS \/ newI THEN nds + 2 ELSE nds
      BY <2>1
    <3>. QED
      BY <3>1, <3>2, <1>f
  <2>3. version \in 0..(VersionMod - 1)
    BY <1>f, VersionWraps
  <2>4. Sbag(depth) \in Bag /\ Iterbag(depth) \in Bag /\ Pbag(depth, 0) \in Bag
    BY <1>t, BagType
  <2>5. b1 \in [DS -> Bag \cup {NoBag}]
    BY <1>t, <2>4, CombineType
  <2>6. b2 \in [DS -> Bag \cup {NoBag}]
    BY <2>4, <2>5, CombineType
  <2>. HIDE DEF b1, b2, version, sds, ids
  <2>7. bagOf' \in [DS -> Bag \cup {NoBag}]
    BY <2>1, <2>4, <2>6
  <2>8. head.iter + 1 \in 0..MaxIters /\ head.InContin \ {Loop} \in SUBSET (0..MaxRegs)
    BY <2>0, <1>f, SMTT(30)
  <2>9. new \in FrameData
    BY <2>2, <2>3, <2>8, <1>t DEF FrameData
  <2>. HIDE DEF new
  <2>10. frames' \in [Slots -> FrameData]
    BY <2>1, <2>9, <1>t
  <2>. QED
    BY <2>1, <2>2, <2>7, <2>10 DEF TypeOK
<1>12. CASE do_loop_end
  <2>1. /\ depth > 1 /\ depth - 1 \in Slots /\ depth' = depth - 1 /\ pc' = "body"
        /\ UNCHANGED <<nds, frame_id, sync_reg, tree, joined, strands>>
    BY <1>12, <1>g DEF do_loop_end, exit_function, Shape
  <2>2. frames' \in [Slots -> FrameData]
    BY <1>12, <2>1, <1>r, StackUpdates DEF do_loop_end
  <2>3. Pbag(depth - 1, tree[head.fid].reg) \in Bag
    BY <2>1, <1>r, <1>g, BagType
  <2>4. bagOf' \in [DS -> Bag \cup {NoBag}]
    <3>. DEFINE kept == LoopBagsKept(depth)
                b1 == combine(bagOf, kept, Pbag(depth - 1, tree[head.fid].reg))
    <3>1. b1 \in [DS -> Bag \cup {NoBag}]
      BY <2>3, <1>t, CombineType
    <3>2. bagOf' = delete(b1, BagsOfSlot(depth))
      BY <1>12 DEF do_loop_end
    <3>. QED
      BY <3>1, <3>2, CombineType
  <2>. QED
    BY <2>1, <2>2, <2>4 DEF TypeOK
<1>13. CASE record_access
  <2>1. frames' \in [Slots -> FrameData]
    <3>1. /\ (frames[depth].Sbag_used \/ head.type # "loop") \in BOOLEAN
          /\ (frames[depth].Iterbag_used \/ head.type = "loop") \in BOOLEAN
      BY <1>f DEF head
    <3>2. 0 \in Regs
      OBVIOUS
    <3>. QED
      BY <1>13, <3>1, <3>2, StackUpdates DEF record_access, getSbagForAccess
  <2>2. CurrentAccess \in MemoryAccess
    <3>1. /\ head.sds \in 1..nds
          /\ head.type = "loop" => head.ids \in 1..nds
      BY <1>t DEF Shape, head
    <3>3. nds \in DS
      BY DEF TypeOK
    <3>2. 0 \in 0..(VersionMod - 1)
      OBVIOUS
    <3>. QED
      BY <3>1, <3>2, <3>3, <1>f DEF CurrentAccess, MemoryAccess
  <2>. QED
    BY <1>13, <2>1, <2>2 DEF record_access, TypeOK
<1>14. CASE UNCHANGED vars
  BY <1>14 DEF vars, TypeOK
<1>. QED
  BY <1>1, <1>2, <1>3, <1>4, <1>5, <1>6, <1>7, <1>8, <1>9, <1>10, <1>11, <1>12,
     <1>13, <1>14 DEF Next

(***************************************************************************)
(* What each kind of step does to the frames it leaves on the stack: a     *)
(* push, a pop, or a change of the head alone.                             *)
(***************************************************************************)
Pop == leave_cilk_function \/ return_from_detach \/ do_loop_end

HeadOnly ==
    \/ do_detach_continue \/ do_detach_unwind \/ (\E r \in Regs : do_sync(r))
    \/ do_loop_iteration_begin \/ record_access

Push ==
    \E type \in {"spawner", "detacher", "loop"}, n \in 0..MaxRegs, r \in Regs :
        CanPush /\ start_new_function(type, n, r) /\ pc' = "body"

\* Every step is of one of these kinds.
LEMMA StepKinds ==
    ASSUME Next
    PROVE  Push \/ Pop \/ HeadOnly \/ do_loop_begin \/ do_loop_iteration_end
<1>1. ASSUME NEW n \in SyncRegCounts, do_enter(n) PROVE Push
  <2>1. n \in 0..MaxRegs /\ 0 \in Regs
    OBVIOUS
  <2>. QED
    BY <1>1, <2>1 DEF do_enter, Push
<1>2. ASSUME NEW n \in SyncRegCounts, NEW r \in Regs, do_task(n, r) PROVE Push
  <2>1. n \in 0..MaxRegs
    OBVIOUS
  <2>. QED
    BY <1>2, <2>1 DEF do_task, Push
<1>3. ASSUME NEW n \in SyncRegCounts, NEW r \in Regs, do_loop_iteration_first(n, r)
      PROVE  Push
  <2>1. (IF n > 0 THEN n ELSE 1) \in 0..MaxRegs
    OBVIOUS
  <2>2. /\ start_new_function("loop", IF n > 0 THEN n ELSE 1, r)
        /\ pc' = "body" /\ CanPush
    BY <1>3 DEF do_loop_iteration_first
  <2>. QED
    BY <2>1, <2>2 DEF Push
<1>. QED
  BY <1>1, <1>2, <1>3 DEF Next, Pop, HeadOnly

\* A pushed frame has fresh nodes; the frames under it stay as they are.
LEMMA PushFacts ==
    ASSUME TypeOK, NEW type \in {"spawner", "detacher", "loop"}, NEW n \in 0..MaxRegs,
           NEW r \in Regs, CanPush, start_new_function(type, n, r)
    PROVE  /\ depth' = depth + 1 /\ depth + 1 \in Slots
           /\ nds' = IF type = "loop" THEN nds + 2 ELSE nds + 1
           /\ \A i \in 1..depth : frames'[i] = frames[i]
           /\ frames'[depth + 1] = NewFrame(type, n)
<1>1. depth + 1 \in Slots
  BY DEF TypeOK, CanPush
<1>2. /\ depth' = depth + 1
      /\ nds' = IF type = "loop" THEN nds + 2 ELSE nds + 1
      /\ frames' = [frames EXCEPT ![depth + 1] = NewFrame(type, n)]
  BY DEF start_new_function
<1>3. frames \in [Slots -> FrameData] /\ depth \in Slots
  BY DEF TypeOK
<1>4. \A i \in 1..depth : i \in Slots /\ i # depth + 1
  BY <1>3
<1>. QED
  BY <1>1, <1>2, <1>3, <1>4

\* A pop leaves the frames under the head as they are, but for their marks.
LEMMA PopFacts ==
    ASSUME TypeOK, Shape, Pop
    PROVE  /\ depth > 1 /\ depth' = depth - 1 /\ nds' = nds /\ pc' # "between"
           /\ \A i \in 1..depth' :
                 /\ frames'[i].type = frames[i].type
                 /\ frames'[i].sds = frames[i].sds
                 /\ frames'[i].ids = frames[i].ids
                 /\ frames'[i].InContin = frames[i].InContin
                 /\ frames'[i].ParentContin = frames[i].ParentContin
<1>1. depth \in Slots /\ frames \in [Slots -> FrameData]
  BY DEF TypeOK
<1>2. /\ depth' = depth - 1 /\ nds' = nds /\ pc' # "between"
      /\ depth > 1 \/ head.type # "none"
  BY DEF Pop, leave_cilk_function, return_from_detach, do_loop_end, exit_function,
         Shape
<1>3. depth > 1
  BY <1>1, <1>2 DEF Shape, head
<1>4. \A i \in 1..(depth - 1) : i \in Slots /\ i # depth /\ frames[i] \in FrameData
  BY <1>1
<1>5. ASSUME NEW i \in 1..(depth - 1)
      PROVE  /\ frames'[i].type = frames[i].type
             /\ frames'[i].sds = frames[i].sds
             /\ frames'[i].ids = frames[i].ids
             /\ frames'[i].InContin = frames[i].InContin
             /\ frames'[i].ParentContin = frames[i].ParentContin
  <2>1. CASE leave_cilk_function
    BY <1>1, <1>4, <2>1, ZenonT(40) DEF leave_cilk_function, merge_from_call, FrameData
  <2>2. CASE return_from_detach
    BY <1>1, <1>4, <2>2 DEF return_from_detach, merge_from_detach, FrameData
  <2>3. CASE do_loop_end
    BY <1>1, <1>4, <2>3 DEF do_loop_end, FrameData
  <2>. QED
    BY <2>1, <2>2, <2>3 DEF Pop
<1>. QED
  BY <1>2, <1>3, <1>5

\* The other steps change the head alone, and only its marks.
LEMMA HeadFacts ==
    ASSUME TypeOK, Shape, HeadOnly
    PROVE  /\ depth' = depth /\ nds' = nds /\ pc' # "between"
           /\ \A i \in Slots : i # depth => frames'[i] = frames[i]
           /\ frames'[depth].type = frames[depth].type
           /\ frames'[depth].sds = frames[depth].sds
           /\ frames'[depth].ids = frames[depth].ids
           /\ frames'[depth].ParentContin = frames[depth].ParentContin
<1>1. depth \in Slots /\ frames \in [Slots -> FrameData] /\ frames[depth] \in FrameData
  BY DEF TypeOK
<1>2. CASE do_detach_continue
  BY <1>1, <1>2 DEF do_detach_continue, FrameData
<1>3. CASE do_detach_unwind
  BY <1>1, <1>3 DEF do_detach_unwind, FrameData, head
<1>4. CASE \E r \in Regs : do_sync(r)
  BY <1>1, <1>4 DEF do_sync, FrameData
<1>5. CASE do_loop_iteration_begin
  BY <1>1, <1>5 DEF do_loop_iteration_begin, FrameData
<1>6. CASE record_access
  BY <1>1, <1>6 DEF record_access, getSbagForAccess, FrameData
<1>. QED
  BY <1>2, <1>3, <1>4, <1>5, <1>6 DEF HeadOnly

\* The end of an iteration gives the loop frame new nodes at most.
LEMMA IterationFacts ==
    ASSUME TypeOK, Shape, do_loop_iteration_end
    PROVE  /\ depth' = depth /\ head.type = "loop" /\ nds' \in Nat /\ nds <= nds'
           /\ \A i \in Slots : i # depth => frames'[i] = frames[i]
           /\ frames'[depth].type = "loop"
           /\ frames'[depth].sds \in 1..nds' /\ frames'[depth].ids \in 1..nds'
           /\ frames'[depth].ParentContin = frames[depth].ParentContin
<1>. DEFINE newI == inc_version(head.version) = 0 /\ head.Iterbag_used
            sds == IF head.Sbag_used THEN nds + 1 ELSE head.sds
            ids == IF newI THEN nds + 2 ELSE head.ids
            new == [head EXCEPT
                        !.InContin = head.InContin \ {Loop}, !.Pbags[0] = TRUE,
                        !.Sbag_used = FALSE, !.sds = sds,
                        !.Iterbag_used = head.Iterbag_used /\ ~newI, !.ids = ids,
                        !.version = inc_version(head.version),
                        !.iter = head.iter + 1]
<1>1. depth \in Slots /\ frames \in [Slots -> FrameData] /\ head \in FrameData
  BY HeadType DEF TypeOK
<1>2. /\ frames' = [frames EXCEPT ![depth] = new] /\ depth' = depth
      /\ nds' = IF head.Sbag_used \/ newI THEN nds + 2 ELSE nds
      /\ head.type = "loop"
  BY DEF do_loop_iteration_end
<1>3. nds \in 1..MaxDS /\ head.sds \in 1..nds /\ head.ids \in 1..nds
  <2>1. depth \in 1..depth /\ head = frames[depth]
    BY <1>1 DEF head
  <2>2. nds \in 1..MaxDS
    BY DEF TypeOK
  <2>3. head.sds \in 1..nds /\ (head.type = "loop" => head.ids \in 1..nds)
    BY <2>1 DEF Shape
  <2>. QED
    BY <2>2, <2>3, <1>2
<1>4. nds' \in Nat /\ nds <= nds' /\ sds \in 1..nds' /\ ids \in 1..nds'
  <2>. HIDE DEF newI
  <2>1. nds' = IF head.Sbag_used \/ newI THEN nds + 2 ELSE nds
    BY <1>2
  <2>. QED
    BY <2>1, <1>3
<1>. HIDE DEF sds, ids, newI
<1>5. /\ new.type = head.type /\ new.sds = sds /\ new.ids = ids
      /\ new.ParentContin = head.ParentContin
  BY <1>1 DEF FrameData
<1>. HIDE DEF new
<1>6. frames'[depth] = new /\ \A i \in Slots : i # depth => frames'[i] = frames[i]
  BY <1>1, <1>2
<1>. QED
  BY <1>2, <1>4, <1>5, <1>6 DEF head

\* Every step keeps frames, nodes and program counter in shape.
LEMMA ShapeStep == TypeOK /\ Shape /\ [Next]_vars => Shape'
<1>. SUFFICES ASSUME TypeOK, Shape, [Next]_vars PROVE Shape'
  OBVIOUS
<1>t. depth \in Slots /\ nds \in 1..MaxDS
  BY DEF TypeOK
<1>s. /\ frames[1].type = "none"
      /\ \A i \in 1..depth : /\ frames[i].sds \in 1..nds
                             /\ frames[i].type = "loop" => frames[i].ids \in 1..nds
  BY DEF Shape
<1>1. CASE Push
  <2>1. PICK type \in {"spawner", "detacher", "loop"}, n \in 0..MaxRegs, r \in Regs :
           CanPush /\ start_new_function(type, n, r) /\ pc' = "body"
    BY <1>1 DEF Push
  <2>2. /\ depth' = depth + 1
        /\ nds' = IF type = "loop" THEN nds + 2 ELSE nds + 1
        /\ \A i \in 1..depth : frames'[i] = frames[i]
        /\ frames'[depth + 1] = NewFrame(type, n)
    BY <2>1, PushFacts
  <2>3. /\ frames'[depth + 1].type = type /\ frames'[depth + 1].sds = nds + 1
        /\ frames'[depth + 1].ids = IF type = "loop" THEN nds + 2 ELSE 0
    BY <2>2 DEF NewFrame
  <2>4. ASSUME NEW i \in 1..depth'
        PROVE  /\ frames'[i].sds \in 1..nds'
               /\ frames'[i].type = "loop" => frames'[i].ids \in 1..nds'
    <3>1. CASE i \in 1..depth
      BY <3>1, <2>2, <1>s, <1>t
    <3>2. CASE i = depth + 1
      BY <3>2, <2>2, <2>3, <1>t
    <3>. QED
      BY <3>1, <3>2, <2>2, <1>t
  <2>5. frames'[1].type = "none"
    BY <2>2, <1>s, <1>t
  <2>. QED
    BY <2>1, <2>4, <2>5 DEF Shape
<1>2. CASE Pop
  <2>1. /\ depth > 1 /\ depth' = depth - 1 /\ nds' = nds /\ pc' # "between"
        /\ \A i \in 1..depth' : /\ frames'[i].type = frames[i].type
                                /\ frames'[i].sds = frames[i].sds
                                /\ frames'[i].ids = frames[i].ids
    BY <1>2, PopFacts
  <2>2. 1 \in 1..depth' /\ \A i \in 1..depth' : i \in 1..depth
    BY <2>1, <1>t
  <2>. QED
    BY <2>1, <2>2, <1>s DEF Shape
<1>3. CASE HeadOnly
  <2>1. /\ depth' = depth /\ nds' = nds /\ pc' # "between"
        /\ \A i \in Slots : /\ frames'[i].type = frames[i].type
                            /\ frames'[i].sds = frames[i].sds
                            /\ frames'[i].ids = frames[i].ids
    BY <1>3, HeadFacts
  <2>2. 1 \in Slots /\ \A i \in 1..depth : i \in Slots
    BY <1>t
  <2>. QED
    BY <2>1, <2>2, <1>s DEF Shape
<1>4. CASE do_loop_begin
  <2>1. UNCHANGED <<depth, frames, nds>> /\ pc' = "newloop"
    BY <1>4 DEF do_loop_begin
  <2>. QED
    BY <2>1, <1>s DEF Shape
<1>5. CASE do_loop_iteration_end
  <2>1. /\ depth' = depth /\ head.type = "loop" /\ nds' \in Nat /\ nds <= nds'
        /\ \A i \in Slots : i # depth => frames'[i] = frames[i]
        /\ frames'[depth].type = "loop"
        /\ frames'[depth].sds \in 1..nds' /\ frames'[depth].ids \in 1..nds'
    BY <1>5, IterationFacts
  <2>2. depth # 1
    BY <2>1, <1>s DEF head
  <2>3. ASSUME NEW i \in 1..depth
        PROVE  /\ frames'[i].sds \in 1..nds'
               /\ frames'[i].type = "loop" => frames'[i].ids \in 1..nds'
    <3>1. CASE i # depth
      <4>1. frames'[i] = frames[i]
        BY <3>1, <2>1, <1>t
      <4>2. \A x \in 1..nds : x \in 1..nds'
        BY <2>1, <1>t
      <4>. QED
        BY <4>1, <4>2, <1>s
    <3>2. CASE i = depth
      BY <3>2, <2>1
    <3>. QED
      BY <3>1, <3>2
  <2>4. frames'[1].type = "none"
    BY <2>1, <2>2, <1>s
  <2>. QED
    BY <2>1, <2>3, <2>4 DEF Shape, head
<1>6. CASE UNCHANGED vars
  BY <1>6 DEF vars, Shape, head
<1>. QED
  BY <1>1, <1>2, <1>3, <1>4, <1>5, <1>6, StepKinds

\* The state CilkSanImpl_t::init leaves is well typed and in shape.
LEMMA InitFacts == Init => TypeOK /\ Shape
<1>. SUFFICES ASSUME Init PROVE TypeOK /\ Shape
  OBVIOUS
<1>1. [ResetFrame EXCEPT !.sds = 1] \in FrameData
  <2>1. 1 \in 0..MaxDS
    OBVIOUS
  <2>2. \A f \in FrameData : [f EXCEPT !.sds = 1] \in FrameData
    BY <2>1 DEF FrameData
  <2>. QED
    BY <2>2, ResetFrameType
<1>2. frames \in [Slots -> FrameData]
  BY <1>1, ResetFrameType DEF Init
<1>3. bagOf \in [DS -> Bag \cup {NoBag}]
  <2>1. Sbag(1) \in Bag
    BY BagType
  <2>. QED
    BY <2>1 DEF Init
<1>4. tree \in [Frames -> [path : [Slots -> Frames], level : 0..MaxDepth,
                           type : {"none", "spawner", "detacher", "loop"},
                           reg : Regs, iter : 0..MaxIters]]
  BY DEF Init
<1>5. TypeOK
  <2>1. depth \in Slots /\ nds \in DS /\ frame_id \in Frames /\ sync_reg \in Regs
    BY DEF Init
  <2>2. pc = "body" /\ joined = {} /\ strands = {}
    BY DEF Init
  <2>. QED
    BY <1>2, <1>3, <1>4, <2>1, <2>2 DEF TypeOK
<1>6. frames[1] = [ResetFrame EXCEPT !.sds = 1]
  BY DEF Init
<1>7. frames[1].type = "none" /\ frames[1].sds = 1
  BY <1>6 DEF ResetFrame
<1>8. Shape
  BY <1>7 DEF Init, Shape
<1>. QED
  BY <1>5, <1>8

\* The inductive invariant behind type correctness.
LEMMA ShapeInvariant == Spec => [](TypeOK /\ Shape)
<1>1. Init => TypeOK /\ Shape
  BY InitFacts
<1>2. (TypeOK /\ Shape) /\ [Next]_vars => (TypeOK /\ Shape)'
  BY TypeStep, ShapeStep
<1>. QED
  BY <1>1, <1>2, PTL DEF Spec

\* The engine's state stays well typed in every behaviour, whatever the
\* bounds: no hook of cilksan.cpp leaves a frame, a bag or a node outside its
\* type.
THEOREM TypeCorrect == Spec => []TypeOK
  BY ShapeInvariant, PTL

\* The initial frame is in no continuation and has none below it.
LEMMA ContinInit == Init => ParentContinIsNearest
<1>. SUFFICES ASSUME Init PROVE ParentContinIsNearest
  OBVIOUS
<1>1. depth = 1 /\ frames[1] = [ResetFrame EXCEPT !.sds = 1]
  BY DEF Init
<1>2. frames[1].ParentContin = 0
  BY <1>1 DEF ResetFrame
<1>3. \A i \in 1..depth : i = 1
  BY <1>1
<1>4. \A i \in 1..depth : frames[i].ParentContin = 0 /\ 1..(i - 1) = {}
  BY <1>2, <1>3
<1>. QED
  BY <1>4 DEF ParentContinIsNearest

\* Every step keeps ParentContin the distance to the nearest continuation.
LEMMA ContinStep ==
    TypeOK /\ Shape /\ ParentContinIsNearest /\ [Next]_vars => ParentContinIsNearest'
<1>. SUFFICES ASSUME TypeOK, Shape, ParentContinIsNearest, [Next]_vars
              PROVE  ParentContinIsNearest'
  OBVIOUS
<1>t. /\ depth \in Slots /\ \A i \in 1..depth : i \in Slots
      /\ \A i \in Slots : frames[i] \in FrameData
  <2>1. depth \in Slots /\ frames \in [Slots -> FrameData]
    BY DEF TypeOK
  <2>. QED
    BY <2>1
<1>n. \A i \in Slots : frames[i].ParentContin \in Nat
  BY <1>t, FrameFields
<1>c. \A i \in 1..depth :
         /\ frames[i].ParentContin > 0 =>
              /\ frames[i].ParentContin < i
              /\ frames[i - frames[i].ParentContin].InContin # {}
         /\ \A j \in 1..(i - 1) :
              frames[j].InContin # {} =>
                frames[i].ParentContin > 0 /\ i - frames[i].ParentContin >= j
  BY DEF ParentContinIsNearest
\* It is enough that the frames below the new head keep their marks.
<1>k. ASSUME NEW d \in Slots, d <= depth, depth' = d,
             \A i \in 1..d : frames'[i].ParentContin = frames[i].ParentContin,
             \A i \in 1..(d - 1) : frames'[i].InContin = frames[i].InContin
      PROVE  ParentContinIsNearest'
  <2>1. ASSUME NEW i \in 1..d, frames[i].ParentContin > 0
        PROVE  /\ frames[i].ParentContin < i
               /\ frames'[i - frames[i].ParentContin].InContin # {}
    <3>1. /\ frames[i].ParentContin < i
          /\ frames[i - frames[i].ParentContin].InContin # {}
      <4>1. i \in 1..depth
        BY <1>k, <1>t
      <4>. QED
        BY <4>1, <2>1, <1>c
    <3>2. i - frames[i].ParentContin \in 1..(d - 1)
      BY <2>1, <3>1, <1>t, <1>n
    <3>. QED
      BY <3>1, <3>2, <1>k
  <2>2. ASSUME NEW i \in 1..d, NEW j \in 1..(i - 1), frames'[j].InContin # {}
        PROVE  frames[i].ParentContin > 0 /\ i - frames[i].ParentContin >= j
    <3>1. j \in 1..(d - 1) /\ i \in 1..depth
      BY <1>k, <1>t
    <3>. QED
      BY <3>1, <2>2, <1>k, <1>c
  <2>. QED
    BY <2>1, <2>2, <1>k DEF ParentContinIsNearest
<1>1. CASE Push
  <2>1. PICK type \in {"spawner", "detacher", "loop"}, n \in 0..MaxRegs, r \in Regs :
           CanPush /\ start_new_function(type, n, r) /\ pc' = "body"
    BY <1>1 DEF Push
  <2>2. /\ depth' = depth + 1
        /\ \A i \in 1..depth : frames'[i] = frames[i]
        /\ frames'[depth + 1] = NewFrame(type, n)
    BY <2>1, PushFacts
  <2>. DEFINE c == ParentContinOfChild
  <2>3. frames'[depth + 1].ParentContin = c
    BY <2>2 DEF NewFrame
  <2>p. head = frames[depth] /\ head.ParentContin \in Nat /\ depth \in Nat \ {0}
    BY <1>t, <1>n DEF head
  <2>4. /\ c \in Nat
        /\ c > 0 => c < depth + 1 /\ frames[depth + 1 - c].InContin # {}
    <3>1. CASE head.InContin # {}
      BY <3>1, <2>p DEF ParentContinOfChild
    <3>2. CASE head.InContin = {} /\ head.ParentContin > 0
      <4>1. c = head.ParentContin + 1
        BY <3>2 DEF ParentContinOfChild
      <4>2. /\ head.ParentContin < depth
            /\ frames[depth - head.ParentContin].InContin # {}
        BY <3>2, <1>c, <2>p
      <4>3. depth + 1 - c = depth - head.ParentContin
        BY <4>1, <2>p
      <4>. QED
        BY <4>1, <4>2, <4>3, <2>p
    <3>3. CASE head.InContin = {} /\ ~(head.ParentContin > 0)
      BY <3>3 DEF ParentContinOfChild
    <3>. QED
      BY <3>1, <3>2, <3>3
  <2>5. ASSUME NEW j \in 1..depth, frames[j].InContin # {}
        PROVE  c > 0 /\ depth + 1 - c >= j
    <3>1. CASE head.InContin # {}
      BY <3>1, <2>p DEF ParentContinOfChild
    <3>2. CASE head.InContin = {}
      <4>1. j \in 1..(depth - 1)
        BY <3>2, <2>5, <2>p
      <4>2. head.ParentContin > 0 /\ depth - head.ParentContin >= j
        BY <4>1, <2>5, <2>p, <1>c
      <4>3. c = head.ParentContin + 1
        BY <4>2, <3>2 DEF ParentContinOfChild
      <4>. QED
        BY <4>2, <4>3, <2>p
    <3>. QED
      BY <3>1, <3>2
  <2>. HIDE DEF c
  <2>6. ASSUME NEW i \in 1..depth'
        PROVE  /\ frames'[i].ParentContin > 0 =>
                    /\ frames'[i].ParentContin < i
                    /\ frames'[i - frames'[i].ParentContin].InContin # {}
               /\ \A j \in 1..(i - 1) :
                    frames'[j].InContin # {} =>
                      /\ frames'[i].ParentContin > 0
                      /\ i - frames'[i].ParentContin >= j
    <3>1. CASE i \in 1..depth
      <4>1. frames'[i] = frames[i] /\ \A j \in 1..(i - 1) : frames'[j] = frames[j]
        BY <3>1, <2>2, <2>p
      <4>2. frames[i].ParentContin \in Nat
        BY <3>1, <1>t, <1>n
      <4>3. frames[i].ParentContin > 0 =>
              /\ frames[i].ParentContin < i
              /\ i - frames[i].ParentContin \in 1..(i - 1)
        BY <3>1, <4>2, <1>c
      <4>. QED
        BY <4>1, <4>2, <4>3, <3>1, <1>c
    <3>2. CASE i = depth + 1
      <4>1. \A j \in 1..(i - 1) : frames'[j] = frames[j]
        BY <3>2, <2>2, <2>p
      <4>2. c > 0 => i - c \in 1..(i - 1)
        BY <3>2, <2>4, <2>p
      <4>. QED
        BY <4>1, <4>2, <3>2, <2>3, <2>4, <2>5, <2>p
    <3>. QED
      BY <3>1, <3>2, <2>2, <2>p
  <2>. QED
    BY <2>6 DEF ParentContinIsNearest
<1>2. CASE Pop
  <2>1. /\ depth > 1 /\ depth' = depth - 1
        /\ \A i \in 1..depth' :
              /\ frames'[i].InContin = frames[i].InContin
              /\ frames'[i].ParentContin = frames[i].ParentContin
    BY <1>2, PopFacts
  <2>2. depth - 1 \in Slots /\ depth - 1 <= depth
        /\ \A i \in 1..(depth - 1 - 1) : i \in 1..depth'
    BY <2>1, <1>t
  <2>. QED
    BY <2>1, <2>2, <1>k
<1>3. CASE HeadOnly \/ do_loop_iteration_end
  <2>1. /\ depth' = depth
        /\ \A i \in Slots : i # depth => frames'[i] = frames[i]
        /\ frames'[depth].ParentContin = frames[depth].ParentContin
    BY <1>3, HeadFacts, IterationFacts
  <2>2. /\ \A i \in 1..depth : frames'[i].ParentContin = frames[i].ParentContin
        /\ \A i \in 1..(depth - 1) : frames'[i].InContin = frames[i].InContin
    BY <2>1, <1>t
  <2>. QED
    BY <2>1, <2>2, <1>t, <1>k
<1>4. CASE do_loop_begin
  BY <1>4 DEF do_loop_begin, ParentContinIsNearest
<1>5. CASE UNCHANGED vars
  BY <1>5 DEF vars, ParentContinIsNearest
<1>. QED
  BY <1>1, <1>2, <1>3, <1>4, <1>5, StepKinds

\* In every behaviour, get_reducer_views finds through ParentContin the
\* nearest frame below that is in a continuation, and 0 means there is none.
THEOREM ContinuationFound == Spec => []ParentContinIsNearest
<1>1. TypeOK /\ Shape /\ ParentContinIsNearest /\ [Next]_vars => ParentContinIsNearest'
  BY ContinStep
<1>. QED
  BY <1>1, ContinInit, ShapeInvariant, PTL DEF Spec

(***************************************************************************)
(* No access is ever in a deleted bag.                                     *)
(***************************************************************************)
\* The rest of the inductive invariant: the node of every frame's S-bag and
\* Iter-bag is still in that bag, accesses use nodes that exist, and only a
\* loop frame uses an Iter-bag.
BagsInPlace ==
    /\ \A a \in strands : a.ds \in 1..nds
    /\ \A i \in 1..depth :
          /\ bagOf[frames[i].sds] = Sbag(i)
          /\ frames[i].type = "loop" => bagOf[frames[i].ids] = Iterbag(i)
          /\ frames[i].Iterbag_used => frames[i].type = "loop"

\* Bags of different kinds, slots or regions are different.
LEMMA BagsDiffer ==
    ASSUME NEW i, NEW j, NEW r, NEW q
    PROVE  /\ Sbag(i) = Sbag(j) <=> i = j
           /\ Iterbag(i) = Iterbag(j) <=> i = j
           /\ Pbag(i, r) = Pbag(j, q) <=> i = j /\ r = q
           /\ Sbag(i) # Iterbag(j) /\ Sbag(i) # Pbag(j, q) /\ Iterbag(i) # Pbag(j, q)
           /\ Sbag(i).slot = i /\ Iterbag(i).slot = i /\ Pbag(i, r).slot = i
           /\ Sbag(i).kind = "S" /\ Iterbag(i).kind = "I"
           /\ Pbag(i, r).kind = "P" /\ Pbag(i, r).reg = r
  BY DEF Sbag, Iterbag, Pbag

\* Where a node is after bags have been combined or deleted.
LEMMA MovedAt ==
    ASSUME NEW b, NEW Bs, NEW t, NEW d \in DS
    PROVE  combine(b, Bs, t)[d] = IF b[d] \in Bs THEN t ELSE b[d]
  BY DEF combine

\* Where a node is after the bags in Bs have been deleted.
LEMMA DeletedAt ==
    ASSUME NEW b, NEW Bs, NEW d \in DS
    PROVE  delete(b, Bs)[d] = IF b[d] \in Bs THEN NoBag ELSE b[d]
  BY MovedAt DEF delete

\* The bags a pop handles are the bags of the head's slot.
LEMMA KeptSlot ==
    ASSUME NEW i \in Slots
    PROVE  /\ \A b \in BagsKept(i) : b.slot = i
           /\ \A b \in BagsOfSlot(i) : b.slot = i
  BY BagsDiffer DEF BagsKept, PbagsKept, BagsOfSlot

\* A live bag is a bag of its frame's slot.
LEMMA LiveSlot ==
    ASSUME NEW i, NEW b, LiveAt(i, b)
    PROVE  b.slot = i
  BY BagsDiffer DEF LiveAt

\* A pop moves no node out of a bag of a frame that stays on the stack.
LEMMA PopUntouched ==
    ASSUME TypeOK, Shape, Pop, NEW d \in DS, bagOf[d].slot # depth
    PROVE  bagOf'[d] = bagOf[d]
<1>1. depth \in Slots
  BY DEF TypeOK
<1>2. bagOf[d] \notin BagsKept(depth) /\ bagOf[d] \notin BagsOfSlot(depth)
  BY <1>1, KeptSlot
<1>3. CASE leave_cilk_function
  <2>. DEFINE orphans == BagsKept(depth) \ {Sbag(depth)}
              b1 == combine(bagOf, BagsKept(depth) \ orphans, Sbag(depth - 1))
              b2 == combine(b1, orphans, Pbag(depth - 1, 0))
  <2>1. bagOf' = delete(b2, BagsOfSlot(depth))
    BY <1>3 DEF leave_cilk_function, merge_from_call
  <2>2. b1[d] = bagOf[d]
    BY <1>2, MovedAt
  <2>. HIDE DEF b1
  <2>3. b2[d] = bagOf[d]
    BY <1>2, <2>2, MovedAt
  <2>. HIDE DEF b2
  <2>. QED
    BY <1>2, <2>1, <2>3, DeletedAt
<1>4. CASE return_from_detach
  <2>. DEFINE b1 == combine(bagOf, BagsKept(depth), Pbag(depth - 1, tree[head.fid].reg))
  <2>1. bagOf' = delete(b1, BagsOfSlot(depth))
    BY <1>4 DEF return_from_detach, merge_from_detach
  <2>2. b1[d] = bagOf[d]
    BY <1>2, MovedAt
  <2>. HIDE DEF b1
  <2>. QED
    BY <1>2, <2>1, <2>2, DeletedAt
<1>5. CASE do_loop_end
  <2>. DEFINE kept == LoopBagsKept(depth)
              b1 == combine(bagOf, kept, Pbag(depth - 1, tree[head.fid].reg))
  <2>1. bagOf' = delete(b1, BagsOfSlot(depth))
    BY <1>5 DEF do_loop_end
  <2>2. bagOf[d] \notin kept
    BY <1>2, BagsDiffer DEF LoopBagsKept
  <2>. HIDE DEF kept
  <2>3. b1[d] = bagOf[d]
    BY <2>2, MovedAt
  <2>. HIDE DEF b1
  <2>. QED
    BY <1>2, <2>1, <2>3, DeletedAt
<1>. QED
  BY <1>3, <1>4, <1>5 DEF Pop

\* A pop moves the nodes of the head's live bags to a live bag of its parent.
LEMMA PopMoved ==
    ASSUME TypeOK, Shape, BagsInPlace, Pop, NEW d \in DS, LiveAt(depth, bagOf[d])
    PROVE  /\ LiveAt(depth, bagOf[d])'
           /\ bagOf[d].kind = "P" => bagOf'[d].kind = "P"
           /\ bagOf'[d] = IF head.type = "spawner" THEN Sbag(depth - 1)
                          ELSE Pbag(depth - 1, tree[head.fid].reg)
<1>1. /\ depth \in Slots /\ depth - 1 \in Slots /\ frames \in [Slots -> FrameData]
      /\ frames[depth - 1] \in FrameData /\ head = frames[depth] /\ head \in FrameData
      /\ depth # depth - 1 /\ depth' = depth - 1
  <2>1. depth > 1 /\ depth' = depth - 1
    BY PopFacts
  <2>2. depth \in Slots /\ frames \in [Slots -> FrameData]
    BY DEF TypeOK
  <2>3. depth - 1 \in Slots /\ depth # depth - 1
    BY <2>1, <2>2
  <2>. QED
    BY <2>1, <2>2, <2>3 DEF head
<1>r. tree[head.fid].reg \in Regs
  BY <1>1, FrameFields DEF TypeOK
<1>i. head.Iterbag_used => head.type = "loop"
  BY <1>1 DEF BagsInPlace
<1>2. \A b : LiveAt(depth, b) =>
          \/ b \in BagsKept(depth)
          \/ b = Iterbag(depth) /\ head.Iterbag_used
  BY <1>1 DEF LiveAt, BagsKept, PbagsKept
\* What is moved to a bag of the parent is not deleted with the head.
<1>3. ASSUME NEW b1, b1[d].slot = depth - 1, bagOf' = delete(b1, BagsOfSlot(depth))
      PROVE  bagOf'[d] = b1[d]
  <2>1. b1[d] \notin BagsOfSlot(depth)
    BY <1>1, <1>3, KeptSlot
  <2>. QED
    BY <2>1, <1>3, DeletedAt
<1>4. CASE leave_cilk_function
  <2>. DEFINE orphans == BagsKept(depth) \ {Sbag(depth)}
              b1 == combine(bagOf, BagsKept(depth) \ orphans, Sbag(depth - 1))
              b2 == combine(b1, orphans, Pbag(depth - 1, 0))
  <2>1. /\ bagOf' = delete(b2, BagsOfSlot(depth)) /\ head.type = "spawner"
        /\ ~HasPbags(head)
        /\ frames' = [frames EXCEPT
                        ![depth - 1].Sbag_used = @ \/ head.Sbag_used,
                        ![depth - 1].Pbags[0] = @ \/ HasPbags(head),
                        ![depth] = ResetFrame]
    BY <1>4 DEF leave_cilk_function, merge_from_call
  <2>2. bagOf[d] = Sbag(depth) /\ head.Sbag_used
    <3>1. ~head.Iterbag_used
      BY <2>1, <1>i
    <3>. QED
      BY <2>1, <3>1, <1>1 DEF LiveAt, HasPbags
  <2>3. bagOf[d] \in BagsKept(depth) \ orphans
    BY <2>2, <1>1 DEF BagsKept
  <2>4. b1[d] = Sbag(depth - 1)
    BY <2>3, MovedAt
  <2>5. Sbag(depth - 1) \notin orphans
    BY <1>1, KeptSlot, BagsDiffer
  <2>. HIDE DEF b1, orphans
  <2>6. b2[d] = Sbag(depth - 1)
    BY <2>4, <2>5, MovedAt
  <2>. HIDE DEF b2
  <2>7. bagOf'[d] = Sbag(depth - 1)
    BY <2>1, <2>6, <1>3, BagsDiffer
  <2>8. frames'[depth - 1].Sbag_used
    BY <2>1, <2>2, <1>1 DEF FrameData
  <2>. QED
    BY <2>1, <2>2, <2>7, <2>8, <1>1, BagsDiffer DEF LiveAt
<1>5. CASE return_from_detach
  <2>. DEFINE r == tree[head.fid].reg
              b1 == combine(bagOf, BagsKept(depth), Pbag(depth - 1, r))
  <2>1. /\ bagOf' = delete(b1, BagsOfSlot(depth)) /\ head.type = "detacher"
        /\ frames' = [frames EXCEPT ![depth - 1].Pbags[r] = TRUE,
                                    ![depth] = ResetFrame]
    BY <1>5 DEF return_from_detach, merge_from_detach
  <2>2. bagOf[d] \in BagsKept(depth)
    BY <2>1, <1>2, <1>i
  <2>3. b1[d] = Pbag(depth - 1, r)
    BY <2>2, MovedAt
  <2>. HIDE DEF b1
  <2>4. bagOf'[d] = Pbag(depth - 1, r)
    BY <2>1, <2>3, <1>3, BagsDiffer
  <2>5. frames'[depth - 1].Pbags[r]
    BY <2>1, <1>1, <1>r DEF FrameData
  <2>6. LiveAt(depth, bagOf[d])'
    BY <2>4, <2>5, <1>1, <1>r, BagsDiffer DEF LiveAt
  <2>. QED
    BY <2>1, <2>4, <2>6, BagsDiffer
<1>6. CASE do_loop_end
  <2>. DEFINE r == tree[head.fid].reg
              kept == LoopBagsKept(depth)
              b1 == combine(bagOf, kept, Pbag(depth - 1, r))
  <2>1. /\ bagOf' = delete(b1, BagsOfSlot(depth))
        /\ frames' = [frames EXCEPT ![depth - 1].Pbags[r] = TRUE,
                                    ![depth] = ResetFrame]
        /\ head.type = "loop"
    BY <1>6 DEF do_loop_end, Shape
  <2>2. bagOf[d] \in kept
    BY <1>1, <1>2 DEF LoopBagsKept
  <2>. HIDE DEF kept
  <2>3. b1[d] = Pbag(depth - 1, r)
    BY <2>2, MovedAt
  <2>. HIDE DEF b1
  <2>4. bagOf'[d] = Pbag(depth - 1, r)
    BY <2>1, <2>3, <1>3, BagsDiffer
  <2>5. frames'[depth - 1].Pbags[r]
    BY <2>1, <1>1, <1>r DEF FrameData
  <2>6. LiveAt(depth, bagOf[d])'
    BY <2>4, <2>5, <1>1, <1>r, BagsDiffer DEF LiveAt
  <2>. QED
    BY <2>1, <2>4, <2>6, BagsDiffer
<1>. QED
  BY <1>4, <1>5, <1>6 DEF Pop

\* A pop unmarks no bag of a frame that stays on the stack.
LEMMA PopMarks ==
    ASSUME TypeOK, Shape, Pop, NEW i \in 1..(depth - 1)
    PROVE  /\ frames[i].Sbag_used => frames'[i].Sbag_used
           /\ frames'[i].Iterbag_used = frames[i].Iterbag_used
           /\ \A r \in Regs : frames[i].Pbags[r] => frames'[i].Pbags[r]
<1>1. /\ depth \in Slots /\ i \in Slots /\ i # depth /\ frames \in [Slots -> FrameData]
      /\ frames[i] \in FrameData
  <2>1. depth \in Slots /\ frames \in [Slots -> FrameData]
    BY DEF TypeOK
  <2>2. i \in Slots /\ i # depth
    BY <2>1
  <2>. QED
    BY <2>1, <2>2
<1>2. CASE leave_cilk_function
  BY <1>1, <1>2 DEF leave_cilk_function, merge_from_call, FrameData
<1>3. CASE return_from_detach
  BY <1>1, <1>3 DEF return_from_detach, merge_from_detach, FrameData
<1>4. CASE do_loop_end
  BY <1>1, <1>4 DEF do_loop_end, FrameData
<1>. QED
  BY <1>2, <1>3, <1>4 DEF Pop

\* After a pop every node that was in a live bag is in a live bag.
LEMMA PopLive ==
    ASSUME TypeOK, Shape, BagsInPlace, Pop, NEW d \in DS, LiveBag(bagOf[d])
    PROVE  LiveBag(bagOf[d])'
<1>1. PICK i \in 1..depth : LiveAt(i, bagOf[d])
  BY DEF LiveBag
<1>2. depth > 1 /\ depth' = depth - 1 /\ depth \in Slots
  BY PopFacts DEF TypeOK
<1>3. CASE i = depth
  <2>1. LiveAt(depth, bagOf[d])'
    BY <1>1, <1>3, PopMoved
  <2>2. depth' \in 1..depth'
    BY <1>2
  <2>. QED
    BY <2>1, <2>2 DEF LiveBag
<1>4. CASE i # depth
  <2>1. i \in 1..(depth - 1) /\ i \in 1..depth'
    BY <1>2, <1>4
  <2>2. bagOf[d].slot # depth
    BY <1>1, <1>4, LiveSlot
  <2>3. bagOf'[d] = bagOf[d]
    BY <2>2, PopUntouched
  <2>4. /\ frames[i].Sbag_used => frames'[i].Sbag_used
        /\ frames'[i].Iterbag_used = frames[i].Iterbag_used
        /\ \A r \in Regs : frames[i].Pbags[r] => frames'[i].Pbags[r]
    BY <2>1, PopMarks
  <2>. QED
    BY <1>1, <2>1, <2>3, <2>4 DEF LiveBag, LiveAt
<1>. QED
  BY <1>3, <1>4

\* A push changes no node that exists.
LEMMA PushNodes ==
    ASSUME TypeOK, NEW type \in {"spawner", "detacher", "loop"}, NEW n \in 0..MaxRegs,
           NEW r \in Regs, CanPush, start_new_function(type, n, r)
    PROVE  /\ \A d \in 1..nds : bagOf'[d] = bagOf[d]
           /\ bagOf'[nds + 1] = Sbag(depth + 1)
           /\ type = "loop" => bagOf'[nds + 2] = Iterbag(depth + 1)
           /\ strands' = strands
<1>1. /\ nds \in Nat /\ nds + 1 \in DS /\ nds + 2 \in DS
      /\ \A d \in 1..nds : d \in DS /\ d # nds + 1 /\ d # nds + 2 /\ d # 0
  BY DEF TypeOK, CanPush
<1>2. /\ bagOf' = [bagOf EXCEPT ![nds + 1] = Sbag(depth + 1),
                                ![nds + 2] = IF type = "loop" THEN Iterbag(depth + 1)
                                             ELSE bagOf[nds + 2]]
      /\ strands' = strands
  BY DEF start_new_function
<1>3. DOMAIN bagOf = DS
  BY DEF TypeOK
<1>. QED
  BY <1>1, <1>2, <1>3

\* A sync moves the nodes of one P-bag of the head, which is then null, to
\* its S-bag; the other steps that touch the head alone move nothing.
LEMMA HeadNodes ==
    ASSUME TypeOK, Shape, HeadOnly
    PROVE  \A d \in DS :
              \/ bagOf'[d] = bagOf[d]
              \/ \E r \in Regs : /\ bagOf[d] = Pbag(depth, r)
                                 /\ bagOf'[d] = Sbag(depth)
                                 /\ frames'[depth].Pbags[r] = FALSE
<1>1. /\ depth \in Slots /\ sync_reg \in Regs /\ frames \in [Slots -> FrameData]
      /\ head = frames[depth] /\ head \in FrameData
  BY HeadType DEF TypeOK, head
<1>2. CASE \E r \in Regs : complete_sync(r) /\ frames'[depth].Pbags[r] = FALSE
  <2>. PICK r \in Regs : complete_sync(r) /\ frames'[depth].Pbags[r] = FALSE
    BY <1>2
  <2>1. \A d \in DS : \/ bagOf'[d] = bagOf[d]
                      \/ bagOf[d] = Pbag(depth, r) /\ bagOf'[d] = Sbag(depth)
    BY MovedAt DEF complete_sync
  <2>. QED
    BY <2>1
<1>3. CASE do_detach_unwind
  <2>1. complete_sync(sync_reg) /\ frames'[depth].Pbags[sync_reg] = FALSE
    BY <1>1, <1>3 DEF do_detach_unwind, FrameData
  <2>. QED
    BY <1>1, <1>2, <2>1
<1>4. CASE \E r \in Regs : do_sync(r)
  <2>. PICK r \in Regs : do_sync(r)
    BY <1>4
  <2>1. complete_sync(r) /\ frames'[depth].Pbags[r] = FALSE
    BY <1>1 DEF do_sync, FrameData
  <2>. QED
    BY <1>2, <2>1
<1>5. CASE do_detach_continue \/ do_loop_iteration_begin \/ record_access
  BY <1>5 DEF do_detach_continue, do_loop_iteration_begin, record_access
<1>. QED
  BY <1>3, <1>4, <1>5 DEF HeadOnly

\* The marks of the head after a step that touches it alone: a P-bag is
\* unmarked only when complete_sync has emptied it.
LEMMA HeadMarks ==
    ASSUME TypeOK, Shape, HeadOnly
    PROVE  /\ head.Sbag_used => frames'[depth].Sbag_used
           /\ head.Iterbag_used => frames'[depth].Iterbag_used
           /\ frames'[depth].Iterbag_used => head.Iterbag_used \/ head.type = "loop"
           /\ \A r \in Regs : head.Pbags[r] =>
                 \/ frames'[depth].Pbags[r]
                 \/ /\ frames'[depth].Sbag_used
                    /\ \A d \in DS : bagOf[d] = Pbag(depth, r) => bagOf'[d] = Sbag(depth)
           /\ \A r \in Regs : \A d \in DS :
                 bagOf[d] = Pbag(depth, r) /\ bagOf'[d] # bagOf[d]
                   => frames'[depth].Sbag_used
<1>1. /\ depth \in Slots /\ sync_reg \in Regs /\ frames \in [Slots -> FrameData]
      /\ head = frames[depth] /\ head \in FrameData
  BY HeadType DEF TypeOK, head
<1>2. /\ head.Sbag_used \in BOOLEAN /\ head.Iterbag_used \in BOOLEAN
      /\ head.Pbags \in [Regs -> BOOLEAN]
  BY <1>1, FrameFields
<1>. DEFINE Synced(r) ==
         /\ complete_sync(r)
         /\ frames'[depth].Sbag_used = (head.Sbag_used \/ head.Pbags[r])
         /\ frames'[depth].Iterbag_used = head.Iterbag_used
         /\ \A q \in Regs : q # r => frames'[depth].Pbags[q] = head.Pbags[q]
<1>3. CASE \E r \in Regs : Synced(r)
  <2>. PICK r \in Regs : Synced(r)
    BY <1>3
  <2>1. /\ head.Pbags[r] =>
             /\ frames'[depth].Sbag_used
             /\ \A d \in DS : bagOf[d] = Pbag(depth, r) => bagOf'[d] = Sbag(depth)
        /\ ~head.Pbags[r] => bagOf' = bagOf
    BY <1>2, MovedAt DEF complete_sync
  <2>2. \A q \in Regs : \A d \in DS :
           bagOf[d] = Pbag(depth, q) /\ bagOf'[d] # bagOf[d] => head.Pbags[r]
    BY <2>1
  <2>. QED
    BY <1>2, <2>1, <2>2
<1>4. CASE do_detach_continue
  BY <1>1, <1>4 DEF do_detach_continue, FrameData
<1>5. CASE do_detach_unwind
  <2>1. Synced(sync_reg)
    BY <1>1, <1>2, <1>5 DEF do_detach_unwind, FrameData
  <2>. QED
    BY <2>1, <1>1, <1>3
<1>6. CASE \E r \in Regs : do_sync(r)
  <2>. PICK r \in Regs : do_sync(r)
    BY <1>6
  <2>1. Synced(r)
    BY <1>1, <1>2 DEF do_sync, FrameData
  <2>. QED
    BY <2>1, <1>3
<1>7. CASE do_loop_iteration_begin
  BY <1>1, <1>7 DEF do_loop_iteration_begin, FrameData
<1>8. CASE record_access
  BY <1>1, <1>2, <1>8 DEF record_access, getSbagForAccess, FrameData
<1>. QED
  BY <1>4, <1>5, <1>6, <1>7, <1>8 DEF HeadOnly

\* The steps that touch the head alone leave every node that was in a live
\* bag in a live bag.
LEMMA HeadLive ==
    ASSUME TypeOK, Shape, HeadOnly, NEW d \in 1..nds, LiveBag(bagOf[d])
    PROVE  LiveBag(bagOf[d])'
<1>t. /\ depth \in Slots /\ depth \in 1..depth /\ (\A i \in 1..depth : i \in Slots)
      /\ d \in DS
  <2>1. depth \in 1..MaxDepth /\ nds \in 1..MaxDS
    BY DEF TypeOK
  <2>. QED
    BY <2>1
<1>1. /\ depth' = depth /\ nds' = nds
      /\ \A i \in Slots : i # depth => frames'[i] = frames[i]
      /\ frames'[depth].type = frames[depth].type
      /\ frames'[depth].sds = frames[depth].sds
      /\ frames'[depth].ids = frames[depth].ids
  BY HeadFacts
<1>2. /\ head.Sbag_used => frames'[depth].Sbag_used
      /\ head.Iterbag_used => frames'[depth].Iterbag_used
      /\ frames'[depth].Iterbag_used => head.Iterbag_used \/ head.type = "loop"
      /\ \A r \in Regs : head.Pbags[r] =>
            \/ frames'[depth].Pbags[r]
            \/ /\ frames'[depth].Sbag_used
               /\ \A e \in DS : bagOf[e] = Pbag(depth, r) => bagOf'[e] = Sbag(depth)
      /\ \A r \in Regs : \A e \in DS :
            bagOf[e] = Pbag(depth, r) /\ bagOf'[e] # bagOf[e]
              => frames'[depth].Sbag_used
  BY HeadMarks
<1>3. \A e \in DS : \/ bagOf'[e] = bagOf[e]
                    \/ \E r \in Regs : /\ bagOf[e] = Pbag(depth, r)
                                       /\ bagOf'[e] = Sbag(depth)
  BY HeadNodes
<1>4. PICK i \in 1..depth : LiveAt(i, bagOf[d])
  BY DEF LiveBag
<1>5. CASE bagOf'[d] # bagOf[d]
  <2>1. bagOf'[d] = Sbag(depth) /\ frames'[depth].Sbag_used
    BY <1>t, <1>5, <1>2, <1>3
  <2>. QED
    BY <2>1, <1>1, <1>t DEF LiveBag, LiveAt
<1>6. CASE bagOf'[d] = bagOf[d] /\ i # depth
  <2>1. frames'[i] = frames[i] /\ i \in 1..depth'
    BY <1>6, <1>1, <1>t
  <2>. QED
    BY <1>4, <1>6, <2>1 DEF LiveBag, LiveAt
<1>7. CASE bagOf'[d] = bagOf[d] /\ i = depth
  <2>1. \/ bagOf[d] = Sbag(depth) /\ head.Sbag_used
        \/ bagOf[d] = Iterbag(depth) /\ head.Iterbag_used
        \/ \E r \in Regs : bagOf[d] = Pbag(depth, r) /\ head.Pbags[r]
    BY <1>4, <1>7 DEF LiveAt, head
  <2>2. LiveAt(depth, bagOf[d])'
    <3>1. ASSUME NEW r \in Regs, bagOf[d] = Pbag(depth, r), head.Pbags[r]
          PROVE  frames'[depth].Pbags[r]
      <4>1. Pbag(depth, r) # Sbag(depth)
        BY BagsDiffer
      <4>. QED
        BY <3>1, <4>1, <1>t, <1>7, <1>2
    <3>. QED
      BY <2>1, <3>1, <1>7, <1>1, <1>2 DEF LiveAt
  <2>. QED
    BY <2>2, <1>1, <1>t DEF LiveBag
<1>. QED
  BY <1>5, <1>6, <1>7

\* The end of an iteration: every node that was in a live bag is in a live
\* bag, and the loop frame's nodes are in its S-bag and its Iter-bag.
LEMMA IterationLive ==
    ASSUME TypeOK, Shape, BagsInPlace, do_loop_iteration_end
    PROVE  /\ \A d \in 1..nds : LiveBag(bagOf[d]) => LiveBag(bagOf[d])'
           /\ \A d \in 1..nds :
                 bagOf'[d] = IF \/ bagOf[d] = Sbag(depth) /\ head.Sbag_used
                                \/ /\ bagOf[d] = Iterbag(depth)
                                   /\ inc_version(head.version) = 0 /\ head.Iterbag_used
                             THEN Pbag(depth, 0) ELSE bagOf[d]
           /\ \A i \in 1..depth :
                 /\ bagOf'[frames'[i].sds] = Sbag(i)
                 /\ frames'[i].type = "loop" => bagOf'[frames'[i].ids] = Iterbag(i)
                 /\ frames'[i].Iterbag_used => frames'[i].type = "loop"
<1>. DEFINE newS == head.Sbag_used
            newI == inc_version(head.version) = 0 /\ head.Iterbag_used
            b1 == IF newS THEN combine(bagOf, {Sbag(depth)}, Pbag(depth, 0)) ELSE bagOf
            b2 == IF newI THEN combine(b1, {Iterbag(depth)}, Pbag(depth, 0)) ELSE b1
            sds == IF newS THEN nds + 1 ELSE head.sds
            ids == IF newI THEN nds + 2 ELSE head.ids
            new == [head EXCEPT
                        !.InContin = head.InContin \ {Loop}, !.Pbags[0] = TRUE,
                        !.Sbag_used = FALSE, !.sds = sds,
                        !.Iterbag_used = head.Iterbag_used /\ ~newI, !.ids = ids,
                        !.version = inc_version(head.version),
                        !.iter = head.iter + 1]
<1>1. /\ depth \in Slots /\ frames \in [Slots -> FrameData] /\ head \in FrameData
      /\ head = frames[depth] /\ bagOf \in [DS -> Bag \cup {NoBag}]
  BY HeadType DEF TypeOK, head
<1>2. /\ frames' = [frames EXCEPT ![depth] = new] /\ depth' = depth
      /\ bagOf' = [b2 EXCEPT ![sds] = Sbag(depth), ![ids] = Iterbag(depth)]
      /\ head.type = "loop" /\ nds + 2 <= MaxDS
  BY DEF do_loop_iteration_end
<1>3. nds \in 1..MaxDS
  BY DEF TypeOK
<1>4. \A i \in 1..depth :
         /\ i \in Slots /\ frames[i].sds \in 1..nds /\ bagOf[frames[i].sds] = Sbag(i)
         /\ frames[i].type = "loop" =>
              frames[i].ids \in 1..nds /\ bagOf[frames[i].ids] = Iterbag(i)
         /\ frames[i].Iterbag_used => frames[i].type = "loop"
  <2>1. \A i \in 1..depth : i \in Slots
    BY <1>1
  <2>. QED
    BY <2>1 DEF Shape, BagsInPlace
<1>h. depth \in 1..depth
  BY <1>1
<1>5. /\ head.sds \in 1..nds /\ bagOf[head.sds] = Sbag(depth)
      /\ head.ids \in 1..nds /\ bagOf[head.ids] = Iterbag(depth)
  BY <1>1, <1>2, <1>4, <1>h
<1>6. /\ head.Sbag_used \in BOOLEAN /\ head.Iterbag_used \in BOOLEAN
      /\ head.Pbags \in [Regs -> BOOLEAN] /\ 0 \in Regs
  BY <1>1, FrameFields
\* Where each node that exists goes.
<1>7. ASSUME NEW d \in 1..nds
      PROVE  /\ bagOf[d] = Sbag(depth) /\ newS => b2[d] = Pbag(depth, 0)
             /\ bagOf[d] = Iterbag(depth) /\ newI => b2[d] = Pbag(depth, 0)
             /\ ~(bagOf[d] = Sbag(depth) /\ newS) /\ ~(bagOf[d] = Iterbag(depth) /\ newI)
                  => b2[d] = bagOf[d]
  <2>0. d \in DS
    BY <1>3
  <2>1. b1[d] = IF newS /\ bagOf[d] = Sbag(depth) THEN Pbag(depth, 0) ELSE bagOf[d]
    BY <2>0, MovedAt
  <2>. HIDE DEF b1
  <2>2. b2[d] = IF newI /\ b1[d] = Iterbag(depth) THEN Pbag(depth, 0) ELSE b1[d]
    BY <2>0, MovedAt
  <2>. HIDE DEF b2, newS, newI
  <2>. QED
    BY <2>1, <2>2, BagsDiffer
<1>8. DOMAIN b2 = DS
  BY <1>1 DEF combine
<1>9. /\ sds \in DS /\ ids \in DS /\ sds # ids
      /\ sds \notin 1..nds \/ (sds = head.sds /\ ~newS)
      /\ ids \notin 1..nds \/ (ids = head.ids /\ ~newI)
  <2>1. head.sds # head.ids
    BY <1>5, BagsDiffer
  <2>2. nds + 1 \in DS /\ nds + 2 \in DS /\ nds + 1 \notin 1..nds /\ nds + 2 \notin 1..nds
    BY <1>2, <1>3
  <2>3. head.sds \in DS /\ head.ids \in DS /\ nds + 1 # nds + 2
    BY <1>3, <1>5
  <2>. HIDE DEF newS, newI
  <2>. QED
    BY <2>1, <2>2, <2>3, <1>5
<1>10. /\ new.type = head.type /\ new.sds = sds /\ new.ids = ids
       /\ new.Iterbag_used = (head.Iterbag_used /\ ~newI)
       /\ new.Pbags[0] = TRUE
       /\ \A r \in Regs : head.Pbags[r] => new.Pbags[r]
  <2>. HIDE DEF newI, sds, ids
  <2>. QED
    BY <1>1, <1>6 DEF FrameData
<1>. HIDE DEF b1, b2, sds, ids, new, newI
<1>11. bagOf'[sds] = Sbag(depth) /\ bagOf'[ids] = Iterbag(depth)
  BY <1>2, <1>8, <1>9
<1>12. ASSUME NEW d \in 1..nds
       PROVE  bagOf'[d] = b2[d]
  <2>0. d \in DS
    BY <1>3
  <2>1. CASE d = sds
    <3>1. bagOf[d] = Sbag(depth) /\ ~newS
      BY <2>1, <1>9, <1>5
    <3>. QED
      BY <3>1, <2>1, <1>7, <1>11, BagsDiffer
  <2>2. CASE d = ids
    <3>1. bagOf[d] = Iterbag(depth) /\ ~newI
      BY <2>2, <1>9, <1>5
    <3>. QED
      BY <3>1, <2>2, <1>7, <1>11, BagsDiffer
  <2>3. CASE d # sds /\ d # ids
    BY <2>0, <2>3, <1>2, <1>8
  <2>. QED
    BY <2>1, <2>2, <2>3
<1>13. frames'[depth] = new /\ \A i \in Slots : i # depth => frames'[i] = frames[i]
  BY <1>1, <1>2
<1>14. ASSUME NEW d \in 1..nds, LiveBag(bagOf[d]) PROVE LiveBag(bagOf[d])'
  <2>1. PICK i \in 1..depth : LiveAt(i, bagOf[d])
    BY <1>14 DEF LiveBag
  <2>2. bagOf[d].slot = i
    BY <2>1, LiveSlot
  <2>3. CASE i # depth
    <3>1. bagOf[d] # Sbag(depth) /\ bagOf[d] # Iterbag(depth)
      BY <2>2, <2>3, BagsDiffer
    <3>2. bagOf'[d] = bagOf[d] /\ frames'[i] = frames[i]
      BY <3>1, <2>3, <1>4, <1>7, <1>12, <1>13
    <3>. QED
      BY <2>1, <3>2, <1>2 DEF LiveBag, LiveAt
  <2>4. CASE i = depth
    <3>1. \/ newS /\ bagOf[d] = Sbag(depth)
          \/ head.Iterbag_used /\ bagOf[d] = Iterbag(depth)
          \/ \E r \in Regs : bagOf[d] = Pbag(depth, r) /\ head.Pbags[r]
      BY <2>1, <2>4, <1>1 DEF LiveAt
    <3>2. CASE newS /\ bagOf[d] = Sbag(depth)
      <4>1. bagOf'[d] = Pbag(depth, 0)
        BY <3>2, <1>7, <1>12
      <4>. QED
        BY <4>1, <1>2, <1>6, <1>h, <1>10, <1>13 DEF LiveBag, LiveAt
    <3>3. CASE head.Iterbag_used /\ bagOf[d] = Iterbag(depth)
      <4>1. CASE newI
        <5>1. bagOf'[d] = Pbag(depth, 0)
          BY <3>3, <4>1, <1>7, <1>12
        <5>. QED
          BY <5>1, <1>2, <1>6, <1>h, <1>10, <1>13 DEF LiveBag, LiveAt
      <4>2. CASE ~newI
        <5>1. bagOf'[d] = Iterbag(depth)
          BY <3>3, <4>2, <1>7, <1>12, BagsDiffer
        <5>2. frames'[depth].Iterbag_used
          BY <3>3, <4>2, <1>10, <1>13
        <5>. QED
          BY <5>1, <5>2, <1>2, <1>h DEF LiveBag, LiveAt
      <4>. QED
        BY <4>1, <4>2
    <3>4. ASSUME NEW r \in Regs, bagOf[d] = Pbag(depth, r), head.Pbags[r]
          PROVE  LiveBag(bagOf[d])'
      <4>1. bagOf'[d] = Pbag(depth, r)
        BY <3>4, <1>7, <1>12, BagsDiffer
      <4>2. frames'[depth].Pbags[r]
        BY <3>4, <1>10, <1>13
      <4>. QED
        BY <4>1, <4>2, <1>2, <1>h DEF LiveBag, LiveAt
    <3>. QED
      BY <3>1, <3>2, <3>3, <3>4
  <2>. QED
    BY <2>3, <2>4
<1>15. ASSUME NEW i \in 1..depth
       PROVE  /\ bagOf'[frames'[i].sds] = Sbag(i)
              /\ frames'[i].type = "loop" => bagOf'[frames'[i].ids] = Iterbag(i)
              /\ frames'[i].Iterbag_used => frames'[i].type = "loop"
  <2>1. CASE i = depth
    BY <2>1, <1>2, <1>10, <1>11, <1>13
  <2>2. CASE i # depth
    <3>1. frames'[i] = frames[i]
      BY <2>2, <1>4, <1>13
    <3>2. bagOf'[frames[i].sds] = Sbag(i)
      BY <2>2, <1>4, <1>7, <1>12, BagsDiffer
    <3>3. frames[i].type = "loop" => bagOf'[frames[i].ids] = Iterbag(i)
      BY <2>2, <1>4, <1>7, <1>12, BagsDiffer
    <3>. QED
      BY <3>1, <3>2, <3>3, <1>4
  <2>. QED
    BY <2>1, <2>2
<1>. QED
  BY <1>7, <1>12, <1>14, <1>15 DEF newS, newI

\* Initially there is one frame, with its S-bag, and no access.
LEMMA BagsInit == Init => BagsInPlace /\ NoDanglingBag
<1>. SUFFICES ASSUME Init PROVE BagsInPlace /\ NoDanglingBag
  OBVIOUS
<1>1. /\ depth = 1 /\ frames[1] = [ResetFrame EXCEPT !.sds = 1] /\ strands = {}
      /\ bagOf[1] = Sbag(1)
  BY DEF Init
<1>2. frames[1].sds = 1 /\ frames[1].type = "none" /\ frames[1].Iterbag_used = FALSE
  BY <1>1 DEF ResetFrame
<1>3. \A i \in 1..depth : i = 1
  BY <1>1
<1>. QED
  BY <1>1, <1>2, <1>3 DEF BagsInPlace, NoDanglingBag

\* Every step keeps the bags in place and every access in a live bag.
LEMMA BagsStep ==
    TypeOK /\ Shape /\ BagsInPlace /\ NoDanglingBag /\ [Next]_vars
      => BagsInPlace' /\ NoDanglingBag'
<1>. SUFFICES ASSUME TypeOK, Shape, BagsInPlace, NoDanglingBag, [Next]_vars
              PROVE  BagsInPlace' /\ NoDanglingBag'
  OBVIOUS
<1>t. /\ depth \in Slots /\ nds \in 1..MaxDS /\ depth \in 1..depth
      /\ \A i \in 1..depth : i \in Slots
      /\ \A d \in 1..nds : d \in DS
  <2>1. depth \in 1..MaxDepth /\ nds \in 1..MaxDS
    BY DEF TypeOK
  <2>. QED
    BY <2>1
<1>a. \A a \in strands : a.ds \in 1..nds /\ LiveBag(bagOf[a.ds])
  BY DEF BagsInPlace, NoDanglingBag
<1>b. \A i \in 1..depth :
         /\ frames[i].sds \in 1..nds /\ bagOf[frames[i].sds] = Sbag(i)
         /\ frames[i].type = "loop" =>
              frames[i].ids \in 1..nds /\ bagOf[frames[i].ids] = Iterbag(i)
         /\ frames[i].Iterbag_used => frames[i].type = "loop"
  BY DEF Shape, BagsInPlace
<1>1. CASE Push
  <2>1. PICK type \in {"spawner", "detacher", "loop"}, n \in 0..MaxRegs, r \in Regs :
           CanPush /\ start_new_function(type, n, r) /\ pc' = "body"
    BY <1>1 DEF Push
  <2>2. /\ depth' = depth + 1
        /\ nds' = IF type = "loop" THEN nds + 2 ELSE nds + 1
        /\ \A i \in 1..depth : frames'[i] = frames[i]
        /\ frames'[depth + 1] = NewFrame(type, n)
    BY <2>1, PushFacts
  <2>3. /\ \A d \in 1..nds : bagOf'[d] = bagOf[d]
        /\ bagOf'[nds + 1] = Sbag(depth + 1)
        /\ type = "loop" => bagOf'[nds + 2] = Iterbag(depth + 1)
        /\ strands' = strands
    BY <2>1, PushNodes
  <2>4. /\ frames'[depth + 1].type = type /\ frames'[depth + 1].sds = nds + 1
        /\ frames'[depth + 1].ids = IF type = "loop" THEN nds + 2 ELSE 0
        /\ frames'[depth + 1].Iterbag_used = FALSE
    BY <2>2 DEF NewFrame
  <2>5. \A d \in 1..nds : d \in 1..nds'
    BY <2>2, <1>t
  <2>6. \A i \in 1..depth' : i \in 1..depth \/ i = depth + 1
    BY <2>2, <1>t
  <2>7. \A i \in 1..depth : i \in 1..depth'
    BY <2>2, <1>t
  <2>8. BagsInPlace'
    <3>1. \A a \in strands' : a.ds \in 1..nds'
      BY <2>3, <2>5, <1>a
    <3>2. ASSUME NEW i \in 1..depth'
          PROVE  /\ bagOf'[frames'[i].sds] = Sbag(i)
                 /\ frames'[i].type = "loop" => bagOf'[frames'[i].ids] = Iterbag(i)
                 /\ frames'[i].Iterbag_used => frames'[i].type = "loop"
      <4>1. CASE i \in 1..depth
        BY <4>1, <2>2, <2>3, <1>b
      <4>2. CASE i = depth + 1
        BY <4>2, <2>3, <2>4
      <4>. QED
        BY <4>1, <4>2, <2>6
    <3>. QED
      BY <3>1, <3>2 DEF BagsInPlace
  <2>9. ASSUME NEW a \in strands PROVE LiveBag(bagOf[a.ds])'
    <3>1. PICK i \in 1..depth : LiveAt(i, bagOf[a.ds])
      BY <1>a DEF LiveBag
    <3>2. bagOf'[a.ds] = bagOf[a.ds] /\ frames'[i] = frames[i] /\ i \in 1..depth'
      BY <1>a, <2>2, <2>3, <2>7
    <3>. QED
      BY <3>1, <3>2 DEF LiveBag, LiveAt
  <2>. QED
    BY <2>3, <2>8, <2>9 DEF NoDanglingBag
<1>2. CASE Pop
  <2>1. /\ depth > 1 /\ depth' = depth - 1 /\ nds' = nds
        /\ \A i \in 1..depth' : /\ frames'[i].type = frames[i].type
                                /\ frames'[i].sds = frames[i].sds
                                /\ frames'[i].ids = frames[i].ids
    BY <1>2, PopFacts
  <2>2. strands' = strands
    BY <1>2 DEF Pop, leave_cilk_function, return_from_detach, do_loop_end
  <2>3. \A i \in 1..depth' : i \in 1..depth /\ i \in 1..(depth - 1) /\ i # depth
    BY <2>1, <1>t
  <2>4. ASSUME NEW i \in 1..depth'
        PROVE  /\ bagOf'[frames'[i].sds] = Sbag(i)
               /\ frames'[i].type = "loop" => bagOf'[frames'[i].ids] = Iterbag(i)
               /\ frames'[i].Iterbag_used => frames'[i].type = "loop"
    <3>1. ASSUME NEW d \in 1..nds, bagOf[d].slot = i PROVE bagOf'[d] = bagOf[d]
      BY <3>1, <2>3, <1>t, <1>2, PopUntouched
    <3>2. Sbag(i).slot = i /\ Iterbag(i).slot = i
      BY BagsDiffer
    <3>3. frames'[i].Iterbag_used = frames[i].Iterbag_used
      BY <2>3, <1>2, PopMarks
    <3>. QED
      BY <3>1, <3>2, <3>3, <2>1, <2>3, <1>b
  <2>5. ASSUME NEW a \in strands PROVE LiveBag(bagOf[a.ds])'
    BY <1>2, <1>a, <1>t, PopLive
  <2>6. BagsInPlace'
    BY <2>1, <2>2, <2>4, <1>a DEF BagsInPlace
  <2>. QED
    BY <2>2, <2>5, <2>6 DEF NoDanglingBag
<1>3. CASE HeadOnly
  <2>1. /\ depth' = depth /\ nds' = nds
        /\ \A i \in Slots : i # depth => frames'[i] = frames[i]
        /\ frames'[depth].type = frames[depth].type
        /\ frames'[depth].sds = frames[depth].sds
        /\ frames'[depth].ids = frames[depth].ids
    BY <1>3, HeadFacts
  <2>2. /\ head.Sbag_used => frames'[depth].Sbag_used
        /\ head.Iterbag_used => frames'[depth].Iterbag_used
        /\ frames'[depth].Iterbag_used => head.Iterbag_used \/ head.type = "loop"
        /\ \A r \in Regs : head.Pbags[r] =>
              \/ frames'[depth].Pbags[r]
              \/ /\ frames'[depth].Sbag_used
                 /\ \A d \in DS : bagOf[d] = Pbag(depth, r) => bagOf'[d] = Sbag(depth)
        /\ \A r \in Regs : \A d \in DS :
              bagOf[d] = Pbag(depth, r) /\ bagOf'[d] # bagOf[d]
                => frames'[depth].Sbag_used
    BY <1>3, HeadMarks
  <2>3. \A d \in DS : \/ bagOf'[d] = bagOf[d]
                      \/ \E r \in Regs : /\ bagOf[d] = Pbag(depth, r)
                                         /\ bagOf'[d] = Sbag(depth)
    BY <1>3, HeadNodes
  <2>4. \A d \in 1..nds : LiveBag(bagOf[d]) => LiveBag(bagOf[d])'
    BY <1>3, HeadLive
  <2>5. ASSUME NEW i \in 1..depth'
        PROVE  /\ bagOf'[frames'[i].sds] = Sbag(i)
               /\ frames'[i].type = "loop" => bagOf'[frames'[i].ids] = Iterbag(i)
               /\ frames'[i].Iterbag_used => frames'[i].type = "loop"
    <3>1. \A d \in 1..nds : bagOf[d] \in {Sbag(i), Iterbag(i)} => bagOf'[d] = bagOf[d]
      BY <2>3, <1>t, BagsDiffer
    <3>2. i \in 1..depth /\ i \in Slots
      BY <2>1, <1>t
    <3>3. /\ frames'[i].type = frames[i].type /\ frames'[i].sds = frames[i].sds
          /\ frames'[i].ids = frames[i].ids
          /\ frames'[i].Iterbag_used => frames[i].Iterbag_used \/ frames[i].type = "loop"
      BY <3>2, <2>1, <2>2 DEF head
    <3>. QED
      BY <3>1, <3>2, <3>3, <1>b
  <2>6. \A a \in strands' : a.ds \in 1..nds /\ LiveBag(bagOf[a.ds])'
    <3>1. CASE record_access
      <4>. PICK a : a = CurrentAccess
        OBVIOUS
      <4>1. bagOf' = bagOf /\ strands' = strands \cup {a} /\ getSbagForAccess
        BY <3>1 DEF record_access
      <4>2. a.ds = IF head.type = "loop" THEN head.ids ELSE head.sds
        BY DEF CurrentAccess
      <4>3. /\ a.ds \in 1..nds
            /\ bagOf[a.ds] = IF head.type = "loop" THEN Iterbag(depth) ELSE Sbag(depth)
        BY <4>2, <1>b, <1>t DEF head
      <4>4. /\ head.type = "loop" => frames'[depth].Iterbag_used
            /\ head.type # "loop" => frames'[depth].Sbag_used
        <5>1. frames \in [Slots -> FrameData] /\ frames[depth] \in FrameData
          BY DEF TypeOK
        <5>. QED
          BY <4>1, <5>1, <1>t DEF getSbagForAccess, FrameData
      <4>5. LiveBag(bagOf[a.ds])'
        BY <4>1, <4>3, <4>4, <2>1, <1>t DEF LiveBag, LiveAt
      <4>. QED
        BY <4>1, <4>3, <4>5, <2>4, <1>a
    <3>2. CASE ~record_access
      <4>1. strands' = strands
        BY <1>3, <3>2 DEF HeadOnly, do_detach_continue, do_detach_unwind, do_sync,
                          do_loop_iteration_begin
      <4>. QED
        BY <4>1, <2>4, <1>a
    <3>. QED
      BY <3>1, <3>2
  <2>7. BagsInPlace'
    BY <2>1, <2>5, <2>6 DEF BagsInPlace
  <2>. QED
    BY <2>6, <2>7 DEF NoDanglingBag
<1>4. CASE do_loop_begin
  BY <1>4 DEF do_loop_begin, BagsInPlace, NoDanglingBag, LiveBag, LiveAt
<1>5. CASE do_loop_iteration_end
  <2>1. /\ depth' = depth /\ strands' = strands
        /\ \A d \in 1..nds : d \in 1..nds'
    <3>1. depth' = depth /\ nds' \in Nat /\ nds <= nds'
      BY <1>5, IterationFacts
    <3>2. strands' = strands
      BY <1>5 DEF do_loop_iteration_end
    <3>. QED
      BY <3>1, <3>2, <1>t
  <2>2. /\ \A d \in 1..nds : LiveBag(bagOf[d]) => LiveBag(bagOf[d])'
        /\ \A i \in 1..depth :
              /\ bagOf'[frames'[i].sds] = Sbag(i)
              /\ frames'[i].type = "loop" => bagOf'[frames'[i].ids] = Iterbag(i)
              /\ frames'[i].Iterbag_used => frames'[i].type = "loop"
    BY <1>5, IterationLive
  <2>3. BagsInPlace'
    BY <2>1, <2>2, <1>a DEF BagsInPlace
  <2>. QED
    BY <2>1, <2>2, <2>3, <1>a DEF NoDanglingBag
<1>6. CASE UNCHANGED vars
  BY <1>6 DEF vars, BagsInPlace, NoDanglingBag, LiveBag, LiveAt
<1>. QED
  BY <1>1, <1>2, <1>3, <1>4, <1>5, <1>6, StepKinds

\* The inductive invariant behind the theorems about bags.
LEMMA BagsInvariant == Spec => [](TypeOK /\ Shape /\ BagsInPlace /\ NoDanglingBag)
<1>1. Init => BagsInPlace /\ NoDanglingBag
  BY BagsInit
<1>2. TypeOK /\ Shape /\ BagsInPlace /\ NoDanglingBag /\ [Next]_vars
        => (BagsInPlace /\ NoDanglingBag)'
  BY BagsStep
<1>. QED
  BY <1>1, <1>2, ShapeInvariant, PTL DEF Spec

\* No bag is deleted while shadow memory may still ask about an access whose
\* set points at it: the Sbag_used and Iterbag_used marks, and the P-bags
\* that are non-null, cover every access of every behaviour.
THEOREM NoAccessDangles == Spec => []NoDanglingBag
  BY BagsInvariant, PTL

\* A step that takes an access out of a P-bag is a sync of the head.
LEMMA SerialStep ==
    TypeOK /\ Shape /\ BagsInPlace /\ NoDanglingBag /\ [Next]_vars => SerialisedBySync
<1>. SUFFICES ASSUME TypeOK, Shape, BagsInPlace, NoDanglingBag, [Next]_vars,
                     NEW a \in strands, bagOf[a.ds].kind = "P", bagOf'[a.ds].kind # "P"
              PROVE  /\ bagOf[a.ds].slot = depth /\ depth' = depth
                     /\ bagOf'[a.ds] = Sbag(depth)
                     /\ frames'[depth].Pbags[bagOf[a.ds].reg] = FALSE
  BY DEF SerialisedBySync
<1>d. a.ds \in 1..nds /\ a.ds \in DS
  <2>1. nds \in 1..MaxDS
    BY DEF TypeOK
  <2>2. a.ds \in 1..nds
    BY DEF BagsInPlace
  <2>. QED
    BY <2>1, <2>2
<1>m. bagOf'[a.ds] # bagOf[a.ds]
  OBVIOUS
<1>1. CASE Push
  <2>1. PICK type \in {"spawner", "detacher", "loop"}, n \in 0..MaxRegs, r \in Regs :
           CanPush /\ start_new_function(type, n, r) /\ pc' = "body"
    BY <1>1 DEF Push
  <2>. QED
    BY <1>d, <1>m, <2>1, PushNodes
<1>2. CASE Pop
  <2>1. PICK i \in 1..depth : LiveAt(i, bagOf[a.ds])
    BY DEF NoDanglingBag, LiveBag
  <2>2. CASE i = depth
    BY <1>2, <1>d, <2>1, <2>2, PopMoved
  <2>3. CASE i # depth
    <3>1. bagOf[a.ds].slot # depth
      BY <2>1, <2>3, LiveSlot
    <3>. QED
      BY <1>2, <1>d, <1>m, <3>1, PopUntouched
  <2>. QED
    BY <2>2, <2>3
<1>3. CASE HeadOnly
  <2>1. PICK r \in Regs : /\ bagOf[a.ds] = Pbag(depth, r)
                          /\ bagOf'[a.ds] = Sbag(depth)
                          /\ frames'[depth].Pbags[r] = FALSE
    BY <1>3, <1>d, <1>m, HeadNodes
  <2>2. depth' = depth
    BY <1>3, HeadFacts
  <2>. QED
    BY <2>1, <2>2, BagsDiffer
<1>4. CASE do_loop_begin
  BY <1>4, <1>m DEF do_loop_begin
<1>5. CASE do_loop_iteration_end
  BY <1>5, <1>d, <1>m, IterationLive, BagsDiffer
<1>6. CASE UNCHANGED vars
  BY <1>6, <1>m DEF vars
<1>. QED
  BY <1>1, <1>2, <1>3, <1>4, <1>5, <1>6, StepKinds

\* In every behaviour an access leaves a P-bag only at a sync of the frame
\* that owns the P-bag: merge_bag_from_returning_child, the end of an
\* iteration and a call never make a parallel access look serial.
THEOREM SyncSerialises == Spec => OnlySyncSerialises
<1>1. TypeOK /\ Shape /\ BagsInPlace /\ NoDanglingBag /\ [Next]_vars
        => [SerialisedBySync]_vars
  BY SerialStep
<1>. QED
  BY <1>1, BagsInvariant, PTL DEF Spec, OnlySyncSerialises

-----------------------------------------------------------------------------
(***************************************************************************)
(* What the engine is for: previousAccessInParallel, which looks at one    *)
(* bag and one version, answers what the invocation tree says.  The proofs *)
(* are about one recorded access at a time, so that they serve both the    *)
(* accesses of SPBags and the entries of a shadow memory.                  *)
(***************************************************************************)

(***************************************************************************)
(* The frames of the stack and the frames of the history make one tree: a  *)
(* path of a frame's ancestors agrees with the paths of those ancestors,   *)
(* and with the stack up to the last ancestor that is on it.               *)
(***************************************************************************)
OnStack ==
    \A i \in 1..depth :
        /\ frames[i].fid \in 0..frame_id /\ frames[i].fid \notin joined
        /\ tree[frames[i].fid].level = i
        /\ tree[frames[i].fid].type = frames[i].type
        /\ i > 1 => tree[frames[i].fid].iter = frames[i - 1].iter

PathsAgree ==
    \A f \in 0..frame_id :
        /\ tree[f].level \in Slots /\ tree[f].path[tree[f].level] = f
        /\ \A j \in 1..tree[f].level :
              /\ tree[f].path[j] \in 0..frame_id
              /\ tree[tree[f].path[j]].level = j
              /\ \A i \in 1..j : tree[tree[f].path[j]].path[i] = tree[f].path[i]
              /\ j <= depth /\ tree[f].path[j] = frames[j].fid
                   => \A i \in 1..j : tree[f].path[i] = frames[i].fid

InTree ==
    /\ tree[0].level = 1 /\ joined \subseteq 1..frame_id
    /\ OnStack
    /\ PathsAgree

\* In a program whose loop bodies do not spawn, a frame under a task or a
\* loop is no loop frame, and no continuation or loop starts in one.
LoopsApart ==
    ~LoopBodySpawns =>
        /\ pc \in {"continue", "newloop"} => head.type # "loop"
        /\ \A i \in 2..depth :
              frames[i].type \in {"detacher", "loop"} => frames[i - 1].type # "loop"

\* A push adds one frame to the tree, a child of the head.
LEMMA PushTree ==
    ASSUME TypeOK, NEW type \in {"spawner", "detacher", "loop"}, NEW n \in 0..MaxRegs,
           NEW r \in Regs, CanPush, start_new_function(type, n, r)
    PROVE  /\ frame_id' = frame_id + 1 /\ joined' = joined
           /\ \A f \in 0..frame_id : tree'[f] = tree[f]
           /\ tree'[frame_id + 1].level = depth + 1
           /\ tree'[frame_id + 1].type = type /\ tree'[frame_id + 1].reg = r
           /\ tree'[frame_id + 1].iter = frames[depth].iter
           /\ tree'[frame_id + 1].path[depth + 1] = frame_id + 1
           /\ \A i \in 1..depth : tree'[frame_id + 1].path[i] = frames[i].fid
           /\ frames'[depth + 1].fid = frame_id + 1 /\ frames'[depth + 1].type = type
<1>. DEFINE node == [path |-> [i \in Slots |-> IF i <= depth THEN frames[i].fid
                                               ELSE IF i = depth + 1 THEN frame_id + 1
                                               ELSE 0],
                     level |-> depth + 1, type |-> type, reg |-> r,
                     iter |-> head.iter]
<1>1. /\ frame_id \in 0..MaxFrames /\ frame_id + 1 \in Frames
      /\ depth \in Slots /\ depth + 1 \in Slots
  BY DEF TypeOK, CanPush
<1>2. /\ frame_id' = frame_id + 1 /\ joined' = joined
      /\ tree' = [tree EXCEPT ![frame_id + 1] = node]
  BY DEF start_new_function
<1>3. DOMAIN tree = Frames
  BY DEF TypeOK
<1>4. \A i \in 1..depth : i \in Slots
  BY <1>1
<1>5. /\ node.level = depth + 1 /\ node.type = type /\ node.reg = r
      /\ node.iter = frames[depth].iter /\ node.path[depth + 1] = frame_id + 1
      /\ \A i \in 1..depth : node.path[i] = frames[i].fid
  BY <1>1, <1>4 DEF head
<1>. HIDE DEF node
<1>6. tree'[frame_id + 1] = node
  BY <1>1, <1>2, <1>3
<1>7. \A f \in 0..frame_id : tree'[f] = tree[f]
  <2>1. \A f \in 0..frame_id : f \in Frames /\ f # frame_id + 1
    BY <1>1
  <2>. QED
    BY <2>1, <1>2, <1>3
<1>8. frames'[depth + 1].fid = frame_id + 1 /\ frames'[depth + 1].type = type
  <2>1. frames'[depth + 1] = NewFrame(type, n)
    BY PushFacts
  <2>. QED
    BY <2>1 DEF NewFrame
<1>. QED
  BY <1>2, <1>5, <1>6, <1>7, <1>8

\* A pop changes no frame of the tree, and leaves the frames under the head
\* where they are in their loops.
LEMMA PopTree ==
    ASSUME TypeOK, Shape, Pop
    PROVE  /\ frame_id' = frame_id /\ joined' = joined /\ tree' = tree
           /\ \A i \in 1..depth' :
                 /\ frames'[i].type = frames[i].type /\ frames'[i].fid = frames[i].fid
                 /\ frames'[i].iter = frames[i].iter
                 /\ frames'[i].version = frames[i].version
<1>1. depth \in Slots /\ frames \in [Slots -> FrameData] /\ depth > 1 /\ depth' = depth - 1
  BY PopFacts DEF TypeOK
<1>2. \A i \in 1..depth' : i \in Slots /\ i # depth /\ frames[i] \in FrameData
  BY <1>1
<1>3. CASE leave_cilk_function
  <2>1. /\ frame_id' = frame_id /\ joined' = joined /\ tree' = tree
    BY <1>3 DEF leave_cilk_function
  <2>2. ASSUME NEW i \in 1..depth'
        PROVE  /\ frames'[i].type = frames[i].type /\ frames'[i].fid = frames[i].fid
               /\ frames'[i].iter = frames[i].iter
               /\ frames'[i].version = frames[i].version
    BY <1>1, <1>2, <1>3, ZenonT(40) DEF leave_cilk_function, merge_from_call, FrameData
  <2>. QED
    BY <2>1, <2>2
<1>4. CASE return_from_detach
  BY <1>1, <1>2, <1>4, ZenonT(40) DEF return_from_detach, merge_from_detach, FrameData
<1>5. CASE do_loop_end
  BY <1>1, <1>2, <1>5, ZenonT(40) DEF do_loop_end, FrameData
<1>. QED
  BY <1>3, <1>4, <1>5 DEF Pop

\* A step of the head alone joins the finished children of one region at most,
\* those whose P-bag complete_sync empties.
LEMMA HeadTree ==
    ASSUME TypeOK, Shape, LoopsApart, HeadOnly
    PROVE  /\ frame_id' = frame_id /\ tree' = tree
           /\ \A i \in Slots :
                 /\ frames'[i].type = frames[i].type /\ frames'[i].fid = frames[i].fid
                 /\ frames'[i].iter = frames[i].iter
                 /\ frames'[i].version = frames[i].version
           /\ \/ joined' = joined /\ bagOf' = bagOf
              \/ \E r \in Regs : /\ joined' = joined \cup Joining(r)
                                 /\ complete_sync(r)
                                 /\ head.type # "loop" \/ LoopBodySpawns
<1>1. /\ depth \in Slots /\ frames \in [Slots -> FrameData] /\ frames[depth] \in FrameData
      /\ sync_reg \in Regs
  BY DEF TypeOK
<1>2. CASE do_detach_continue
  BY <1>1, <1>2 DEF do_detach_continue, FrameData
<1>3. CASE do_detach_unwind
  <2>1. head.type # "loop" \/ LoopBodySpawns
    BY <1>3 DEF do_detach_unwind, LoopsApart
  <2>2. /\ frame_id' = frame_id /\ tree' = tree
        /\ joined' = joined \cup Joining(sync_reg) /\ complete_sync(sync_reg)
    BY <1>3 DEF do_detach_unwind
  <2>3. \A i \in Slots :
           /\ frames'[i].type = frames[i].type /\ frames'[i].fid = frames[i].fid
           /\ frames'[i].iter = frames[i].iter /\ frames'[i].version = frames[i].version
    BY <1>1, <1>3 DEF do_detach_unwind, FrameData, head
  <2>. QED
    BY <1>1, <2>1, <2>2, <2>3
<1>4. CASE \E r \in Regs : do_sync(r)
  <2>. PICK r \in Regs : do_sync(r)
    BY <1>4
  <2>1. head.type # "loop" \/ LoopBodySpawns
    BY DEF do_sync, MaySpawn
  <2>2. /\ frame_id' = frame_id /\ tree' = tree
        /\ joined' = joined \cup Joining(r) /\ complete_sync(r)
    BY DEF do_sync
  <2>3. \A i \in Slots :
           /\ frames'[i].type = frames[i].type /\ frames'[i].fid = frames[i].fid
           /\ frames'[i].iter = frames[i].iter /\ frames'[i].version = frames[i].version
    BY <1>1 DEF do_sync, FrameData
  <2>. QED
    BY <2>1, <2>2, <2>3
<1>5. CASE do_loop_iteration_begin
  BY <1>1, <1>5 DEF do_loop_iteration_begin, FrameData
<1>6. CASE record_access
  BY <1>1, <1>6 DEF record_access, getSbagForAccess, FrameData
<1>. QED
  BY <1>2, <1>3, <1>4, <1>5, <1>6 DEF HeadOnly

\* The end of an iteration counts it, and moves the version on.
LEMMA IterationTree ==
    ASSUME TypeOK, do_loop_iteration_end
    PROVE  /\ frame_id' = frame_id /\ tree' = tree /\ joined' = joined /\ depth' = depth
           /\ \A i \in Slots : i # depth => frames'[i] = frames[i]
           /\ frames'[depth].type = frames[depth].type
           /\ frames'[depth].fid = frames[depth].fid
           /\ frames'[depth].iter = frames[depth].iter + 1
           /\ frames'[depth].version = inc_version(frames[depth].version)
           /\ pc' = "between"
<1>. DEFINE newI == inc_version(head.version) = 0 /\ head.Iterbag_used
            sds == IF head.Sbag_used THEN nds + 1 ELSE head.sds
            ids == IF newI THEN nds + 2 ELSE head.ids
            new == [head EXCEPT
                        !.InContin = head.InContin \ {Loop}, !.Pbags[0] = TRUE,
                        !.Sbag_used = FALSE, !.sds = sds,
                        !.Iterbag_used = head.Iterbag_used /\ ~newI, !.ids = ids,
                        !.version = inc_version(head.version),
                        !.iter = head.iter + 1]
<1>1. depth \in Slots /\ frames \in [Slots -> FrameData] /\ head \in FrameData
      /\ head = frames[depth]
  BY HeadType DEF TypeOK, head
<1>2. /\ frames' = [frames EXCEPT ![depth] = new] /\ depth' = depth
      /\ frame_id' = frame_id /\ tree' = tree /\ joined' = joined /\ pc' = "between"
  BY DEF do_loop_iteration_end
<1>. HIDE DEF newI, sds, ids
<1>3. /\ new.type = head.type /\ new.fid = head.fid /\ new.iter = head.iter + 1
      /\ new.version = inc_version(head.version)
  BY <1>1 DEF FrameData
<1>. HIDE DEF new
<1>4. frames'[depth] = new /\ \A i \in Slots : i # depth => frames'[i] = frames[i]
  BY <1>1, <1>2
<1>. QED
  BY <1>1, <1>2, <1>3, <1>4

\* Initially the tree is the frame of the code before the first Cilk context.
LEMMA TreeInit == Init => InTree /\ LoopsApart
<1>. SUFFICES ASSUME Init PROVE InTree /\ LoopsApart
  OBVIOUS
<1>1. /\ depth = 1 /\ frame_id = 0 /\ pc = "body" /\ joined = {}
      /\ frames[1] = [ResetFrame EXCEPT !.sds = 1]
      /\ tree = [f \in Frames |->
                   [path |-> [i \in Slots |-> 0], level |-> IF f = 0 THEN 1 ELSE 0,
                    type |-> "none", reg |-> 0, iter |-> 0]]
  BY DEF Init
<1>2. frames[1].fid = 0 /\ frames[1].type = "none"
  BY <1>1 DEF ResetFrame
<1>3. /\ tree[0].level = 1 /\ tree[0].type = "none" /\ tree[0].path[1] = 0
      /\ tree[0].path[tree[0].level] = 0
  BY <1>1
<1>n. depth = 1 /\ frame_id = 0 /\ joined = {} /\ 0 \in 0..frame_id
  BY <1>1
<1>4. OnStack
  <2>1. \A i \in 1..depth : i = 1 /\ ~(i > 1)
    BY <1>n
  <2>. QED
    BY <1>n, <1>2, <1>3, <2>1 DEF OnStack
<1>5. PathsAgree
  <2>1. \A f \in 0..frame_id : f = 0
    BY <1>1
  <2>2. \A j \in 1..1 : j = 1
    OBVIOUS
  <2>. QED
    BY <1>1, <1>2, <1>3, <2>1, <2>2 DEF PathsAgree
<1>6. LoopsApart
  BY <1>1 DEF LoopsApart
<1>. QED
  BY <1>1, <1>3, <1>4, <1>5, <1>6 DEF InTree

\* Steps that push nothing keep the stack in the tree.
LEMMA TreeKept ==
    ASSUME TypeOK, InTree, frame_id' = frame_id, tree' = tree,
           depth' \in 1..depth,
           joined' = joined \/ \E r \in Regs : joined' = joined \cup Joining(r),
           \A i \in 1..depth' :
              /\ frames'[i].fid = frames[i].fid /\ frames'[i].type = frames[i].type
              /\ i < depth' => frames'[i].iter = frames[i].iter
    PROVE  InTree'
<1>t. depth \in Nat /\ \A i \in 1..depth' : i \in 1..depth
  BY DEF TypeOK
<1>1. joined' \subseteq 1..frame_id
  BY DEF InTree, Joining
<1>2. ASSUME NEW i \in 1..depth' PROVE frames[i].fid \notin joined'
  <2>1. frames[i].fid \notin joined /\ tree[frames[i].fid].level # depth + 1
    BY <1>t DEF InTree, OnStack
  <2>. QED
    BY <2>1 DEF Joining
<1>3. OnStack'
  <2>. SUFFICES ASSUME NEW i \in 1..depth'
                PROVE  /\ frames'[i].fid \in 0..frame_id /\ frames'[i].fid \notin joined'
                       /\ tree[frames'[i].fid].level = i
                       /\ tree[frames'[i].fid].type = frames'[i].type
                       /\ i > 1 => tree[frames'[i].fid].iter = frames'[i - 1].iter
    BY DEF OnStack
  <2>1. i > 1 => i - 1 \in 1..depth' /\ i - 1 < depth'
    BY <1>t
  <2>. QED
    BY <2>1, <1>t, <1>2 DEF InTree, OnStack
<1>4. PathsAgree'
  <2>1. \A j \in 1..depth' : \A i \in 1..j : j <= depth /\ i \in 1..depth'
    BY <1>t
  <2>2. ASSUME NEW f \in 0..frame_id, NEW j \in 1..tree[f].level, j <= depth',
               tree[f].path[j] = frames'[j].fid
        PROVE  \A i \in 1..j : tree[f].path[i] = frames'[i].fid
    <3>0. tree[f].level \in 1..MaxDepth
      BY DEF InTree, PathsAgree
    <3>1. j \in 1..depth'
      BY <2>2, <3>0, <1>t
    <3>2. j <= depth /\ tree[f].path[j] = frames[j].fid
      BY <3>1, <2>1, <2>2, <1>t
    <3>3. \A i \in 1..j : tree[f].path[i] = frames[i].fid
      BY <3>2 DEF InTree, PathsAgree
    <3>. QED
      BY <3>1, <3>3, <2>1
  <2>. QED
    BY <2>2 DEF InTree, PathsAgree
<1>. QED
  BY <1>1, <1>3, <1>4 DEF InTree

\* Every step keeps the stack in the tree and the loops apart.
LEMMA TreeStep ==
    TypeOK /\ Shape /\ InTree /\ LoopsApart /\ [Next]_vars => InTree'
<1>. SUFFICES ASSUME TypeOK, Shape, InTree, LoopsApart, [Next]_vars PROVE InTree'
  OBVIOUS
<1>t. /\ depth \in Slots /\ frame_id \in Nat /\ depth \in 1..depth
      /\ \A i \in 1..depth : i \in Slots
  <2>1. depth \in 1..MaxDepth /\ frame_id \in 0..MaxFrames
    BY DEF TypeOK
  <2>. QED
    BY <2>1
<1>s. /\ tree[0].level = 1 /\ joined \subseteq 1..frame_id
      /\ \A i \in 1..depth :
            /\ frames[i].fid \in 0..frame_id /\ frames[i].fid \notin joined
            /\ tree[frames[i].fid].level = i
            /\ tree[frames[i].fid].type = frames[i].type
            /\ i > 1 => tree[frames[i].fid].iter = frames[i - 1].iter
  BY DEF InTree, OnStack
<1>p. \A f \in 0..frame_id :
        /\ tree[f].level \in Slots /\ tree[f].path[tree[f].level] = f
        /\ \A j \in 1..tree[f].level :
              /\ tree[f].path[j] \in 0..frame_id
              /\ tree[tree[f].path[j]].level = j
              /\ \A i \in 1..j : tree[tree[f].path[j]].path[i] = tree[f].path[i]
              /\ j <= depth /\ tree[f].path[j] = frames[j].fid
                   => \A i \in 1..j : tree[f].path[i] = frames[i].fid
  BY DEF InTree, PathsAgree
<1>1. CASE Push
  <2>1. PICK type \in {"spawner", "detacher", "loop"}, n \in 0..MaxRegs, r \in Regs :
           CanPush /\ start_new_function(type, n, r) /\ pc' = "body"
    BY <1>1 DEF Push
  <2>. DEFINE g == frame_id + 1
  <2>2. /\ depth' = depth + 1 /\ depth + 1 \in Slots
        /\ \A i \in 1..depth : frames'[i] = frames[i]
    BY <2>1, PushFacts
  <2>3. /\ frame_id' = g /\ joined' = joined
        /\ \A f \in 0..frame_id : tree'[f] = tree[f]
        /\ tree'[g].level = depth + 1
        /\ tree'[g].type = type
        /\ tree'[g].iter = frames[depth].iter
        /\ tree'[g].path[depth + 1] = g
        /\ \A i \in 1..depth : tree'[g].path[i] = frames[i].fid
        /\ frames'[depth + 1].fid = g /\ frames'[depth + 1].type = type
    BY <2>1, PushTree
  <2>n. /\ g \notin 0..frame_id /\ g \in 0..g /\ 0 \in 0..frame_id
        /\ \A f \in 0..g : f \in 0..frame_id \/ f = g
        /\ \A f \in 0..frame_id : f \in 0..g
        /\ 1..frame_id \subseteq 1..g
    BY <1>t
  <2>i. /\ \A i \in 1..(depth + 1) : i \in 1..depth \/ i = depth + 1
        /\ \A i \in 1..depth : i \in 1..(depth + 1) /\ i # depth + 1
        /\ depth + 1 - 1 = depth
    BY <1>t
  <2>. HIDE DEF g
  <2>4. OnStack'
    <3>. SUFFICES ASSUME NEW i \in 1..(depth + 1)
                  PROVE  /\ frames'[i].fid \in 0..g /\ frames'[i].fid \notin joined
                         /\ tree'[frames'[i].fid].level = i
                         /\ tree'[frames'[i].fid].type = frames'[i].type
                         /\ i > 1 => tree'[frames'[i].fid].iter = frames'[i - 1].iter
      BY <2>2, <2>3 DEF OnStack
    <3>1. CASE i \in 1..depth
      <4>1. i > 1 => i - 1 \in 1..depth
        BY <3>1, <1>t
      <4>. QED
        BY <3>1, <4>1, <2>2, <2>3, <2>n, <1>s
    <3>2. CASE i = depth + 1
      <4>1. g \notin joined
        BY <1>s, <1>t DEF g
      <4>2. frames'[i - 1] = frames[depth]
        BY <3>2, <2>2, <2>i, <1>t
      <4>. QED
        BY <3>2, <4>1, <4>2, <2>3, <2>n
    <3>. QED
      BY <3>1, <3>2, <2>i
  <2>5. PathsAgree'
    <3>1. ASSUME NEW f \in 0..frame_id, NEW j \in 1..tree[f].level
          PROVE  /\ tree'[f].path[j] \in 0..g
                 /\ tree'[tree'[f].path[j]].level = j
                 /\ \A i \in 1..j : tree'[tree'[f].path[j]].path[i] = tree'[f].path[i]
                 /\ j <= depth + 1 /\ tree'[f].path[j] = frames'[j].fid
                      => \A i \in 1..j : tree'[f].path[i] = frames'[i].fid
      <4>1. /\ tree'[f] = tree[f] /\ tree[f].path[j] \in 0..frame_id
            /\ tree'[tree[f].path[j]] = tree[tree[f].path[j]]
        BY <2>3, <1>p
      <4>2. ASSUME j <= depth + 1, tree[f].path[j] = frames'[j].fid
            PROVE  \A i \in 1..j : tree[f].path[i] = frames'[i].fid
        <5>1. j # depth + 1
          BY <4>1, <4>2, <2>3, <2>n
        <5>2. j \in 1..depth /\ \A i \in 1..j : i \in 1..depth
          BY <5>1, <4>2, <1>t, <1>p
        <5>. QED
          BY <5>2, <4>2, <2>2, <1>p
      <4>. QED
        BY <4>1, <4>2, <2>n, <1>p, SMTT(30)
    <3>2. ASSUME NEW j \in 1..(depth + 1)
          PROVE  /\ tree'[g].path[j] \in 0..g
                 /\ tree'[tree'[g].path[j]].level = j
                 /\ \A i \in 1..j : tree'[tree'[g].path[j]].path[i] = tree'[g].path[i]
                 /\ \A i \in 1..j : tree'[g].path[i] = frames'[i].fid
      <4>0. \A i \in 1..(depth + 1) : tree'[g].path[i] = frames'[i].fid
        BY <2>2, <2>3, <2>i
      <4>1. CASE j = depth + 1
        BY <4>0, <4>1, <2>3, <2>n
      <4>2. CASE j \in 1..depth
        <5>1. /\ tree'[g].path[j] = frames[j].fid
              /\ tree'[frames[j].fid] = tree[frames[j].fid]
              /\ frames[j].fid \in 0..frame_id /\ tree[frames[j].fid].level = j
          BY <4>2, <2>3, <1>s
        <5>2. \A i \in 1..j : i \in 1..depth /\ i \in 1..(depth + 1) /\ j \in 1..j /\ j <= depth
          BY <4>2, <1>t
        <5>3. \A i \in 1..j : tree[frames[j].fid].path[i] = frames[i].fid
          BY <4>2, <5>1, <5>2, <1>p
        <5>. QED
          BY <5>1, <5>2, <5>3, <4>0, <2>3, <2>n
      <4>. QED
        BY <4>1, <4>2, <2>i
    <3>3. \A f \in 0..frame_id : /\ tree'[f].level \in Slots
                                 /\ tree'[f].path[tree'[f].level] = f
      BY <2>3, <1>p
    <3>. QED
      BY <3>1, <3>2, <3>3, <2>2, <2>3, <2>n DEF PathsAgree
  <2>. QED
    BY <2>3, <2>4, <2>5, <2>n, <1>s DEF InTree
<1>2. CASE Pop
  <2>1. depth > 1 /\ depth' = depth - 1
    BY <1>2, PopFacts
  <2>2. depth' \in 1..depth
    BY <2>1, <1>t
  <2>. QED
    BY <2>2, <1>2, PopTree, TreeKept
<1>3. CASE HeadOnly
  <2>1. depth' = depth
    BY <1>3, HeadFacts
  <2>. QED
    BY <2>1, <1>3, <1>t, HeadTree, TreeKept
<1>4. CASE do_loop_begin
  BY <1>4, <1>t, TreeKept DEF do_loop_begin
<1>5. CASE do_loop_iteration_end
  <2>1. /\ frame_id' = frame_id /\ tree' = tree /\ joined' = joined /\ depth' = depth
        /\ \A i \in Slots : i # depth => frames'[i] = frames[i]
        /\ frames'[depth].type = frames[depth].type
        /\ frames'[depth].fid = frames[depth].fid
    BY <1>5, IterationTree
  <2>2. \A i \in 1..depth : i < depth => i # depth
    BY <1>t
  <2>. QED
    BY <2>1, <2>2, <1>t, TreeKept
<1>6. CASE UNCHANGED vars
  BY <1>6, <1>t, TreeKept DEF vars
<1>. QED
  BY <1>1, <1>2, <1>3, <1>4, <1>5, <1>6, StepKinds

\* Tasks and loops are started where spawns are allowed, and a step that
\* leads to a continuation or a new loop leaves such a frame at the head.
LEMMA LoopsStep ==
    TypeOK /\ Shape /\ InTree /\ LoopsApart /\ [Next]_vars => LoopsApart'
<1>. SUFFICES ASSUME TypeOK, Shape, InTree, LoopsApart, [Next]_vars, ~LoopBodySpawns
              PROVE  /\ pc' \in {"continue", "newloop"} => frames'[depth'].type # "loop"
                     /\ \A i \in 2..depth' :
                           frames'[i].type \in {"detacher", "loop"}
                             => frames'[i - 1].type # "loop"
  BY DEF LoopsApart, head
<1>t. depth \in Slots /\ head = frames[depth]
  BY DEF TypeOK, head
<1>a. /\ pc \in {"continue", "newloop"} => head.type # "loop"
      /\ \A i \in 2..depth :
            frames[i].type \in {"detacher", "loop"} => frames[i - 1].type # "loop"
  BY DEF LoopsApart
\* A pushed frame.
<1>1. ASSUME NEW type \in {"spawner", "detacher", "loop"}, NEW n \in 0..MaxRegs,
             NEW r \in Regs, CanPush, start_new_function(type, n, r), pc' = "body",
             type # "spawner" => head.type # "loop"
      PROVE  \A i \in 2..depth' :
                frames'[i].type \in {"detacher", "loop"} => frames'[i - 1].type # "loop"
  <2>1. /\ depth' = depth + 1 /\ frames'[depth + 1].type = type
        /\ \A i \in 1..depth : frames'[i] = frames[i]
    BY <1>1, PushFacts, PushTree
  <2>2. ASSUME NEW i \in 2..depth'
        PROVE  \/ i \in 2..depth /\ i \in 1..depth /\ i - 1 \in 1..depth
               \/ i = depth + 1 /\ i - 1 = depth /\ depth \in 1..depth
    BY <2>1, <1>t
  <2>. QED
    BY <2>1, <2>2, <1>1, <1>a, <1>t
<1>2. ASSUME NEW n \in SyncRegCounts, do_enter(n) \/ \E r \in Regs : do_task(n, r)
      PROVE  pc' = "body" /\ \A i \in 2..depth' :
                frames'[i].type \in {"detacher", "loop"} => frames'[i - 1].type # "loop"
  <2>1. n \in 0..MaxRegs /\ 0 \in Regs
    OBVIOUS
  <2>2. CASE do_enter(n)
    <3>1. CanPush /\ start_new_function("spawner", n, 0) /\ pc' = "body"
      BY <2>2 DEF do_enter
    <3>. QED
      BY <2>1, <3>1, <1>1
  <2>3. ASSUME NEW r \in Regs, do_task(n, r)
        PROVE  pc' = "body" /\ \A i \in 2..depth' :
                frames'[i].type \in {"detacher", "loop"} => frames'[i - 1].type # "loop"
    <3>1. /\ CanPush /\ start_new_function("detacher", n, r) /\ pc' = "body"
          /\ head.type # "loop"
      BY <2>3 DEF do_task, MaySpawn
    <3>. QED
      BY <2>1, <3>1, <1>1
  <2>. QED
    BY <1>2, <2>2, <2>3
<1>3. ASSUME NEW n \in SyncRegCounts, NEW r \in Regs, do_loop_iteration_first(n, r)
      PROVE  pc' = "body" /\ \A i \in 2..depth' :
                frames'[i].type \in {"detacher", "loop"} => frames'[i - 1].type # "loop"
  <2>1. (IF n > 0 THEN n ELSE 1) \in 0..MaxRegs
    OBVIOUS
  <2>2. /\ start_new_function("loop", IF n > 0 THEN n ELSE 1, r)
        /\ pc' = "body" /\ CanPush /\ head.type # "loop"
    BY <1>3, <1>a DEF do_loop_iteration_first
  <2>. QED
    BY <2>1, <2>2, <1>1
\* The other steps change the type of no frame they leave on the stack.
<1>4. ASSUME depth' \in 1..depth, \A i \in 1..depth' : frames'[i].type = frames[i].type
      PROVE  \A i \in 2..depth' :
                frames'[i].type \in {"detacher", "loop"} => frames'[i - 1].type # "loop"
  <2>1. \A i \in 2..depth' : i \in 1..depth' /\ i - 1 \in 1..depth' /\ i \in 2..depth
    BY <1>4, <1>t
  <2>. QED
    BY <2>1, <1>4, <1>a
<1>5. CASE Pop
  <2>1. /\ depth > 1 /\ depth' = depth - 1
        /\ \A i \in 1..depth' : frames'[i].type = frames[i].type
    BY <1>5, PopFacts
  <2>2. depth' \in 1..depth /\ depth' \in 1..depth' /\ depth \in 2..depth
    BY <2>1, <1>t
  <2>3. pc' = "body" \/ (pc' = "continue" /\ head.type = "detacher")
    <3>1. leave_cilk_function => pc' = "body"
      BY DEF leave_cilk_function
    <3>2. return_from_detach => pc' = "continue" /\ head.type = "detacher"
      BY DEF return_from_detach
    <3>3. do_loop_end => pc' = "body"
      BY DEF do_loop_end
    <3>. QED
      BY <1>5, <3>1, <3>2, <3>3 DEF Pop
  <2>. QED
    BY <2>1, <2>2, <2>3, <1>4, <1>a, <1>t
<1>6. CASE HeadOnly
  <2>1. /\ depth' = depth
        /\ \A i \in 1..depth' : frames'[i].type = frames[i].type
    <3>1. \A i \in 1..depth : i \in Slots
      BY <1>t
    <3>. QED
      BY <3>1, <1>6, HeadFacts, HeadTree
  <2>2. pc' = "body"
    BY <1>6 DEF HeadOnly, do_detach_continue, do_detach_unwind, do_sync,
                do_loop_iteration_begin, record_access
  <2>. QED
    BY <2>1, <2>2, <1>4, <1>t
<1>7. CASE do_loop_begin
  <2>1. depth' = depth /\ frames' = frames /\ head.type # "loop"
    BY <1>7 DEF do_loop_begin, MaySpawn
  <2>. QED
    BY <2>1, <1>4, <1>t
<1>8. CASE do_loop_iteration_end
  <2>1. /\ depth' = depth /\ pc' = "between"
        /\ \A i \in 1..depth : frames'[i].type = frames[i].type
    <3>1. \A i \in 1..depth : i \in Slots
      BY <1>t
    <3>. QED
      BY <3>1, <1>8, IterationTree
  <2>. QED
    BY <2>1, <1>4, <1>t
<1>9. CASE UNCHANGED vars
  BY <1>9, <1>a, <1>t DEF vars
<1>. QED
  BY <1>2, <1>3, <1>5, <1>6, <1>7, <1>8, <1>9 DEF Next, Pop, HeadOnly

(***************************************************************************)
(* Where a recorded access is.  Its bag is a bag of the youngest running   *)
(* frame it was made under; the kind of the bag, and the version when the  *)
(* bag is an Iter-bag, say how it was reached from there.                  *)
(***************************************************************************)
Home(a) == bagOf[a.ds].slot

\* The child of slot k that access a was made under.
ChildOf(a, k) == tree[a.owner].path[k + 1]

\* The iteration of slot k's loop that access a was made in.
IterOf(a, k) ==
    IF tree[a.owner].level = k THEN a.iter ELSE tree[ChildOf(a, k)].iter

\* The access was made in a task or loop that slot k has not synced since.
Outstanding(a, k) ==
    /\ tree[a.owner].level # k
    /\ tree[ChildOf(a, k)].type # "spawner" /\ ChildOf(a, k) \notin joined

InPbag(a, k) ==
    bagOf[a.ds].kind = "P" =>
        \/ Outstanding(a, k) /\ tree[ChildOf(a, k)].reg = bagOf[a.ds].reg
        \/ is_loop_frame(k) /\ IterOf(a, k) < frames[k].iter

InIterbag(a, k) ==
    bagOf[a.ds].kind = "I" =>
        /\ tree[a.owner].level = k /\ is_loop_frame(k) /\ a.version <= frames[k].version
        /\ frames[k].iter - a.iter = frames[k].version - a.version

InSbag(a, k) ==
    bagOf[a.ds].kind = "S" /\ ~LoopBodySpawns =>
        /\ ~Outstanding(a, k)
        /\ is_loop_frame(k) => IterOf(a, k) = frames[k].iter

Placed(a) ==
    /\ a.owner \in 0..frame_id
    /\ Home(a) \in 1..depth /\ IsLCA(a, Home(a))
    /\ is_loop_frame(Home(a)) => IterOf(a, Home(a)) <= frames[Home(a)].iter
    /\ InPbag(a, Home(a)) /\ InIterbag(a, Home(a)) /\ InSbag(a, Home(a))

\* An access in a bag that is in use is in a bag of its home's slot.
LEMMA HomeBags ==
    ASSUME NEW a, LiveBag(bagOf[a.ds])
    PROVE  /\ Home(a) \in 1..depth /\ LiveAt(Home(a), bagOf[a.ds])
           /\ \/ bagOf[a.ds] = Sbag(Home(a)) /\ frames[Home(a)].Sbag_used
              \/ bagOf[a.ds] = Iterbag(Home(a)) /\ frames[Home(a)].Iterbag_used
              \/ \E r \in Regs : /\ bagOf[a.ds] = Pbag(Home(a), r)
                                 /\ frames[Home(a)].Pbags[r]
<1>1. PICK i \in 1..depth : LiveAt(i, bagOf[a.ds])
  BY DEF LiveBag
<1>2. Home(a) = i
  BY <1>1, LiveSlot DEF Home
<1>. QED
  BY <1>1, <1>2 DEF LiveAt

\* The tree says where the child of a home is.
LEMMA ChildFacts ==
    ASSUME TypeOK, InTree, NEW a, Placed(a), tree[a.owner].level # Home(a)
    PROVE  /\ ChildOf(a, Home(a)) \in 1..frame_id
           /\ Home(a) + 1 \in 1..tree[a.owner].level
           /\ tree[ChildOf(a, Home(a))].level = Home(a) + 1
           /\ tree[ChildOf(a, Home(a))].path[Home(a)] = frames[Home(a)].fid
<1>1. /\ tree[a.owner].level \in 1..MaxDepth /\ Home(a) \in 1..depth /\ depth \in Nat
      /\ Home(a) <= tree[a.owner].level /\ a.owner \in 0..frame_id
      /\ tree[a.owner].path[Home(a)] = frames[Home(a)].fid
      /\ frame_id \in Nat
  <2>1. a.owner \in 0..frame_id /\ Home(a) \in 1..depth /\ IsLCA(a, Home(a))
    BY DEF Placed
  <2>2. depth \in Nat /\ frame_id \in Nat
    BY DEF TypeOK
  <2>3. tree[a.owner].level \in 1..MaxDepth
    BY <2>1 DEF InTree, PathsAgree
  <2>. QED
    BY <2>1, <2>2, <2>3 DEF IsLCA
<1>2. Home(a) + 1 \in 1..tree[a.owner].level /\ Home(a) \in 1..(Home(a) + 1)
  BY <1>1
<1>3. /\ ChildOf(a, Home(a)) \in 0..frame_id
      /\ tree[ChildOf(a, Home(a))].level = Home(a) + 1
      /\ tree[ChildOf(a, Home(a))].path[Home(a)] = frames[Home(a)].fid
  BY <1>1, <1>2, SMTT(30) DEF ChildOf, InTree, PathsAgree
<1>4. ChildOf(a, Home(a)) # 0
  BY <1>1, <1>3 DEF InTree
<1>. QED
  BY <1>1, <1>2, <1>3, <1>4

\* A push: the new frame is under the head, and no access was made under it.
LEMMA PlacedPush ==
    ASSUME TypeOK, InTree, NEW a, a.ds \in 1..nds, Placed(a),
           NEW type \in {"spawner", "detacher", "loop"}, NEW n \in 0..MaxRegs,
           NEW r \in Regs, CanPush, start_new_function(type, n, r)
    PROVE  Placed(a)'
<1>. PICK k : k = Home(a)
  OBVIOUS
<1>1. /\ bagOf'[a.ds] = bagOf[a.ds] /\ Home(a)' = k
      /\ depth' = depth + 1 /\ (\A i \in 1..depth : frames'[i] = frames[i])
      /\ frame_id' = frame_id + 1 /\ joined' = joined
      /\ (\A f \in 0..frame_id : tree'[f] = tree[f])
      /\ frames'[depth + 1].fid = frame_id + 1
  BY PushFacts, PushNodes, PushTree DEF Home
<1>2. /\ depth \in Nat /\ frame_id \in Nat /\ k \in 1..depth /\ a.owner \in 0..frame_id
      /\ IsLCA(a, k) /\ frames'[k] = frames[k] /\ tree'[a.owner] = tree[a.owner]
      /\ tree[a.owner].level \in 1..MaxDepth
  <2>1. a.owner \in 0..frame_id /\ k \in 1..depth /\ IsLCA(a, k)
    BY DEF Placed
  <2>2. depth \in Nat /\ frame_id \in Nat
    BY DEF TypeOK
  <2>3. tree[a.owner].level \in 1..MaxDepth
    BY <2>1 DEF InTree, PathsAgree
  <2>. QED
    BY <1>1, <2>1, <2>2, <2>3
<1>3. tree[a.owner].level # k => /\ ChildOf(a, k) \in 1..frame_id
                                 /\ tree'[ChildOf(a, k)] = tree[ChildOf(a, k)]
  <2>1. 1..frame_id \subseteq 0..frame_id
    OBVIOUS
  <2>. QED
    BY <2>1, <1>1, ChildFacts
<1>4. ChildOf(a, k)' = ChildOf(a, k) /\ IterOf(a, k)' = IterOf(a, k)
  BY <1>2, <1>3 DEF ChildOf, IterOf
<1>5. Outstanding(a, k)' <=> Outstanding(a, k)
  BY <1>1, <1>2, <1>3, <1>4 DEF Outstanding
<1>6. IsLCA(a, k)'
  <2>1. CASE k < depth
    <3>1. k + 1 \in 1..depth
      BY <2>1, <1>2
    <3>. QED
      BY <2>1, <3>1, <1>1, <1>2 DEF IsLCA
  <2>2. CASE k = depth
    <3>1. k < tree[a.owner].level => tree[a.owner].path[k + 1] # frame_id + 1
      BY <1>2, <1>3 DEF ChildOf
    <3>. QED
      BY <2>2, <3>1, <1>1, <1>2 DEF IsLCA
  <2>. QED
    BY <2>1, <2>2, <1>2
<1>7. InPbag(a, k)' /\ InIterbag(a, k)' /\ InSbag(a, k)'
  <2>1. InPbag(a, k) /\ InIterbag(a, k) /\ InSbag(a, k)
    BY DEF Placed
  <2>2. InPbag(a, k)'
    BY <2>1, <1>1, <1>2, <1>3, <1>4, <1>5 DEF InPbag, is_loop_frame, Outstanding
  <2>3. InIterbag(a, k)'
    BY <2>1, <1>1, <1>2 DEF InIterbag, is_loop_frame
  <2>4. InSbag(a, k)'
    BY <2>1, <1>1, <1>2, <1>4, <1>5 DEF InSbag, is_loop_frame
  <2>. QED
    BY <2>2, <2>3, <2>4
<1>8. (is_loop_frame(k) => IterOf(a, k) <= frames[k].iter)'
  BY <1>2, <1>4 DEF Placed, is_loop_frame
<1>9. a.owner \in 0..frame_id' /\ k \in 1..depth'
  BY <1>1, <1>2
<1>. QED
  BY <1>1, <1>6, <1>7, <1>8, <1>9 DEF Placed

\* A pop: what was under the head is under its parent now, as an access of a
\* child that has returned; a callee's is serial, a task's or a loop's is not.
LEMMA PlacedPop ==
    ASSUME TypeOK, Shape, BagsInPlace, InTree, Pop, NEW a, a.ds \in DS,
           LiveBag(bagOf[a.ds]), Placed(a)
    PROVE  Placed(a)'
<1>1. /\ depth > 1 /\ depth' = depth - 1 /\ depth \in Nat /\ frame_id \in Nat
      /\ frame_id' = frame_id /\ joined' = joined /\ tree' = tree
      /\ \A i \in 1..depth' :
            /\ frames'[i].type = frames[i].type /\ frames'[i].fid = frames[i].fid
            /\ frames'[i].iter = frames[i].iter
            /\ frames'[i].version = frames[i].version
  <2>1. depth \in Nat /\ frame_id \in Nat
    BY DEF TypeOK
  <2>. QED
    BY <2>1, PopFacts, PopTree
<1>2. /\ a.owner \in 0..frame_id /\ Home(a) \in 1..depth /\ IsLCA(a, Home(a))
      /\ tree[a.owner].level \in 1..MaxDepth
  <2>1. a.owner \in 0..frame_id /\ Home(a) \in 1..depth /\ IsLCA(a, Home(a))
    BY DEF Placed
  <2>. QED
    BY <2>1 DEF InTree, PathsAgree
<1>3. CASE Home(a) # depth
  <2>. PICK k : k = Home(a)
    OBVIOUS
  <2>1. bagOf'[a.ds] = bagOf[a.ds] /\ Home(a)' = k /\ k \in 1..depth'
    BY <1>1, <1>2, <1>3, PopUntouched DEF Home
  <2>2. /\ ChildOf(a, k)' = ChildOf(a, k) /\ IterOf(a, k)' = IterOf(a, k)
        /\ Outstanding(a, k)' <=> Outstanding(a, k)
    BY <1>1 DEF ChildOf, IterOf, Outstanding
  <2>3. IsLCA(a, k)'
    <3>1. k < depth' => k + 1 \in 1..depth' /\ k < depth
      BY <1>1, <2>1
    <3>. QED
      BY <1>1, <1>2, <2>1, <3>1 DEF IsLCA
  <2>. QED
    BY <1>1, <1>2, <2>1, <2>2, <2>3
       DEF Placed, InPbag, InIterbag, InSbag, is_loop_frame
<1>4. CASE Home(a) = depth
  <2>. PICK k : k = depth - 1
    OBVIOUS
  <2>0. k \in 1..depth' /\ k + 1 = depth /\ k \in 1..depth /\ depth \in 1..depth
    BY <1>1
  <2>1. LiveAt(depth, bagOf[a.ds])
    BY <1>4, HomeBags
  <2>2. bagOf'[a.ds] = IF head.type = "spawner" THEN Sbag(k)
                       ELSE Pbag(k, tree[head.fid].reg)
    BY <2>1, PopMoved
  <2>3. Home(a)' = k
    BY <2>2, BagsDiffer DEF Home
  <2>4. /\ head = frames[depth] /\ head.fid \notin joined
        /\ tree[head.fid].type = head.type /\ tree[head.fid].iter = frames[k].iter
    BY <1>1, <2>0 DEF head, InTree, OnStack
  <2>5. /\ depth \in 1..tree[a.owner].level /\ k < tree[a.owner].level
        /\ \A i \in 1..depth : tree[a.owner].path[i] = frames[i].fid
    <3>1. depth \in 1..tree[a.owner].level /\ tree[a.owner].path[depth] = frames[depth].fid
      BY <1>1, <1>2, <1>4 DEF IsLCA
    <3>2. \A i \in 1..depth : tree[a.owner].path[i] = frames[i].fid
      BY <3>1, <1>1, <1>2 DEF InTree, PathsAgree
    <3>. QED
      BY <3>1, <3>2, <1>1, <1>2, <2>0
  <2>6. ChildOf(a, k)' = head.fid /\ IterOf(a, k)' = frames'[k].iter
    BY <1>1, <2>0, <2>4, <2>5, <1>2 DEF ChildOf, IterOf
  <2>7. Outstanding(a, k)' <=> head.type # "spawner"
    BY <1>1, <1>2, <2>4, <2>5, <2>6 DEF Outstanding
  <2>8. IsLCA(a, k)'
    BY <1>1, <1>2, <2>0, <2>5 DEF IsLCA
  <2>9. InPbag(a, k)'
    BY <1>1, <2>2, <2>6, <2>7, BagsDiffer DEF InPbag
  <2>10. InIterbag(a, k)' /\ InSbag(a, k)'
    BY <2>2, <2>6, <2>7, BagsDiffer DEF InIterbag, InSbag
  <2>11. (is_loop_frame(k) => IterOf(a, k) <= frames[k].iter)'
    <3>1. frames[k].iter \in Nat
      <4>1. frames[k] \in FrameData
        BY <2>0 DEF TypeOK
      <4>. QED
        BY <4>1, FrameFields
    <3>. QED
      BY <3>1, <1>1, <2>0, <2>6
  <2>. QED
    BY <1>1, <1>2, <2>0, <2>3, <2>8, <2>9, <2>10, <2>11 DEF Placed
<1>. QED
  BY <1>3, <1>4

\* A step of the head alone: a sync puts the accesses of the tasks it joins in
\* the S-bag.
LEMMA PlacedHead ==
    ASSUME TypeOK, Shape, InTree, LoopsApart, HeadOnly, NEW a, a.ds \in DS,
           LiveBag(bagOf[a.ds]), Placed(a)
    PROVE  Placed(a)'
<1>. PICK k : k = Home(a)
  OBVIOUS
<1>1. /\ depth' = depth /\ depth \in Nat /\ frame_id' = frame_id /\ tree' = tree
      /\ \A i \in 1..depth :
            /\ frames'[i].type = frames[i].type /\ frames'[i].fid = frames[i].fid
            /\ frames'[i].iter = frames[i].iter
            /\ frames'[i].version = frames[i].version
  <2>1. depth \in Nat /\ \A i \in 1..depth : i \in Slots
    BY DEF TypeOK
  <2>. QED
    BY <2>1, HeadFacts, HeadTree
<1>2. /\ a.owner \in 0..frame_id /\ k \in 1..depth /\ IsLCA(a, k)
      /\ is_loop_frame(k) => IterOf(a, k) <= frames[k].iter
      /\ InPbag(a, k) /\ InIterbag(a, k) /\ InSbag(a, k)
  BY DEF Placed
<1>3. IsLCA(a, k)'
  <2>1. k < depth => k + 1 \in 1..depth
    BY <1>1, <1>2
  <2>. QED
    BY <1>1, <1>2, <2>1 DEF IsLCA
<1>4. ChildOf(a, k)' = ChildOf(a, k) /\ IterOf(a, k)' = IterOf(a, k)
  BY <1>1 DEF ChildOf, IterOf
\* What does not depend on the bag.
<1>5. ASSUME Home(a)' = k, InPbag(a, k)', InIterbag(a, k)', InSbag(a, k)'
      PROVE  Placed(a)'
  BY <1>1, <1>2, <1>3, <1>4, <1>5 DEF Placed, is_loop_frame
<1>6. CASE joined' = joined /\ bagOf' = bagOf
  <2>1. (Outstanding(a, k)' <=> Outstanding(a, k)) /\ Home(a)' = k
    BY <1>1, <1>4, <1>6 DEF Outstanding, Home
  <2>. QED
    BY <1>1, <1>2, <1>4, <1>5, <1>6, <2>1
       DEF InPbag, InIterbag, InSbag, is_loop_frame
<1>7. ASSUME NEW r \in Regs, joined' = joined \cup Joining(r), complete_sync(r),
             head.type # "loop" \/ LoopBodySpawns
      PROVE  Placed(a)'
  <2>1. CASE bagOf[a.ds] = Pbag(depth, r)
    <3>1. k = depth /\ head = frames[k] /\ head.Pbags[r]
      BY <2>1, HomeBags, BagsDiffer DEF head, Home
    <3>2. bagOf'[a.ds] = Sbag(k)
      BY <1>7, <2>1, <3>1, MovedAt DEF complete_sync
    <3>3. Home(a)' = k /\ InPbag(a, k)' /\ InIterbag(a, k)'
      BY <3>2, BagsDiffer DEF Home, InPbag, InIterbag
    <3>4. ASSUME ~LoopBodySpawns PROVE ~Outstanding(a, k)' /\ ~is_loop_frame(k)'
      <4>1. ~is_loop_frame(k)' /\ ~is_loop_frame(k)
        BY <1>1, <1>2, <1>7, <3>1, <3>4 DEF is_loop_frame
      <4>2. Outstanding(a, k) /\ tree[ChildOf(a, k)].reg = r
        BY <1>2, <2>1, <4>1, BagsDiffer DEF InPbag
      <4>3. ChildOf(a, k) \in Joining(r)
        BY <4>2, <3>1, ChildFacts DEF Joining, Outstanding
      <4>. QED
        BY <1>4, <1>7, <4>1, <4>3 DEF Outstanding
    <3>. QED
      BY <3>3, <3>4, <1>5 DEF InSbag
  <2>2. CASE bagOf[a.ds] # Pbag(depth, r)
    <3>1. bagOf'[a.ds] = bagOf[a.ds] /\ Home(a)' = k
      BY <1>7, <2>2, MovedAt DEF complete_sync, Home
    <3>2. Outstanding(a, k)' => Outstanding(a, k)
      BY <1>1, <1>4, <1>7 DEF Outstanding
    <3>3. InIterbag(a, k)' /\ InSbag(a, k)'
      BY <1>1, <1>2, <1>4, <3>1, <3>2 DEF InIterbag, InSbag, is_loop_frame
    <3>4. ASSUME bagOf[a.ds].kind = "P", Outstanding(a, k),
                 tree[ChildOf(a, k)].reg = bagOf[a.ds].reg
          PROVE  Outstanding(a, k)'
      <4>1. PICK q \in Regs : bagOf[a.ds] = Pbag(k, q)
        BY <3>4, HomeBags, BagsDiffer
      <4>2. ChildOf(a, k) \notin Joining(r)
        <5>1. CASE k = depth
          <6>1. tree[ChildOf(a, k)].reg # r
            BY <2>2, <3>4, <4>1, <5>1, BagsDiffer
          <6>. QED
            BY <6>1 DEF Joining
        <5>2. CASE k # depth
          <6>1. tree[ChildOf(a, k)].level # depth + 1
            BY <1>1, <1>2, <3>4, <5>2, ChildFacts DEF Outstanding
          <6>. QED
            BY <6>1 DEF Joining
        <5>. QED
          BY <5>1, <5>2
      <4>. QED
        BY <1>1, <1>4, <1>7, <3>4, <4>2 DEF Outstanding
    <3>5. InPbag(a, k)'
      BY <1>1, <1>2, <1>4, <3>1, <3>4 DEF InPbag, is_loop_frame
    <3>. QED
      BY <1>5, <3>1, <3>3, <3>5
  <2>. QED
    BY <2>1, <2>2
<1>. QED
  BY <1>6, <1>7, HeadTree

\* A version that does not wrap is the next number.
LEMMA NextVersion ==
    ASSUME NEW v \in 0..(VersionMod - 1), inc_version(v) # 0
    PROVE  inc_version(v) = v + 1
<1>1. CASE v + 1 < VersionMod
  BY <1>1 DEF inc_version
<1>2. CASE v + 1 = VersionMod
  <2>1. VersionMod % VersionMod = 0
    OBVIOUS
  <2>. QED
    BY <1>2, <2>1 DEF inc_version
<1>. QED
  BY <1>1, <1>2

\* The end of an iteration: what the iteration did is in P-bag 0, or in the
\* Iter-bag under a smaller version than the next iteration's.
LEMMA PlacedIteration ==
    ASSUME TypeOK, Shape, BagsInPlace, InTree, do_loop_iteration_end,
           NEW a \in MemoryAccess, a.ds \in 1..nds, LiveBag(bagOf[a.ds]), Placed(a)
    PROVE  Placed(a)'
<1>. PICK k : k = Home(a)
  OBVIOUS
<1>1. /\ depth' = depth /\ depth \in Slots /\ frame_id' = frame_id /\ tree' = tree
      /\ joined' = joined /\ is_loop_frame(depth)
      /\ \A i \in 1..depth : i \in Slots /\ frames'[i].type = frames[i].type
                            /\ frames'[i].fid = frames[i].fid
                            /\ (i # depth => frames'[i] = frames[i])
      /\ frames'[depth].iter = frames[depth].iter + 1
      /\ frames'[depth].version = inc_version(frames[depth].version)
  <2>1. depth \in Slots /\ \A i \in 1..depth : i \in Slots
    BY DEF TypeOK
  <2>2. is_loop_frame(depth)
    BY DEF do_loop_iteration_end, is_loop_frame, head
  <2>. QED
    BY <2>1, <2>2, IterationTree
<1>2. /\ a.owner \in 0..frame_id /\ k \in 1..depth /\ IsLCA(a, k)
      /\ is_loop_frame(k) => IterOf(a, k) <= frames[k].iter
      /\ InPbag(a, k) /\ InIterbag(a, k) /\ InSbag(a, k)
  BY DEF Placed
<1>3. IsLCA(a, k)'
  <2>1. k < depth => k + 1 \in 1..depth
    BY <1>1, <1>2
  <2>. QED
    BY <1>1, <1>2, <2>1 DEF IsLCA
<1>4. /\ ChildOf(a, k)' = ChildOf(a, k) /\ IterOf(a, k)' = IterOf(a, k)
      /\ Outstanding(a, k)' <=> Outstanding(a, k)
  BY <1>1 DEF ChildOf, IterOf, Outstanding
<1>5. bagOf'[a.ds] = IF \/ bagOf[a.ds] = Sbag(depth) /\ head.Sbag_used
                        \/ /\ bagOf[a.ds] = Iterbag(depth)
                           /\ inc_version(head.version) = 0 /\ head.Iterbag_used
                     THEN Pbag(depth, 0) ELSE bagOf[a.ds]
  BY IterationLive
<1>6. Home(a)' = k
  BY <1>5, BagsDiffer DEF Home
<1>7. CASE k # depth
  <2>1. bagOf'[a.ds] = bagOf[a.ds]
    BY <1>5, <1>7, BagsDiffer DEF Home
  <2>2. frames'[k] = frames[k]
    BY <1>1, <1>2, <1>7
  <2>. QED
    BY <1>1, <1>2, <1>3, <1>4, <1>6, <2>1, <2>2
       DEF Placed, InPbag, InIterbag, InSbag, is_loop_frame
<1>8. CASE k = depth
  <2>0. \/ bagOf[a.ds] = Sbag(depth) /\ head.Sbag_used
        \/ bagOf[a.ds] = Iterbag(depth) /\ head.Iterbag_used
        \/ \E r \in Regs : bagOf[a.ds] = Pbag(depth, r)
    BY <1>8, HomeBags DEF head
  <2>1. /\ frames[k].iter \in Nat /\ frames[k].version \in 0..(VersionMod - 1)
        /\ IterOf(a, k) \in Nat
    <3>1. frames[k] \in FrameData
      BY <1>1, <1>8 DEF TypeOK
    <3>2. ASSUME tree[a.owner].level # k PROVE tree[ChildOf(a, k)].iter \in Nat
      <4>1. ChildOf(a, k) \in 1..frame_id
        BY <3>2, ChildFacts
      <4>2. frame_id \in 0..MaxFrames
        BY DEF TypeOK
      <4>3. ChildOf(a, k) \in Frames
        BY <4>1, <4>2
      <4>. QED
        BY <4>3 DEF TypeOK
    <3>. QED
      BY <3>1, <3>2, FrameFields DEF IterOf, MemoryAccess
  <2>2. (is_loop_frame(k) => IterOf(a, k) <= frames[k].iter)'
    BY <1>1, <1>2, <1>4, <1>8, <2>1
  <2>3. IterOf(a, k) < frames'[k].iter
    BY <1>1, <1>2, <1>8, <2>1
  <2>4. InPbag(a, k)'
    BY <1>1, <1>4, <1>8, <2>3 DEF InPbag, is_loop_frame
  <2>5. InSbag(a, k)'
    <3>1. bagOf'[a.ds].kind # "S"
      <4>1. \/ bagOf[a.ds] = Sbag(depth) /\ head.Sbag_used
            \/ bagOf[a.ds].kind # "S"
        BY <2>0, BagsDiffer
      <4>. QED
        BY <4>1, <1>5, BagsDiffer
    <3>. QED
      BY <3>1 DEF InSbag
  <2>6. InIterbag(a, k)'
    <3>. SUFFICES ASSUME bagOf'[a.ds].kind = "I" PROVE InIterbag(a, k)'
      BY DEF InIterbag
    <3>1. bagOf'[a.ds] = bagOf[a.ds] /\ bagOf[a.ds].kind = "I"
      BY <1>5, BagsDiffer
    <3>2. bagOf[a.ds] = Iterbag(depth) /\ head.Iterbag_used
      BY <3>1, <2>0, BagsDiffer
    <3>3. inc_version(frames[k].version) # 0
      BY <3>1, <3>2, <1>5, <1>8, BagsDiffer DEF head
    <3>4. frames'[k].version = frames[k].version + 1
      BY <3>3, <1>1, <1>8, <2>1, NextVersion
    <3>5. /\ tree[a.owner].level = k /\ a.version <= frames[k].version
          /\ frames[k].iter - a.iter = frames[k].version - a.version
      BY <3>1, <1>2 DEF InIterbag
    <3>6. a.version \in Nat /\ a.iter \in Nat
      BY DEF MemoryAccess
    <3>. QED
      BY <3>4, <3>5, <3>6, <1>1, <1>8, <2>1 DEF InIterbag, is_loop_frame
  <2>. QED
    BY <1>1, <1>2, <1>3, <1>6, <2>2, <2>4, <2>5, <2>6 DEF Placed
<1>. QED
  BY <1>7, <1>8

\* getSbagForAccess marks a bag of the head: no access moves.
LEMMA PlacedMark ==
    ASSUME TypeOK, getSbagForAccess, NEW a, Placed(a),
           UNCHANGED <<depth, bagOf, frame_id, tree, joined>>
    PROVE  Placed(a)'
<1>1. /\ depth \in Slots /\ frames \in [Slots -> FrameData] /\ frames[depth] \in FrameData
      /\ \A i \in 1..depth : i \in Slots
  <2>1. depth \in 1..MaxDepth /\ frames \in [Slots -> FrameData]
    BY DEF TypeOK
  <2>. QED
    BY <2>1
<1>2. ASSUME NEW i \in 1..depth
      PROVE  /\ frames'[i].type = frames[i].type /\ frames'[i].fid = frames[i].fid
             /\ frames'[i].iter = frames[i].iter /\ frames'[i].version = frames[i].version
  BY <1>1 DEF getSbagForAccess, FrameData
<1>. PICK k : k = Home(a)
  OBVIOUS
<1>3. /\ Home(a)' = k /\ k \in 1..depth /\ IsLCA(a, k)
      /\ ChildOf(a, k)' = ChildOf(a, k) /\ IterOf(a, k)' = IterOf(a, k)
      /\ Outstanding(a, k)' <=> Outstanding(a, k)
  BY DEF Placed, Home, ChildOf, IterOf, Outstanding
<1>4. IsLCA(a, k)'
  <2>1. k < depth => k + 1 \in 1..depth
    BY <1>1, <1>3
  <2>. QED
    BY <1>2, <1>3, <2>1 DEF IsLCA
<1>. QED
  BY <1>2, <1>3, <1>4 DEF Placed, InPbag, InIterbag, InSbag, is_loop_frame

\* The current access is in the head's S-bag, or in its Iter-bag under the
\* version of the iteration.
LEMMA CurrentPlaced ==
    ASSUME TypeOK, Shape, BagsInPlace, InTree
    PROVE  /\ CurrentAccess \in MemoryAccess /\ CurrentAccess.ds \in 1..nds
           /\ bagOf[CurrentAccess.ds] = IF head.type = "loop" THEN Iterbag(depth)
                                        ELSE Sbag(depth)
           /\ Placed(CurrentAccess)
<1>. PICK a : a = CurrentAccess
  OBVIOUS
<1>1. /\ depth \in Slots /\ depth \in 1..depth /\ nds \in DS /\ head = frames[depth]
      /\ head \in FrameData
  BY HeadType DEF TypeOK, head
<1>2. /\ a.ds = IF head.type = "loop" THEN head.ids ELSE head.sds
      /\ a.version = IF head.type = "loop" THEN head.version ELSE 0
      /\ a.owner = head.fid /\ a.iter = head.iter
  BY DEF CurrentAccess
<1>3. /\ a.ds \in 1..nds
      /\ bagOf[a.ds] = IF head.type = "loop" THEN Iterbag(depth) ELSE Sbag(depth)
  BY <1>1, <1>2 DEF Shape, BagsInPlace
<1>4. a \in MemoryAccess
  <2>1. head.version \in 0..(VersionMod - 1) /\ head.fid \in Frames /\ head.iter \in 0..MaxIters
    BY <1>1, FrameFields
  <2>2. a.ds \in DS /\ a.version \in 0..(VersionMod - 1)
    BY <1>1, <1>2, <1>3, <2>1
  <2>. QED
    BY <1>2, <2>1, <2>2 DEF MemoryAccess, CurrentAccess
<1>5. Home(a) = depth
  BY <1>3, BagsDiffer DEF Home
<1>6. /\ tree[a.owner].level = depth /\ a.owner \in 0..frame_id
      /\ tree[a.owner].path[depth] = frames[depth].fid
  BY <1>1, <1>2 DEF InTree, OnStack, PathsAgree
<1>7. IsLCA(a, depth)
  BY <1>1, <1>6 DEF IsLCA
<1>8. IterOf(a, depth) = head.iter /\ ~Outstanding(a, depth)
  BY <1>2, <1>6 DEF IterOf, Outstanding
<1>9. head.iter \in Nat /\ head.version \in Nat
  BY <1>1, FrameFields
<1>10. InPbag(a, depth) /\ InIterbag(a, depth) /\ InSbag(a, depth)
  BY <1>1, <1>2, <1>3, <1>6, <1>8, <1>9, BagsDiffer
     DEF InPbag, InIterbag, InSbag, is_loop_frame
<1>. QED
  BY <1>1, <1>3, <1>4, <1>5, <1>6, <1>7, <1>8, <1>9, <1>10 DEF Placed

\* Every step of the engine keeps a recorded access where it should be.
LEMMA PlacedStep ==
    ASSUME TypeOK, Shape, BagsInPlace, InTree, LoopsApart, Next,
           NEW a \in MemoryAccess, a.ds \in 1..nds, LiveBag(bagOf[a.ds]), Placed(a)
    PROVE  Placed(a)'
<1>1. a.ds \in DS
  BY DEF MemoryAccess
<1>2. CASE Push
  BY <1>2, PlacedPush DEF Push
<1>3. CASE Pop
  BY <1>1, <1>3, PlacedPop
<1>4. CASE HeadOnly
  BY <1>1, <1>4, PlacedHead
<1>5. CASE do_loop_begin
  BY <1>5 DEF do_loop_begin, Placed, Home, ChildOf, IterOf, Outstanding, IsLCA,
              InPbag, InIterbag, InSbag, is_loop_frame
<1>6. CASE do_loop_iteration_end
  BY <1>6, PlacedIteration
<1>. QED
  BY <1>2, <1>3, <1>4, <1>5, <1>6, StepKinds

\* A step records the current access at most.
LEMMA StrandsStep ==
    ASSUME Next
    PROVE  \/ strands' = strands
           \/ record_access /\ strands' = strands \cup {CurrentAccess}
  BY DEF Next, do_enter, leave_cilk_function, do_task, return_from_detach,
         do_detach_continue, do_detach_unwind, do_sync, do_loop_begin,
         do_loop_iteration_first, do_loop_iteration_begin, do_loop_iteration_end,
         do_loop_end, record_access, start_new_function

AllPlaced == \A a \in strands : Placed(a)

\* Every step keeps every recorded access where it should be.
LEMMA AllPlacedStep ==
    TypeOK /\ Shape /\ BagsInPlace /\ NoDanglingBag /\ InTree /\ LoopsApart /\ AllPlaced
      /\ [Next]_vars => AllPlaced'
<1>. SUFFICES ASSUME TypeOK, Shape, BagsInPlace, NoDanglingBag, InTree, LoopsApart,
                     AllPlaced, [Next]_vars
              PROVE  AllPlaced'
  OBVIOUS
<1>1. CASE UNCHANGED vars
  <2>1. UNCHANGED <<depth, frames, bagOf, frame_id, tree, joined, strands>>
    BY <1>1 DEF vars
  <2>2. ASSUME NEW a \in strands, Placed(a) PROVE Placed(a)'
    BY <2>1, <2>2 DEF Placed, Home, ChildOf, IterOf, Outstanding, IsLCA,
                      InPbag, InIterbag, InSbag, is_loop_frame
  <2>. QED
    BY <2>1, <2>2 DEF AllPlaced
<1>2. CASE Next
  <2>1. ASSUME NEW a \in strands PROVE Placed(a)'
    <3>1. a \in MemoryAccess /\ a.ds \in 1..nds /\ LiveBag(bagOf[a.ds]) /\ Placed(a)
      BY DEF TypeOK, BagsInPlace, NoDanglingBag, AllPlaced
    <3>. QED
      BY <1>2, <3>1, PlacedStep
  <2>2. ASSUME record_access
        PROVE  \E a : Placed(a)' /\ strands' = strands \cup {a}
    <3>. PICK a : a = CurrentAccess
      OBVIOUS
    <3>1. Placed(a)
      BY CurrentPlaced
    <3>2. /\ getSbagForAccess /\ strands' = strands \cup {a}
          /\ UNCHANGED <<depth, bagOf, frame_id, tree, joined>>
      BY <2>2 DEF record_access
    <3>. QED
      BY <3>1, <3>2, PlacedMark
  <2>. QED
    BY <1>2, <2>1, <2>2, StrandsStep DEF AllPlaced
<1>. QED
  BY <1>1, <1>2

\* The inductive invariant behind the theorems about parallelism.
LEMMA ParallelismInvariant ==
    Spec => [](TypeOK /\ Shape /\ BagsInPlace /\ NoDanglingBag
                 /\ InTree /\ LoopsApart /\ AllPlaced)
<1>1. Init => InTree /\ LoopsApart /\ AllPlaced
  <2>1. Init => AllPlaced
    BY DEF Init, AllPlaced
  <2>. QED
    BY <2>1, TreeInit
<1>2. TypeOK /\ Shape /\ BagsInPlace /\ NoDanglingBag
        /\ InTree /\ LoopsApart /\ AllPlaced /\ [Next]_vars
          => (InTree /\ LoopsApart /\ AllPlaced)'
  BY TreeStep, LoopsStep, AllPlacedStep
<1>. QED
  BY <1>1, <1>2, BagsInvariant, PTL DEF Spec

\* What the code answers "parallel" for is parallel by the tree.
LEMMA ParallelIsTrue ==
    ASSUME InTree, NEW a \in MemoryAccess, Placed(a), previousAccessInParallel(a), TypeOK
    PROVE  LogicallyParallel(a)
<1>. PICK k : k = Home(a)
  OBVIOUS
<1>1. k \in 1..depth /\ IsLCA(a, k) /\ InPbag(a, k) /\ InIterbag(a, k)
  BY DEF Placed
<1>2. \/ bagOf[a.ds].kind = "P"
      \/ head.type = "loop" /\ bagOf[a.ds] = Iterbag(depth) /\ a.version < head.version
  BY DEF previousAccessInParallel, check_parallel_iter
<1>3. \/ Outstanding(a, k)
      \/ is_loop_frame(k) /\ IterOf(a, k) # frames[k].iter
  <2>1. CASE bagOf[a.ds].kind = "P"
    <3>1. ASSUME is_loop_frame(k), IterOf(a, k) < frames[k].iter
          PROVE  IterOf(a, k) # frames[k].iter
      <4>1. frames[k].iter \in Nat
        <5>1. k \in Slots
          <6>1. depth \in 1..MaxDepth
            BY DEF TypeOK
          <6>. QED
            BY <1>1, <6>1
        <5>2. frames[k] \in FrameData
          BY <5>1 DEF TypeOK
        <5>. QED
          BY <5>2, FrameFields
      <4>. QED
        BY <3>1, <4>1
    <3>. QED
      BY <2>1, <3>1, <1>1 DEF InPbag
  <2>2. CASE /\ head.type = "loop" /\ bagOf[a.ds] = Iterbag(depth)
             /\ a.version < head.version
    <3>1. k = depth /\ bagOf[a.ds].kind = "I"
      BY <2>2, BagsDiffer DEF Home
    <3>2. /\ tree[a.owner].level = k /\ is_loop_frame(k)
          /\ frames[k].iter - a.iter = frames[k].version - a.version
          /\ a.version < frames[k].version
      BY <2>2, <3>1, <1>1 DEF InIterbag, head
    <3>3. /\ a.iter \in Nat /\ a.version \in Nat /\ frames[k].iter \in Nat
          /\ frames[k].version \in Nat
      BY <3>1, HeadType, FrameFields DEF MemoryAccess, head
    <3>. QED
      BY <3>2, <3>3 DEF IterOf
  <2>. QED
    BY <1>2, <2>1, <2>2
<1>. QED
  BY <1>1, <1>3 DEF LogicallyParallel, Outstanding, IterOf, ChildOf

\* There is one youngest common frame.
LEMMA HomeIsLCA ==
    ASSUME TypeOK, InTree, NEW a, Placed(a), NEW k \in 1..depth, IsLCA(a, k)
    PROVE  k = Home(a)
<1>. PICK h : h = Home(a)
  OBVIOUS
<1>1. h \in 1..depth /\ IsLCA(a, h) /\ a.owner \in 0..frame_id /\ depth \in Nat
  BY DEF Placed, TypeOK
<1>2. tree[a.owner].level \in 1..MaxDepth
  BY <1>1 DEF InTree, PathsAgree
<1>3. ASSUME NEW i \in 1..depth, NEW j \in 1..depth, IsLCA(a, i), IsLCA(a, j), i < j
      PROVE  FALSE
  <2>1. /\ j \in 1..tree[a.owner].level /\ tree[a.owner].path[j] = frames[j].fid
        /\ i + 1 \in 1..j /\ i < depth /\ i < tree[a.owner].level
    BY <1>1, <1>2, <1>3 DEF IsLCA
  <2>2. tree[a.owner].path[i + 1] = frames[i + 1].fid
    BY <2>1, <1>1, SMTT(30) DEF InTree, PathsAgree
  <2>. QED
    BY <2>1, <2>2, <1>3 DEF IsLCA
<1>4. ~(h < k) /\ ~(k < h)
  BY <1>1, <1>3
<1>. QED
  BY <1>1, <1>4

\* What is parallel by the tree, the code answers "parallel" for, but for the
\* loop body's own accesses as seen from a frame it has called.
LEMMA TrueIsParallel ==
    ASSUME ~LoopBodySpawns, TypeOK, InTree, NEW a \in MemoryAccess, Placed(a),
           LiveBag(bagOf[a.ds]), LogicallyParallel(a), ~HiddenByCallee(a)
    PROVE  previousAccessInParallel(a)
<1>. PICK k : k = Home(a)
  OBVIOUS
<1>1. /\ k \in 1..depth /\ IsLCA(a, k) /\ InIterbag(a, k) /\ InSbag(a, k)
      /\ a.owner \in 0..frame_id /\ depth \in Nat
  BY DEF Placed, TypeOK
<1>2. \/ Outstanding(a, k)
      \/ is_loop_frame(k) /\ IterOf(a, k) # frames[k].iter
  BY HomeIsLCA DEF LogicallyParallel, Outstanding, IterOf, ChildOf
<1>3. \/ bagOf[a.ds] = Sbag(k) \/ bagOf[a.ds] = Iterbag(k)
      \/ \E r \in Regs : bagOf[a.ds] = Pbag(k, r)
  BY HomeBags
<1>4. CASE bagOf[a.ds] = Sbag(k)
  BY <1>1, <1>2, <1>4, BagsDiffer DEF InSbag
<1>5. CASE bagOf[a.ds] = Iterbag(k)
  <2>1. /\ tree[a.owner].level = k /\ is_loop_frame(k) /\ a.version <= frames[k].version
        /\ frames[k].iter - a.iter = frames[k].version - a.version
    BY <1>1, <1>5, BagsDiffer DEF InIterbag
  <2>2. frames[k].fid = a.owner
    BY <1>1, <2>1 DEF IsLCA, InTree, PathsAgree
  <2>3. k = depth /\ head = frames[k]
    BY <1>1, <2>1, <2>2 DEF HiddenByCallee, head
  <2>4. a.iter # frames[k].iter
    BY <1>2, <2>1 DEF Outstanding, IterOf
  <2>5. /\ a.iter \in Nat /\ a.version \in Nat /\ frames[k].iter \in Nat
        /\ frames[k].version \in Nat
    BY <2>3, HeadType, FrameFields DEF MemoryAccess
  <2>6. a.version < frames[k].version
    BY <2>1, <2>4, <2>5
  <2>. QED
    BY <1>5, <2>1, <2>3, <2>6 DEF previousAccessInParallel, check_parallel_iter, is_loop_frame
<1>6. CASE \E r \in Regs : bagOf[a.ds] = Pbag(k, r)
  BY <1>6, BagsDiffer DEF previousAccessInParallel
<1>. QED
  BY <1>3, <1>4, <1>5, <1>6

\* previousAccessInParallel never answers yes for an access that is in series
\* with the running strand, in any program, loop bodies that spawn included.
THEOREM ParallelismIsReal == Spec => []NoFalseParallelism
<1>1. TypeOK /\ InTree /\ AllPlaced => NoFalseParallelism
  BY ParallelIsTrue DEF NoFalseParallelism, AllPlaced, TypeOK
<1>. QED
  BY <1>1, ParallelismInvariant, PTL

\* previousAccessInParallel never answers no for an access that is parallel
\* to the running strand, in any program whose loop bodies do not spawn and
\* but for a loop body's own accesses seen from its callees.
THEOREM ParallelismIsSeen ==
    ASSUME ~LoopBodySpawns
    PROVE  Spec => []NoMissedParallelism
<1>1. TypeOK /\ NoDanglingBag /\ InTree /\ AllPlaced => NoMissedParallelism
  BY TrueIsParallel DEF NoMissedParallelism, NoDanglingBag, AllPlaced, TypeOK
<1>. QED
  BY <1>1, ParallelismInvariant, PTL
=============================================================================
