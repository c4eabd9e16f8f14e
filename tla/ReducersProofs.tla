--------------------------- MODULE ReducersProofs ---------------------------
(***************************************************************************)
(* Proofs about Reducers: the views in the tables are the allocated ones,  *)
(* each in one place, a new frame finds no table in its slot, the views    *)
(* of a reducer, put together from the bottom of the stack to the top, are *)
(* its updates in serial order, and parallel strands use different views.  *)
(***************************************************************************)
EXTENDS Reducers, SPBagsProofs, Recursion, FunctionTheorems, SequenceTheorems

USE BoundsAssumption DEF Slots, Regs, DS, Frames, Loop

(***************************************************************************)
(* The engine under the reducers.                                          *)
(***************************************************************************)
\* What is used of the engine.
Engine == TypeOK /\ Shape /\ InTree /\ LoopsApart /\ ParentContinIsNearest

\* A step of the reducers is one of the engine, or notes an access at most.
LEMMA EngineMoves ==
    ASSUME [ReducersNext]_rvars
    PROVE  \/ [Next]_vars
           \/ /\ UNCHANGED <<depth, frames, bagOf, nds, frame_id, pc, sync_reg, tree, joined>>
              /\ strands' = strands \/ strands' = strands \cup {CurrentAccess}
<1>1. CASE Control
  BY <1>1 DEF Control, Reducing, Plain, Next
<1>2. ASSUME NEW k \in Keys, Hyper(k)
      PROVE  /\ UNCHANGED <<depth, frames, bagOf, nds, frame_id, pc, sync_reg, tree, joined>>
             /\ strands' = strands \/ strands' = strands \cup {CurrentAccess}
  BY <1>2 DEF Hyper, register, unregister, hyper_lookup, check_read_bytes, SameEngine
<1>3. CASE UNCHANGED rvars
  BY <1>3 DEF rvars, vars
<1>. QED
  BY <1>1, <1>2, <1>3 DEF ReducersNext

\* The access of the running strand is one.
LEMMA CurrentType ==
    ASSUME TypeOK, Shape
    PROVE  CurrentAccess \in MemoryAccess
<1>1. depth \in 1..depth /\ depth \in Slots /\ nds \in DS /\ head = frames[depth]
  BY DEF TypeOK, head
<1>2. head \in FrameData
  BY HeadType
<1>3. head.sds \in 1..nds /\ (head.type = "loop" => head.ids \in 1..nds)
  BY <1>1 DEF Shape
<1>4. head.fid \in Frames /\ head.iter \in 0..MaxIters /\ head.version \in 0..(VersionMod - 1)
  BY <1>2 DEF FrameData
<1>5. head.sds \in DS /\ (head.type = "loop" => head.ids \in DS) /\ 0 \in 0..(VersionMod - 1)
  BY <1>1, <1>3
<1>. QED
  BY <1>4, <1>5 DEF CurrentAccess, MemoryAccess

\* The reducers leave the engine in order.
LEMMA EngineStep ==
    ASSUME Engine, [ReducersNext]_rvars
    PROVE  Engine'
<1>1. CASE [Next]_vars
  BY <1>1, TypeStep, ShapeStep, TreeStep, LoopsStep, ContinStep DEF Engine
<1>2. CASE /\ UNCHANGED <<depth, frames, bagOf, nds, frame_id, pc, sync_reg, tree, joined>>
           /\ strands' = strands \/ strands' = strands \cup {CurrentAccess}
  <2>1. TypeOK'
    <3>1. CurrentAccess \in MemoryAccess
      BY CurrentType DEF Engine
    <3>. QED
      BY <1>2, <3>1 DEF Engine, TypeOK
  <2>2. Shape'
    BY <1>2 DEF Engine, Shape, head
  <2>3. InTree'
    BY <1>2 DEF Engine, InTree, OnStack, PathsAgree
  <2>4. LoopsApart' /\ ParentContinIsNearest'
    BY <1>2 DEF Engine, LoopsApart, ParentContinIsNearest, head
  <2>. QED
    BY <2>1, <2>2, <2>3, <2>4 DEF Engine
<1>. QED
  BY <1>1, <1>2, EngineMoves

\* What the engine's steps do to the marks of the frames that stay.
LEMMA PushMarks ==
    ASSUME TypeOK, Push
    PROVE  /\ depth' = depth + 1 /\ depth + 1 \in Slots /\ pc' = "body"
           /\ \A i \in 1..depth : frames'[i] = frames[i]
           /\ frames'[depth + 1].InContin = {} /\ frames'[depth + 1].fid = frame_id + 1
           /\ frame_id' = frame_id + 1 /\ joined' = joined
           /\ \A f \in 0..frame_id : tree'[f] = tree[f]
<1>1. PICK type \in {"spawner", "detacher", "loop"}, n \in 0..MaxRegs, r \in Regs :
         CanPush /\ start_new_function(type, n, r) /\ pc' = "body"
  BY DEF Push
<1>2. /\ depth' = depth + 1 /\ depth + 1 \in Slots
      /\ \A i \in 1..depth : frames'[i] = frames[i]
      /\ frames'[depth + 1] = NewFrame(type, n)
  BY <1>1, PushFacts
<1>3. /\ frame_id' = frame_id + 1 /\ joined' = joined
      /\ \A f \in 0..frame_id : tree'[f] = tree[f]
      /\ frames'[depth + 1].fid = frame_id + 1
  BY <1>1, PushTree
<1>4. frames'[depth + 1].InContin = {}
  BY <1>2 DEF NewFrame
<1>. QED
  BY <1>1, <1>2, <1>3, <1>4

\* The marks of the head.
LEMMA HeadContin ==
    ASSUME TypeOK
    PROVE  /\ do_detach_continue => frames'[depth].InContin = head.InContin \cup {sync_reg + 1}
           /\ \A r \in Regs : do_sync(r) => frames'[depth].InContin = head.InContin \ {r + 1}
           /\ do_loop_iteration_end => frames'[depth].InContin = head.InContin \ {Loop}
           /\ do_loop_iteration_begin => frames'[depth].InContin = head.InContin \cup {Loop}
           /\ head.InContin \subseteq 0..MaxRegs
<1>1. depth \in Slots /\ frames \in [Slots -> FrameData] /\ frames[depth] \in FrameData
  BY DEF TypeOK
<1>2. head.InContin \subseteq 0..MaxRegs
  BY <1>1 DEF head, FrameData
<1>3. do_detach_continue => frames'[depth].InContin = head.InContin \cup {sync_reg + 1}
  BY <1>1 DEF do_detach_continue, head, FrameData
<1>4. \A r \in Regs : do_sync(r) => frames'[depth].InContin = head.InContin \ {r + 1}
  BY <1>1 DEF do_sync, head, FrameData
<1>5. do_loop_iteration_begin => frames'[depth].InContin = head.InContin \cup {Loop}
  BY <1>1 DEF do_loop_iteration_begin, head, FrameData
<1>6. do_loop_iteration_end => frames'[depth].InContin = head.InContin \ {Loop}
  <2>. SUFFICES ASSUME do_loop_iteration_end
                PROVE  frames'[depth].InContin = head.InContin \ {Loop}
    OBVIOUS
  <2>. DEFINE newI == inc_version(head.version) = 0 /\ head.Iterbag_used
              sds == IF head.Sbag_used THEN nds + 1 ELSE head.sds
              ids == IF newI THEN nds + 2 ELSE head.ids
              new == [head EXCEPT
                        !.InContin = head.InContin \ {Loop}, !.Pbags[0] = TRUE,
                        !.Sbag_used = FALSE, !.sds = sds,
                        !.Iterbag_used = head.Iterbag_used /\ ~newI, !.ids = ids,
                        !.version = inc_version(head.version),
                        !.iter = head.iter + 1]
  <2>1. frames' = [frames EXCEPT ![depth] = new]
    BY DEF do_loop_iteration_end
  <2>. HIDE DEF sds, ids, newI
  <2>2. new.InContin = head.InContin \ {Loop}
    BY <1>1 DEF head, FrameData
  <2>. HIDE DEF new
  <2>. QED
    BY <1>1, <2>1, <2>2
<1>. QED
  BY <1>2, <1>3, <1>4, <1>5, <1>6

\* The kinds of steps.
LEMMA ReducersKinds ==
    ASSUME [ReducersNext]_rvars
    PROVE  \/ Push /\ UNCHANGED hyper
           \/ /\ Pop /\ UNCHANGED hyper
              /\ do_loop_end \/ MayEnd
           \/ Reducing(do_detach_continue)
           \/ \E r \in Regs : Reducing(do_sync(r))
           \/ MayEnd /\ Reducing(do_loop_iteration_end)
           \/ do_loop_begin /\ UNCHANGED hyper
           \/ do_loop_iteration_begin /\ UNCHANGED hyper
           \/ \E k \in Keys : Hyper(k)
           \/ UNCHANGED rvars
<1>1. ASSUME NEW n \in SyncRegCounts, do_enter(n) PROVE Push
  <2>1. n \in 0..MaxRegs /\ 0 \in Regs
    OBVIOUS
  <2>. QED
    BY <1>1, <2>1 DEF do_enter, Push
<1>2. ASSUME NEW n \in SyncRegCounts, NEW r \in Regs, do_task(n, r) PROVE Push
  <2>1. n \in 0..MaxRegs
    OBVIOUS
  <2>. QED
    BY <1>2, <2>1 DEF do_task, Push
<1>3. ASSUME NEW n \in SyncRegCounts, NEW r \in Regs, do_loop_iteration_first(n, r)
      PROVE  Push
  <2>1. (IF n > 0 THEN n ELSE 1) \in 0..MaxRegs
    OBVIOUS
  <2>2. /\ start_new_function("loop", IF n > 0 THEN n ELSE 1, r)
        /\ pc' = "body" /\ CanPush
    BY <1>3 DEF do_loop_iteration_first
  <2>. QED
    BY <2>1, <2>2 DEF Push
<1>. QED
  BY <1>1, <1>2, <1>3 DEF ReducersNext, Control, Plain, Pop

-----------------------------------------------------------------------------
(***************************************************************************)
(* Who declares a reducer.                                                 *)
(***************************************************************************)
Owned(k) == owner[k] # NoOwner
Decl(k) == owner[k].slot

\* A reducer is declared by a frame on the stack, and the frames above that
\* one are younger than the declaration.
OwnersOK ==
    /\ owner \in [Keys -> [slot : 0..MaxDepth, since : Frames]]
    /\ \A k \in Keys :
          Owned(k) => /\ Decl(k) \in 1..depth /\ owner[k].since \in 0..frame_id
                      /\ \A j \in (Decl(k) + 1)..depth : frames[j].fid > owner[k].since

\* The bit Loop is for loops.  Between iterations nothing is in continuation
\* and nothing declared; a loop body that does not spawn has no other bit.
LoopBits ==
    /\ \A i \in 1..depth :
          /\ Loop \in frames[i].InContin => frames[i].type = "loop"
          /\ frames[i].type = "loop" /\ ~LoopBodySpawns => frames[i].InContin \subseteq {Loop}
    /\ pc = "between" => head.InContin = {} /\ \A k \in Keys : Decl(k) # depth

\* Task c of the frame in slot i is to join region q and has not.
Open(c, i, q) ==
    /\ tree[c].level = i + 1 /\ tree[c].path[i] = frames[i].fid /\ tree[c].reg = q
    /\ tree[c].type # "spawner" /\ c \notin joined

\* The declaring frame is in continuations only of tasks it spawned since.
Opened ==
    \A k \in Keys, q \in Regs :
        Owned(k) /\ q + 1 \in frames[Decl(k)].InContin
            => \E c \in 1..frame_id : c > owner[k].since /\ Open(c, Decl(k), q)

\* A continuation is of a task that was spawned since what the frame has
\* declared.
Continuing ==
    pc = "continue" =>
        \E c \in 1..frame_id :
            /\ Open(c, depth, sync_reg)
            /\ \A k \in Keys : Owned(k) /\ Decl(k) = depth => c > owner[k].since

Declared == OwnersOK /\ LoopBits /\ Opened /\ Continuing

\* Initially nothing is declared.
LEMMA DeclaredInit == ReducersInit => Declared
<1>. SUFFICES ASSUME ReducersInit PROVE Declared
  OBVIOUS
<1>1. /\ depth = 1 /\ pc = "body" /\ frames[1] = [ResetFrame EXCEPT !.sds = 1]
      /\ owner = [k \in Keys |-> NoOwner]
  BY DEF ReducersInit, Init
<1>2. frames[1].InContin = {}
  BY <1>1 DEF ResetFrame
<1>3. OwnersOK
  BY <1>1 DEF OwnersOK, NoOwner, Owned
<1>4. frames[1].type = "none" /\ Loop \notin frames[1].InContin
  BY <1>1, <1>2 DEF ResetFrame
<1>5. \A i \in 1..depth : i = 1
  BY <1>1
<1>6. LoopBits
  <2>1. pc # "between"
    BY <1>1
  <2>. QED
    BY <1>4, <1>5, <2>1 DEF LoopBits
<1>7. Opened
  <2>1. \A k \in Keys : ~Owned(k)
    BY <1>1 DEF Owned
  <2>. QED
    BY <2>1 DEF Opened
<1>8. Continuing
  BY <1>1 DEF Continuing
<1>. QED
  BY <1>3, <1>6, <1>7, <1>8 DEF Declared

\* A push.
LEMMA DeclaredPush ==
    ASSUME Engine, Declared, Push, UNCHANGED owner
    PROVE  Declared'
<1>1. TypeOK /\ depth \in Nat /\ frame_id \in Nat /\ depth \in Slots
  <2>1. TypeOK
    BY DEF Engine
  <2>2. depth \in Nat /\ frame_id \in Nat /\ depth \in Slots
    BY <2>1 DEF TypeOK
  <2>. QED
    BY <2>1, <2>2
<1>2. /\ depth' = depth + 1 /\ depth + 1 \in Slots /\ pc' = "body"
      /\ \A i \in 1..depth : frames'[i] = frames[i]
      /\ frames'[depth + 1].InContin = {} /\ frames'[depth + 1].fid = frame_id + 1
      /\ frame_id' = frame_id + 1 /\ joined' = joined
      /\ \A f \in 0..frame_id : tree'[f] = tree[f]
  BY <1>1, PushMarks
<1>3. OwnersOK'
  <2>. SUFFICES ASSUME NEW k \in Keys, Owned(k)
                PROVE  /\ Decl(k) \in 1..depth' /\ owner[k].since \in 0..frame_id'
                       /\ \A j \in (Decl(k) + 1)..depth' : frames'[j].fid > owner[k].since
    BY DEF OwnersOK, Declared, Owned, Decl
  <2>1. /\ Decl(k) \in 1..depth /\ owner[k].since \in 0..frame_id
        /\ \A j \in (Decl(k) + 1)..depth : frames[j].fid > owner[k].since
    BY DEF Declared, OwnersOK
  <2>2. ASSUME NEW j \in (Decl(k) + 1)..depth' PROVE frames'[j].fid > owner[k].since
    <3>1. CASE j = depth + 1
      BY <1>1, <1>2, <2>1, <3>1
    <3>2. CASE j # depth + 1
      <4>1. j \in (Decl(k) + 1)..depth /\ j \in 1..depth
        BY <1>1, <1>2, <2>1, <3>2
      <4>. QED
        BY <1>2, <2>1, <4>1
    <3>. QED
      BY <3>1, <3>2
  <2>. QED
    BY <1>1, <1>2, <2>1, <2>2
<1>4. LoopBits'
  <2>1. ASSUME NEW i \in 1..depth'
        PROVE  /\ Loop \in frames'[i].InContin => frames'[i].type = "loop"
               /\ frames'[i].type = "loop" /\ ~LoopBodySpawns
                    => frames'[i].InContin \subseteq {Loop}
    <3>1. i = depth + 1 \/ i \in 1..depth
      BY <1>1, <1>2
    <3>. QED
      BY <1>2, <3>1 DEF Declared, LoopBits
  <2>. QED
    BY <1>2, <2>1 DEF LoopBits
<1>5. Opened'
  <2>. SUFFICES ASSUME NEW k \in Keys, NEW q \in Regs, Owned(k),
                       q + 1 \in frames'[Decl(k)].InContin
                PROVE  \E c \in 1..frame_id' : c > owner[k].since /\ Open(c, Decl(k), q)'
    BY DEF Opened, Owned, Decl, Open
  <2>1. Decl(k) \in 1..depth
    BY DEF Declared, OwnersOK
  <2>2. frames'[Decl(k)] = frames[Decl(k)]
    BY <1>2, <2>1
  <2>3. PICK c \in 1..frame_id : c > owner[k].since /\ Open(c, Decl(k), q)
    BY <2>2 DEF Declared, Opened
  <2>4. c \in 0..frame_id /\ c \in 1..frame_id'
    BY <1>1, <1>2
  <2>5. Open(c, Decl(k), q)'
    BY <1>2, <2>2, <2>3, <2>4 DEF Open, Decl
  <2>. QED
    BY <2>3, <2>4, <2>5
<1>. QED
  BY <1>2, <1>3, <1>4, <1>5 DEF Declared, Continuing

\* The frame of a task that returns is open in the frame below.
LEMMA ReturnOpens ==
    ASSUME Engine, Declared, return_from_detach
    PROVE  /\ head.fid \in 1..frame_id /\ Open(head.fid, depth - 1, tree[head.fid].reg)
           /\ \A k \in Keys : Owned(k) /\ Decl(k) = depth - 1 => head.fid > owner[k].since
<1>1. TypeOK /\ Shape /\ InTree
  BY DEF Engine
<1>2. head.type = "detacher" /\ head = frames[depth]
  BY DEF return_from_detach, head
<1>3. depth > 1 /\ depth \in Nat /\ depth \in 1..depth /\ frame_id \in Nat
  <2>1. depth \in Slots /\ frame_id \in Frames
    BY <1>1 DEF TypeOK
  <2>2. depth # 1
    BY <1>1, <1>2 DEF Shape
  <2>. QED
    BY <2>1, <2>2
<1>4. PICK f : f = head.fid
  OBVIOUS
<1>5. f \in 0..frame_id /\ f \notin joined /\ tree[f].level = depth /\ tree[f].type = "detacher"
  BY <1>1, <1>2, <1>3, <1>4 DEF InTree, OnStack
<1>6. tree[f].path[depth - 1] = frames[depth - 1].fid
  <2>1. tree[f].path[depth] = f
    BY <1>1, <1>5 DEF InTree, PathsAgree
  <2>2. depth \in 1..tree[f].level /\ depth <= depth /\ tree[f].path[depth] = frames[depth].fid
    BY <1>2, <1>3, <1>4, <1>5, <2>1
  <2>3. PathsAgree
    BY <1>1 DEF InTree
  <2>4. \A i \in 1..depth : tree[f].path[i] = frames[i].fid
    BY <1>5, <2>2, <2>3 DEF PathsAgree
  <2>5. depth - 1 \in 1..depth
    BY <1>3
  <2>. QED
    BY <2>4, <2>5
<1>7. f # 0
  BY <1>1, <1>3, <1>5 DEF InTree
<1>8. f \in 1..frame_id /\ (depth - 1) + 1 = depth
  BY <1>3, <1>5, <1>7
<1>9. Open(f, depth - 1, tree[f].reg)
  BY <1>5, <1>6, <1>8 DEF Open
<1>10. ASSUME NEW k \in Keys, Owned(k), Decl(k) = depth - 1 PROVE f > owner[k].since
  <2>1. depth \in (Decl(k) + 1)..depth
    BY <1>3, <1>10
  <2>2. frames[depth].fid > owner[k].since
    BY <1>10, <2>1 DEF Declared, OwnersOK
  <2>. QED
    BY <1>2, <1>4, <2>2
<1>. QED
  BY <1>4, <1>8, <1>9, <1>10

\* A pop of a frame that has declared nothing.
LEMMA DeclaredPop ==
    ASSUME Engine, Declared, Pop, UNCHANGED owner, \A k \in Keys : Decl(k) # depth
    PROVE  Declared'
<1>1. TypeOK /\ Shape /\ depth \in Nat /\ frame_id \in Nat
  <2>1. TypeOK /\ Shape
    BY DEF Engine
  <2>2. depth \in Nat /\ frame_id \in Nat
    BY <2>1 DEF TypeOK
  <2>. QED
    BY <2>1, <2>2
<1>2. /\ depth > 1 /\ depth' = depth - 1 /\ pc' # "between"
      /\ \A i \in 1..depth' : frames'[i].InContin = frames[i].InContin
  BY <1>1, PopFacts
<1>3. /\ frame_id' = frame_id /\ joined' = joined /\ tree' = tree
      /\ \A i \in 1..depth' : frames'[i].type = frames[i].type /\ frames'[i].fid = frames[i].fid
  BY <1>1, PopTree
<1>4. \A i \in 1..depth' : i \in 1..depth
  BY <1>1, <1>2
<1>5. ASSUME NEW k \in Keys, Owned(k)
      PROVE  /\ Decl(k) \in 1..depth' /\ owner[k].since \in 0..frame_id
             /\ \A j \in (Decl(k) + 1)..depth' : frames'[j].fid > owner[k].since
  <2>1. /\ Decl(k) \in 1..depth /\ owner[k].since \in 0..frame_id
        /\ \A j \in (Decl(k) + 1)..depth : frames[j].fid > owner[k].since
    BY <1>5 DEF Declared, OwnersOK
  <2>2. Decl(k) \in 1..depth'
    BY <1>1, <1>2, <2>1
  <2>3. ASSUME NEW j \in (Decl(k) + 1)..depth' PROVE frames'[j].fid > owner[k].since
    <3>1. j \in (Decl(k) + 1)..depth /\ j \in 1..depth'
      BY <1>1, <1>2, <2>1
    <3>. QED
      BY <1>3, <2>1, <3>1
  <2>. QED
    BY <2>1, <2>2, <2>3
<1>6. OwnersOK'
  BY <1>3, <1>5 DEF Declared, OwnersOK, Owned, Decl
<1>7. LoopBits'
  BY <1>2, <1>3, <1>4 DEF Declared, LoopBits
<1>8. Opened'
  <2>. SUFFICES ASSUME NEW k \in Keys, NEW q \in Regs, Owned(k),
                       q + 1 \in frames'[Decl(k)].InContin
                PROVE  \E c \in 1..frame_id : c > owner[k].since /\ Open(c, Decl(k), q)'
    BY <1>3 DEF Opened, Owned, Decl, Open
  <2>1. Decl(k) \in 1..depth'
    BY <1>5
  <2>2. /\ frames'[Decl(k)].InContin = frames[Decl(k)].InContin
        /\ frames'[Decl(k)].fid = frames[Decl(k)].fid
    BY <1>2, <1>3, <2>1
  <2>3. PICK c \in 1..frame_id : c > owner[k].since /\ Open(c, Decl(k), q)
    BY <2>2 DEF Declared, Opened
  <2>4. Open(c, Decl(k), q)'
    BY <1>3, <2>2, <2>3 DEF Open, Decl
  <2>. QED
    BY <2>3, <2>4
<1>9. Continuing'
  <2>1. CASE return_from_detach
    <3>1. PICK f : f = head.fid
      OBVIOUS
    <3>2. sync_reg' = tree[f].reg
      BY <2>1, <3>1 DEF return_from_detach
    <3>3. /\ f \in 1..frame_id /\ Open(f, depth - 1, tree[f].reg)
          /\ \A k \in Keys : Owned(k) /\ Decl(k) = depth - 1 => f > owner[k].since
      BY <2>1, <3>1, ReturnOpens
    <3>4. depth - 1 \in 1..depth' /\ depth' = depth - 1
      BY <1>1, <1>2
    <3>5. /\ tree[f].level = (depth - 1) + 1
          /\ tree[f].path[depth - 1] = frames[depth - 1].fid
          /\ tree[f].type # "spawner" /\ f \notin joined
      BY <3>3 DEF Open
    <3>6. Open(f, depth, sync_reg)'
      BY <1>3, <3>2, <3>4, <3>5 DEF Open
    <3>7. \A k \in Keys : Owned(k)' /\ Decl(k)' = depth' => f > owner'[k].since
      BY <3>3, <3>4 DEF Owned, Decl
    <3>8. f \in 1..frame_id'
      BY <1>3, <3>3
    <3>. QED
      BY <3>6, <3>7, <3>8 DEF Continuing
  <2>2. CASE ~return_from_detach
    <3>1. pc' # "continue"
      BY <2>2 DEF Pop, leave_cilk_function, do_loop_end
    <3>. QED
      BY <3>1 DEF Continuing
  <2>. QED
    BY <2>1, <2>2
<1>. QED
  BY <1>6, <1>7, <1>8, <1>9 DEF Declared

\* The steps of the head alone that reducers see.
HeadStep == \/ do_detach_continue
            \/ \E r \in Regs : do_sync(r)
            \/ do_loop_iteration_end
            \/ do_loop_iteration_begin

\* They leave the stack and the tree.
LEMMA HeadStepFacts ==
    ASSUME Engine, HeadStep
    PROVE  /\ depth' = depth /\ frame_id' = frame_id /\ tree' = tree
           /\ \A i \in Slots :
                 /\ frames'[i].type = frames[i].type /\ frames'[i].fid = frames[i].fid
                 /\ frames'[i].ParentContin = frames[i].ParentContin
                 /\ i # depth => frames'[i] = frames[i]
<1>1. TypeOK /\ Shape /\ LoopsApart
  BY DEF Engine
<1>2. CASE do_loop_iteration_end
  <2>1. /\ depth' = depth /\ frame_id' = frame_id /\ tree' = tree
        /\ \A i \in Slots : i # depth => frames'[i] = frames[i]
        /\ frames'[depth].type = frames[depth].type
        /\ frames'[depth].fid = frames[depth].fid
    BY <1>1, <1>2, IterationTree
  <2>2. frames'[depth].ParentContin = frames[depth].ParentContin
    BY <1>1, <1>2, IterationFacts
  <2>. QED
    BY <2>1, <2>2
<1>3. CASE HeadOnly
  <2>1. /\ depth' = depth
        /\ \A i \in Slots : i # depth => frames'[i] = frames[i]
        /\ frames'[depth].ParentContin = frames[depth].ParentContin
    BY <1>1, <1>3, HeadFacts
  <2>2. /\ frame_id' = frame_id /\ tree' = tree
        /\ \A i \in Slots : frames'[i].type = frames[i].type /\ frames'[i].fid = frames[i].fid
    BY <1>1, <1>3, HeadTree
  <2>. QED
    BY <2>1, <2>2
<1>. QED
  BY <1>2, <1>3 DEF HeadStep, HeadOnly

\* The declarations are in order after such a step.
LEMMA OwnersKept ==
    ASSUME TypeOK, OwnersOK, UNCHANGED owner, depth' = depth, frame_id' = frame_id,
           \A i \in Slots : frames'[i].fid = frames[i].fid
    PROVE  OwnersOK'
<1>1. depth \in 1..MaxDepth
  BY DEF TypeOK
<1>2. ASSUME NEW k \in Keys, Owned(k)
      PROVE  /\ Decl(k) \in 1..depth /\ owner[k].since \in 0..frame_id
             /\ \A j \in (Decl(k) + 1)..depth : frames'[j].fid > owner[k].since
  <2>1. /\ Decl(k) \in 1..depth /\ owner[k].since \in 0..frame_id
        /\ \A j \in (Decl(k) + 1)..depth : frames[j].fid > owner[k].since
    BY <1>2 DEF OwnersOK
  <2>2. \A j \in (Decl(k) + 1)..depth : j \in Slots
    BY <1>1, <2>1
  <2>. QED
    BY <2>1, <2>2
<1>. QED
  BY <1>2 DEF OwnersOK, Owned, Decl

\* So is what is open, but for what is joined.
LEMMA OpenKept ==
    ASSUME UNCHANGED tree, NEW c, NEW i \in Slots, NEW q, Open(c, i, q), c \notin joined',
           \A j \in Slots : frames'[j].fid = frames[j].fid
    PROVE  Open(c, i, q)'
  BY DEF Open

\* A continuation.
LEMMA DeclaredContinue ==
    ASSUME Engine, Declared, do_detach_continue, UNCHANGED owner
    PROVE  Declared'
<1>1. TypeOK /\ LoopsApart /\ depth \in Slots /\ sync_reg \in 0..(MaxRegs - 1) /\ depth \in Nat
  <2>1. TypeOK /\ LoopsApart
    BY DEF Engine
  <2>2. depth \in Slots /\ sync_reg \in 0..(MaxRegs - 1)
    BY <2>1 DEF TypeOK
  <2>. QED
    BY <2>1, <2>2
<1>2. /\ depth' = depth /\ frame_id' = frame_id /\ tree' = tree
      /\ \A i \in Slots : /\ frames'[i].type = frames[i].type /\ frames'[i].fid = frames[i].fid
                          /\ i # depth => frames'[i] = frames[i]
  BY HeadStepFacts DEF HeadStep
<1>3. /\ pc = "continue" /\ pc' = "body" /\ joined' = joined
      /\ frames'[depth].InContin = frames[depth].InContin \cup {sync_reg + 1}
  BY <1>1, HeadContin DEF do_detach_continue, head
<1>4. OwnersOK'
  BY <1>1, <1>2, OwnersKept DEF Declared
<1>5. \A i \in 1..depth : i \in Slots
  BY <1>1
<1>6. LoopBits'
  <2>1. sync_reg + 1 # 0 /\ (~LoopBodySpawns => frames[depth].type # "loop")
    BY <1>1, <1>3 DEF LoopsApart, head
  <2>2. ASSUME NEW i \in 1..depth
        PROVE  /\ Loop \in frames'[i].InContin => frames'[i].type = "loop"
               /\ frames'[i].type = "loop" /\ ~LoopBodySpawns
                    => frames'[i].InContin \subseteq {Loop}
    <3>1. /\ Loop \in frames[i].InContin => frames[i].type = "loop"
          /\ frames[i].type = "loop" /\ ~LoopBodySpawns => frames[i].InContin \subseteq {Loop}
      BY DEF Declared, LoopBits
    <3>2. CASE i = depth
      BY <1>2, <1>3, <1>5, <2>1, <3>1, <3>2
    <3>3. CASE i # depth
      BY <1>2, <1>5, <3>1, <3>3
    <3>. QED
      BY <3>2, <3>3
  <2>. QED
    BY <1>2, <1>3, <2>2 DEF LoopBits
<1>7. Opened'
  <2>. SUFFICES ASSUME NEW k \in Keys, NEW q \in Regs, Owned(k),
                       q + 1 \in frames'[Decl(k)].InContin
                PROVE  \E c \in 1..frame_id : c > owner[k].since /\ Open(c, Decl(k), q)'
    BY <1>2 DEF Opened, Owned, Decl, Open
  <2>1. Decl(k) \in 1..depth /\ Decl(k) \in Slots
    BY <1>5 DEF Declared, OwnersOK
  <2>2. PICK c \in 1..frame_id : c > owner[k].since /\ Open(c, Decl(k), q)
    <3>1. CASE q + 1 \in frames[Decl(k)].InContin
      BY <3>1 DEF Declared, Opened
    <3>2. CASE q + 1 \notin frames[Decl(k)].InContin
      <4>1. Decl(k) = depth
        BY <1>2, <2>1, <3>2
      <4>2. q + 1 = sync_reg + 1
        BY <1>3, <3>2, <4>1
      <4>3. q = sync_reg
        BY <1>1, <4>2
      <4>4. PICK c \in 1..frame_id :
               /\ Open(c, depth, sync_reg)
               /\ \A j \in Keys : Owned(j) /\ Decl(j) = depth => c > owner[j].since
        BY <1>3 DEF Declared, Continuing
      <4>. QED
        BY <4>1, <4>3, <4>4
    <3>. QED
      BY <3>1, <3>2
  <2>3. c \notin joined'
    BY <1>3, <2>2 DEF Open
  <2>4. Open(c, Decl(k), q)'
    <3>. PICK d \in Slots : d = Decl(k)
      BY <2>1
    <3>1. Open(c, d, q)'
      BY <1>2, <2>2, <2>3, OpenKept
    <3>2. d = Decl(k)'
      BY DEF Decl
    <3>. QED
      BY <3>1, <3>2
  <2>. QED
    BY <2>2, <2>4
<1>. QED
  BY <1>3, <1>4, <1>6, <1>7 DEF Declared, Continuing

\* A sync joins no task of a region that stays open.
LEMMA DeclaredSync ==
    ASSUME Engine, Declared, NEW r \in Regs, do_sync(r), UNCHANGED owner
    PROVE  Declared'
<1>1. TypeOK /\ depth \in Slots /\ depth \in Nat
  <2>1. TypeOK
    BY DEF Engine
  <2>2. depth \in Slots
    BY <2>1 DEF TypeOK
  <2>. QED
    BY <2>1, <2>2
<1>2. /\ depth' = depth /\ frame_id' = frame_id /\ tree' = tree
      /\ \A i \in Slots : /\ frames'[i].type = frames[i].type /\ frames'[i].fid = frames[i].fid
                          /\ i # depth => frames'[i] = frames[i]
  BY HeadStepFacts DEF HeadStep
<1>3. /\ pc = "body" /\ pc' = "body" /\ joined' = joined \cup Joining(r)
      /\ frames'[depth].InContin = frames[depth].InContin \ {r + 1}
  BY <1>1, HeadContin DEF do_sync, head
<1>4. OwnersOK'
  BY <1>1, <1>2, OwnersKept DEF Declared
<1>5. \A i \in 1..depth : i \in Slots
  BY <1>1
<1>6. LoopBits'
  <2>1. ASSUME NEW i \in 1..depth
        PROVE  /\ Loop \in frames'[i].InContin => frames'[i].type = "loop"
               /\ frames'[i].type = "loop" /\ ~LoopBodySpawns
                    => frames'[i].InContin \subseteq {Loop}
    <3>1. /\ Loop \in frames[i].InContin => frames[i].type = "loop"
          /\ frames[i].type = "loop" /\ ~LoopBodySpawns => frames[i].InContin \subseteq {Loop}
      BY DEF Declared, LoopBits
    <3>2. frames'[i].InContin \subseteq frames[i].InContin
      BY <1>2, <1>3, <1>5
    <3>. QED
      BY <1>2, <1>5, <3>1, <3>2
  <2>. QED
    BY <1>2, <1>3, <2>1 DEF LoopBits
<1>7. Opened'
  <2>. SUFFICES ASSUME NEW k \in Keys, NEW q \in Regs, Owned(k),
                       q + 1 \in frames'[Decl(k)].InContin
                PROVE  \E c \in 1..frame_id : c > owner[k].since /\ Open(c, Decl(k), q)'
    BY <1>2 DEF Opened, Owned, Decl, Open
  <2>1. Decl(k) \in 1..depth /\ Decl(k) \in Slots
    BY <1>5 DEF Declared, OwnersOK
  <2>2. q + 1 \in frames[Decl(k)].InContin /\ (Decl(k) = depth => q # r)
    <3>1. CASE Decl(k) = depth
      <4>1. q + 1 \in frames[depth].InContin /\ q + 1 # r + 1
        BY <1>3, <3>1
      <4>2. q # r
        BY <4>1
      <4>. QED
        BY <3>1, <4>1, <4>2
    <3>2. CASE Decl(k) # depth
      BY <1>2, <2>1, <3>2
    <3>. QED
      BY <3>1, <3>2
  <2>3. PICK c \in 1..frame_id : c > owner[k].since /\ Open(c, Decl(k), q)
    BY <2>2 DEF Declared, Opened
  <2>4. c \notin Joining(r)
    <3>1. tree[c].level = Decl(k) + 1 /\ tree[c].reg = q
      BY <2>3 DEF Open
    <3>2. CASE Decl(k) = depth
      BY <2>2, <3>1, <3>2 DEF Joining
    <3>3. CASE Decl(k) # depth
      <4>1. Decl(k) + 1 # depth + 1
        BY <1>1, <2>1, <3>3
      <4>. QED
        BY <3>1, <4>1 DEF Joining
    <3>. QED
      BY <3>2, <3>3
  <2>5. c \notin joined'
    BY <1>3, <2>3, <2>4 DEF Open
  <2>6. Open(c, Decl(k), q)'
    <3>. PICK d \in Slots : d = Decl(k)
      BY <2>1
    <3>1. Open(c, d, q)'
      BY <1>2, <2>3, <2>5, OpenKept
    <3>2. d = Decl(k)'
      BY DEF Decl
    <3>. QED
      BY <3>1, <3>2
  <2>. QED
    BY <2>3, <2>6
<1>. QED
  BY <1>3, <1>4, <1>6, <1>7 DEF Declared, Continuing

\* An iteration begins, or ends with nothing declared and nothing else open.
LEMMA DeclaredIteration ==
    ASSUME Engine, Declared, UNCHANGED owner,
           (MayEnd /\ do_loop_iteration_end) \/ do_loop_iteration_begin
    PROVE  Declared'
<1>1. TypeOK /\ Shape /\ depth \in Slots /\ depth \in Nat
  <2>1. TypeOK /\ Shape
    BY DEF Engine
  <2>2. depth \in Slots
    BY <2>1 DEF TypeOK
  <2>. QED
    BY <2>1, <2>2
<1>2. /\ depth' = depth /\ frame_id' = frame_id /\ tree' = tree
      /\ \A i \in Slots : /\ frames'[i].type = frames[i].type /\ frames'[i].fid = frames[i].fid
                          /\ i # depth => frames'[i] = frames[i]
  BY HeadStepFacts DEF HeadStep
<1>3. /\ joined' = joined /\ head.type = "loop" /\ head = frames[depth]
      /\ frames'[depth].InContin \subseteq frames[depth].InContin \cup {Loop}
      /\ pc' # "continue"
      /\ pc' = "between" => frames'[depth].InContin = {} /\ \A k \in Keys : Decl(k) # depth
  <2>1. CASE MayEnd /\ do_loop_iteration_end
    <3>1. frames'[depth].InContin = head.InContin \ {Loop} /\ head.InContin \subseteq {Loop}
      BY <1>1, <2>1, HeadContin DEF MayEnd
    <3>2. joined' = joined /\ head.type = "loop" /\ head = frames[depth] /\ pc' = "between"
      BY <2>1 DEF do_loop_iteration_end, head
    <3>3. \A k \in Keys : Decl(k) # depth
      BY <2>1 DEF MayEnd, Decl
    <3>. QED
      BY <3>1, <3>2, <3>3
  <2>2. CASE do_loop_iteration_begin
    <3>1. frames'[depth].InContin = head.InContin \cup {Loop}
      BY <1>1, <2>2, HeadContin
    <3>2. joined' = joined /\ pc = "between" /\ head = frames[depth] /\ pc' = "body"
      BY <2>2 DEF do_loop_iteration_begin, head
    <3>3. head.type = "loop"
      BY <1>1, <3>2 DEF Shape
    <3>. QED
      BY <3>1, <3>2, <3>3
  <2>. QED
    BY <2>1, <2>2
<1>4. OwnersOK'
  BY <1>1, <1>2, OwnersKept DEF Declared
<1>5. \A i \in 1..depth : i \in Slots
  BY <1>1
<1>6. LoopBits'
  <2>1. ASSUME NEW i \in 1..depth
        PROVE  /\ Loop \in frames'[i].InContin => frames'[i].type = "loop"
               /\ frames'[i].type = "loop" /\ ~LoopBodySpawns
                    => frames'[i].InContin \subseteq {Loop}
    <3>1. /\ Loop \in frames[i].InContin => frames[i].type = "loop"
          /\ frames[i].type = "loop" /\ ~LoopBodySpawns => frames[i].InContin \subseteq {Loop}
      BY DEF Declared, LoopBits
    <3>2. CASE i = depth
      BY <1>2, <1>3, <1>5, <3>1, <3>2
    <3>3. CASE i # depth
      BY <1>2, <1>5, <3>1, <3>3
    <3>. QED
      BY <3>2, <3>3
  <2>2. pc' = "between" => head'.InContin = {} /\ \A k \in Keys : Decl(k)' # depth'
    BY <1>2, <1>3 DEF head, Decl
  <2>. QED
    BY <1>2, <2>1, <2>2 DEF LoopBits
<1>7. Opened'
  <2>. SUFFICES ASSUME NEW k \in Keys, NEW q \in Regs, Owned(k),
                       q + 1 \in frames'[Decl(k)].InContin
                PROVE  \E c \in 1..frame_id : c > owner[k].since /\ Open(c, Decl(k), q)'
    BY <1>2 DEF Opened, Owned, Decl, Open
  <2>1. Decl(k) \in 1..depth /\ Decl(k) \in Slots
    BY <1>5 DEF Declared, OwnersOK
  <2>2. q + 1 \in frames[Decl(k)].InContin
    <3>1. q + 1 # Loop
      OBVIOUS
    <3>. QED
      BY <1>2, <1>3, <2>1, <3>1
  <2>3. PICK c \in 1..frame_id : c > owner[k].since /\ Open(c, Decl(k), q)
    BY <2>2 DEF Declared, Opened
  <2>4. c \notin joined'
    BY <1>3, <2>3 DEF Open
  <2>5. Open(c, Decl(k), q)'
    <3>. PICK d \in Slots : d = Decl(k)
      BY <2>1
    <3>1. Open(c, d, q)'
      BY <1>2, <2>3, <2>4, OpenKept
    <3>2. d = Decl(k)'
      BY DEF Decl
    <3>. QED
      BY <3>1, <3>2
  <2>. QED
    BY <2>3, <2>5
<1>. QED
  BY <1>3, <1>4, <1>6, <1>7 DEF Declared, Continuing

\* Registration and the hooks that leave the engine alone.
LEMMA DeclaredRegister ==
    ASSUME Engine, Declared, ~RegisterInContinuation, NEW k \in Keys, register(k)
    PROVE  Declared'
<1>1. TypeOK /\ depth \in Slots /\ depth \in Nat /\ frame_id \in Nat /\ frame_id \in Frames
      /\ head = frames[depth]
  <2>1. TypeOK
    BY DEF Engine
  <2>2. depth \in Slots /\ frame_id \in Frames
    BY <2>1 DEF TypeOK
  <2>. QED
    BY <2>1, <2>2 DEF head
<1>2. /\ depth' = depth /\ frames' = frames /\ frame_id' = frame_id /\ pc' = pc /\ tree' = tree
      /\ joined' = joined /\ sync_reg' = sync_reg /\ pc = "body"
      /\ MayRegister
      /\ owner' = [owner EXCEPT ![k] = [slot |-> depth, since |-> frame_id]]
  BY DEF register, SameEngine
<1>3. owner \in [Keys -> [slot : 0..MaxDepth, since : Frames]]
  BY DEF Declared, OwnersOK
<1>4. /\ owner'[k] = [slot |-> depth, since |-> frame_id]
      /\ \A j \in Keys \ {k} : owner'[j] = owner[j]
      /\ owner' \in [Keys -> [slot : 0..MaxDepth, since : Frames]]
  BY <1>1, <1>2, <1>3
<1>5. OwnersOK'
  <2>1. ASSUME NEW j \in Keys, owner'[j] # NoOwner
        PROVE  /\ owner'[j].slot \in 1..depth /\ owner'[j].since \in 0..frame_id
               /\ \A i \in (owner'[j].slot + 1)..depth : frames[i].fid > owner'[j].since
    <3>1. CASE j = k
      BY <1>1, <1>4, <3>1
    <3>2. CASE j # k
      <4>1. Owned(j) /\ owner'[j] = owner[j]
        BY <1>4, <2>1, <3>2 DEF Owned
      <4>. QED
        BY <4>1 DEF Declared, OwnersOK, Decl
    <3>. QED
      BY <3>1, <3>2
  <2>. QED
    BY <1>2, <1>4, <2>1 DEF OwnersOK, Owned, Decl
<1>6. LoopBits'
  <2>1. pc' # "between"
    BY <1>2
  <2>2. \A i \in 1..depth :
          /\ Loop \in frames[i].InContin => frames[i].type = "loop"
          /\ frames[i].type = "loop" /\ ~LoopBodySpawns => frames[i].InContin \subseteq {Loop}
    BY DEF Declared, LoopBits
  <2>. QED
    BY <1>2, <2>1, <2>2 DEF LoopBits
<1>7. head.InContin \subseteq {Loop}
  <2>1. CASE head.type = "loop" /\ ~LoopBodySpawns
    <3>1. depth \in 1..depth
      BY <1>1
    <3>. QED
      BY <1>1, <2>1, <3>1 DEF Declared, LoopBits
  <2>2. CASE head.InContin = {}
    BY <2>2
  <2>. QED
    BY <1>2, <2>1, <2>2 DEF MayRegister
<1>8. Opened'
  <2>. SUFFICES ASSUME NEW j \in Keys, NEW q \in Regs, owner'[j] # NoOwner,
                       q + 1 \in frames[owner'[j].slot].InContin
                PROVE  \E c \in 1..frame_id : c > owner'[j].since /\ Open(c, owner'[j].slot, q)
    BY <1>2 DEF Opened, Owned, Decl, Open
  <2>1. CASE j = k
    <3>1. q + 1 \in head.InContin /\ q + 1 # Loop
      BY <1>1, <1>4, <2>1
    <3>. QED
      BY <1>7, <3>1
  <2>2. CASE j # k
    <3>1. Owned(j) /\ owner'[j] = owner[j]
      BY <1>4, <2>2 DEF Owned
    <3>. QED
      BY <3>1 DEF Declared, Opened, Decl
  <2>. QED
    BY <2>1, <2>2
<1>. QED
  BY <1>2, <1>5, <1>6, <1>8 DEF Declared, Continuing

\* A reducer dies.
LEMMA DeclaredUnregister ==
    ASSUME Engine, Declared, NEW k \in Keys, unregister(k)
    PROVE  Declared'
<1>1. /\ depth' = depth /\ frames' = frames /\ frame_id' = frame_id /\ pc' = pc /\ tree' = tree
      /\ joined' = joined /\ sync_reg' = sync_reg /\ pc = "body"
      /\ owner' = [owner EXCEPT ![k] = NoOwner]
  BY DEF unregister, SameEngine
<1>2. owner \in [Keys -> [slot : 0..MaxDepth, since : Frames]] /\ 0 \in Frames /\ 0 \in 0..MaxDepth
  BY DEF Declared, OwnersOK
<1>3. /\ owner'[k] = NoOwner /\ \A j \in Keys \ {k} : owner'[j] = owner[j]
      /\ owner' \in [Keys -> [slot : 0..MaxDepth, since : Frames]]
  BY <1>1, <1>2 DEF NoOwner
<1>4. \A j \in Keys : owner'[j] # NoOwner => Owned(j) /\ owner'[j] = owner[j]
  BY <1>3 DEF Owned
<1>5. OwnersOK'
  <2>1. ASSUME NEW j \in Keys, owner'[j] # NoOwner
        PROVE  /\ owner'[j].slot \in 1..depth /\ owner'[j].since \in 0..frame_id
               /\ \A i \in (owner'[j].slot + 1)..depth : frames[i].fid > owner'[j].since
    <3>1. Owned(j) /\ owner'[j] = owner[j]
      BY <1>4, <2>1
    <3>. QED
      BY <3>1 DEF Declared, OwnersOK, Decl
  <2>. QED
    BY <1>1, <1>3, <2>1 DEF OwnersOK, Owned, Decl
<1>6. LoopBits'
  <2>1. pc' # "between"
    BY <1>1
  <2>2. \A i \in 1..depth :
          /\ Loop \in frames[i].InContin => frames[i].type = "loop"
          /\ frames[i].type = "loop" /\ ~LoopBodySpawns => frames[i].InContin \subseteq {Loop}
    BY DEF Declared, LoopBits
  <2>. QED
    BY <1>1, <2>1, <2>2 DEF LoopBits
<1>7. Opened'
  <2>. SUFFICES ASSUME NEW j \in Keys, NEW q \in Regs, owner'[j] # NoOwner,
                       q + 1 \in frames[owner'[j].slot].InContin
                PROVE  \E c \in 1..frame_id : c > owner'[j].since /\ Open(c, owner'[j].slot, q)
    BY <1>1 DEF Opened, Owned, Decl, Open
  <2>1. Owned(j) /\ owner'[j] = owner[j]
    BY <1>4
  <2>. QED
    BY <2>1 DEF Declared, Opened, Decl
<1>. QED
  BY <1>1, <1>5, <1>6, <1>7 DEF Declared, Continuing

\* Steps that change neither the stack, nor the tree, nor what is declared.
LEMMA DeclaredSame ==
    ASSUME Declared, UNCHANGED <<depth, frames, frame_id, sync_reg, tree, joined, owner>>,
           pc' = pc \/ pc' \notin {"between", "continue"}
    PROVE  Declared'
<1>1. OwnersOK'
  BY DEF Declared, OwnersOK, Owned, Decl
<1>2. LoopBits'
  BY DEF Declared, LoopBits, head, Decl
<1>3. Opened'
  BY DEF Declared, Opened, Owned, Decl, Open
<1>4. Continuing'
  BY DEF Declared, Continuing, Owned, Decl, Open
<1>. QED
  BY <1>1, <1>2, <1>3, <1>4 DEF Declared

\* Every step keeps the declarations in order.
LEMMA DeclaredStep ==
    ASSUME Engine, Declared, ~RegisterInContinuation, [ReducersNext]_rvars
    PROVE  Declared'
<1>1. CASE Push /\ UNCHANGED hyper
  BY <1>1, DeclaredPush DEF hyper
<1>2. CASE Pop /\ UNCHANGED hyper /\ (do_loop_end \/ MayEnd)
  <2>1. \A k \in Keys : Decl(k) # depth
    BY <1>2 DEF do_loop_end, MayEnd, Declared, LoopBits, Decl
  <2>. QED
    BY <1>2, <2>1, DeclaredPop DEF hyper
<1>3. CASE Reducing(do_detach_continue)
  BY <1>3, DeclaredContinue DEF Reducing
<1>4. CASE \E r \in Regs : Reducing(do_sync(r))
  BY <1>4, DeclaredSync DEF Reducing
<1>5. CASE MayEnd /\ Reducing(do_loop_iteration_end)
  BY <1>5, DeclaredIteration DEF Reducing
<1>6. CASE do_loop_begin /\ UNCHANGED hyper
  BY <1>6, DeclaredSame DEF do_loop_begin, hyper
<1>7. CASE do_loop_iteration_begin /\ UNCHANGED hyper
  BY <1>7, DeclaredIteration DEF hyper
<1>8. ASSUME NEW k \in Keys, Hyper(k) PROVE Declared'
  <2>1. CASE register(k)
    BY <2>1, DeclaredRegister
  <2>2. CASE unregister(k)
    BY <2>2, DeclaredUnregister
  <2>3. CASE hyper_lookup(k)
    BY <2>3, DeclaredSame DEF hyper_lookup, SameEngine
  <2>. QED
    BY <1>8, <2>1, <2>2, <2>3 DEF Hyper
<1>9. CASE UNCHANGED rvars
  BY <1>9, DeclaredSame DEF rvars, vars
<1>. QED
  BY <1>1, <1>2, <1>3, <1>4, <1>5, <1>6, <1>7, <1>8, <1>9, ReducersKinds

-----------------------------------------------------------------------------
(***************************************************************************)
(* Where the views are.                                                    *)
(***************************************************************************)
\* Types of the tables, the views and the counts.
ViewsTyped ==
    /\ tables \in [Slots -> [made : BOOLEAN, view : [Keys -> {None} \cup Keys \cup ViewIds]]]
    /\ \A i \in Slots : tables[i].made \/ tables[i] = NullTable
    /\ views \in [alloc : SUBSET ViewIds, value : [Keys \cup ViewIds -> Seq(Nat)],
                  users : [Keys \cup ViewIds -> SUBSET [owner : Frames, iter : 0..MaxIters]]]
    /\ updates \in [Keys -> 0..MaxUpdates]

\* Only a frame in a continuation has a table.
TablesInContin ==
    \A i \in Slots : tables[i].made => i \in 1..depth /\ frames[i].InContin # {}

\* The slot of the table with the leftmost view of a declared reducer, 0 if it
\* was registered where no continuation was open.
RegisteredAt(k) ==
    IF Loop \in frames[Decl(k)].InContin THEN Decl(k)
    ELSE IF frames[Decl(k)].ParentContin > 0 THEN Decl(k) - frames[Decl(k)].ParentContin
    ELSE 0

\* A declared reducer has its leftmost view there, and other views only from
\* the declaring frame up; any other reducer has none.
PlacedAt(k, i) ==
    /\ tables[i].view[k] \in {None, k} \cup ViewIds
    /\ ~Owned(k) => tables[i].view[k] = None
    /\ Owned(k) => /\ tables[i].view[k] = k <=> i = RegisteredAt(k)
                   /\ i < Decl(k) /\ i # RegisteredAt(k) => tables[i].view[k] = None

ViewsPlaced ==
    /\ \A k \in Keys, i \in Slots : PlacedAt(k, i)
    /\ \A k \in Keys :
          Owned(k) /\ Loop \in frames[Decl(k)].InContin => ~LoopBodySpawns

\* The entries are the allocated views, each in one place.
ViewsHeld ==
    /\ \A i \in Slots, k \in Keys :
          tables[i].view[k] \in ViewIds => tables[i].view[k] \in views.alloc
    /\ \A w \in views.alloc : \E i \in Slots, k \in Keys : tables[i].view[k] = w
    /\ \A i, j \in Slots, k, l \in Keys :
          tables[i].view[k] \in ViewIds /\ tables[i].view[k] = tables[j].view[l]
            => i = j /\ k = l

ViewsOK == ViewsTyped /\ TablesInContin /\ ViewsPlaced /\ ViewsHeld

\* A reducer is not a number.
LEMMA KeysApart == \A k \in Keys : k \notin Nat /\ k \notin ViewIds /\ k # None
  BY ReducersAssumption DEF ViewIds, None

\* Initially there are no tables.
LEMMA ViewsInit == ReducersInit => ViewsOK
<1>. SUFFICES ASSUME ReducersInit PROVE ViewsOK
  OBVIOUS
<1>1. /\ tables = [i \in Slots |-> NullTable] /\ updates = [k \in Keys |-> 0]
      /\ views = [alloc |-> {}, value |-> [w \in Keys \cup ViewIds |-> <<>>],
                  users |-> [w \in Keys \cup ViewIds |-> {}]]
      /\ owner = [k \in Keys |-> NoOwner]
  BY DEF ReducersInit
<1>2. /\ NullTable \in [made : BOOLEAN, view : [Keys -> {None} \cup Keys \cup ViewIds]]
      /\ NullTable.made = FALSE /\ \A k \in Keys : NullTable.view[k] = None
  BY DEF NullTable
<1>3. ViewsTyped
  <2>1. /\ tables \in [Slots -> [made : BOOLEAN, view : [Keys -> {None} \cup Keys \cup ViewIds]]]
        /\ \A i \in Slots : tables[i] = NullTable
    BY <1>1, <1>2
  <2>2. <<>> \in Seq(Nat)
    OBVIOUS
  <2>3. views \in [alloc : SUBSET ViewIds, value : [Keys \cup ViewIds -> Seq(Nat)],
                   users : [Keys \cup ViewIds -> SUBSET [owner : Frames, iter : 0..MaxIters]]]
    BY <1>1, <2>2
  <2>4. updates \in [Keys -> 0..MaxUpdates]
    BY <1>1, ReducersAssumption
  <2>. QED
    BY <2>1, <2>3, <2>4 DEF ViewsTyped
<1>4. TablesInContin
  BY <1>1, <1>2 DEF TablesInContin
<1>5. \A k \in Keys : ~Owned(k)
  BY <1>1 DEF Owned
<1>6. \A i \in Slots, k \in Keys : tables[i].view[k] = None
  BY <1>1, <1>2
<1>7. ViewsPlaced
  BY <1>5, <1>6 DEF ViewsPlaced, PlacedAt
<1>8. ViewsHeld
  <2>1. None \notin ViewIds
    BY ReducersAssumption DEF None, ViewIds
  <2>2. views.alloc = {}
    BY <1>1
  <2>. QED
    BY <1>6, <2>1, <2>2 DEF ViewsHeld
<1>. QED
  BY <1>3, <1>4, <1>7, <1>8 DEF ViewsOK

\* What a step does not disturb for reducer k.
KeepsPlace(k) ==
    Owned(k) => /\ RegisteredAt(k)' = RegisteredAt(k)
                /\ Loop \in frames'[Decl(k)].InContin <=> Loop \in frames[Decl(k)].InContin

\* A step that leaves the tables and the declarations alone.
LEMMA ViewsSame ==
    ASSUME ViewsOK, UNCHANGED hyper, \A k \in Keys : KeepsPlace(k),
           \A i \in Slots : tables[i].made => i \in 1..depth' /\ frames'[i].InContin # {}
    PROVE  ViewsOK'
<1>1. ViewsTyped'
  BY DEF ViewsOK, ViewsTyped, hyper
<1>2. TablesInContin'
  BY DEF TablesInContin, hyper
<1>3. ViewsPlaced'
  BY DEF ViewsOK, ViewsPlaced, PlacedAt, KeepsPlace, hyper, Owned, Decl
<1>4. ViewsHeld'
  BY DEF ViewsOK, ViewsHeld, hyper
<1>. QED
  BY <1>1, <1>2, <1>3, <1>4 DEF ViewsOK

\* A place is kept where the declaring frame is.
LEMMA PlaceKept ==
    ASSUME NEW k \in Keys, UNCHANGED owner,
           frames'[Decl(k)].ParentContin = frames[Decl(k)].ParentContin,
           Loop \in frames'[Decl(k)].InContin <=> Loop \in frames[Decl(k)].InContin
    PROVE  KeepsPlace(k)
  BY DEF KeepsPlace, RegisteredAt, Decl

\* A push.
LEMMA ViewsPush ==
    ASSUME Engine, Declared, ViewsOK, Push, UNCHANGED hyper
    PROVE  ViewsOK'
<1>1. TypeOK /\ depth \in Nat
  <2>1. TypeOK
    BY DEF Engine
  <2>2. depth \in Nat
    BY <2>1 DEF TypeOK
  <2>. QED
    BY <2>1, <2>2
<1>2. depth' = depth + 1 /\ \A i \in 1..depth : frames'[i] = frames[i]
  BY <1>1, PushMarks
<1>3. ASSUME NEW k \in Keys PROVE KeepsPlace(k)
  <2>1. CASE Owned(k)
    <3>1. Decl(k) \in 1..depth
      BY <2>1 DEF Declared, OwnersOK
    <3>. QED
      BY <1>2, <3>1, PlaceKept DEF hyper
  <2>2. CASE ~Owned(k)
    BY <2>2 DEF KeepsPlace
  <2>. QED
    BY <2>1, <2>2
<1>4. ASSUME NEW i \in Slots, tables[i].made PROVE i \in 1..depth' /\ frames'[i].InContin # {}
  <2>1. i \in 1..depth /\ frames[i].InContin # {}
    BY <1>4 DEF ViewsOK, TablesInContin
  <2>. QED
    BY <1>1, <1>2, <2>1
<1>. QED
  BY <1>3, <1>4, ViewsSame

\* A pop of a frame in no continuation, with nothing declared.
LEMMA ViewsPop ==
    ASSUME Engine, Declared, ViewsOK, Pop, UNCHANGED hyper, do_loop_end \/ MayEnd
    PROVE  ViewsOK'
<1>1. TypeOK /\ Shape /\ depth \in Nat /\ depth \in 1..depth /\ head = frames[depth]
  <2>1. TypeOK /\ Shape
    BY DEF Engine
  <2>2. depth \in 1..MaxDepth
    BY <2>1 DEF TypeOK
  <2>. QED
    BY <2>1, <2>2 DEF head
<1>2. /\ depth > 1 /\ depth' = depth - 1
      /\ \A i \in 1..depth' : /\ frames'[i].InContin = frames[i].InContin
                              /\ frames'[i].ParentContin = frames[i].ParentContin
  BY <1>1, PopFacts
<1>3. head.InContin = {} /\ \A k \in Keys : Decl(k) # depth
  <2>1. CASE do_loop_end
    BY <2>1 DEF do_loop_end, Declared, LoopBits
  <2>2. CASE ~do_loop_end
    <3>1. head.type # "loop" /\ MayEnd
      BY <2>2 DEF Pop, leave_cilk_function, return_from_detach
    <3>2. Loop \notin head.InContin
      BY <1>1, <3>1 DEF Declared, LoopBits
    <3>. QED
      BY <3>1, <3>2 DEF MayEnd, Decl
  <2>. QED
    BY <2>1, <2>2
<1>4. ASSUME NEW k \in Keys PROVE KeepsPlace(k)
  <2>1. CASE Owned(k)
    <3>1. Decl(k) \in 1..depth'
      <4>1. Decl(k) \in 1..depth
        BY <2>1 DEF Declared, OwnersOK
      <4>. QED
        BY <1>1, <1>2, <1>3, <4>1
    <3>. QED
      BY <1>2, <3>1, PlaceKept DEF hyper
  <2>2. CASE ~Owned(k)
    BY <2>2 DEF KeepsPlace
  <2>. QED
    BY <2>1, <2>2
<1>5. ASSUME NEW i \in Slots, tables[i].made PROVE i \in 1..depth' /\ frames'[i].InContin # {}
  <2>1. i \in 1..depth /\ frames[i].InContin # {}
    BY <1>5 DEF ViewsOK, TablesInContin
  <2>2. i # depth
    BY <1>1, <1>3, <2>1
  <2>3. i \in 1..depth'
    BY <1>1, <1>2, <2>1, <2>2
  <2>. QED
    BY <1>2, <2>1, <2>3
<1>. QED
  BY <1>4, <1>5, ViewsSame

\* An iteration begins.
LEMMA ViewsIterationBegin ==
    ASSUME Engine, Declared, ViewsOK, do_loop_iteration_begin, UNCHANGED hyper
    PROVE  ViewsOK'
<1>1. TypeOK /\ depth \in Slots /\ depth \in Nat
  <2>1. TypeOK
    BY DEF Engine
  <2>2. depth \in Slots
    BY <2>1 DEF TypeOK
  <2>. QED
    BY <2>1, <2>2
<1>2. /\ depth' = depth
      /\ \A i \in Slots : /\ frames'[i].ParentContin = frames[i].ParentContin
                          /\ i # depth => frames'[i] = frames[i]
  BY HeadStepFacts DEF HeadStep
<1>3. frames'[depth].InContin # {}
  BY <1>1, HeadContin
<1>4. \A k \in Keys : Decl(k) # depth
  BY DEF do_loop_iteration_begin, Declared, LoopBits
<1>5. ASSUME NEW k \in Keys PROVE KeepsPlace(k)
  <2>1. CASE Owned(k)
    <3>1. Decl(k) \in Slots /\ Decl(k) # depth
      <4>1. Decl(k) \in 1..depth
        BY <2>1 DEF Declared, OwnersOK
      <4>. QED
        BY <1>1, <1>4, <4>1
    <3>. QED
      BY <1>2, <3>1, PlaceKept DEF hyper
  <2>2. CASE ~Owned(k)
    BY <2>2 DEF KeepsPlace
  <2>. QED
    BY <2>1, <2>2
<1>6. ASSUME NEW i \in Slots, tables[i].made PROVE i \in 1..depth' /\ frames'[i].InContin # {}
  <2>1. i \in 1..depth /\ frames[i].InContin # {}
    BY <1>6 DEF ViewsOK, TablesInContin
  <2>. QED
    BY <1>2, <1>3, <2>1
<1>. QED
  BY <1>5, <1>6, ViewsSame

-----------------------------------------------------------------------------
(***************************************************************************)
(* Reducing.                                                               *)
(***************************************************************************)
\* The steps that reduce.
ReducingStep == \/ Reducing(do_detach_continue)
                \/ \E r \in Regs : Reducing(do_sync(r))
                \/ MayEnd /\ Reducing(do_loop_iteration_end)

\* The head's table holds no leftmost view then.
LEMMA HeadHasNoLeftmost ==
    ASSUME Engine, Declared, ViewsOK, ReducingStep
    PROVE  /\ \A k \in Keys : Owned(k) /\ RegisteredAt(k) = depth => FALSE
           /\ \A k \in Keys : tables[depth].view[k] \in {None} \cup ViewIds
<1>1. /\ TypeOK /\ LoopsApart /\ ParentContinIsNearest /\ depth \in Slots /\ depth \in Nat
      /\ head = frames[depth] /\ frames \in [Slots -> FrameData]
  <2>1. TypeOK /\ LoopsApart /\ ParentContinIsNearest
    BY DEF Engine
  <2>2. depth \in Slots /\ frames \in [Slots -> FrameData]
    BY <2>1 DEF TypeOK
  <2>. QED
    BY <2>1, <2>2 DEF head
<1>2. ASSUME NEW k \in Keys, Owned(k), RegisteredAt(k) = depth PROVE FALSE
  <2>1. Decl(k) \in 1..depth /\ Decl(k) \in Slots
    <3>1. Decl(k) \in 1..depth
      BY <1>2 DEF Declared, OwnersOK
    <3>. QED
      BY <1>1, <3>1
  <2>2. CASE Loop \in frames[Decl(k)].InContin
    <3>1. Decl(k) = depth
      BY <1>2, <2>2 DEF RegisteredAt
    <3>2. ~LoopBodySpawns
      BY <1>2, <2>2 DEF ViewsOK, ViewsPlaced
    <3>3. head.type = "loop"
      BY <1>1, <2>1, <2>2, <3>1 DEF Declared, LoopBits
    <3>4. ~MayEnd
      BY <3>1 DEF MayEnd, Decl
    <3>5. \A r \in Regs : ~do_sync(r)
      BY <3>2, <3>3 DEF do_sync, MaySpawn
    <3>6. ~do_detach_continue
      BY <1>1, <3>2, <3>3 DEF do_detach_continue, LoopsApart
    <3>. QED
      BY <3>4, <3>5, <3>6 DEF ReducingStep, Reducing
  <2>3. CASE Loop \notin frames[Decl(k)].InContin
    <3>1. frames[Decl(k)] \in FrameData
      BY <1>1, <2>1
    <3>2. frames[Decl(k)].ParentContin \in Nat
      BY <3>1 DEF FrameData
    <3>. QED
      BY <1>1, <1>2, <2>1, <2>3, <3>2 DEF RegisteredAt
  <2>. QED
    BY <2>2, <2>3
<1>3. ASSUME NEW k \in Keys PROVE tables[depth].view[k] \in {None} \cup ViewIds
  <2>1. tables[depth].view[k] \in {None} \cup Keys \cup ViewIds
    BY <1>1 DEF ViewsOK, ViewsTyped
  <2>2. ASSUME NEW l \in Keys, tables[depth].view[k] = l PROVE FALSE
    <3>1. PlacedAt(k, depth)
      BY <1>1 DEF ViewsOK, ViewsPlaced
    <3>2. l = k
      BY <2>2, <3>1, KeysApart DEF PlacedAt
    <3>3. CASE Owned(k)
      <4>1. RegisteredAt(k) # depth
        BY <1>2, <3>3
      <4>2. tables[depth].view[k] # k
        BY <3>1, <3>3, <4>1 DEF PlacedAt
      <4>. QED
        BY <2>2, <3>2, <4>2
    <3>4. CASE ~Owned(k)
      BY <2>2, <3>1, <3>4, KeysApart DEF PlacedAt
    <3>. QED
      BY <3>3, <3>4
  <2>. QED
    BY <2>1, <2>2
<1>. QED
  BY <1>2, <1>3

\* The nearest frame in a continuation.
LEMMA NearestContin ==
    ASSUME Engine
    PROVE  /\ head.ParentContin \in Nat
           /\ head.ParentContin > 0 => /\ depth - head.ParentContin \in 1..(depth - 1)
                                       /\ frames[depth - head.ParentContin].InContin # {}
           /\ \A i \in (depth - head.ParentContin + 1)..(depth - 1) : frames[i].InContin = {}
           /\ head.ParentContin = 0 => \A i \in 1..(depth - 1) : frames[i].InContin = {}
<1>1. /\ TypeOK /\ ParentContinIsNearest /\ depth \in Slots /\ depth \in Nat
      /\ head = frames[depth] /\ head \in FrameData
  <2>1. TypeOK /\ ParentContinIsNearest
    BY DEF Engine
  <2>2. depth \in Slots
    BY <2>1 DEF TypeOK
  <2>. QED
    BY <2>1, <2>2, HeadType DEF head
<1>. PICK c : c = head.ParentContin
  OBVIOUS
<1>2. c \in Nat
  BY <1>1 DEF FrameData
<1>3. depth \in 1..depth
  BY <1>1
<1>4. /\ c > 0 => c < depth /\ frames[depth - c].InContin # {}
      /\ \A j \in 1..(depth - 1) : frames[j].InContin # {} => c > 0 /\ depth - c >= j
  BY <1>1, <1>3 DEF ParentContinIsNearest
<1>5. c > 0 => depth - c \in 1..(depth - 1)
  BY <1>1, <1>2, <1>4
<1>6. c < depth
  BY <1>1, <1>2, <1>4
<1>7. ASSUME NEW i \in (depth - c + 1)..(depth - 1) PROVE frames[i].InContin = {}
  <2>1. i \in 1..(depth - 1) /\ ~(depth - c >= i)
    BY <1>1, <1>2, <1>6
  <2>. QED
    BY <1>4, <2>1
<1>8. c = 0 => \A i \in 1..(depth - 1) : frames[i].InContin = {}
  BY <1>4
<1>. QED
  BY <1>2, <1>4, <1>5, <1>7, <1>8

\* A table that is not made holds no view.
LEMMA NotMade ==
    ASSUME ViewsTyped, NEW i \in Slots, ~tables[i].made
    PROVE  \A k \in Keys : tables[i].view[k] = None
  BY DEF ViewsTyped, NullTable

\* Pairs of views, one for each reducer of S.
Pairs(S, l, r) == {<<l[k], r[k]>> : k \in S}

\* V is vs after the right views are reduced into the left ones.
IsReduction(V, vs, S, l, r) ==
    /\ V.alloc = vs.alloc \ {r[k] : k \in S} /\ V.users = vs.users
    /\ \A k \in S : l[k] \in DOMAIN vs.value =>
          V.value[l[k]] = vs.value[l[k]] \o vs.value[r[k]]
    /\ \A w \in DOMAIN vs.value : (\A k \in S : l[k] # w) => V.value[w] = vs.value[w]
    /\ V = [alloc |-> V.alloc, value |-> V.value, users |-> V.users]
    /\ V.value = [w \in DOMAIN vs.value |-> V.value[w]]

\* What Reduced computes, when no two pairs have the same left view.
LEMMA ReducedFacts ==
    ASSUME NEW vs, NEW S, NEW l, NEW r, \A j, k \in S : l[j] = l[k] => j = k
    PROVE  IsReduction(Reduced(vs, Pairs(S, l, r)), vs, S, l, r)
<1>. DEFINE P == {<<l[k], r[k]>> : k \in S}
            right(w) == {p[2] : p \in {q \in P : q[1] = w}}
            V == Reduced(vs, P)
<1>1. /\ V = [alloc |-> V.alloc, value |-> V.value, users |-> V.users]
      /\ V.users = vs.users
      /\ V.value = [w \in DOMAIN vs.value |->
                       IF right(w) = {} THEN vs.value[w]
                       ELSE vs.value[w] \o vs.value[CHOOSE x \in right(w) : TRUE]]
      /\ V.alloc = vs.alloc \ {p[2] : p \in P}
  BY DEF Reduced
<1>2. /\ \A p \in P : \E k \in S : p[1] = l[k] /\ p[2] = r[k]
      /\ \A k \in S : \E p \in P : p[1] = l[k] /\ p[2] = r[k]
  <2>1. ASSUME NEW p \in P PROVE \E k \in S : p[1] = l[k] /\ p[2] = r[k]
    <3>1. PICK k \in S : p = <<l[k], r[k]>>
      OBVIOUS
    <3>. QED
      BY <3>1
  <2>2. ASSUME NEW k \in S PROVE \E p \in P : p[1] = l[k] /\ p[2] = r[k]
    <3>1. <<l[k], r[k]>> \in P
      OBVIOUS
    <3>2. <<l[k], r[k]>>[1] = l[k] /\ <<l[k], r[k]>>[2] = r[k]
      OBVIOUS
    <3>. HIDE DEF P
    <3>. QED
      BY <3>1, <3>2
  <2>. QED
    BY <2>1, <2>2
<1>. HIDE DEF P
<1>3. /\ {p[2] : p \in P} = {r[k] : k \in S}
      /\ \A k \in S : right(l[k]) = {r[k]}
  BY <1>2
<1>4. ASSUME NEW w, \A k \in S : l[k] # w PROVE right(w) = {}
  BY <1>2, <1>4
<1>. HIDE DEF V, right
<1>5. ASSUME NEW k \in S, l[k] \in DOMAIN vs.value
      PROVE  V.value[l[k]] = vs.value[l[k]] \o vs.value[r[k]]
  <2>1. right(l[k]) = {r[k]} /\ right(l[k]) # {}
    BY <1>3
  <2>2. V.value[l[k]] = vs.value[l[k]] \o vs.value[CHOOSE x \in right(l[k]) : TRUE]
    BY <1>1, <1>5, <2>1
  <2>3. (CHOOSE x \in {r[k]} : TRUE) = r[k]
    OBVIOUS
  <2>. QED
    BY <2>1, <2>2, <2>3
<1>6. ASSUME NEW w \in DOMAIN vs.value, \A k \in S : l[k] # w
      PROVE  V.value[w] = vs.value[w]
  BY <1>1, <1>4, <1>6
<1>7. V.alloc = vs.alloc \ {r[k] : k \in S}
  BY <1>1, <1>3
<1>8. V.value = [w \in DOMAIN vs.value |-> V.value[w]]
  BY <1>1
<1>9. V.users = vs.users /\ V = [alloc |-> V.alloc, value |-> V.value, users |-> V.users]
  BY <1>1
<1>10. V = Reduced(vs, Pairs(S, l, r))
  BY DEF V, P, Pairs
<1>11. IsReduction(V, vs, S, l, r)
  BY <1>5, <1>6, <1>7, <1>8, <1>9 DEF IsReduction
<1>. QED
  BY <1>10, <1>11

\* The view to the left of the head's: that of table a, the leftmost one when
\* there is no such table.
LeftOf(a, k) == IF a = 0 THEN k ELSE tables[a].view[k]

BothHold(a) == {k \in Keys : LeftOf(a, k) # None /\ tables[depth].view[k] # None}

\* The head's table is reduced into the nearest one below, at slot a.
ReducedInto(a) ==
    /\ a # 0 => frames[a].InContin # {}
    /\ \A i \in (a + 1)..(depth - 1) : frames[i].InContin = {}
    /\ \A i \in Slots \ {a, depth} : tables'[i] = tables[i]
    /\ tables'[depth] = NullTable
    /\ a # 0 => /\ tables'[a].made
                /\ \A k \in Keys : tables'[a].view[k] = IF LeftOf(a, k) # None THEN LeftOf(a, k)
                                                        ELSE tables[depth].view[k]
    /\ views'.alloc = views.alloc \ {tables[depth].view[k] : k \in BothHold(a)}
    /\ \A k \in BothHold(a) :
          views'.value[LeftOf(a, k)]
             = views.value[LeftOf(a, k)] \o views.value[tables[depth].view[k]]
    /\ \A w \in Keys \cup ViewIds :
          (\A k \in BothHold(a) : LeftOf(a, k) # w) => views'.value[w] = views.value[w]

\* Sequences of numbers end to end are one.
LEMMA ConcatType == \A s, t \in Seq(Nat) : s \o t \in Seq(Nat)
  OBVIOUS

\* The values of the views stay sequences.
LEMMA ReducedType ==
    ASSUME ViewsTyped, NEW S \in SUBSET Keys, NEW l, NEW r,
           \A j, k \in S : l[j] = l[k] => j = k,
           \A k \in S : l[k] \in Keys \cup ViewIds /\ r[k] \in Keys \cup ViewIds
    PROVE  Reduced(views, Pairs(S, l, r))
              \in [alloc : SUBSET ViewIds, value : [Keys \cup ViewIds -> Seq(Nat)],
                   users : [Keys \cup ViewIds -> SUBSET [owner : Frames, iter : 0..MaxIters]]]
<1>. PICK V : V = Reduced(views, Pairs(S, l, r))
  OBVIOUS
<1>1. /\ V.alloc = views.alloc \ {r[k] : k \in S} /\ V.users = views.users
      /\ \A k \in S : l[k] \in DOMAIN views.value =>
            V.value[l[k]] = views.value[l[k]] \o views.value[r[k]]
      /\ \A w \in DOMAIN views.value :
            (\A k \in S : l[k] # w) => V.value[w] = views.value[w]
      /\ V = [alloc |-> V.alloc, value |-> V.value, users |-> V.users]
      /\ V.value = [w \in DOMAIN views.value |-> V.value[w]]
  <2>1. IsReduction(V, views, S, l, r)
    BY ReducedFacts
  <2>. QED
    BY <2>1 DEF IsReduction
<1>2. /\ views.alloc \subseteq ViewIds /\ views.value \in [Keys \cup ViewIds -> Seq(Nat)]
      /\ views.users \in [Keys \cup ViewIds -> SUBSET [owner : Frames, iter : 0..MaxIters]]
  BY DEF ViewsTyped
<1>3. DOMAIN views.value = Keys \cup ViewIds
  BY <1>2
<1>4. ASSUME NEW w \in Keys \cup ViewIds PROVE V.value[w] \in Seq(Nat)
  <2>1. CASE \E k \in S : l[k] = w
    <3>1. PICK k \in S : l[k] = w
      BY <2>1
    <3>2. V.value[w] = views.value[w] \o views.value[r[k]]
      BY <1>1, <1>3, <3>1
    <3>3. views.value[w] \in Seq(Nat) /\ views.value[r[k]] \in Seq(Nat)
      BY <1>2
    <3>. QED
      BY <3>2, <3>3, ConcatType
  <2>2. CASE \A k \in S : l[k] # w
    <3>1. V.value[w] = views.value[w]
      BY <1>1, <1>3, <2>2
    <3>. QED
      BY <1>2, <3>1
  <2>. QED
    BY <2>1, <2>2
<1>5. V.value \in [Keys \cup ViewIds -> Seq(Nat)]
  BY <1>1, <1>3, <1>4
<1>6. V.alloc \subseteq ViewIds
  BY <1>1, <1>2
<1>7. V.users \in [Keys \cup ViewIds -> SUBSET [owner : Frames, iter : 0..MaxIters]]
  BY <1>1, <1>2
<1>. QED
  BY <1>1, <1>5, <1>6, <1>7

\* A view is the left one of one reducer only.
LEMMA LeftApart ==
    ASSUME ViewsOK, NEW a \in 0..MaxDepth, NEW j \in Keys, NEW k \in Keys,
           LeftOf(a, j) = LeftOf(a, k), LeftOf(a, j) # None
    PROVE  j = k
<1>1. CASE a = 0
  BY <1>1 DEF LeftOf
<1>2. CASE a # 0
  <2>1. a \in Slots /\ LeftOf(a, j) = tables[a].view[j] /\ LeftOf(a, k) = tables[a].view[k]
    BY <1>2 DEF LeftOf
  <2>2. tables[a].view[j] \in {None, j} \cup ViewIds /\ tables[a].view[k] \in {None, k} \cup ViewIds
    BY <2>1 DEF ViewsOK, ViewsPlaced, PlacedAt
  <2>3. CASE tables[a].view[j] \in ViewIds
    <3>1. tables[a].view[j] = tables[a].view[k]
      BY <2>1
    <3>2. ViewsHeld
      BY DEF ViewsOK
    <3>. QED
      BY <2>1, <2>3, <3>1, <3>2 DEF ViewsHeld
  <2>4. CASE tables[a].view[j] \notin ViewIds
    BY <2>1, <2>2, <2>4, KeysApart
  <2>. QED
    BY <2>3, <2>4
<1>. QED
  BY <1>1, <1>2

\* With an ancestor in a continuation.
LEMMA IntoParent ==
    ASSUME Engine, Declared, ViewsOK, ReducingStep, tables[depth].made,
           head.ParentContin > 0, ReduceIntoParent
    PROVE  ReducedInto(depth - head.ParentContin) /\ ViewsTyped'
<1>. PICK a : a = depth - head.ParentContin
  OBVIOUS
<1>1. /\ depth \in Slots /\ depth \in Nat /\ a \in 1..(depth - 1) /\ a \in Slots /\ a # depth
      /\ frames[a].InContin # {} /\ \A i \in (a + 1)..(depth - 1) : frames[i].InContin = {}
  <2>1. TypeOK
    BY DEF Engine
  <2>2. depth \in Slots
    BY <2>1 DEF TypeOK
  <2>. QED
    BY <2>2, NearestContin
<1>. DEFINE l == [k \in Keys |-> tables[a].view[k]]
            r == [k \in Keys |-> tables[depth].view[k]]
            S == {k \in Keys : l[k] # None /\ r[k] # None}
<1>2. S = BothHold(a) /\ \A k \in Keys : l[k] = LeftOf(a, k)
  BY <1>1 DEF BothHold, LeftOf
<1>3. /\ tables' = [tables EXCEPT ![a] = merge_two_hyper_tables(tables[a], tables[depth]),
                                  ![depth] = NullTable]
      /\ views' = Reduced(views, Pairs(S, l, r))
  <2>1. S = Holds(tables[a]) \cap Holds(tables[depth])
    BY DEF Holds
  <2>2. Pairs(S, l, r) = {<<tables[a].view[k], tables[depth].view[k]>> : k \in S}
    BY DEF Pairs
  <2>. HIDE DEF S
  <2>3. views' = Reduced(views, {<<tables[a].view[k], tables[depth].view[k]>> : k \in S})
    BY <2>1 DEF ReduceIntoParent
  <2>. QED
    BY <2>2, <2>3 DEF ReduceIntoParent
<1>4. \A j, k \in S : l[j] = l[k] => j = k
  <2>1. a \in 0..MaxDepth
    BY <1>1
  <2>. QED
    BY <1>2, <2>1, LeftApart
<1>5. \A k \in Keys : /\ l[k] \in {None} \cup Keys \cup ViewIds
                      /\ r[k] \in {None} \cup ViewIds
  BY <1>1, HeadHasNoLeftmost DEF ViewsOK, ViewsTyped
<1>6. S \in SUBSET Keys /\ \A k \in S : l[k] \in Keys \cup ViewIds /\ r[k] \in Keys \cup ViewIds
  BY <1>5
<1>7. /\ tables \in [Slots -> [made : BOOLEAN, view : [Keys -> {None} \cup Keys \cup ViewIds]]]
      /\ tables[a] \in [made : BOOLEAN, view : [Keys -> {None} \cup Keys \cup ViewIds]]
      /\ tables[depth] \in [made : BOOLEAN, view : [Keys -> {None} \cup Keys \cup ViewIds]]
      /\ DOMAIN views.value = Keys \cup ViewIds
  BY <1>1 DEF ViewsOK, ViewsTyped
<1>8. PICK M : M = merge_two_hyper_tables(tables[a], tables[depth])
  OBVIOUS
<1>9. /\ M \in [made : BOOLEAN, view : [Keys -> {None} \cup Keys \cup ViewIds]] /\ M.made
      /\ \A k \in Keys : M.view[k] = IF l[k] # None THEN l[k] ELSE r[k]
  <2>1. CASE tables[a].made
    BY <1>7, <1>8, <2>1 DEF merge_two_hyper_tables
  <2>2. CASE ~tables[a].made
    <3>1. \A k \in Keys : l[k] = None
      BY <1>1, <2>2, NotMade DEF ViewsOK
    <3>2. M = tables[depth]
      BY <1>8, <2>2 DEF merge_two_hyper_tables
    <3>. QED
      BY <1>7, <3>1, <3>2
  <2>. QED
    BY <2>1, <2>2
<1>10. /\ tables'[a] = M /\ tables'[depth] = NullTable
       /\ \A i \in Slots \ {a, depth} : tables'[i] = tables[i]
       /\ DOMAIN tables' = Slots /\ tables' = [i \in Slots |-> tables'[i]]
  BY <1>1, <1>3, <1>7, <1>8
<1>11. ViewsTyped'
  <2>1. NullTable \in [made : BOOLEAN, view : [Keys -> {None} \cup Keys \cup ViewIds]]
    BY DEF NullTable
  <2>2. \A i \in Slots :
           tables'[i] \in [made : BOOLEAN, view : [Keys -> {None} \cup Keys \cup ViewIds]]
    BY <1>7, <1>9, <1>10, <2>1
  <2>3. tables' \in [Slots -> [made : BOOLEAN, view : [Keys -> {None} \cup Keys \cup ViewIds]]]
    BY <1>10, <2>2
  <2>4. \A i \in Slots : tables'[i].made \/ tables'[i] = NullTable
    BY <1>9, <1>10 DEF ViewsOK, ViewsTyped
  <2>5. updates' = updates
    BY DEF ReducingStep, Reducing
  <2>6. views' \in [alloc : SUBSET ViewIds, value : [Keys \cup ViewIds -> Seq(Nat)],
                    users : [Keys \cup ViewIds -> SUBSET [owner : Frames, iter : 0..MaxIters]]]
    <3>. HIDE DEF S, l, r
    <3>. QED
      BY <1>3, <1>4, <1>6, ReducedType DEF ViewsOK
  <2>7. updates' \in [Keys -> 0..MaxUpdates]
    BY <2>5 DEF ViewsOK, ViewsTyped
  <2>. QED
    BY <2>3, <2>4, <2>6, <2>7 DEF ViewsTyped
<1>12. /\ views'.alloc = views.alloc \ {r[k] : k \in S}
       /\ \A k \in S : views'.value[l[k]] = views.value[l[k]] \o views.value[r[k]]
       /\ \A w \in Keys \cup ViewIds :
             (\A k \in S : l[k] # w) => views'.value[w] = views.value[w]
  <2>. HIDE DEF S, l, r
  <2>. QED
    <3>1. IsReduction(views', views, S, l, r)
      BY <1>3, <1>4, ReducedFacts
    <3>. QED
      BY <1>6, <1>7, <3>1 DEF IsReduction
<1>13. \A k \in Keys : r[k] = tables[depth].view[k]
  OBVIOUS
<1>14. {r[k] : k \in S} = {tables[depth].view[k] : k \in S}
  OBVIOUS
<1>15. ReducedInto(a)
  <2>. HIDE DEF S, l, r
  <2>1. S \subseteq Keys
    BY <1>6
  <2>2. views'.alloc = views.alloc \ {tables[depth].view[k] : k \in BothHold(a)}
    BY <1>2, <1>12, <1>14
  <2>3. \A k \in BothHold(a) :
          views'.value[LeftOf(a, k)]
             = views.value[LeftOf(a, k)] \o views.value[tables[depth].view[k]]
    BY <1>2, <1>12, <1>13, <2>1
  <2>4. \A w \in Keys \cup ViewIds :
          (\A k \in BothHold(a) : LeftOf(a, k) # w) => views'.value[w] = views.value[w]
    BY <1>2, <1>12, <2>1
  <2>5. \A k \in Keys : tables'[a].view[k] = IF LeftOf(a, k) # None THEN LeftOf(a, k)
                                             ELSE tables[depth].view[k]
    BY <1>2, <1>9, <1>10, <1>13
  <2>. QED
    BY <1>1, <1>9, <1>10, <2>2, <2>3, <2>4, <2>5 DEF ReducedInto
<1>. QED
  BY <1>11, <1>15

\* Without an ancestor in a continuation.
LEMMA IntoLeftmost ==
    ASSUME Engine, Declared, ViewsOK, ReducingStep, tables[depth].made,
           head.ParentContin = 0, ReduceIntoLeftmost
    PROVE  ReducedInto(0) /\ ViewsTyped'
<1>1. /\ depth \in Slots /\ depth \in Nat
      /\ \A i \in 1..(depth - 1) : frames[i].InContin = {}
  <2>1. TypeOK
    BY DEF Engine
  <2>2. depth \in Slots
    BY <2>1 DEF TypeOK
  <2>. QED
    BY <2>2, NearestContin
<1>. DEFINE l == [k \in Keys |-> k]
            r == [k \in Keys |-> tables[depth].view[k]]
            S == {k \in Keys : r[k] # None}
<1>2. \A k \in Keys : r[k] \in {None} \cup ViewIds /\ k \notin ViewIds /\ k # None
  BY HeadHasNoLeftmost, KeysApart
<1>3. S = BothHold(0) /\ S = Holds(tables[depth]) /\ \A k \in Keys : l[k] = LeftOf(0, k)
  BY <1>2 DEF BothHold, LeftOf, Holds
<1>4. {k \in Holds(tables[depth]) : IsLeftmost(tables[depth], k)} = {}
  BY <1>2 DEF IsLeftmost, Holds
<1>5. /\ tables' = [tables EXCEPT ![depth] = NullTable]
      /\ views' = Reduced(views, Pairs(S, l, r))
  <2>1. Holds(tables[depth]) \ {} = S
    BY <1>3
  <2>2. Pairs(S, l, r) = {<<k, tables[depth].view[k]>> : k \in S}
    BY DEF Pairs
  <2>. HIDE DEF S
  <2>3. views' = Reduced(views, {<<k, tables[depth].view[k]>> : k \in S})
    BY <1>4, <2>1 DEF ReduceIntoLeftmost
  <2>4. \E U \in TablesAfter(S, {}) : tables' = [tables EXCEPT ![depth] = U]
    BY <1>4, <2>1 DEF ReduceIntoLeftmost
  <2>. QED
    BY <2>2, <2>3, <2>4 DEF TablesAfter
<1>6. \A j, k \in S : l[j] = l[k] => j = k
  OBVIOUS
<1>7. S \in SUBSET Keys /\ \A k \in S : l[k] \in Keys \cup ViewIds /\ r[k] \in Keys \cup ViewIds
  BY <1>2
<1>8. /\ tables \in [Slots -> [made : BOOLEAN, view : [Keys -> {None} \cup Keys \cup ViewIds]]]
      /\ DOMAIN views.value = Keys \cup ViewIds
  BY DEF ViewsOK, ViewsTyped
<1>9. /\ tables'[depth] = NullTable
      /\ \A i \in Slots \ {depth} : tables'[i] = tables[i]
      /\ tables' = [i \in Slots |-> tables'[i]]
  BY <1>1, <1>5, <1>8
<1>10. ViewsTyped'
  <2>1. NullTable \in [made : BOOLEAN, view : [Keys -> {None} \cup Keys \cup ViewIds]]
    BY DEF NullTable
  <2>2. \A i \in Slots :
           tables'[i] \in [made : BOOLEAN, view : [Keys -> {None} \cup Keys \cup ViewIds]]
    BY <1>8, <1>9, <2>1
  <2>3. tables' \in [Slots -> [made : BOOLEAN, view : [Keys -> {None} \cup Keys \cup ViewIds]]]
    BY <1>9, <2>2
  <2>4. \A i \in Slots : tables'[i].made \/ tables'[i] = NullTable
    BY <1>9 DEF ViewsOK, ViewsTyped
  <2>5. updates' = updates
    BY DEF ReducingStep, Reducing
  <2>6. views' \in [alloc : SUBSET ViewIds, value : [Keys \cup ViewIds -> Seq(Nat)],
                    users : [Keys \cup ViewIds -> SUBSET [owner : Frames, iter : 0..MaxIters]]]
    <3>. HIDE DEF S, l, r
    <3>. QED
      BY <1>5, <1>6, <1>7, ReducedType DEF ViewsOK
  <2>7. updates' \in [Keys -> 0..MaxUpdates]
    BY <2>5 DEF ViewsOK, ViewsTyped
  <2>. QED
    BY <2>3, <2>4, <2>6, <2>7 DEF ViewsTyped
<1>11. /\ views'.alloc = views.alloc \ {r[k] : k \in S}
       /\ \A k \in S : views'.value[l[k]] = views.value[l[k]] \o views.value[r[k]]
       /\ \A w \in Keys \cup ViewIds :
             (\A k \in S : l[k] # w) => views'.value[w] = views.value[w]
  <2>. HIDE DEF S, l, r
  <2>1. IsReduction(views', views, S, l, r)
    BY <1>5, <1>6, ReducedFacts
  <2>. QED
    BY <1>7, <1>8, <2>1 DEF IsReduction
<1>12. \A k \in Keys : r[k] = tables[depth].view[k]
  OBVIOUS
<1>13. {r[k] : k \in S} = {tables[depth].view[k] : k \in S}
  OBVIOUS
<1>14. ReducedInto(0)
  <2>. HIDE DEF S, l, r
  <2>1. S \subseteq Keys
    BY <1>7
  <2>2. views'.alloc = views.alloc \ {tables[depth].view[k] : k \in BothHold(0)}
    BY <1>3, <1>11, <1>13
  <2>3. \A k \in BothHold(0) :
          views'.value[LeftOf(0, k)]
             = views.value[LeftOf(0, k)] \o views.value[tables[depth].view[k]]
    BY <1>3, <1>11, <1>12, <2>1
  <2>4. \A w \in Keys \cup ViewIds :
          (\A k \in BothHold(0) : LeftOf(0, k) # w) => views'.value[w] = views.value[w]
    BY <1>3, <1>11, <2>1
  <2>5. 0 + 1 = 1
    OBVIOUS
  <2>. QED
    BY <1>1, <1>9, <2>2, <2>3, <2>4, <2>5 DEF ReducedInto
<1>. QED
  BY <1>10, <1>14

\* What reducing does.
LEMMA ReduceKinds ==
    ASSUME Engine, Declared, ViewsOK, ReducingStep
    PROVE  \/ ~tables[depth].made /\ UNCHANGED <<tables, views>>
           \/ /\ tables[depth].made
              /\ \E a \in 0..(depth - 1) : ReducedInto(a) /\ ViewsTyped'
<1>1. reduce_local_views
  BY DEF ReducingStep, Reducing
<1>2. depth \in Nat /\ depth > 0
  <2>1. TypeOK
    BY DEF Engine
  <2>. QED
    BY <2>1 DEF TypeOK
<1>3. CASE tables[depth].made /\ head.ParentContin > 0 /\ ReduceIntoParent
  <2>1. ReducedInto(depth - head.ParentContin) /\ ViewsTyped'
    BY <1>3, IntoParent
  <2>2. depth - head.ParentContin \in 0..(depth - 1)
    BY <1>2, <1>3, NearestContin
  <2>. QED
    BY <1>3, <2>1, <2>2
<1>4. CASE tables[depth].made /\ head.ParentContin = 0 /\ ReduceIntoLeftmost
  <2>1. ReducedInto(0) /\ ViewsTyped'
    BY <1>4, IntoLeftmost
  <2>2. 0 \in 0..(depth - 1)
    BY <1>2
  <2>. QED
    BY <1>4, <2>1, <2>2
<1>. QED
  BY <1>1, <1>3, <1>4 DEF reduce_local_views

\* The table of a leftmost view is the nearest below the declaring frame.
LEMMA RegisteredNearest ==
    ASSUME Engine, Declared, NEW k \in Keys, Owned(k), NEW a \in 0..(Decl(k) - 1),
           a # 0 => frames[a].InContin # {},
           \A i \in (a + 1)..(Decl(k) - 1) : frames[i].InContin = {},
           Loop \notin frames[Decl(k)].InContin
    PROVE  RegisteredAt(k) = a
<1>. PICK d : d = Decl(k)
  OBVIOUS
<1>1. d \in 1..depth /\ depth \in Nat /\ d \in Nat /\ a \in Nat /\ a < d
  <2>1. TypeOK
    BY DEF Engine
  <2>2. depth \in Nat
    BY <2>1 DEF TypeOK
  <2>3. d \in 1..depth
    BY DEF Declared, OwnersOK
  <2>. QED
    BY <2>2, <2>3
<1>. PICK c : c = frames[d].ParentContin
  OBVIOUS
<1>2. c \in Nat
  <2>1. TypeOK
    BY DEF Engine
  <2>2. depth \in 1..MaxDepth /\ frames \in [Slots -> FrameData]
    BY <2>1 DEF TypeOK
  <2>3. d \in Slots
    BY <1>1, <2>2
  <2>4. frames[d] \in FrameData
    BY <2>2, <2>3
  <2>. QED
    BY <2>4 DEF FrameData
<1>3. /\ c > 0 => c < d /\ frames[d - c].InContin # {}
      /\ \A j \in 1..(d - 1) : frames[j].InContin # {} => c > 0 /\ d - c >= j
  BY <1>1 DEF Engine, ParentContinIsNearest
<1>4. CASE c = 0
  <2>1. a = 0
    BY <1>1, <1>3, <1>4
  <2>. QED
    BY <1>4, <2>1 DEF RegisteredAt
<1>5. CASE c > 0
  <2>1. d - c \in 1..(d - 1)
    BY <1>1, <1>2, <1>3, <1>5
  <2>2. ~(d - c \in (a + 1)..(d - 1))
    BY <1>3, <1>5
  <2>3. d - c <= a
    BY <1>1, <1>2, <2>1, <2>2
  <2>4. a \in 1..(d - 1) /\ frames[a].InContin # {}
    BY <1>1, <1>2, <2>1, <2>3
  <2>5. d - c >= a
    BY <1>3, <2>4
  <2>6. d - c = a
    BY <1>1, <1>2, <2>3, <2>5
  <2>. QED
    BY <1>5, <2>6 DEF RegisteredAt
<1>. QED
  BY <1>2, <1>4, <1>5

\* Steps that reduce move no leftmost view.
LEMMA ReducingKeeps ==
    ASSUME Engine, Declared, ReducingStep
    PROVE  /\ depth' = depth /\ UNCHANGED <<owner, updates>>
           /\ \A i \in Slots : i # depth => frames'[i] = frames[i]
           /\ \A k \in Keys : KeepsPlace(k)
<1>1. TypeOK /\ depth \in Slots /\ depth \in Nat /\ sync_reg \in 0..(MaxRegs - 1)
  <2>1. TypeOK
    BY DEF Engine
  <2>2. depth \in Slots /\ sync_reg \in Regs
    BY <2>1 DEF TypeOK
  <2>. QED
    BY <2>1, <2>2
<1>2. HeadStep /\ UNCHANGED <<owner, updates>>
  BY DEF ReducingStep, Reducing, HeadStep
<1>3. /\ depth' = depth
      /\ \A i \in Slots : /\ frames'[i].ParentContin = frames[i].ParentContin
                          /\ i # depth => frames'[i] = frames[i]
  BY <1>2, HeadStepFacts
<1>4. \/ \A k \in Keys : Decl(k) # depth
      \/ Loop \in frames'[depth].InContin <=> Loop \in frames[depth].InContin
  <2>1. CASE do_detach_continue
    <3>1. frames'[depth].InContin = frames[depth].InContin \cup {sync_reg + 1}
      BY <1>1, <2>1, HeadContin DEF head
    <3>2. sync_reg + 1 # Loop
      BY <1>1
    <3>. QED
      BY <3>1, <3>2
  <2>2. ASSUME NEW r \in Regs, do_sync(r)
        PROVE  Loop \in frames'[depth].InContin <=> Loop \in frames[depth].InContin
    <3>1. frames'[depth].InContin = frames[depth].InContin \ {r + 1}
      BY <1>1, <2>2, HeadContin DEF head
    <3>2. r + 1 # Loop
      OBVIOUS
    <3>. QED
      BY <3>1, <3>2
  <2>3. CASE MayEnd
    BY <2>3 DEF MayEnd, Decl
  <2>. QED
    BY <2>1, <2>2, <2>3 DEF ReducingStep, Reducing
<1>5. ASSUME NEW k \in Keys PROVE KeepsPlace(k)
  <2>1. CASE Owned(k)
    <3>1. Decl(k) \in Slots
      <4>1. Decl(k) \in 1..depth
        BY <2>1 DEF Declared, OwnersOK
      <4>. QED
        BY <1>1, <4>1
    <3>2. Loop \in frames'[Decl(k)].InContin <=> Loop \in frames[Decl(k)].InContin
      BY <1>3, <1>4, <3>1
    <3>. QED
      BY <1>2, <1>3, <3>1, <3>2, PlaceKept
  <2>2. CASE ~Owned(k)
    BY <2>2 DEF KeepsPlace
  <2>. QED
    BY <2>1, <2>2
<1>. QED
  BY <1>2, <1>3, <1>5

\* Where the entries are after the head's table is reduced into that at a.
LEMMA ReducedPlaces ==
    ASSUME Engine, Declared, ViewsOK, ReducingStep, NEW a \in 0..(depth - 1), ReducedInto(a),
           ViewsTyped'
    PROVE  TablesInContin' /\ ViewsPlaced'
<1>1. /\ depth \in Slots /\ depth \in Nat /\ a \in Nat /\ a < depth /\ a # depth
      /\ a # 0 => a \in Slots
  <2>1. TypeOK
    BY DEF Engine
  <2>2. depth \in Slots
    BY <2>1 DEF TypeOK
  <2>. QED
    BY <2>2
<1>2. /\ depth' = depth /\ UNCHANGED owner
      /\ \A i \in Slots : i # depth => frames'[i] = frames[i]
      /\ \A k \in Keys : KeepsPlace(k)
  BY ReducingKeeps
<1>3. /\ tables'[depth] = NullTable /\ NullTable.made = FALSE
      /\ \A k \in Keys : NullTable.view[k] = None
      /\ \A i \in Slots \ {a, depth} : tables'[i] = tables[i]
  BY DEF ReducedInto, NullTable
<1>4. a # 0 => /\ frames[a].InContin # {}
               /\ \A k \in Keys : tables'[a].view[k] = IF tables[a].view[k] # None
                                                       THEN tables[a].view[k]
                                                       ELSE tables[depth].view[k]
  BY DEF ReducedInto, LeftOf
<1>5. TablesInContin'
  <2>. SUFFICES ASSUME NEW i \in Slots, tables'[i].made
                PROVE  i \in 1..depth /\ frames'[i].InContin # {}
    BY <1>2 DEF TablesInContin
  <2>1. i # depth /\ frames'[i] = frames[i]
    BY <1>2, <1>3
  <2>2. CASE i = a
    BY <1>1, <1>4, <2>1, <2>2
  <2>3. CASE i # a
    BY <1>3, <2>1, <2>3 DEF ViewsOK, TablesInContin
  <2>. QED
    BY <2>2, <2>3
<1>6. \A k \in Keys : /\ Owned(k) => RegisteredAt(k) # depth
                      /\ tables[depth].view[k] \in {None} \cup ViewIds
  BY HeadHasNoLeftmost
<1>7. ASSUME NEW k \in Keys, NEW i \in Slots
      PROVE  /\ tables'[i].view[k] \in {None, k} \cup ViewIds
             /\ ~Owned(k) => tables'[i].view[k] = None
             /\ Owned(k) => /\ tables'[i].view[k] = k <=> i = RegisteredAt(k)
                            /\ i < Decl(k) /\ i # RegisteredAt(k) => tables'[i].view[k] = None
  <2>1. PlacedAt(k, i) /\ PlacedAt(k, depth)
    BY <1>1 DEF ViewsOK, ViewsPlaced
  <2>2. CASE i = depth
    BY <1>3, <1>6, <2>2, KeysApart
  <2>3. CASE i # depth /\ i # a
    <3>1. tables'[i] = tables[i]
      BY <1>3, <2>3
    <3>. QED
      BY <2>1, <3>1 DEF PlacedAt
  <2>4. CASE i = a
    <3>1. tables'[i].view[k] = IF tables[i].view[k] # None THEN tables[i].view[k]
                               ELSE tables[depth].view[k]
      BY <1>4, <2>4
    <3>2. tables[depth].view[k] # k
      BY <1>6, KeysApart
    <3>3. ASSUME Owned(k), i < Decl(k), i # RegisteredAt(k) PROVE FALSE
      <4>1. Decl(k) \in 1..depth /\ a \in 0..(Decl(k) - 1)
        BY <1>1, <2>4, <3>3 DEF Declared, OwnersOK
      <4>2. \A j \in (a + 1)..(Decl(k) - 1) : frames[j].InContin = {}
        <5>1. \A j \in (a + 1)..(Decl(k) - 1) : j \in (a + 1)..(depth - 1)
          BY <1>1, <4>1
        <5>. QED
          BY <5>1 DEF ReducedInto
      <4>3. Loop \notin frames[Decl(k)].InContin
        <5>1. CASE Decl(k) = depth
          BY <1>6, <3>3, <5>1 DEF RegisteredAt
        <5>2. CASE Decl(k) # depth
          <6>1. Decl(k) \in (a + 1)..(depth - 1)
            BY <1>1, <4>1, <5>2
          <6>. QED
            BY <6>1 DEF ReducedInto
        <5>. QED
          BY <5>1, <5>2
      <4>4. RegisteredAt(k) = a
        BY <1>4, <3>3, <4>1, <4>2, <4>3, RegisteredNearest
      <4>. QED
        BY <2>4, <3>3, <4>4
    <3>. QED
      BY <1>6, <2>1, <3>1, <3>2, <3>3, KeysApart DEF PlacedAt
  <2>. QED
    BY <2>2, <2>3, <2>4
<1>8. \A k \in Keys, i \in Slots : PlacedAt(k, i)'
  <2>1. \A k \in Keys : /\ Owned(k)' <=> Owned(k)
                        /\ Decl(k)' = Decl(k)
                        /\ Owned(k) => RegisteredAt(k)' = RegisteredAt(k)
    BY <1>2 DEF Owned, Decl, KeepsPlace
  <2>. QED
    BY <1>7, <2>1 DEF PlacedAt
<1>9. \A k \in Keys : (Owned(k) /\ Loop \in frames[Decl(k)].InContin)' => ~LoopBodySpawns
  <2>1. ASSUME NEW k \in Keys, Owned(k)', Loop \in frames'[Decl(k)'].InContin
        PROVE  ~LoopBodySpawns
    <3>1. Owned(k) /\ Decl(k)' = Decl(k)
      BY <1>2, <2>1 DEF Owned, Decl
    <3>2. Loop \in frames[Decl(k)].InContin
      BY <1>2, <2>1, <3>1 DEF KeepsPlace
    <3>. QED
      BY <3>1, <3>2 DEF ViewsOK, ViewsPlaced
  <2>. QED
    BY <2>1
<1>. QED
  BY <1>5, <1>8, <1>9 DEF ViewsPlaced

\* The entries are still the allocated views, each in one place.
LEMMA ReducedHeld ==
    ASSUME Engine, Declared, ViewsOK, ReducingStep, NEW a \in 0..(depth - 1), ReducedInto(a)
    PROVE  ViewsHeld'
<1>1. /\ depth \in Slots /\ depth \in Nat /\ a \in Nat /\ a < depth /\ a # depth
      /\ a # 0 => a \in Slots
  <2>1. TypeOK
    BY DEF Engine
  <2>2. depth \in Slots
    BY <2>1 DEF TypeOK
  <2>. QED
    BY <2>2
<1>2. None \notin ViewIds /\ \A k \in Keys : LeftOf(0, k) # None
  BY KeysApart, ReducersAssumption DEF None, ViewIds, LeftOf
<1>3. /\ tables'[depth] = NullTable /\ \A k \in Keys : NullTable.view[k] = None
      /\ \A i \in Slots \ {a, depth} : tables'[i] = tables[i]
  BY DEF ReducedInto, NullTable
<1>4. a # 0 => \A k \in Keys : tables'[a].view[k] = IF tables[a].view[k] # None
                                                    THEN tables[a].view[k]
                                                    ELSE tables[depth].view[k]
  BY DEF ReducedInto, LeftOf
<1>5. views'.alloc = views.alloc \ {tables[depth].view[k] : k \in BothHold(a)}
  BY DEF ReducedInto
<1>6. /\ \A i \in Slots, k \in Keys :
            tables[i].view[k] \in ViewIds => tables[i].view[k] \in views.alloc
      /\ \A w \in views.alloc : \E i \in Slots, k \in Keys : tables[i].view[k] = w
      /\ \A i, j \in Slots, k, l \in Keys :
            tables[i].view[k] \in ViewIds /\ tables[i].view[k] = tables[j].view[l]
              => i = j /\ k = l
      /\ views.alloc \subseteq ViewIds
  BY DEF ViewsOK, ViewsHeld, ViewsTyped
<1>7. ASSUME NEW i \in Slots, NEW k \in Keys, tables'[i].view[k] \in ViewIds
      PROVE  /\ i # depth
             /\ \/ tables[i].view[k] = tables'[i].view[k]
                \/ /\ tables[depth].view[k] = tables'[i].view[k]
                   /\ i = a /\ LeftOf(a, k) = None
  <2>1. i # depth
    BY <1>2, <1>3, <1>7
  <2>2. CASE i = a
    BY <1>1, <1>4, <2>1, <2>2 DEF LeftOf
  <2>3. CASE i # a
    BY <1>3, <2>1, <2>3
  <2>. QED
    BY <2>1, <2>2, <2>3
<1>8. ASSUME NEW i \in Slots, NEW k \in Keys, tables'[i].view[k] \in ViewIds
      PROVE  tables'[i].view[k] \in views'.alloc
  <2>. PICK w : w = tables'[i].view[k]
    OBVIOUS
  <2>1. w \in ViewIds /\ i # depth
    BY <1>7, <1>8
  <2>2. CASE tables[i].view[k] = w
    <3>1. w \in views.alloc
      BY <1>6, <2>1, <2>2
    <3>2. \A j \in Keys : tables[depth].view[j] # w
      BY <1>1, <1>6, <2>1, <2>2
    <3>. QED
      BY <1>5, <3>1, <3>2 DEF BothHold
  <2>3. CASE tables[depth].view[k] = w /\ LeftOf(a, k) = None
    <3>1. w \in views.alloc
      BY <1>1, <1>6, <2>1, <2>3
    <3>2. \A j \in BothHold(a) : tables[depth].view[j] # w
      BY <1>1, <1>6, <2>1, <2>3 DEF BothHold
    <3>. QED
      BY <1>5, <3>1, <3>2
  <2>. QED
    BY <1>7, <1>8, <2>2, <2>3
<1>9. ASSUME NEW w \in views'.alloc PROVE \E i \in Slots, k \in Keys : tables'[i].view[k] = w
  <2>1. w \in views.alloc /\ w \in ViewIds /\ w # None
        /\ \A k \in BothHold(a) : tables[depth].view[k] # w
    BY <1>2, <1>5, <1>6
  <2>2. PICK i \in Slots, k \in Keys : tables[i].view[k] = w
    BY <1>6, <2>1
  <2>3. CASE i = depth
    <3>1. LeftOf(a, k) = None
      BY <2>1, <2>2, <2>3 DEF BothHold
    <3>2. a # 0 /\ a \in Slots /\ tables[a].view[k] = None
      BY <1>1, <1>2, <3>1 DEF LeftOf
    <3>3. tables'[a].view[k] = w
      BY <1>4, <2>2, <2>3, <3>2
    <3>. QED
      BY <3>2, <3>3
  <2>4. CASE i # depth
    <3>1. CASE i = a
      <4>1. a # 0
        BY <3>1
      <4>2. tables'[i].view[k] = w
        BY <1>4, <2>1, <2>2, <3>1, <4>1
      <4>. QED
        BY <4>2
    <3>2. CASE i # a
      <4>1. tables'[i] = tables[i]
        BY <1>3, <2>4, <3>2
      <4>. QED
        BY <2>2, <4>1
    <3>. QED
      BY <3>1, <3>2
  <2>. QED
    BY <2>3, <2>4
<1>10. ASSUME NEW i \in Slots, NEW j \in Slots, NEW k \in Keys, NEW l \in Keys,
              tables'[i].view[k] \in ViewIds, tables'[i].view[k] = tables'[j].view[l]
       PROVE  i = j /\ k = l
  <2>. PICK w : w = tables'[i].view[k]
    OBVIOUS
  <2>1. /\ w \in ViewIds /\ i # depth /\ j # depth
        /\ tables[i].view[k] = w \/ (tables[depth].view[k] = w /\ i = a)
        /\ tables[j].view[l] = w \/ (tables[depth].view[l] = w /\ j = a)
    BY <1>7, <1>10
  <2>. QED
    BY <1>1, <1>6, <2>1
<1>. QED
  BY <1>8, <1>9, <1>10 DEF ViewsHeld

\* A step that reduces keeps the views in order.
LEMMA ViewsReduce ==
    ASSUME Engine, Declared, ViewsOK, ReducingStep
    PROVE  ViewsOK'
<1>1. CASE ~tables[depth].made /\ UNCHANGED <<tables, views>>
  <2>1. /\ depth' = depth /\ UNCHANGED <<owner, updates>>
        /\ \A i \in Slots : i # depth => frames'[i] = frames[i]
        /\ \A k \in Keys : KeepsPlace(k)
    BY ReducingKeeps
  <2>2. ASSUME NEW i \in Slots, tables[i].made
        PROVE  i \in 1..depth' /\ frames'[i].InContin # {}
    <3>1. i # depth /\ i \in 1..depth /\ frames[i].InContin # {}
      BY <1>1, <2>2 DEF ViewsOK, TablesInContin
    <3>. QED
      BY <2>1, <3>1
  <2>3. UNCHANGED hyper
    BY <1>1, <2>1 DEF hyper
  <2>. QED
    BY <2>1, <2>2, <2>3, ViewsSame
<1>2. CASE \E a \in 0..(depth - 1) : ReducedInto(a) /\ ViewsTyped'
  <2>1. PICK a \in 0..(depth - 1) : ReducedInto(a) /\ ViewsTyped'
    BY <1>2
  <2>2. TablesInContin' /\ ViewsPlaced'
    BY <2>1, ReducedPlaces
  <2>3. ViewsHeld'
    BY <2>1, ReducedHeld
  <2>. QED
    BY <2>1, <2>2, <2>3 DEF ViewsOK
<1>. QED
  BY <1>1, <1>2, ReduceKinds

-----------------------------------------------------------------------------
(***************************************************************************)
(* The hooks on reducers.                                                  *)
(***************************************************************************)
\* A strand that could have been stolen uses the table of the nearest frame in
\* a continuation, itself included.
LEMMA StealableSlot ==
    ASSUME Engine
    PROVE  /\ stealable => /\ ViewSlot \in 1..depth /\ ViewSlot \in Slots
                           /\ frames[ViewSlot].InContin # {}
                           /\ \A i \in (ViewSlot + 1)..depth : frames[i].InContin = {}
           /\ ~stealable => \A i \in 1..depth : frames[i].InContin = {}
<1>1. depth \in 1..MaxDepth /\ depth \in Nat /\ head = frames[depth]
  <2>1. TypeOK
    BY DEF Engine
  <2>2. depth \in Slots
    BY <2>1 DEF TypeOK
  <2>. QED
    BY <2>2 DEF head
<1>. PICK c : c = head.ParentContin
  OBVIOUS
<1>2. /\ c \in Nat
      /\ c > 0 => depth - c \in 1..(depth - 1) /\ frames[depth - c].InContin # {}
      /\ \A i \in (depth - c + 1)..(depth - 1) : frames[i].InContin = {}
      /\ c = 0 => \A i \in 1..(depth - 1) : frames[i].InContin = {}
  BY NearestContin
<1>3. CASE in_continuation
  <2>1. ViewSlot = depth /\ stealable /\ frames[depth].InContin # {}
    BY <1>1, <1>3 DEF ViewSlot, stealable, in_continuation
  <2>. QED
    BY <1>1, <2>1
<1>4. CASE ~in_continuation /\ c > 0
  <2>1. ViewSlot = depth - c /\ stealable /\ frames[depth].InContin = {}
    BY <1>1, <1>4 DEF ViewSlot, stealable, in_continuation
  <2>2. depth - c \in 1..depth /\ depth - c \in Slots
    BY <1>1, <1>2, <1>4
  <2>3. ASSUME NEW i \in (depth - c + 1)..depth PROVE frames[i].InContin = {}
    <3>1. i = depth \/ i \in (depth - c + 1)..(depth - 1)
      BY <1>1, <1>2
    <3>. QED
      BY <1>2, <2>1, <3>1
  <2>. QED
    BY <1>2, <1>4, <2>1, <2>2, <2>3
<1>5. CASE ~in_continuation /\ c = 0
  <2>1. ~stealable /\ frames[depth].InContin = {}
    BY <1>1, <1>5 DEF stealable, in_continuation
  <2>2. \A i \in 1..depth : i = depth \/ i \in 1..(depth - 1)
    BY <1>1
  <2>. QED
    BY <1>2, <1>5, <2>1, <2>2
<1>. QED
  BY <1>2, <1>3, <1>4, <1>5

\* X is the tables with one entry set.
IsSet(X, s, k, v) ==
    /\ X \in [Slots -> [made : BOOLEAN, view : [Keys -> {None} \cup Keys \cup ViewIds]]]
    /\ \A i \in Slots : X[i].made \/ X[i] = NullTable
    /\ X[s].view[k] = v
    /\ \A i \in Slots, j \in Keys : i # s \/ j # k => X[i].view[j] = tables[i].view[j]
    /\ \A i \in Slots : X[i].made => tables[i].made \/ i = s

\* The ways the code sets one.
WithEntry(s, k, v) ==
    [tables EXCEPT ![s] = [get_or_create(tables[s]) EXCEPT !.view[k] = v]]
WithoutEntry(s, k) == [tables EXCEPT ![s].view[k] = None]

\* An entry is set in a table that is made if there was none.
LEMMA EntrySet ==
    ASSUME ViewsTyped, NEW s \in Slots, NEW k \in Keys, NEW v \in {None, k} \cup ViewIds
    PROVE  IsSet(WithEntry(s, k, v), s, k, v)
<1>1. /\ tables \in [Slots -> [made : BOOLEAN, view : [Keys -> {None} \cup Keys \cup ViewIds]]]
      /\ tables[s] \in [made : BOOLEAN, view : [Keys -> {None} \cup Keys \cup ViewIds]]
      /\ \A i \in Slots : tables[i].made \/ tables[i] = NullTable
  BY DEF ViewsTyped
<1>2. PICK G : G = get_or_create(tables[s])
  OBVIOUS
<1>3. /\ G \in [made : BOOLEAN, view : [Keys -> {None} \cup Keys \cup ViewIds]] /\ G.made
      /\ \A j \in Keys : G.view[j] = tables[s].view[j]
  <2>1. CASE tables[s].made
    BY <1>1, <1>2, <2>1 DEF get_or_create
  <2>2. CASE ~tables[s].made
    <3>1. G = NewTable /\ tables[s] = NullTable
      BY <1>1, <1>2, <2>2 DEF get_or_create
    <3>. QED
      BY <3>1 DEF NewTable, NullTable
  <2>. QED
    BY <2>1, <2>2
<1>4. PICK N : N = [G EXCEPT !.view[k] = v]
  OBVIOUS
<1>5. /\ N \in [made : BOOLEAN, view : [Keys -> {None} \cup Keys \cup ViewIds]] /\ N.made
      /\ N.view[k] = v /\ \A j \in Keys : j # k => N.view[j] = G.view[j]
  BY <1>3, <1>4
<1>6. PICK X : X = [tables EXCEPT ![s] = N]
  OBVIOUS
<1>7. X = WithEntry(s, k, v)
  BY <1>2, <1>4, <1>6 DEF WithEntry
<1>8. /\ X \in [Slots -> [made : BOOLEAN, view : [Keys -> {None} \cup Keys \cup ViewIds]]]
      /\ X[s] = N /\ \A i \in Slots : i # s => X[i] = tables[i]
  BY <1>1, <1>5, <1>6
<1>. QED
  <2>1. IsSet(X, s, k, v)
    BY <1>1, <1>3, <1>5, <1>8 DEF IsSet
  <2>. QED
    BY <1>7, <2>1

\* An entry is taken out.
LEMMA EntryCleared ==
    ASSUME ViewsTyped, NEW s \in Slots, NEW k \in Keys
    PROVE  IsSet(WithoutEntry(s, k), s, k, None)
<1>1. /\ tables \in [Slots -> [made : BOOLEAN, view : [Keys -> {None} \cup Keys \cup ViewIds]]]
      /\ tables[s] \in [made : BOOLEAN, view : [Keys -> {None} \cup Keys \cup ViewIds]]
      /\ \A i \in Slots : tables[i].made \/ tables[i] = NullTable
  BY DEF ViewsTyped
<1>2. PICK N : N = [tables[s] EXCEPT !.view[k] = None]
  OBVIOUS
<1>3. /\ N \in [made : BOOLEAN, view : [Keys -> {None} \cup Keys \cup ViewIds]]
      /\ N.made = tables[s].made
      /\ N.view[k] = None /\ \A j \in Keys : j # k => N.view[j] = tables[s].view[j]
  BY <1>1, <1>2
<1>4. ~tables[s].made => N = NullTable
  <2>. SUFFICES ASSUME ~tables[s].made PROVE N = NullTable
    OBVIOUS
  <2>1. \A j \in Keys : tables[s].view[j] = None
    BY NotMade
  <2>2. N.made = FALSE /\ N.view = [j \in Keys |-> None]
    BY <1>1, <1>3, <2>1
  <2>3. N = [made |-> N.made, view |-> N.view]
    BY <1>3
  <2>. QED
    BY <2>2, <2>3 DEF NullTable
<1>5. PICK X : X = [tables EXCEPT ![s] = N]
  OBVIOUS
<1>6. X = WithoutEntry(s, k)
  BY <1>2, <1>5 DEF WithoutEntry
<1>7. /\ X \in [Slots -> [made : BOOLEAN, view : [Keys -> {None} \cup Keys \cup ViewIds]]]
      /\ X[s] = N /\ \A i \in Slots : i # s => X[i] = tables[i]
  BY <1>1, <1>3, <1>5
<1>. QED
  <2>1. IsSet(X, s, k, None)
    BY <1>1, <1>3, <1>4, <1>7 DEF IsSet
  <2>. QED
    BY <1>6, <2>1

\* What the hooks on reducers leave alone.
LEMMA HyperFacts ==
    ASSUME Engine, Declared, NEW k \in Keys, Hyper(k)
    PROVE  /\ UNCHANGED <<depth, frames, pc>> /\ pc = "body"
           /\ depth \in Slots /\ depth \in Nat /\ head = frames[depth] /\ head \in FrameData
           /\ frame_id \in Frames
           /\ owner \in [Keys -> [slot : 0..MaxDepth, since : Frames]]
<1>1. TypeOK
  BY DEF Engine
<1>2. depth \in Slots /\ depth \in Nat /\ frame_id \in Frames
  BY <1>1 DEF TypeOK
<1>3. UNCHANGED <<depth, frames, pc>> /\ pc = "body"
  BY DEF Hyper, register, unregister, hyper_lookup, SameEngine
<1>4. owner \in [Keys -> [slot : 0..MaxDepth, since : Frames]]
  BY DEF Declared, OwnersOK
<1>. QED
  BY <1>1, <1>2, <1>3, <1>4, HeadType DEF head

\* Setting an entry of reducer k does not move the entries of the others.
LEMMA OthersPlaced ==
    ASSUME ViewsOK, NEW k \in Keys, NEW s \in Slots, NEW v, IsSet(tables', s, k, v),
           UNCHANGED <<depth, frames>>, NEW j \in Keys, j # k, owner'[j] = owner[j]
    PROVE  /\ \A i \in Slots : PlacedAt(j, i)'
           /\ (Owned(j) /\ Loop \in frames[Decl(j)].InContin)' => ~LoopBodySpawns
<1>1. /\ Owned(j)' <=> Owned(j)
      /\ Decl(j)' = Decl(j) /\ RegisteredAt(j)' = RegisteredAt(j)
  BY DEF Owned, Decl, RegisteredAt
<1>2. \A i \in Slots : tables'[i].view[j] = tables[i].view[j]
  BY DEF IsSet
<1>3. \A i \in Slots : PlacedAt(j, i)
  BY DEF ViewsOK, ViewsPlaced
<1>4. Owned(j) /\ Loop \in frames[Decl(j)].InContin => ~LoopBodySpawns
  BY DEF ViewsOK, ViewsPlaced
<1>. QED
  BY <1>1, <1>2, <1>3, <1>4 DEF PlacedAt

\* Setting an entry that holds no allocated view to one that is none either.
LEMMA SameEntries ==
    ASSUME ViewsOK, views'.alloc = views.alloc,
           \A i \in Slots, j \in Keys, w \in ViewIds :
              tables'[i].view[j] = w <=> tables[i].view[j] = w
    PROVE  ViewsHeld'
<1>1. ViewsHeld /\ views.alloc \subseteq ViewIds
  BY DEF ViewsOK, ViewsTyped
<1>2. \A i \in Slots, k \in Keys :
         tables'[i].view[k] \in ViewIds => tables'[i].view[k] \in views.alloc
  BY <1>1 DEF ViewsHeld
<1>3. ASSUME NEW w \in views.alloc PROVE \E i \in Slots, k \in Keys : tables'[i].view[k] = w
  <2>1. PICK i \in Slots, k \in Keys : tables[i].view[k] = w
    BY <1>1 DEF ViewsHeld
  <2>. QED
    BY <1>1, <2>1
<1>4. ASSUME NEW i \in Slots, NEW j \in Slots, NEW k \in Keys, NEW l \in Keys,
             tables'[i].view[k] \in ViewIds, tables'[i].view[k] = tables'[j].view[l]
      PROVE  i = j /\ k = l
  <2>. PICK w \in ViewIds : w = tables'[i].view[k]
    BY <1>4
  <2>1. tables[i].view[k] = w /\ tables[j].view[l] = w
    BY <1>4
  <2>. QED
    BY <1>1, <2>1 DEF ViewsHeld
<1>. QED
  BY <1>2, <1>3, <1>4 DEF ViewsHeld

\* A reducer is registered.
LEMMA ViewsRegister ==
    ASSUME Engine, Declared, ViewsOK, ~RegisterInContinuation, NEW k \in Keys, register(k)
    PROVE  ViewsOK'
<1>. Hyper(k)
  BY DEF Hyper
<1>1. /\ UNCHANGED <<depth, frames>>
      /\ depth \in Slots /\ depth \in Nat /\ head = frames[depth] /\ head \in FrameData
      /\ frame_id \in Frames
      /\ owner \in [Keys -> [slot : 0..MaxDepth, since : Frames]]
  BY HyperFacts
<1>2. /\ owner[k] = NoOwner /\ MayRegister
      /\ owner' = [owner EXCEPT ![k] = [slot |-> depth, since |-> frame_id]]
      /\ updates' = [updates EXCEPT ![k] = 0]
      /\ views' = [views EXCEPT !.value[k] = <<>>, !.users[k] = {}]
  BY DEF register
<1>3. /\ stealable => tables' = WithEntry(ViewSlot, k, k)
      /\ ~stealable => tables' = tables
  BY DEF register, WithEntry
<1>4. /\ views' \in [alloc : SUBSET ViewIds, value : [Keys \cup ViewIds -> Seq(Nat)],
                     users : [Keys \cup ViewIds -> SUBSET [owner : Frames, iter : 0..MaxIters]]]
      /\ updates' \in [Keys -> 0..MaxUpdates] /\ views'.alloc = views.alloc
  <2>1. <<>> \in Seq(Nat) /\ 0 \in 0..MaxUpdates
    BY ReducersAssumption
  <2>. QED
    BY <1>2, <2>1 DEF ViewsOK, ViewsTyped
<1>5. /\ Owned(k)' /\ Decl(k)' = depth /\ ~Owned(k)
      /\ \A j \in Keys : j # k => owner'[j] = owner[j]
  <2>1. owner'[k] = [slot |-> depth, since |-> frame_id] /\ depth # 0
    BY <1>1, <1>2
  <2>2. \A j \in Keys : j # k => owner'[j] = owner[j]
    BY <1>1, <1>2
  <2>. QED
    BY <1>2, <2>1, <2>2 DEF Owned, Decl, NoOwner
<1>6. \A i \in Slots : tables[i].view[k] = None
  BY <1>5 DEF ViewsOK, ViewsPlaced, PlacedAt
<1>7. head.InContin # {} => Loop \in head.InContin /\ ~LoopBodySpawns
  <2>. SUFFICES ASSUME head.InContin # {} PROVE Loop \in head.InContin /\ ~LoopBodySpawns
    OBVIOUS
  <2>1. head.type = "loop" /\ ~LoopBodySpawns
    BY <1>2 DEF MayRegister
  <2>2. depth \in 1..depth
    BY <1>1
  <2>3. head.InContin \subseteq {Loop}
    BY <1>1, <2>1, <2>2 DEF Declared, LoopBits
  <2>. QED
    BY <2>1, <2>3
<1>8. /\ stealable => RegisteredAt(k)' = ViewSlot
      /\ ~stealable => RegisteredAt(k)' = 0
  <2>1. RegisteredAt(k)' = IF Loop \in head.InContin THEN depth
                           ELSE IF head.ParentContin > 0 THEN depth - head.ParentContin ELSE 0
    BY <1>1, <1>5 DEF RegisteredAt
  <2>. QED
    BY <1>7, <2>1 DEF stealable, ViewSlot, in_continuation
<1>9. CASE stealable
  <2>. PICK s : s = ViewSlot
    OBVIOUS
  <2>1. s \in 1..depth /\ s \in Slots /\ frames[s].InContin # {}
    BY <1>9, StealableSlot
  <2>2. IsSet(tables', s, k, k)
    <3>1. k \in {None, k} \cup ViewIds
      OBVIOUS
    <3>. QED
      BY <1>3, <1>9, <2>1, <3>1, EntrySet DEF ViewsOK
  <2>3. ViewsTyped'
    BY <1>4, <2>2 DEF IsSet, ViewsTyped
  <2>4. TablesInContin'
    BY <1>1, <2>1, <2>2 DEF IsSet, TablesInContin, ViewsOK
  <2>5. \A i \in Slots : tables'[i].view[k] = IF i = s THEN k ELSE None
    BY <1>6, <2>2 DEF IsSet
  <2>6. \A i \in Slots : PlacedAt(k, i)'
    <3>1. RegisteredAt(k)' = s
      BY <1>8, <1>9
    <3>. QED
      BY <1>5, <2>5, <3>1, KeysApart DEF PlacedAt
  <2>7. (Owned(k) /\ Loop \in frames[Decl(k)].InContin)' => ~LoopBodySpawns
    BY <1>1, <1>5, <1>7
  <2>8. ViewsPlaced'
    BY <1>1, <1>5, <2>1, <2>2, <2>6, <2>7, OthersPlaced DEF ViewsPlaced
  <2>9. ViewsHeld'
    <3>1. k \notin ViewIds /\ None \notin ViewIds
      BY KeysApart, ReducersAssumption DEF None, ViewIds
    <3>2. \A i \in Slots, j \in Keys : j # k => tables'[i].view[j] = tables[i].view[j]
      BY <2>2 DEF IsSet
    <3>3. \A i \in Slots, j \in Keys, w \in ViewIds :
             tables'[i].view[j] = w <=> tables[i].view[j] = w
      BY <1>6, <2>5, <3>1, <3>2
    <3>. QED
      BY <1>4, <3>3, SameEntries
  <2>. QED
    BY <2>3, <2>4, <2>8, <2>9 DEF ViewsOK
<1>10. CASE ~stealable
  <2>1. tables' = tables
    BY <1>3, <1>10
  <2>2. ViewsTyped'
    BY <1>4, <2>1 DEF ViewsOK, ViewsTyped
  <2>3. TablesInContin'
    BY <1>1, <2>1 DEF ViewsOK, TablesInContin
  <2>4. IsSet(tables', depth, k, None)
    BY <1>1, <1>6, <2>1 DEF IsSet, ViewsOK, ViewsTyped
  <2>5. \A i \in Slots : PlacedAt(k, i)'
    <3>1. RegisteredAt(k)' = 0 /\ 0 \notin Slots
      BY <1>8, <1>10
    <3>. QED
      BY <1>5, <1>6, <2>1, <3>1, KeysApart DEF PlacedAt
  <2>6. (Owned(k) /\ Loop \in frames[Decl(k)].InContin)' => ~LoopBodySpawns
    BY <1>1, <1>5, <1>7
  <2>7. ViewsPlaced'
    BY <1>1, <1>5, <2>4, <2>5, <2>6, OthersPlaced DEF ViewsPlaced
  <2>8. ViewsHeld'
    BY <1>4, <2>1 DEF ViewsOK, ViewsHeld
  <2>. QED
    BY <2>2, <2>3, <2>7, <2>8 DEF ViewsOK
<1>. QED
  BY <1>9, <1>10

\* The tasks of the declaring frame have joined when a reducer dies: the frame
\* is in no continuation but a loop's.
LEMMA AllJoinedHere ==
    ASSUME Engine, Declared, NEW k \in Keys, Owned(k), Decl(k) = depth, AllJoined(k)
    PROVE  frames[depth].InContin \subseteq {Loop}
<1>1. depth \in Slots /\ frames[depth].InContin \subseteq 0..MaxRegs /\ frame_id \in Nat
  <2>1. TypeOK
    BY DEF Engine
  <2>2. depth \in Slots /\ frames \in [Slots -> FrameData] /\ frame_id \in Nat
    BY <2>1 DEF TypeOK
  <2>3. frames[depth] \in FrameData
    BY <2>2
  <2>. QED
    BY <2>2, <2>3 DEF FrameData
<1>2. ASSUME NEW x \in frames[depth].InContin, x # Loop PROVE FALSE
  <2>1. x - 1 \in Regs /\ (x - 1) + 1 = x
    BY <1>1, <1>2
  <2>. PICK q \in Regs : q = x - 1
    BY <2>1
  <2>2. q + 1 \in frames[depth].InContin
    BY <2>1
  <2>3. PICK c \in 1..frame_id : c > owner[k].since /\ Open(c, depth, q)
    BY <2>2 DEF Declared, Opened
  <2>4. /\ tree[c].level = depth + 1 /\ tree[c].type # "spawner" /\ c \notin joined
        /\ c > owner[k].since /\ c \in 1..frame_id
    BY <2>3 DEF Open
  <2>5. owner[k].since \in Nat
    <3>1. owner[k].since \in 0..frame_id
      BY DEF Declared, OwnersOK
    <3>. QED
      BY <1>1, <3>1
  <2>6. c \in (owner[k].since + 1)..frame_id
    BY <1>1, <2>4, <2>5
  <2>. QED
    BY <2>4, <2>6 DEF AllJoined
<1>. QED
  BY <1>2

\* A reducer dies.
LEMMA ViewsUnregister ==
    ASSUME Engine, Declared, ViewsOK, NEW k \in Keys, unregister(k)
    PROVE  ViewsOK'
<1>. Hyper(k)
  BY DEF Hyper
<1>1. /\ UNCHANGED <<depth, frames>>
      /\ depth \in Slots /\ depth \in Nat /\ head = frames[depth] /\ head \in FrameData
      /\ owner \in [Keys -> [slot : 0..MaxDepth, since : Frames]]
  BY HyperFacts
<1>2. /\ Decl(k) = depth /\ AllJoined(k) /\ UNCHANGED <<views, updates>>
      /\ owner' = [owner EXCEPT ![k] = NoOwner]
  BY DEF unregister, Decl
<1>3. /\ stealable => tables' = WithoutEntry(ViewSlot, k)
      /\ ~stealable => tables' = tables
  BY DEF unregister, WithoutEntry
<1>4. /\ Owned(k) /\ ~Owned(k)' /\ \A j \in Keys : j # k => owner'[j] = owner[j]
  <2>1. depth # 0
    BY <1>1
  <2>2. owner'[k] = NoOwner /\ \A j \in Keys : j # k => owner'[j] = owner[j]
    BY <1>1, <1>2
  <2>. QED
    BY <1>2, <2>1, <2>2 DEF Owned, Decl, NoOwner
<1>5. head.InContin \subseteq {Loop}
  BY <1>1, <1>2, <1>4, AllJoinedHere
<1>6. /\ stealable => RegisteredAt(k) = ViewSlot
      /\ ~stealable => RegisteredAt(k) = 0
  <2>1. RegisteredAt(k) = IF Loop \in head.InContin THEN depth
                          ELSE IF head.ParentContin > 0 THEN depth - head.ParentContin ELSE 0
    BY <1>1, <1>2 DEF RegisteredAt
  <2>. QED
    BY <1>5, <2>1 DEF stealable, ViewSlot, in_continuation
<1>7. ASSUME NEW i \in Slots, i # RegisteredAt(k) PROVE tables[i].view[k] = None
  <2>1. CASE i < depth
    BY <1>2, <1>4, <1>7, <2>1 DEF ViewsOK, ViewsPlaced, PlacedAt
  <2>2. CASE ~(i < depth)
    <3>1. ~tables[i].made
      <4>. SUFFICES ASSUME tables[i].made PROVE FALSE
        OBVIOUS
      <4>1. i \in 1..depth /\ frames[i].InContin # {}
        BY DEF ViewsOK, TablesInContin
      <4>2. i = depth
        BY <1>1, <2>2, <4>1
      <4>3. stealable /\ ViewSlot = depth
        BY <1>1, <4>1, <4>2 DEF stealable, ViewSlot, in_continuation
      <4>. QED
        BY <1>6, <1>7, <4>2, <4>3
    <3>. QED
      BY <3>1, NotMade DEF ViewsOK
  <2>. QED
    BY <2>1, <2>2
<1>8. \E s \in Slots : /\ IsSet(tables', s, k, None)
                       /\ RegisteredAt(k) \in Slots => RegisteredAt(k) = s
                       /\ tables' = tables \/ (s \in 1..depth /\ frames[s].InContin # {})
  <2>1. CASE stealable
    <3>. PICK s : s = ViewSlot
      OBVIOUS
    <3>1. s \in Slots /\ s \in 1..depth /\ frames[s].InContin # {}
      BY <2>1, StealableSlot
    <3>2. IsSet(tables', s, k, None)
      BY <1>3, <2>1, <3>1, EntryCleared DEF ViewsOK
    <3>. QED
      BY <1>6, <2>1, <3>1, <3>2
  <2>2. CASE ~stealable
    <3>1. tables' = tables /\ RegisteredAt(k) = 0 /\ 0 \notin Slots
      BY <1>3, <1>6, <2>2
    <3>2. tables[depth].view[k] = None
      BY <1>1, <1>7, <3>1
    <3>3. IsSet(tables', depth, k, None)
      BY <1>1, <3>1, <3>2 DEF IsSet, ViewsOK, ViewsTyped
    <3>. QED
      BY <1>1, <3>1, <3>3
  <2>. QED
    BY <2>1, <2>2
<1>9. PICK s \in Slots : /\ IsSet(tables', s, k, None)
                         /\ RegisteredAt(k) \in Slots => RegisteredAt(k) = s
                         /\ tables' = tables \/ (s \in 1..depth /\ frames[s].InContin # {})
  BY <1>8
<1>10. \A i \in Slots : tables'[i].view[k] = None
  <2>1. ASSUME NEW i \in Slots PROVE tables'[i].view[k] = None
    BY <1>7, <1>9 DEF IsSet
  <2>. QED
    BY <2>1
<1>11. ViewsTyped'
  BY <1>2, <1>9 DEF IsSet, ViewsTyped, ViewsOK
<1>12. TablesInContin'
  BY <1>1, <1>9 DEF IsSet, TablesInContin, ViewsOK
<1>13. ViewsPlaced'
  <2>1. \A i \in Slots : PlacedAt(k, i)'
    BY <1>4, <1>10 DEF PlacedAt
  <2>. QED
    BY <1>1, <1>4, <1>9, <2>1, OthersPlaced DEF ViewsPlaced
<1>14. ViewsHeld'
  <2>1. k \notin ViewIds /\ None \notin ViewIds
    BY KeysApart, ReducersAssumption DEF None, ViewIds
  <2>2. \A i \in Slots : tables[i].view[k] \notin ViewIds
    <3>. SUFFICES ASSUME NEW i \in Slots PROVE tables[i].view[k] \notin ViewIds
      OBVIOUS
    <3>1. CASE i = RegisteredAt(k)
      <4>1. tables[i].view[k] = k
        BY <1>4, <3>1 DEF ViewsOK, ViewsPlaced, PlacedAt
      <4>. QED
        BY <2>1, <4>1
    <3>2. CASE i # RegisteredAt(k)
      BY <1>7, <2>1, <3>2
    <3>. QED
      BY <3>1, <3>2
  <2>3. \A i \in Slots, j \in Keys : j # k => tables'[i].view[j] = tables[i].view[j]
    BY <1>9 DEF IsSet
  <2>4. \A i \in Slots, j \in Keys, w \in ViewIds :
           tables'[i].view[j] = w <=> tables[i].view[j] = w
    BY <1>10, <2>1, <2>2, <2>3
  <2>. QED
    BY <1>2, <2>4, SameEntries
<1>. QED
  BY <1>11, <1>12, <1>13, <1>14 DEF ViewsOK

\* The views after an update through view w.
LEMMA UpdateFacts ==
    ASSUME Engine, ViewsTyped, NEW k \in Keys, NEW w \in Keys \cup ViewIds, NEW vs,
           vs \in [alloc : SUBSET ViewIds, value : [Keys \cup ViewIds -> Seq(Nat)],
                   users : [Keys \cup ViewIds -> SUBSET [owner : Frames, iter : 0..MaxIters]]],
           updates[k] < MaxUpdates, Update(k, w, vs)
    PROVE  /\ views' \in [alloc : SUBSET ViewIds, value : [Keys \cup ViewIds -> Seq(Nat)],
                           users : [Keys \cup ViewIds
                                       -> SUBSET [owner : Frames, iter : 0..MaxIters]]]
           /\ updates' \in [Keys -> 0..MaxUpdates] /\ updates'[k] = updates[k] + 1
           /\ \A j \in Keys : j # k => updates'[j] = updates[j]
           /\ views'.alloc = vs.alloc
           /\ views'.value[w] = Append(vs.value[w], updates[k] + 1)
           /\ \A x \in Keys \cup ViewIds : x # w => views'.value[x] = vs.value[x]
<1>1. head.fid \in Frames /\ head.iter \in 0..MaxIters
  <2>1. TypeOK
    BY DEF Engine
  <2>2. head \in FrameData
    BY <2>1, HeadType
  <2>. QED
    BY <2>2 DEF FrameData
<1>2. updates \in [Keys -> 0..MaxUpdates] /\ MaxUpdates \in Nat
  BY ReducersAssumption DEF ViewsTyped
<1>3. updates' = [updates EXCEPT ![k] = @ + 1]
  BY DEF Update
<1>4. updates[k] \in Nat /\ updates[k] + 1 \in 0..MaxUpdates /\ updates[k] + 1 \in Nat
  BY <1>2
<1>5. /\ updates' \in [Keys -> 0..MaxUpdates] /\ updates'[k] = updates[k] + 1
      /\ \A j \in Keys : j # k => updates'[j] = updates[j]
  BY <1>2, <1>3, <1>4
<1>. PICK u : u = [owner |-> head.fid, iter |-> head.iter]
  OBVIOUS
<1>6. u \in [owner : Frames, iter : 0..MaxIters]
  BY <1>1
<1>. PICK n : n = updates[k] + 1
  OBVIOUS
<1>7. views' = [vs EXCEPT !.value[w] = Append(@, n), !.users[w] = @ \cup {u}]
  BY DEF Update
<1>8. PICK s : s = Append(vs.value[w], n)
  OBVIOUS
<1>9. s \in Seq(Nat)
  <2>1. vs.value[w] \in Seq(Nat) /\ n \in Nat
    BY <1>4
  <2>. QED
    BY <1>8, <2>1
<1>10. views' = [vs EXCEPT !.value[w] = s, !.users[w] = @ \cup {u}]
  BY <1>7, <1>8
<1>11. /\ views' \in [alloc : SUBSET ViewIds, value : [Keys \cup ViewIds -> Seq(Nat)],
                       users : [Keys \cup ViewIds
                                   -> SUBSET [owner : Frames, iter : 0..MaxIters]]]
       /\ views'.alloc = vs.alloc /\ views'.value[w] = s
       /\ \A x \in Keys \cup ViewIds : x # w => views'.value[x] = vs.value[x]
  BY <1>6, <1>9, <1>10
<1>. QED
  BY <1>5, <1>8, <1>11

\* The least of some numbers is one of them.
LEMMA MinIsMember == \A S \in SUBSET Nat : S # {} => Min(S) \in S
<1>. SUFFICES ASSUME NEW S \in SUBSET Nat, S # {} PROVE Min(S) \in S
  OBVIOUS
<1>1. \E m \in S : \A k \in S : m <= k
  BY LeastNatural
<1>. QED
  BY <1>1 DEF Min

\* The views with a new one, w.
WithView(w) ==
    [views EXCEPT !.alloc = @ \cup {w}, !.value[w] = <<>>, !.users[w] = {}]

\* What a look-up does where no continuation is open.
LooksUpLeftmost(k) ==
    /\ ~stealable /\ UNCHANGED tables /\ Update(k, k, views)

\* Where the table has a view.
LooksUpView(k, s, w) ==
    /\ tables[s].view[k] = w /\ w # None /\ UNCHANGED tables /\ Update(k, w, views)

\* Where it has none.
MakesView(k, s, w) ==
    /\ tables[s].view[k] = None /\ w \in ViewIds \ views.alloc
    /\ s # RegisteredAt(k) /\ Decl(k) <= s
    /\ tables' = WithEntry(s, k, w) /\ Update(k, w, WithView(w))

\* A look-up is one of these.
LEMMA LookupKinds ==
    ASSUME Engine, Declared, ViewsOK, NEW k \in Keys, hyper_lookup(k)
    PROVE  /\ Owned(k) /\ updates[k] < MaxUpdates
           /\ \/ LooksUpLeftmost(k)
              \/ /\ stealable
                 /\ \E w \in ViewIds \cup {k} :
                       LooksUpView(k, ViewSlot, w) \/ MakesView(k, ViewSlot, w)
<1>1. Owned(k) /\ updates[k] < MaxUpdates
  BY DEF hyper_lookup, Owned
<1>2. stealable => is_execution_parallel
  BY StealableSlot DEF is_execution_parallel
<1>3. CASE ~stealable
  BY <1>1, <1>3 DEF hyper_lookup, LooksUpLeftmost
<1>4. CASE stealable
  <2>. PICK s : s = ViewSlot
    OBVIOUS
  <2>1. /\ s \in 1..depth /\ s \in Slots /\ frames[s].InContin # {}
        /\ \A i \in (s + 1)..depth : frames[i].InContin = {}
    BY <1>4, StealableSlot
  <2>. PICK T : T = get_or_create(tables[s])
    OBVIOUS
  <2>2. T.view[k] = tables[s].view[k]
    <3>1. CASE tables[s].made
      BY <3>1 DEF get_or_create
    <3>2. CASE ~tables[s].made
      <4>1. tables[s].view[k] = None
        BY <2>1, <3>2, NotMade DEF ViewsOK
      <4>2. T = NewTable
        BY <3>2 DEF get_or_create
      <4>3. T.view[k] = None
        BY <4>2 DEF NewTable, NullTable
      <4>. QED
        BY <4>1, <4>3
    <3>. QED
      BY <3>1, <3>2
  <2>3. tables[s].view[k] \in {None, k} \cup ViewIds
    BY <2>1 DEF ViewsOK, ViewsPlaced, PlacedAt
  <2>4. \/ T.view[k] # None /\ Update(k, T.view[k], views) /\ UNCHANGED tables
        \/ /\ T.view[k] = None /\ ViewIds \ views.alloc # {}
           /\ Update(k, Min(ViewIds \ views.alloc), WithView(Min(ViewIds \ views.alloc)))
           /\ tables' = WithEntry(s, k, Min(ViewIds \ views.alloc))
    BY <1>2, <1>4 DEF hyper_lookup, WithView, WithEntry
  <2>5. CASE T.view[k] # None /\ Update(k, T.view[k], views) /\ UNCHANGED tables
    <3>. PICK w : w = tables[s].view[k]
      OBVIOUS
    <3>1. w \in ViewIds \cup {k} /\ LooksUpView(k, s, w)
      BY <2>2, <2>3, <2>5 DEF LooksUpView
    <3>. QED
      BY <1>1, <1>4, <3>1
  <2>6. CASE /\ T.view[k] = None /\ ViewIds \ views.alloc # {}
             /\ Update(k, Min(ViewIds \ views.alloc), WithView(Min(ViewIds \ views.alloc)))
             /\ tables' = WithEntry(s, k, Min(ViewIds \ views.alloc))
    <3>. PICK w : w = Min(ViewIds \ views.alloc)
      OBVIOUS
    <3>1. w \in ViewIds \ views.alloc
      <4>1. ViewIds \ views.alloc \in SUBSET Nat
        BY ReducersAssumption DEF ViewIds
      <4>. QED
        BY <2>6, <4>1, MinIsMember
    <3>2. s # RegisteredAt(k)
      <4>1. PlacedAt(k, s)
        BY <2>1 DEF ViewsOK, ViewsPlaced
      <4>. QED
        BY <1>1, <2>2, <2>6, <4>1, KeysApart DEF PlacedAt
    <3>3. Decl(k) <= s
      <4>1. Decl(k) \in 1..depth /\ depth \in Nat
        <5>1. TypeOK
          BY DEF Engine
        <5>2. depth \in Nat
          BY <5>1 DEF TypeOK
        <5>3. Decl(k) \in 1..depth
          BY <1>1 DEF Declared, OwnersOK
        <5>. QED
          BY <5>2, <5>3
      <4>. SUFFICES ASSUME s < Decl(k) PROVE FALSE
        BY <2>1, <4>1
      <4>2. s \in 0..(Decl(k) - 1) /\ Decl(k) \in (s + 1)..depth
        BY <2>1, <4>1
      <4>3. \A i \in (s + 1)..(Decl(k) - 1) : i \in (s + 1)..depth
        BY <2>1, <4>1
      <4>4. RegisteredAt(k) = s
        BY <1>1, <2>1, <4>2, <4>3, RegisteredNearest
      <4>. QED
        BY <3>2, <4>4
    <3>4. MakesView(k, s, w)
      BY <2>2, <2>6, <3>1, <3>2, <3>3 DEF MakesView
    <3>. QED
      BY <1>1, <1>4, <3>1, <3>4
  <2>. QED
    BY <2>4, <2>5, <2>6
<1>. QED
  BY <1>3, <1>4

\* A new view is in no table.
LEMMA ViewAdded ==
    ASSUME ViewsTyped, NEW w \in ViewIds
    PROVE  /\ WithView(w) \in [alloc : SUBSET ViewIds, value : [Keys \cup ViewIds -> Seq(Nat)],
                               users : [Keys \cup ViewIds
                                           -> SUBSET [owner : Frames, iter : 0..MaxIters]]]
           /\ WithView(w).alloc = views.alloc \cup {w}
           /\ WithView(w).value[w] = <<>>
           /\ \A x \in Keys \cup ViewIds : x # w => WithView(w).value[x] = views.value[x]
<1>1. <<>> \in Seq(Nat)
  OBVIOUS
<1>. QED
  BY <1>1 DEF ViewsTyped, WithView

\* A reducer is looked up.
LEMMA ViewsLookup ==
    ASSUME Engine, Declared, ViewsOK, NEW k \in Keys, hyper_lookup(k)
    PROVE  ViewsOK'
<1>. Hyper(k)
  BY DEF Hyper
<1>1. UNCHANGED <<depth, frames>> /\ UNCHANGED owner
  BY HyperFacts DEF hyper_lookup
<1>2. Owned(k) /\ updates[k] < MaxUpdates
  BY LookupKinds
<1>3. \A j \in Keys : KeepsPlace(j)
  BY <1>1 DEF KeepsPlace, RegisteredAt, Decl
<1>4. ASSUME NEW w \in Keys \cup ViewIds, Update(k, w, views), UNCHANGED tables
      PROVE  ViewsOK'
  <2>1. views \in [alloc : SUBSET ViewIds, value : [Keys \cup ViewIds -> Seq(Nat)],
                   users : [Keys \cup ViewIds -> SUBSET [owner : Frames, iter : 0..MaxIters]]]
    BY DEF ViewsOK, ViewsTyped
  <2>. PICK vs : vs = views
    OBVIOUS
  <2>2. /\ views' \in [alloc : SUBSET ViewIds, value : [Keys \cup ViewIds -> Seq(Nat)],
                       users : [Keys \cup ViewIds
                                   -> SUBSET [owner : Frames, iter : 0..MaxIters]]]
        /\ updates' \in [Keys -> 0..MaxUpdates] /\ views'.alloc = views.alloc
    BY <1>2, <1>4, <2>1, UpdateFacts DEF ViewsOK
  <2>3. ViewsTyped'
    BY <1>4, <2>2 DEF ViewsOK, ViewsTyped
  <2>4. TablesInContin'
    BY <1>1, <1>4 DEF ViewsOK, TablesInContin
  <2>5. ViewsPlaced'
    BY <1>1, <1>4 DEF ViewsOK, ViewsPlaced, PlacedAt, Owned, Decl, RegisteredAt
  <2>6. ViewsHeld'
    BY <1>4, <2>2, SameEntries
  <2>. QED
    BY <2>3, <2>4, <2>5, <2>6 DEF ViewsOK
<1>5. ASSUME stealable, NEW w \in ViewIds \cup {k}, MakesView(k, ViewSlot, w)
      PROVE  ViewsOK'
  <2>. PICK s : s = ViewSlot
    OBVIOUS
  <2>1. s \in 1..depth /\ s \in Slots /\ frames[s].InContin # {}
    BY <1>5, StealableSlot
  <2>2. /\ tables[s].view[k] = None /\ w \in ViewIds \ views.alloc
        /\ s # RegisteredAt(k) /\ Decl(k) <= s
        /\ tables' = WithEntry(s, k, w) /\ Update(k, w, WithView(w))
    BY <1>5 DEF MakesView
  <2>3. ViewsTyped
    BY DEF ViewsOK
  <2>4. /\ WithView(w) \in [alloc : SUBSET ViewIds, value : [Keys \cup ViewIds -> Seq(Nat)],
                            users : [Keys \cup ViewIds
                                        -> SUBSET [owner : Frames, iter : 0..MaxIters]]]
        /\ WithView(w).alloc = views.alloc \cup {w}
    BY <2>2, <2>3, ViewAdded
  <2>5. /\ views' \in [alloc : SUBSET ViewIds, value : [Keys \cup ViewIds -> Seq(Nat)],
                       users : [Keys \cup ViewIds
                                   -> SUBSET [owner : Frames, iter : 0..MaxIters]]]
        /\ updates' \in [Keys -> 0..MaxUpdates] /\ views'.alloc = views.alloc \cup {w}
    <3>1. w \in Keys \cup ViewIds
      BY <2>2
    <3>. QED
      BY <1>2, <2>2, <2>3, <2>4, <3>1, UpdateFacts
  <2>6. IsSet(tables', s, k, w)
    BY <2>1, <2>2, <2>3, EntrySet
  <2>7. ViewsTyped'
    BY <2>5, <2>6 DEF IsSet, ViewsTyped
  <2>8. TablesInContin'
    BY <1>1, <2>1, <2>6 DEF IsSet, TablesInContin, ViewsOK
  <2>9. \A i \in Slots : tables'[i].view[k] = IF i = s THEN w ELSE tables[i].view[k]
    BY <2>6 DEF IsSet
  <2>10. ViewsPlaced'
    <3>1. Owned(k)' /\ Decl(k)' = Decl(k) /\ RegisteredAt(k)' = RegisteredAt(k)
      BY <1>1, <1>2 DEF Owned, Decl, RegisteredAt
    <3>2. ASSUME NEW i \in Slots PROVE PlacedAt(k, i)'
      <4>1. PlacedAt(k, i)
        BY DEF ViewsOK, ViewsPlaced
      <4>2. CASE i = s
        <5>1. w \in ViewIds /\ w # k
          BY <2>2, KeysApart
        <5>2. tables'[i].view[k] = w
          BY <2>9, <4>2
        <5>3. Decl(k) \in Nat /\ s \in Nat
          <6>1. Decl(k) \in 1..depth
            BY <1>2 DEF Declared, OwnersOK
          <6>. QED
            BY <2>1, <6>1
        <5>4. ~(i < Decl(k)) /\ i # RegisteredAt(k)
          BY <2>2, <4>2, <5>3
        <5>. QED
          BY <3>1, <5>1, <5>2, <5>4 DEF PlacedAt
      <4>3. CASE i # s
        BY <1>2, <2>9, <3>1, <4>1, <4>3 DEF PlacedAt
      <4>. QED
        BY <4>2, <4>3
    <3>3. (Owned(k) /\ Loop \in frames[Decl(k)].InContin)' => ~LoopBodySpawns
      BY <1>1, <1>2, <3>1 DEF ViewsOK, ViewsPlaced
    <3>. QED
      BY <1>1, <2>1, <2>6, <3>2, <3>3, OthersPlaced DEF ViewsPlaced
  <2>11. ViewsHeld'
    <3>1. /\ \A i \in Slots, j \in Keys :
                tables[i].view[j] \in ViewIds => tables[i].view[j] \in views.alloc
          /\ \A x \in views.alloc : \E i \in Slots, j \in Keys : tables[i].view[j] = x
          /\ \A i, j \in Slots, l, m \in Keys :
                tables[i].view[l] \in ViewIds /\ tables[i].view[l] = tables[j].view[m]
                  => i = j /\ l = m
          /\ views.alloc \subseteq ViewIds
      BY DEF ViewsOK, ViewsHeld, ViewsTyped
    <3>2. /\ tables'[s].view[k] = w /\ w \in ViewIds /\ w \notin views.alloc
          /\ \A i \in Slots, j \in Keys :
                i # s \/ j # k => tables'[i].view[j] = tables[i].view[j]
      BY <2>2, <2>6 DEF IsSet
    <3>3. None \notin ViewIds
      BY ReducersAssumption DEF None, ViewIds
    <3>4. \A i \in Slots, j \in Keys :
             tables'[i].view[j] \in ViewIds => tables'[i].view[j] \in views'.alloc
      <4>1. ASSUME NEW i \in Slots, NEW j \in Keys, tables'[i].view[j] \in ViewIds
            PROVE  tables'[i].view[j] \in views.alloc \cup {w}
        <5>1. CASE i = s /\ j = k
          BY <3>2, <5>1
        <5>2. CASE i # s \/ j # k
          <6>1. tables'[i].view[j] = tables[i].view[j]
            BY <3>2, <5>2
          <6>. QED
            BY <3>1, <4>1, <6>1
        <5>. QED
          BY <5>1, <5>2
      <4>. QED
        BY <2>5, <4>1
    <3>5. ASSUME NEW x \in views'.alloc
          PROVE  \E i \in Slots, j \in Keys : tables'[i].view[j] = x
      <4>1. CASE x = w
        BY <2>1, <3>2, <4>1
      <4>2. CASE x # w
        <5>1. x \in views.alloc /\ x # None
          BY <2>5, <3>1, <3>3, <4>2
        <5>2. PICK i \in Slots, j \in Keys : tables[i].view[j] = x
          BY <3>1, <5>1
        <5>3. tables'[i].view[j] = x
          BY <2>2, <3>2, <5>1, <5>2
        <5>. QED
          BY <5>3
      <4>. QED
        BY <4>1, <4>2
    <3>6. ASSUME NEW i \in Slots, NEW j \in Slots, NEW l \in Keys, NEW m \in Keys,
                 tables'[i].view[l] \in ViewIds, tables'[i].view[l] = tables'[j].view[m]
          PROVE  i = j /\ l = m
      BY <3>1, <3>2, <3>6
    <3>. QED
      BY <3>4, <3>5, <3>6 DEF ViewsHeld
  <2>. QED
    BY <2>7, <2>8, <2>10, <2>11 DEF ViewsOK
<1>6. CASE LooksUpLeftmost(k)
  BY <1>4, <1>6 DEF LooksUpLeftmost
<1>7. ASSUME NEW w \in ViewIds \cup {k}, LooksUpView(k, ViewSlot, w) PROVE ViewsOK'
  BY <1>4, <1>7 DEF LooksUpView
<1>. QED
  BY <1>5, <1>6, <1>7, LookupKinds

\* Every step keeps the views in order.
LEMMA ViewsStep ==
    ASSUME Engine, Declared, ViewsOK, ~RegisterInContinuation, [ReducersNext]_rvars
    PROVE  ViewsOK'
<1>1. CASE Push /\ UNCHANGED hyper
  BY <1>1, ViewsPush
<1>2. CASE Pop /\ UNCHANGED hyper /\ (do_loop_end \/ MayEnd)
  BY <1>2, ViewsPop
<1>3. CASE ReducingStep
  BY <1>3, ViewsReduce
<1>4. CASE UNCHANGED hyper /\ UNCHANGED <<depth, frames>>
  <2>1. \A k \in Keys : KeepsPlace(k)
    BY <1>4 DEF KeepsPlace, RegisteredAt, Decl, hyper
  <2>2. \A i \in Slots : tables[i].made => i \in 1..depth' /\ frames'[i].InContin # {}
    BY <1>4 DEF ViewsOK, TablesInContin
  <2>. QED
    BY <1>4, <2>1, <2>2, ViewsSame
<1>5. CASE do_loop_iteration_begin /\ UNCHANGED hyper
  BY <1>5, ViewsIterationBegin
<1>6. ASSUME NEW k \in Keys, Hyper(k) PROVE ViewsOK'
  BY <1>6, ViewsRegister, ViewsUnregister, ViewsLookup DEF Hyper
<1>7. do_loop_begin => UNCHANGED <<depth, frames>>
  BY DEF do_loop_begin
<1>8. UNCHANGED rvars => UNCHANGED hyper /\ UNCHANGED <<depth, frames>>
  BY DEF rvars, vars, hyper
<1>. QED
  BY <1>1, <1>2, <1>3, <1>4, <1>5, <1>6, <1>7, <1>8, ReducersKinds DEF ReducingStep

-----------------------------------------------------------------------------
(***************************************************************************)
(* The theorems about the tables.                                          *)
(***************************************************************************)
\* The invariant of the reducers.
RInv == Engine /\ Declared /\ ViewsOK

\* It holds at first.
LEMMA RInvInit == ReducersInit => RInv
<1>. SUFFICES ASSUME ReducersInit PROVE RInv
  OBVIOUS
<1>1. Init
  BY DEF ReducersInit
<1>2. Engine
  BY <1>1, InitFacts, TreeInit, ContinInit DEF Engine
<1>. QED
  BY <1>2, DeclaredInit, ViewsInit DEF RInv

\* It is an invariant of programs that register no reducer while one of the
\* frame's spawns is open.
LEMMA ReducersInvariant ==
    ASSUME ~RegisterInContinuation
    PROVE  ReducersSpec => []RInv
<1>1. RInv /\ [ReducersNext]_rvars => RInv'
  BY EngineStep, DeclaredStep, ViewsStep DEF RInv
<1>. QED
  BY RInvInit, <1>1, PTL DEF ReducersSpec

\* The entries are as many as the views.
LEMMA HeldIsExact == ViewsOK => ViewsExact
<1>. SUFFICES ASSUME ViewsOK PROVE ViewsExact
  OBVIOUS
<1>1. /\ \A i \in Slots, k \in Keys :
            tables[i].view[k] \in ViewIds => tables[i].view[k] \in views.alloc
      /\ \A w \in views.alloc : \E i \in Slots, k \in Keys : tables[i].view[k] = w
      /\ \A i, j \in Slots, k, l \in Keys :
            tables[i].view[k] \in ViewIds /\ tables[i].view[k] = tables[j].view[l]
              => i = j /\ k = l
      /\ views.alloc \subseteq ViewIds
  BY DEF ViewsOK, ViewsHeld, ViewsTyped
<1>. DEFINE f == [e \in Entries |-> tables[e[1]].view[e[2]]]
<1>2. \A e \in Entries : /\ e[1] \in Slots /\ e[2] \in Keys /\ e = <<e[1], e[2]>>
                         /\ tables[e[1]].view[e[2]] \in ViewIds
  BY DEF Entries
<1>3. ASSUME NEW w \in views.alloc PROVE \E e \in Entries : tables[e[1]].view[e[2]] = w
  <2>1. PICK i \in Slots, k \in Keys : tables[i].view[k] = w
    BY <1>1
  <2>2. <<i, k>>[1] = i /\ <<i, k>>[2] = k /\ <<i, k>> \in Slots \X Keys /\ w \in ViewIds
    BY <1>1
  <2>3. <<i, k>> \in Entries
    BY <2>1, <2>2 DEF Entries
  <2>. QED
    BY <2>1, <2>2, <2>3
<1>4. {tables[e[1]].view[e[2]] : e \in Entries} = views.alloc
  <2>1. \A e \in Entries : tables[e[1]].view[e[2]] \in views.alloc
    BY <1>1, <1>2
  <2>. QED
    BY <1>3, <2>1
<1>5. f \in Bijection(Entries, views.alloc)
  <2>1. f \in [Entries -> views.alloc]
    BY <1>4
  <2>2. ASSUME NEW d \in Entries, NEW e \in Entries, f[d] = f[e] PROVE d = e
    <3>1. tables[d[1]].view[d[2]] = tables[e[1]].view[e[2]]
      BY <2>2
    <3>2. d[1] = e[1] /\ d[2] = e[2]
      BY <1>1, <1>2, <3>1
    <3>. QED
      BY <1>2, <3>2
  <2>3. \A w \in views.alloc : \E e \in Entries : f[e] = w
    BY <1>3
  <2>. HIDE DEF f
  <2>. QED
    <3>1. f \in Injection(Entries, views.alloc)
      BY <2>1, <2>2 DEF Injection, IsInjective
    <3>2. f \in Surjection(Entries, views.alloc)
      BY <2>1, <2>3 DEF Surjection
    <3>. QED
      BY <3>1, <3>2 DEF Bijection
<1>6. IsFiniteSet(views.alloc)
  <2>1. IsFiniteSet(ViewIds)
    BY FS_Interval, ReducersAssumption DEF ViewIds
  <2>. QED
    BY <1>1, <2>1, FS_Subset
<1>7. Cardinality(Entries) = Cardinality(views.alloc)
  <2>. HIDE DEF f
  <2>1. ExistsBijection(Entries, views.alloc)
    BY <1>5 DEF ExistsBijection
  <2>2. ExistsBijection(views.alloc, Entries)
    BY <2>1, Fun_ExistsBijSymmetric
  <2>. QED
    BY <1>6, <2>2, FS_Bijection DEF ExistsBijection
<1>. QED
  BY <1>4, <1>7 DEF ViewsExact

\* free(rb.view): in every program that registers no reducer while one of the
\* frame's spawns is open, the views in the tables are exactly the allocated
\* ones, each in one place.
THEOREM ViewsAreExact ==
    ASSUME ~RegisterInContinuation
    PROVE  ReducersSpec => []ViewsExact
<1>1. RInv => ViewsExact
  BY HeldIsExact DEF RInv
<1>. QED
  BY <1>1, ReducersInvariant, PTL

\* start_new_function, "New function has non-null table of reducer views": in
\* such a program the slots above the stack hold no tables.
THEOREM FreshFramesHaveNoViews ==
    ASSUME ~RegisterInContinuation
    PROVE  ReducersSpec => []FreshFrameHasNoViews
<1>1. ASSUME RInv PROVE FreshFrameHasNoViews
  <2>1. TypeOK /\ depth \in Nat /\ depth \in 1..MaxDepth
    <3>1. TypeOK
      BY <1>1 DEF RInv, Engine
    <3>2. depth \in 1..MaxDepth
      BY <3>1 DEF TypeOK
    <3>. QED
      BY <3>1, <3>2
  <2>2. owner \in [Keys -> [slot : 0..depth, since : Frames]]
    <3>1. owner \in [Keys -> [slot : 0..MaxDepth, since : Frames]]
      BY <1>1 DEF RInv, Declared, OwnersOK
    <3>2. \A k \in Keys : owner[k].slot \in 0..depth
      <4>1. ASSUME NEW k \in Keys PROVE owner[k].slot \in 0..depth
        <5>1. CASE Owned(k)
          <6>1. Decl(k) \in 1..depth
            BY <1>1, <5>1 DEF RInv, Declared, OwnersOK
          <6>. QED
            BY <6>1 DEF Decl
        <5>2. CASE ~Owned(k)
          BY <2>1, <5>2 DEF Owned, NoOwner
        <5>. QED
          BY <5>1, <5>2
      <4>. QED
        BY <4>1
    <3>. QED
      BY <3>1, <3>2
  <2>3. ReducersTypeOK
    BY <1>1, <2>1, <2>2 DEF RInv, ViewsOK, ViewsTyped, ReducersTypeOK
  <2>4. \A i \in (depth + 1)..MaxDepth : ~tables[i].made
    <3>1. \A i \in (depth + 1)..MaxDepth : i \in Slots /\ i \notin 1..depth
      BY <2>1
    <3>. QED
      BY <1>1, <3>1 DEF RInv, ViewsOK, TablesInContin
  <2>. QED
    BY <2>3, <2>4 DEF FreshFrameHasNoViews
<1>. QED
  BY <1>1, ReducersInvariant, PTL

-----------------------------------------------------------------------------
(***************************************************************************)
(* Sequences end to end.                                                   *)
(***************************************************************************)
\* One sequence for the leftmost view and one for each slot.
PartsType == [0..MaxDepth -> Seq(Nat)]

\* f[n] is the first parts of g, up to part n, end to end.
Joins(f, g) ==
    /\ f \in PartsType /\ f[0] = g[0]
    /\ \A n \in 1..MaxDepth : f[n] = f[n - 1] \o g[n]

Folded(g, n) == (CHOOSE f : Joins(f, g))[n]

\* Concatenation is associative and has the empty sequence as its unit.
LEMMA ConcatLaws ==
    /\ \A r, s, t \in Seq(Nat) : (r \o s) \o t = r \o (s \o t)
    /\ \A s \in Seq(Nat) : s \o << >> = s /\ << >> \o s = s
    /\ \A s, t \in Seq(Nat) : s \o t \in Seq(Nat)
    /\ << >> \in Seq(Nat)
<1>1. ASSUME NEW r \in Seq(Nat), NEW s \in Seq(Nat), NEW t \in Seq(Nat)
      PROVE  (r \o s) \o t = r \o (s \o t)
  OBVIOUS
<1>2. ASSUME NEW s \in Seq(Nat) PROVE s \o << >> = s /\ << >> \o s = s
  BY ConcatEmptySeq
<1>3. << >> \in Seq(Nat)
  BY EmptySeq
<1>. QED
  BY <1>1, <1>2, <1>3, ConcatType

\* The joined sequences exist.
LEMMA FoldedFacts ==
    ASSUME NEW g \in PartsType
    PROVE  /\ \A n \in 0..MaxDepth : Folded(g, n) \in Seq(Nat)
           /\ Folded(g, 0) = g[0]
           /\ \A n \in 1..MaxDepth : Folded(g, n) = Folded(g, n - 1) \o g[n]
<1>. DEFINE S == 0..MaxDepth
            V == Seq(Nat)
            H == [p \in [S -> V] \X S |->
                     IF p[2] = 0 THEN g[0] ELSE p[1][p[2] - 1] \o g[p[2]]]
            mu == [n \in S |-> n]
<1>1. \A f \in [S -> V], n \in S : H[<<f, n>>] = IF n = 0 THEN g[0] ELSE f[n - 1] \o g[n]
  OBVIOUS
<1>2. \A f \in [S -> V], n \in S : n # 0 => n - 1 \in S /\ f[n - 1] \in V /\ g[n] \in V
  BY DEF PartsType
<1>3. H \in [[S -> V] \X S -> V]
  <2>1. ASSUME NEW f \in [S -> V], NEW n \in S PROVE H[<<f, n>>] \in V
    <3>1. CASE n = 0
      BY <1>1, <3>1 DEF PartsType
    <3>2. CASE n # 0
      <4>1. f[n - 1] \o g[n] \in V
        BY <1>2, <3>2, ConcatType
      <4>. QED
        BY <1>1, <3>2, <4>1
    <3>. QED
      BY <3>1, <3>2
  <2>2. DOMAIN H = [S -> V] \X S /\ H = [p \in [S -> V] \X S |-> H[p]]
    OBVIOUS
  <2>. HIDE DEF H
  <2>3. \A p \in [S -> V] \X S : H[p] \in V
    <3>. HIDE DEF V, S
    <3>1. \A p \in [S -> V] \X S : \E f \in [S -> V], n \in S : p = <<f, n>>
      OBVIOUS
    <3>. QED
      BY <2>1, <3>1
  <2>. QED
    BY <2>2, <2>3
<1>4. Determines(H, S, V, mu, MaxDepth)
  <2>1. V # {} /\ MaxDepth \in Nat
    BY EmptySeq
  <2>2. mu \in [S -> 0..MaxDepth]
    OBVIOUS
  <2>3. ASSUME NEW x \in S, NEW f \in [S -> V], NEW h \in [S -> V],
               \A y \in S : mu[y] < mu[x] => f[y] = h[y]
        PROVE  H[<<f, x>>] = H[<<h, x>>]
    <3>1. x # 0 => f[x - 1] = h[x - 1]
      <4>1. x # 0 => x - 1 \in S /\ mu[x - 1] = x - 1 /\ mu[x] = x /\ x - 1 < x
        OBVIOUS
      <4>. QED
        BY <2>3, <4>1
    <3>. HIDE DEF H
    <3>. QED
      BY <1>1, <3>1
  <2>. HIDE DEF H, mu, V
  <2>. QED
    BY <1>3, <2>1, <2>2, <2>3 DEF Determines
<1>5. \E f : Joins(f, g)
  <2>1. PICK f \in [S -> V] : \A n \in S : f[n] = H[<<f, n>>]
    <3>. HIDE DEF H, mu, S, V
    <3>. QED
      BY <1>4, RecursiveFunction
  <2>2. \A n \in S : f[n] = IF n = 0 THEN g[0] ELSE f[n - 1] \o g[n]
    <3>. HIDE DEF H
    <3>. QED
      BY <1>1, <2>1
  <2>3. 0 \in S /\ \A n \in 1..MaxDepth : n \in S /\ n # 0
    OBVIOUS
  <2>4. Joins(f, g)
    BY <2>2, <2>3 DEF Joins, PartsType
  <2>. QED
    BY <2>4
<1>6. PICK f : f = (CHOOSE h : Joins(h, g))
  OBVIOUS
<1>7. Joins(f, g)
  BY <1>5, <1>6
<1>8. \A n : Folded(g, n) = f[n]
  BY <1>6 DEF Folded
<1>. QED
  BY <1>7, <1>8 DEF Joins, PartsType

\* Parts that are the same join to the same.
LEMMA FoldedSame ==
    ASSUME NEW g \in PartsType, NEW h \in PartsType, NEW n \in 0..MaxDepth,
           \A i \in 0..n : g[i] = h[i]
    PROVE  Folded(g, n) = Folded(h, n)
<1>. DEFINE S == {i \in 0..n : Folded(g, i) = Folded(h, i)}
<1>1. 0 \in S
  <2>1. Folded(g, 0) = g[0]
    BY FoldedFacts
  <2>2. Folded(h, 0) = h[0]
    BY FoldedFacts
  <2>3. 0 \in 0..n
    OBVIOUS
  <2>. QED
    BY <2>1, <2>2, <2>3
<1>2. ASSUME NEW i \in 0..(n - 1), i \in S PROVE i + 1 \in S
  <2>1. i + 1 \in 1..MaxDepth /\ i + 1 \in 0..n /\ (i + 1) - 1 = i
    BY <1>2
  <2>2. /\ Folded(g, i + 1) = Folded(g, i) \o g[i + 1]
        /\ Folded(h, i + 1) = Folded(h, i) \o h[i + 1]
    BY <2>1, FoldedFacts
  <2>. QED
    BY <1>2, <2>1, <2>2
<1>3. \A i \in 0..n : i \in S
  <2>. HIDE DEF S
  <2>. QED
    BY <1>1, <1>2, UpTo
<1>. QED
  BY <1>3

\* Empty parts add nothing.
LEMMA FoldedEmpty ==
    ASSUME NEW g \in PartsType, NEW n \in 0..MaxDepth, NEW m \in 0..n,
           \A i \in (m + 1)..n : g[i] = << >>
    PROVE  Folded(g, n) = Folded(g, m)
<1>. DEFINE S == {i \in 0..(n - m) : Folded(g, m + i) = Folded(g, m)}
<1>1. 0 \in S /\ n - m \in Nat
  OBVIOUS
<1>2. ASSUME NEW i \in 0..((n - m) - 1), i \in S PROVE i + 1 \in S
  <2>1. /\ m + (i + 1) \in 1..MaxDepth /\ (m + (i + 1)) - 1 = m + i /\ m + i \in 0..MaxDepth
        /\ m + (i + 1) \in (m + 1)..n /\ i + 1 \in 0..(n - m)
    BY <1>2
  <2>2. Folded(g, m + (i + 1)) = Folded(g, m + i) \o << >>
    BY <2>1, FoldedFacts
  <2>3. Folded(g, m + i) \in Seq(Nat)
    BY <2>1, FoldedFacts
  <2>. QED
    BY <1>2, <2>1, <2>2, <2>3, ConcatLaws
<1>3. \A i \in 0..(n - m) : i \in S
  <2>. HIDE DEF S
  <2>. QED
    BY <1>1, <1>2, UpTo
<1>. QED
  <2>1. n - m \in 0..(n - m) /\ m + (n - m) = n
    OBVIOUS
  <2>. QED
    BY <1>3, <2>1

\* What is added to the last part is added to the whole.
LEMMA FoldedLast ==
    ASSUME NEW g \in PartsType, NEW h \in PartsType, NEW s \in 0..MaxDepth,
           NEW t \in Seq(Nat), h[s] = g[s] \o t, \A i \in 0..(s - 1) : h[i] = g[i]
    PROVE  Folded(h, s) = Folded(g, s) \o t
<1>1. CASE s = 0
  <2>1. Folded(g, 0) = g[0]
    BY FoldedFacts
  <2>2. Folded(h, 0) = h[0]
    BY FoldedFacts
  <2>. QED
    BY <1>1, <2>1, <2>2
<1>2. CASE s # 0
  <2>1. s \in 1..MaxDepth /\ s - 1 \in 0..MaxDepth
    BY <1>2
  <2>2. \A i \in 0..(s - 1) : g[i] = h[i]
    OBVIOUS
  <2>3. Folded(h, s - 1) = Folded(g, s - 1)
    BY <2>1, <2>2, FoldedSame
  <2>4. PICK r \in Seq(Nat) : r = Folded(g, s - 1)
    BY <2>1, FoldedFacts
  <2>5. PICK q \in Seq(Nat) : q = g[s]
    BY DEF PartsType
  <2>6. Folded(h, s) = r \o (q \o t)
    BY <2>1, <2>3, <2>4, <2>5, FoldedFacts
  <2>7. Folded(g, s) = r \o q
    BY <2>1, <2>4, <2>5, FoldedFacts
  <2>8. (r \o q) \o t = r \o (q \o t)
    OBVIOUS
  <2>. QED
    BY <2>6, <2>7, <2>8
<1>. QED
  BY <1>1, <1>2

\* The parts after it may be empty.
LEMMA FoldedAppend ==
    ASSUME NEW g \in PartsType, NEW h \in PartsType, NEW n \in 0..MaxDepth, NEW s \in 0..n,
           NEW t \in Seq(Nat), h[s] = g[s] \o t, \A i \in 0..n : i # s => h[i] = g[i],
           \A i \in (s + 1)..n : g[i] = << >>
    PROVE  Folded(h, n) = Folded(g, n) \o t
<1>1. \A i \in (s + 1)..n : h[i] = << >>
  <2>1. \A i \in (s + 1)..n : i \in 0..n /\ i # s
    OBVIOUS
  <2>. QED
    BY <2>1
<1>2. Folded(h, n) = Folded(h, s) /\ Folded(g, n) = Folded(g, s)
  BY <1>1, FoldedEmpty
<1>3. Folded(h, s) = Folded(g, s) \o t
  <2>1. \A i \in 0..(s - 1) : i \in 0..n /\ i # s
    OBVIOUS
  <2>2. \A i \in 0..(s - 1) : h[i] = g[i]
    BY <2>1
  <2>3. s \in 0..MaxDepth
    OBVIOUS
  <2>. QED
    BY <2>2, <2>3, FoldedLast
<1>. QED
  BY <1>2, <1>3

\* In h the last part of g that is not empty, d, is moved to the end of the one
\* before it, a.
Merged(g, h, a, d) ==
    /\ h[a] = g[a] \o g[d] /\ h[d] = << >>
    /\ \A i \in 0..MaxDepth : i # a /\ i # d => h[i] = g[i]
    /\ \A i \in (a + 1)..(d - 1) : g[i] = << >>
    /\ \A i \in (d + 1)..MaxDepth : g[i] = << >>

\* That makes no difference to the whole.
LEMMA FoldedMerge ==
    ASSUME NEW g \in PartsType, NEW h \in PartsType, NEW d \in 1..MaxDepth, NEW a \in 0..(d - 1),
           Merged(g, h, a, d)
    PROVE  Folded(h, MaxDepth) = Folded(g, MaxDepth)
<1>. /\ h[a] = g[a] \o g[d] /\ h[d] = << >>
     /\ \A i \in 0..MaxDepth : i # a /\ i # d => h[i] = g[i]
     /\ \A i \in (a + 1)..(d - 1) : g[i] = << >>
     /\ \A i \in (d + 1)..MaxDepth : g[i] = << >>
  BY DEF Merged
<1>1. /\ d \in 0..MaxDepth /\ a \in 0..MaxDepth /\ a \in 0..d /\ d - 1 \in 0..MaxDepth
      /\ a \in 0..(d - 1) /\ a \in 0..a /\ MaxDepth \in 0..MaxDepth /\ d \in 0..MaxDepth
  OBVIOUS
<1>2. ASSUME NEW i \in (a + 1)..MaxDepth PROVE h[i] = << >>
  <2>1. i \in 0..MaxDepth /\ i # a
    OBVIOUS
  <2>2. i = d \/ i \in (a + 1)..(d - 1) \/ i \in (d + 1)..MaxDepth
    OBVIOUS
  <2>3. i \in (a + 1)..(d - 1) => i # d
    OBVIOUS
  <2>4. i \in (d + 1)..MaxDepth => i # d
    OBVIOUS
  <2>. QED
    BY <2>1, <2>2, <2>3, <2>4
<1>3. Folded(h, MaxDepth) = Folded(h, a)
  BY <1>1, <1>2, FoldedEmpty
<1>4. Folded(g, MaxDepth) = Folded(g, d)
  BY <1>1, FoldedEmpty
<1>5. Folded(g, d) = Folded(g, d - 1) \o g[d]
  BY FoldedFacts
<1>6. Folded(g, d - 1) = Folded(g, a)
  BY <1>1, FoldedEmpty
<1>7. Folded(h, a) = Folded(g, a) \o g[d]
  <2>1. PICK t \in Seq(Nat) : t = g[d]
    BY <1>1 DEF PartsType
  <2>2. \A i \in 0..(a - 1) : i \in 0..MaxDepth /\ i # a /\ i # d
    BY <1>1
  <2>3. \A i \in 0..(a - 1) : h[i] = g[i]
    BY <2>2
  <2>4. Folded(h, a) = Folded(g, a) \o t
    BY <1>1, <2>1, <2>3, FoldedLast
  <2>. QED
    BY <2>1, <2>4
<1>. QED
  BY <1>3, <1>4, <1>5, <1>6, <1>7

-----------------------------------------------------------------------------
(***************************************************************************)
(* The serial order.                                                       *)
(***************************************************************************)
\* What slot i contributes to reducer k; slot 0 stands for the leftmost view.
Part(k, i) ==
    IF i = 0 THEN views.value[k]
    ELSE IF tables[i].view[k] \in ViewIds THEN views.value[tables[i].view[k]] ELSE << >>

Parts(k) == [i \in 0..MaxDepth |-> Part(k, i)]

\* The numbers up to n.
Count(n) == [m \in 1..n |-> m]

\* The views of a declared reducer, end to end, are its updates in order.
Serial == \A k \in Keys : Owned(k) => Folded(Parts(k), MaxDepth) = Count(updates[k])

\* One more number.
LEMMA CountMore ==
    ASSUME NEW n \in Nat
    PROVE  Count(n + 1) = Count(n) \o <<n + 1>> /\ Count(n) \in Seq(Nat) /\ Count(0) = << >>
<1>1. Count(n) \in Seq(Nat) /\ Count(n + 1) \in Seq(Nat) /\ Count(0) \in Seq(Nat)
  <2>1. \A m \in Nat : Count(m) \in [1..m -> Nat]
    BY DEF Count
  <2>2. \A m \in Nat : [1..m -> Nat] \subseteq Seq(Nat)
    BY SeqDef
  <2>3. \A m \in Nat : Count(m) \in Seq(Nat)
    BY <2>1, <2>2
  <2>4. n + 1 \in Nat /\ 0 \in Nat
    OBVIOUS
  <2>. QED
    BY <2>3, <2>4
<1>2. Len(Count(n)) = n /\ Len(Count(n + 1)) = n + 1 /\ Len(Count(0)) = 0
  BY <1>1 DEF Count
<1>3. /\ \A i \in 1..n : Count(n)[i] = i
      /\ \A i \in 1..(n + 1) : Count(n + 1)[i] = i
  BY DEF Count
<1>4. PICK c \in Seq(Nat) : c = Count(n)
  BY <1>1
<1>5. PICK d \in Seq(Nat) : d = Count(n + 1)
  BY <1>1
<1>6. d = c \o <<n + 1>>
  <2>1. Len(c) = n /\ Len(d) = n + 1
    BY <1>2, <1>4, <1>5
  <2>2. \A i \in 1..n : c[i] = i
    BY <1>3, <1>4
  <2>3. \A i \in 1..(n + 1) : d[i] = i
    BY <1>3, <1>5
  <2>4. <<n + 1>> \in Seq(Nat) /\ Len(<<n + 1>>) = 1 /\ <<n + 1>>[1] = n + 1
    OBVIOUS
  <2>5. PICK e \in Seq(Nat) : e = c \o <<n + 1>>
    BY <2>4, ConcatLaws
  <2>6. Len(e) = n + 1 /\ \A i \in 1..(n + 1) : e[i] = i
    BY <2>1, <2>2, <2>5
  <2>7. d = e
    BY <2>1, <2>3, <2>6, SeqEqual
  <2>. QED
    BY <2>5, <2>7
<1>7. Count(0) = << >>
  BY <1>1, <1>2
<1>. QED
  BY <1>1, <1>4, <1>5, <1>6, <1>7

\* Types of the parts.
LEMMA PartsAre ==
    ASSUME ViewsTyped, NEW k \in Keys
    PROVE  Parts(k) \in PartsType /\ \A i \in 0..MaxDepth : Parts(k)[i] = Part(k, i)
<1>1. views.value \in [Keys \cup ViewIds -> Seq(Nat)]
  BY DEF ViewsTyped
<1>2. ASSUME NEW i \in 0..MaxDepth PROVE Part(k, i) \in Seq(Nat)
  BY <1>1, EmptySeq DEF Part
<1>. QED
  BY <1>2 DEF Parts, PartsType

\* The same of all reducers, and in the next state.
LEMMA PartsAreNext ==
    ViewsTyped' => \A k \in Keys : /\ Parts(k)' \in PartsType
                                    /\ \A i \in 0..MaxDepth : Parts(k)'[i] = Part(k, i)'
<1>. DEFINE Good == \A k \in Keys : /\ Parts(k) \in PartsType
                                     /\ \A i \in 0..MaxDepth : Parts(k)[i] = Part(k, i)
<1>1. ViewsTyped => Good
  BY PartsAre
<1>2. ViewsTyped' => Good'
  <2>. HIDE DEF Good
  <2>. QED
    BY <1>1, PTL
<1>. QED
  BY <1>2

\* Above the stack and where there is no table the parts are empty.
LEMMA EmptyPart ==
    ASSUME ViewsTyped, NEW k \in Keys, NEW i \in Slots, tables[i].view[k] \in {None, k}
    PROVE  Part(k, i) = << >>
<1>1. None \notin ViewIds /\ k \notin ViewIds /\ i # 0
  BY KeysApart, ReducersAssumption DEF None, ViewIds
<1>. QED
  BY <1>1 DEF Part

\* What LeftToRight computes.
LEMMA LeftToRightIs ==
    ASSUME ViewsTyped, NEW k \in Keys, depth \in 0..MaxDepth
    PROVE  LeftToRight(k) = Folded(Parts(k), depth)
<1>. DEFINE H(u) == [i \in 0..MaxDepth |->
                        IF i = 0 THEN views.value[k]
                        ELSE LET w == tables[i].view[k] IN
                             IF w \in ViewIds THEN u[i - 1] \o views.value[w] ELSE u[i - 1]]
            U == CHOOSE u : u = H(u)
            g == Parts(k)
            F == [i \in 0..MaxDepth |-> Folded(g, i)]
<1>1. LeftToRight(k) = U[depth]
  BY DEF LeftToRight
<1>2. g \in PartsType /\ \A i \in 0..MaxDepth : g[i] = Part(k, i)
  BY PartsAre
<1>3. /\ \A n \in 0..MaxDepth : Folded(g, n) \in Seq(Nat)
      /\ Folded(g, 0) = views.value[k]
      /\ \A n \in 1..MaxDepth : Folded(g, n) = Folded(g, n - 1) \o Part(k, n)
  <2>. HIDE DEF g
  <2>1. /\ \A n \in 0..MaxDepth : Folded(g, n) \in Seq(Nat)
        /\ Folded(g, 0) = g[0]
        /\ \A n \in 1..MaxDepth : Folded(g, n) = Folded(g, n - 1) \o g[n]
    BY <1>2, FoldedFacts
  <2>2. g[0] = views.value[k]
    BY <1>2 DEF Part
  <2>3. \A n \in 1..MaxDepth : g[n] = Part(k, n)
    BY <1>2
  <2>. QED
    BY <2>1, <2>2, <2>3
<1>. HIDE DEF g
<1>4. \A i \in 0..MaxDepth : F[i] = H(F)[i]
  <2>1. ASSUME NEW i \in 1..MaxDepth, tables[i].view[k] \in ViewIds
        PROVE  F[i] = F[i - 1] \o views.value[tables[i].view[k]]
    <3>1. i \in 0..MaxDepth /\ i - 1 \in 0..MaxDepth /\ i # 0
      OBVIOUS
    <3>2. Folded(g, i) = Folded(g, i - 1) \o Part(k, i)
      BY <1>3
    <3>3. Part(k, i) = views.value[tables[i].view[k]]
      BY <2>1, <3>1 DEF Part
    <3>. QED
      BY <3>1, <3>2, <3>3
  <2>2. ASSUME NEW i \in 1..MaxDepth, tables[i].view[k] \notin ViewIds
        PROVE  F[i] = F[i - 1]
    <3>1. Part(k, i) = << >>
      BY <2>2 DEF Part
    <3>2. i - 1 \in 0..MaxDepth /\ i \in 0..MaxDepth
      OBVIOUS
    <3>. PICK r \in Seq(Nat) : r = Folded(g, i - 1)
      BY <1>3, <3>2
    <3>3. Folded(g, i) = r \o << >>
      BY <1>3, <3>1
    <3>4. r \o << >> = r
      BY ConcatLaws
    <3>. QED
      BY <3>2, <3>3, <3>4
  <2>3. F[0] = views.value[k]
    BY <1>3
  <2>4. \A i \in 0..MaxDepth : i = 0 \/ i \in 1..MaxDepth
    OBVIOUS
  <2>. HIDE DEF F
  <2>. QED
    BY <2>1, <2>2, <2>3, <2>4
<1>5. F = H(F)
  BY <1>4
<1>6. U = H(U)
  <2>. HIDE DEF F, H
  <2>. QED
    BY <1>5
<1>7. ASSUME NEW i \in 0..MaxDepth PROVE U[i] = F[i]
  <2>. DEFINE S == {n \in 0..MaxDepth : U[n] = F[n]}
  <2>1. \A n \in 0..MaxDepth : /\ U[n] = H(U)[n]
                               /\ F[n] = H(F)[n]
    <3>. HIDE DEF F, H, U
    <3>. QED
      BY <1>5, <1>6
  <2>2. 0 \in S
    <3>. HIDE DEF F, U
    <3>. QED
      BY <2>1
  <2>3. ASSUME NEW n \in 0..(MaxDepth - 1), n \in S PROVE n + 1 \in S
    <3>1. n + 1 \in 0..MaxDepth /\ n + 1 # 0 /\ (n + 1) - 1 = n
      OBVIOUS
    <3>. HIDE DEF F, U
    <3>. QED
      BY <2>1, <2>3, <3>1
  <2>4. \A n \in 0..MaxDepth : n \in S
    <3>. HIDE DEF S
    <3>. QED
      BY <2>2, <2>3, UpTo
  <2>. QED
    BY <2>4
<1>8. F[depth] = Folded(g, depth)
  OBVIOUS
<1>. QED
  BY <1>1, <1>7, <1>8 DEF g

\* The parts of reducer j do not change.
LEMMA SameParts ==
    ASSUME NEW j \in Keys, views'.value[j] = views.value[j],
           \A i \in Slots : /\ tables'[i].view[j] = tables[i].view[j]
                            /\ tables[i].view[j] \in ViewIds =>
                                  views'.value[tables[i].view[j]]
                                     = views.value[tables[i].view[j]]
    PROVE  Parts(j)' = Parts(j)
<1>1. ASSUME NEW i \in 0..MaxDepth PROVE Part(j, i)' = Part(j, i)
  <2>1. i = 0 \/ i \in Slots
    OBVIOUS
  <2>. QED
    BY <2>1 DEF Part
<1>. QED
  BY <1>1 DEF Parts

\* A step that leaves the reducers alone.
LEMMA SerialSame ==
    ASSUME Serial, UNCHANGED hyper
    PROVE  Serial'
<1>1. tables' = tables /\ views' = views /\ owner' = owner /\ updates' = updates
  BY DEF hyper
<1>2. \A k \in Keys : Parts(k)' = Parts(k)
  BY <1>1, SameParts
<1>3. \A k \in Keys : Owned(k)' = Owned(k)
  BY <1>1 DEF Owned
<1>. QED
  BY <1>1, <1>2, <1>3 DEF Serial

\* Initially nothing is declared.
LEMMA SerialInit == ReducersInit => Serial
<1>. SUFFICES ASSUME ReducersInit PROVE Serial
  OBVIOUS
<1>1. \A k \in Keys : ~Owned(k)
  BY DEF ReducersInit, Owned
<1>. QED
  BY <1>1 DEF Serial

\* A slot without a table contributes nothing.
LEMMA NoTableNoPart ==
    ASSUME Engine, ViewsOK, NEW k \in Keys, NEW i \in Slots,
           i > depth \/ frames[i].InContin = {}
    PROVE  Part(k, i) = << >>
<1>1. ~tables[i].made
  <2>1. TypeOK
    BY DEF Engine
  <2>2. depth \in Nat
    BY <2>1 DEF TypeOK
  <2>. QED
    BY <2>2 DEF ViewsOK, TablesInContin
<1>2. ViewsTyped
  BY DEF ViewsOK
<1>. QED
  BY <1>1, <1>2, NotMade, EmptyPart

\* Below the table of the leftmost view there are no others.
LEMMA BelowRegistered ==
    ASSUME Engine, Declared, ViewsOK, NEW k \in Keys, Owned(k), NEW i \in Slots,
           i <= RegisteredAt(k)
    PROVE  Part(k, i) = << >>
<1>1. Decl(k) \in 1..depth /\ Decl(k) \in Slots /\ Decl(k) \in Nat
  <2>1. TypeOK
    BY DEF Engine
  <2>2. depth \in 1..MaxDepth
    BY <2>1 DEF TypeOK
  <2>3. Decl(k) \in 1..depth
    BY DEF Declared, OwnersOK
  <2>. QED
    BY <2>2, <2>3
<1>2. frames[Decl(k)].ParentContin \in Nat
  <2>1. TypeOK
    BY DEF Engine
  <2>2. frames[Decl(k)] \in FrameData
    BY <1>1, <2>1 DEF TypeOK
  <2>. QED
    BY <2>2 DEF FrameData
<1>. PICK r : r = RegisteredAt(k)
  OBVIOUS
<1>. PICK d : d = Decl(k)
  OBVIOUS
<1>3. r \in Int /\ r <= d
  BY <1>1, <1>2 DEF RegisteredAt
<1>4. i = r \/ (i < d /\ i # r)
  BY <1>1, <1>3
<1>5. PlacedAt(k, i)
  BY DEF ViewsOK, ViewsPlaced
<1>6. tables[i].view[k] \in {None, k}
  BY <1>4, <1>5 DEF PlacedAt
<1>7. ViewsTyped
  BY DEF ViewsOK
<1>. QED
  BY <1>6, <1>7, EmptyPart

\* A reducer is registered: its leftmost view is new and it has no other.
LEMMA SerialRegister ==
    ASSUME Engine, Declared, ViewsOK, ViewsOK', Serial, NEW k \in Keys, register(k)
    PROVE  Serial'
<1>. Hyper(k)
  BY DEF Hyper
<1>1. owner \in [Keys -> [slot : 0..MaxDepth, since : Frames]]
  BY HyperFacts
<1>2. /\ owner[k] = NoOwner
      /\ owner' = [owner EXCEPT ![k] = [slot |-> depth, since |-> frame_id]]
      /\ updates' = [updates EXCEPT ![k] = 0]
      /\ views' = [views EXCEPT !.value[k] = <<>>, !.users[k] = {}]
  BY DEF register
<1>3. /\ stealable => tables' = WithEntry(ViewSlot, k, k)
      /\ ~stealable => tables' = tables
  BY DEF register, WithEntry
<1>4. ViewsTyped /\ ViewsTyped'
  BY DEF ViewsOK
<1>5. /\ views'.value[k] = << >>
      /\ \A w \in Keys \cup ViewIds : w # k => views'.value[w] = views.value[w]
      /\ updates'[k] = 0 /\ \A j \in Keys : j # k => updates'[j] = updates[j]
  BY <1>2, <1>4 DEF ViewsTyped
<1>6. \A i \in Slots : tables[i].view[k] = None
  <2>1. ~Owned(k)
    BY <1>2 DEF Owned
  <2>. QED
    BY <2>1 DEF ViewsOK, ViewsPlaced, PlacedAt
<1>7. \A i \in Slots : /\ tables'[i].view[k] \in {None, k}
                       /\ \A j \in Keys : j # k => tables'[i].view[j] = tables[i].view[j]
  <2>1. CASE stealable
    <3>1. PICK s \in Slots : s = ViewSlot
      BY <2>1, StealableSlot
    <3>2. IsSet(tables', s, k, k)
      BY <1>3, <1>4, <2>1, <3>1, EntrySet
    <3>3. \A i \in Slots : i = s \/ tables'[i].view[k] = tables[i].view[k]
      BY <3>2 DEF IsSet
    <3>4. tables'[s].view[k] = k
      BY <3>2 DEF IsSet
    <3>5. \A i \in Slots, j \in Keys : j # k => tables'[i].view[j] = tables[i].view[j]
      BY <3>2 DEF IsSet
    <3>. QED
      BY <1>6, <3>3, <3>4, <3>5
  <2>2. CASE ~stealable
    BY <1>3, <1>6, <2>2
  <2>. QED
    BY <2>1, <2>2
<1>8. Folded(Parts(k), MaxDepth)' = Count(updates[k])'
  <2>1. \A i \in Slots : Part(k, i)' = << >>
    <3>1. ASSUME NEW i \in Slots PROVE Part(k, i)' = << >>
      <4>1. tables'[i].view[k] \notin ViewIds /\ i # 0
        BY <1>7, KeysApart, ReducersAssumption DEF ViewIds, None
      <4>. QED
        BY <4>1 DEF Part
    <3>. QED
      BY <3>1
  <2>2. Part(k, 0)' = << >>
    BY <1>5 DEF Part
  <2>3. Parts(k)' \in PartsType /\ \A i \in 0..MaxDepth : Parts(k)'[i] = Part(k, i)'
    BY <1>4, PartsAreNext
  <2>. PICK h : h = Parts(k)'
    OBVIOUS
  <2>4. h \in PartsType /\ h[0] = << >> /\ \A i \in 1..MaxDepth : h[i] = << >>
    BY <2>1, <2>2, <2>3
  <2>5. Folded(h, MaxDepth) = Folded(h, 0)
    <3>1. MaxDepth \in 0..MaxDepth /\ 0 \in 0..MaxDepth /\ \A i \in (0 + 1)..MaxDepth : i \in 1..MaxDepth
      OBVIOUS
    <3>. QED
      BY <2>4, <3>1, FoldedEmpty
  <2>6. Folded(h, 0) = << >>
    BY <2>4, FoldedFacts
  <2>7. Count(0) = << >>
    BY CountMore
  <2>. QED
    BY <1>5, <2>5, <2>6, <2>7
<1>9. ASSUME NEW j \in Keys, j # k, Owned(j)'
      PROVE  Folded(Parts(j), MaxDepth)' = Count(updates[j])'
  <2>1. Owned(j)
    BY <1>1, <1>2, <1>9 DEF Owned
  <2>2. \A i \in Slots : tables[i].view[j] \in ViewIds => tables[i].view[j] # k
    BY KeysApart
  <2>3. Parts(j)' = Parts(j)
    BY <1>5, <1>7, <1>9, <2>2, SameParts
  <2>. QED
    BY <1>5, <1>9, <2>1, <2>3 DEF Serial
<1>. QED
  BY <1>8, <1>9 DEF Serial

\* A reducer is unregistered.
LEMMA SerialUnregister ==
    ASSUME Engine, Declared, ViewsOK, Serial, NEW k \in Keys, unregister(k)
    PROVE  Serial'
<1>. Hyper(k)
  BY DEF Hyper
<1>1. owner \in [Keys -> [slot : 0..MaxDepth, since : Frames]]
  BY HyperFacts
<1>2. owner' = [owner EXCEPT ![k] = NoOwner] /\ UNCHANGED <<views, updates>>
  BY DEF unregister
<1>3. /\ stealable => tables' = WithoutEntry(ViewSlot, k)
      /\ ~stealable => tables' = tables
  BY DEF unregister, WithoutEntry
<1>4. ViewsTyped
  BY DEF ViewsOK
<1>5. \A i \in Slots, j \in Keys : j # k => tables'[i].view[j] = tables[i].view[j]
  <2>1. CASE stealable
    <3>1. PICK s \in Slots : s = ViewSlot
      BY <2>1, StealableSlot
    <3>2. IsSet(tables', s, k, None)
      BY <1>3, <1>4, <2>1, <3>1, EntryCleared
    <3>. QED
      BY <3>2 DEF IsSet
  <2>2. CASE ~stealable
    BY <1>3, <2>2
  <2>. QED
    BY <2>1, <2>2
<1>6. ASSUME NEW j \in Keys, Owned(j)'
      PROVE  Folded(Parts(j), MaxDepth)' = Count(updates[j])'
  <2>1. j # k /\ Owned(j)
    BY <1>1, <1>2, <1>6 DEF Owned
  <2>2. Parts(j)' = Parts(j)
    BY <1>2, <1>5, <2>1, SameParts
  <2>. QED
    BY <1>2, <1>6, <2>1, <2>2 DEF Serial
<1>. QED
  BY <1>6 DEF Serial

\* An update is added to the last part of reducer k that is not empty.
LEMMA SerialUpdated ==
    ASSUME ViewsTyped, ViewsTyped', Serial, NEW k \in Keys, Owned(k), UNCHANGED owner,
           updates'[k] = updates[k] + 1, \A j \in Keys : j # k => updates'[j] = updates[j],
           NEW s \in 0..MaxDepth, Part(k, s)' = Append(Part(k, s), updates[k] + 1),
           \A i \in 0..MaxDepth : i # s => Part(k, i)' = Part(k, i),
           \A i \in (s + 1)..MaxDepth : Part(k, i) = << >>,
           \A j \in Keys : j # k => Parts(j)' = Parts(j)
    PROVE  Serial'
<1>. PICK n : n = updates[k]
  OBVIOUS
<1>1. n \in Nat
  BY ReducersAssumption DEF ViewsTyped
<1>2. PICK g \in PartsType : g = Parts(k)
  BY PartsAre
<1>3. \A i \in 0..MaxDepth : g[i] = Part(k, i)
  BY <1>2, PartsAre
<1>4. PICK h \in PartsType : h = Parts(k)'
  BY PartsAreNext
<1>5. \A i \in 0..MaxDepth : h[i] = Part(k, i)'
  BY <1>4, PartsAreNext
<1>6. h[s] = g[s] \o <<n + 1>>
  <2>1. PICK q \in Seq(Nat) : q = g[s]
    BY DEF PartsType
  <2>2. Append(q, n + 1) = q \o <<n + 1>>
    BY <1>1
  <2>. QED
    BY <1>3, <1>5, <2>1, <2>2
<1>7. Folded(h, MaxDepth) = Folded(g, MaxDepth) \o <<n + 1>>
  <2>1. \A i \in 0..MaxDepth : i # s => h[i] = g[i]
    BY <1>3, <1>5
  <2>2. \A i \in (s + 1)..MaxDepth : i \in 0..MaxDepth
    OBVIOUS
  <2>3. \A i \in (s + 1)..MaxDepth : g[i] = << >>
    BY <1>3, <2>2
  <2>4. MaxDepth \in 0..MaxDepth
    OBVIOUS
  <2>5. PICK t \in Seq(Nat) : t = <<n + 1>>
    <3>1. n + 1 \in Nat
      BY <1>1
    <3>2. \A m \in Nat : <<m>> \in Seq(Nat)
      OBVIOUS
    <3>. QED
      BY <3>1, <3>2
  <2>6. Folded(h, MaxDepth) = Folded(g, MaxDepth) \o t
    BY <1>6, <2>1, <2>3, <2>4, <2>5, FoldedAppend
  <2>. QED
    BY <2>5, <2>6
<1>8. Folded(g, MaxDepth) = Count(n)
  BY <1>2 DEF Serial
<1>9. Folded(h, MaxDepth) = Count(n + 1)
  BY <1>1, <1>7, <1>8, CountMore
<1>10. ASSUME NEW j \in Keys, j # k, Owned(j)'
       PROVE  Folded(Parts(j), MaxDepth)' = Count(updates[j])'
  <2>1. Owned(j) /\ Parts(j)' = Parts(j) /\ updates'[j] = updates[j]
    BY <1>10 DEF Owned
  <2>. QED
    BY <2>1 DEF Serial
<1>11. Folded(Parts(k), MaxDepth)' = Count(updates[k])'
  BY <1>4, <1>9
<1>. QED
  BY <1>10, <1>11 DEF Serial

\* The type of the views.
ViewsType == [alloc : SUBSET ViewIds, value : [Keys \cup ViewIds -> Seq(Nat)],
              users : [Keys \cup ViewIds -> SUBSET [owner : Frames, iter : 0..MaxIters]]]

\* The others have the values they have in vs.
OthersKept(w, vs) == \A x \in Keys \cup ViewIds : x # w => views'.value[x] = vs.value[x]

\* An update leaves the other views alone.
LEMMA OthersNotUpdated ==
    ASSUME NEW k \in Keys, NEW w \in Keys \cup ViewIds, NEW vs,
           vs \in ViewsType, Update(k, w, vs)
    PROVE  OthersKept(w, vs)
<1>1. PICK y : y = Append(vs.value[w], updates[k] + 1)
  OBVIOUS
<1>2. PICK U : U = vs.users[w] \cup {[owner |-> head.fid, iter |-> head.iter]}
  OBVIOUS
<1>3. views' = [vs EXCEPT !.value[w] = y, !.users[w] = U]
  BY <1>1, <1>2 DEF Update
<1>4. ASSUME NEW x \in Keys \cup ViewIds, x # w PROVE views'.value[x] = vs.value[x]
  BY <1>3, <1>4 DEF ViewsType
<1>. QED
  BY <1>4 DEF OthersKept

\* An update of one of the views.
LEMMA UpdateOfView ==
    ASSUME Engine, ViewsTyped, NEW k \in Keys, NEW w \in Keys \cup ViewIds,
           updates[k] < MaxUpdates, Update(k, w, views)
    PROVE  /\ updates'[k] = updates[k] + 1
           /\ \A j \in Keys : j # k => updates'[j] = updates[j]
           /\ views'.value[w] = Append(views.value[w], updates[k] + 1)
           /\ \A x \in Keys \cup ViewIds : x # w => views'.value[x] = views.value[x]
<1>1. PICK vs : vs = views
  OBVIOUS
<1>2. vs \in [alloc : SUBSET ViewIds, value : [Keys \cup ViewIds -> Seq(Nat)],
              users : [Keys \cup ViewIds -> SUBSET [owner : Frames, iter : 0..MaxIters]]]
  BY <1>1 DEF ViewsTyped
<1>3. Update(k, w, vs)
  BY <1>1
<1>4. updates'[k] = updates[k] + 1
  BY <1>2, <1>3, UpdateFacts
<1>5. \A j \in Keys : j # k => updates'[j] = updates[j]
  BY <1>2, <1>3, UpdateFacts
<1>6. views'.value[w] = Append(vs.value[w], updates[k] + 1)
  BY <1>2, <1>3, UpdateFacts
<1>7. \A x \in Keys \cup ViewIds : x # w => views'.value[x] = vs.value[x]
  <2>1. vs \in ViewsType
    BY <1>2 DEF ViewsType
  <2>2. OthersKept(w, vs)
    BY <1>3, <2>1, OthersNotUpdated
  <2>. QED
    BY <2>2 DEF OthersKept
<1>. QED
  BY <1>1, <1>4, <1>5, <1>6, <1>7

\* An update of a new view.
LEMMA UpdateOfNewView ==
    ASSUME Engine, ViewsTyped, NEW k \in Keys, NEW w \in ViewIds,
           updates[k] < MaxUpdates, Update(k, w, WithView(w))
    PROVE  /\ updates'[k] = updates[k] + 1
           /\ \A j \in Keys : j # k => updates'[j] = updates[j]
           /\ views'.value[w] = Append(<< >>, updates[k] + 1)
           /\ \A x \in Keys \cup ViewIds : x # w => views'.value[x] = views.value[x]
<1>1. PICK vs : vs = WithView(w)
  OBVIOUS
<1>2. vs \in [alloc : SUBSET ViewIds, value : [Keys \cup ViewIds -> Seq(Nat)],
              users : [Keys \cup ViewIds -> SUBSET [owner : Frames, iter : 0..MaxIters]]]
  BY <1>1, ViewAdded
<1>3. Update(k, w, vs)
  BY <1>1
<1>4. updates'[k] = updates[k] + 1
  BY <1>2, <1>3, UpdateFacts
<1>5. \A j \in Keys : j # k => updates'[j] = updates[j]
  BY <1>2, <1>3, UpdateFacts
<1>6. views'.value[w] = Append(vs.value[w], updates[k] + 1)
  BY <1>2, <1>3, UpdateFacts
<1>7. \A x \in Keys \cup ViewIds : x # w => views'.value[x] = vs.value[x]
  <2>1. vs \in ViewsType
    BY <1>2 DEF ViewsType
  <2>2. OthersKept(w, vs)
    BY <1>3, <2>1, OthersNotUpdated
  <2>. QED
    BY <2>2 DEF OthersKept
<1>8. vs.value[w] = << >> /\ \A x \in Keys \cup ViewIds : x # w => vs.value[x] = views.value[x]
  BY <1>1, ViewAdded
<1>. QED
  BY <1>4, <1>5, <1>6, <1>7, <1>8

\* The leftmost view is updated when no other view follows.
LEMMA SerialUpdateLeftmost ==
    ASSUME Engine, ViewsOK, ViewsTyped', Serial, NEW k \in Keys, Owned(k), UNCHANGED owner,
           updates[k] < MaxUpdates, UNCHANGED tables, Update(k, k, views),
           \A i \in Slots : Part(k, i) = << >>
    PROVE  Serial'
<1>1. ViewsTyped
  BY DEF ViewsOK
<1>2. /\ updates'[k] = updates[k] + 1
      /\ \A j \in Keys : j # k => updates'[j] = updates[j]
      /\ views'.value[k] = Append(views.value[k], updates[k] + 1)
      /\ \A x \in Keys \cup ViewIds : x # k => views'.value[x] = views.value[x]
  <2>1. PICK w \in Keys \cup ViewIds : w = k
    OBVIOUS
  <2>2. /\ updates'[k] = updates[k] + 1
        /\ \A j \in Keys : j # k => updates'[j] = updates[j]
        /\ views'.value[w] = Append(views.value[w], updates[k] + 1)
        /\ \A x \in Keys \cup ViewIds : x # w => views'.value[x] = views.value[x]
    BY <1>1, <2>1, UpdateOfView
  <2>. QED
    BY <2>1, <2>2
<1>3. Part(k, 0)' = Append(Part(k, 0), updates[k] + 1)
  BY <1>2 DEF Part
<1>4. ASSUME NEW i \in 0..MaxDepth, i # 0 PROVE Part(k, i)' = Part(k, i)
  <2>1. tables[i].view[k] # k \/ tables[i].view[k] \notin ViewIds
    BY KeysApart
  <2>. QED
    BY <1>2, <1>4, <2>1, KeysApart DEF Part
<1>5. \A i \in (0 + 1)..MaxDepth : Part(k, i) = << >>
  OBVIOUS
<1>6. ASSUME NEW j \in Keys, j # k PROVE Parts(j)' = Parts(j)
  <2>1. \A i \in Slots : tables[i].view[j] \in ViewIds => tables[i].view[j] # k
    BY KeysApart
  <2>. QED
    BY <1>2, <1>6, <2>1, SameParts
<1>7. 0 \in 0..MaxDepth
  OBVIOUS
<1>. QED
  BY <1>1, <1>2, <1>3, <1>4, <1>5, <1>6, <1>7, SerialUpdated

\* Another view is updated, in the last table.
LEMMA SerialUpdateView ==
    ASSUME Engine, ViewsOK, ViewsTyped', Serial, NEW k \in Keys, Owned(k), UNCHANGED owner,
           NEW s \in Slots, NEW w \in ViewIds,
           updates'[k] = updates[k] + 1, \A j \in Keys : j # k => updates'[j] = updates[j],
           \A i \in Slots, j \in Keys : i # s \/ j # k =>
              tables'[i].view[j] = tables[i].view[j] /\ tables[i].view[j] # w,
           tables'[s].view[k] = w,
           views'.value[w] = Append(Part(k, s), updates[k] + 1),
           \A x \in Keys \cup ViewIds : x # w => views'.value[x] = views.value[x],
           \A i \in (s + 1)..MaxDepth : Part(k, i) = << >>
    PROVE  Serial'
<1>1. ViewsTyped
  BY DEF ViewsOK
<1>2. Part(k, s)' = Append(Part(k, s), updates[k] + 1)
  <2>1. Part(k, s)' = views'.value[w]
    <3>1. s # 0
      OBVIOUS
    <3>. QED
      BY <3>1 DEF Part
  <2>. QED
    BY <2>1
<1>3. ASSUME NEW i \in 0..MaxDepth, i # s PROVE Part(k, i)' = Part(k, i)
  <2>1. CASE i = 0
    BY <2>1, KeysApart DEF Part
  <2>2. CASE i # 0
    <3>1. tables'[i].view[k] = tables[i].view[k] /\ tables[i].view[k] # w
      BY <1>3, <2>2
    <3>2. tables[i].view[k] \in ViewIds
             => views'.value[tables[i].view[k]] = views.value[tables[i].view[k]]
      BY <3>1
    <3>3. Part(k, i)' = IF tables'[i].view[k] \in ViewIds
                        THEN views'.value[tables'[i].view[k]] ELSE << >>
      BY <2>2 DEF Part
    <3>4. Part(k, i) = IF tables[i].view[k] \in ViewIds
                       THEN views.value[tables[i].view[k]] ELSE << >>
      BY <2>2 DEF Part
    <3>. QED
      BY <3>1, <3>2, <3>3, <3>4
  <2>. QED
    BY <2>1, <2>2
<1>4. ASSUME NEW j \in Keys, j # k PROVE Parts(j)' = Parts(j)
  <2>1. j # w
    BY KeysApart
  <2>. QED
    BY <1>4, <2>1, SameParts
<1>5. s \in 0..MaxDepth
  OBVIOUS
<1>. QED
  BY <1>1, <1>2, <1>3, <1>4, <1>5, SerialUpdated

\* A reducer is looked up: the update goes to the last view.
LEMMA SerialLookup ==
    ASSUME Engine, Declared, ViewsOK, ViewsOK', Serial, NEW k \in Keys, hyper_lookup(k)
    PROVE  Serial'
<1>1. UNCHANGED owner
  BY DEF hyper_lookup
<1>2. Owned(k) /\ updates[k] < MaxUpdates
  BY LookupKinds
<1>3. ViewsTyped /\ ViewsTyped' /\ ViewsHeld
  BY DEF ViewsOK
<1>4. depth \in 1..MaxDepth
  <2>1. TypeOK
    BY DEF Engine
  <2>. QED
    BY <2>1 DEF TypeOK
<1>5. CASE LooksUpLeftmost(k)
  <2>1. ~stealable /\ UNCHANGED tables /\ Update(k, k, views)
    BY <1>5 DEF LooksUpLeftmost
  <2>2. ASSUME NEW i \in Slots PROVE Part(k, i) = << >>
    <3>1. i > depth \/ i \in 1..depth
      BY <1>4
    <3>2. i > depth \/ frames[i].InContin = {}
      BY <2>1, <3>1, StealableSlot
    <3>. QED
      BY <3>2, NoTableNoPart
  <2>. QED
    BY <1>1, <1>2, <1>3, <2>1, <2>2, SerialUpdateLeftmost
<1>6. ASSUME stealable, NEW w \in ViewIds \cup {k},
             LooksUpView(k, ViewSlot, w) \/ MakesView(k, ViewSlot, w)
      PROVE  Serial'
  <2>1. PICK s \in Slots : s = ViewSlot
    BY <1>6, StealableSlot
  <2>2. s \in 1..depth /\ \A i \in (s + 1)..depth : frames[i].InContin = {}
    BY <1>6, <2>1, StealableSlot
  <2>3. ASSUME NEW i \in (s + 1)..MaxDepth PROVE Part(k, i) = << >>
    <3>1. i \in Slots /\ (i > depth \/ i \in (s + 1)..depth)
      BY <1>4, <2>2
    <3>2. i > depth \/ frames[i].InContin = {}
      BY <2>2, <3>1
    <3>. QED
      BY <3>1, <3>2, NoTableNoPart
  <2>4. ASSUME LooksUpView(k, s, k) PROVE Serial'
    <3>1. tables[s].view[k] = k /\ UNCHANGED tables /\ Update(k, k, views)
      BY <2>4 DEF LooksUpView
    <3>2. s = RegisteredAt(k)
      BY <1>2, <3>1 DEF ViewsOK, ViewsPlaced, PlacedAt
    <3>3. ASSUME NEW i \in Slots PROVE Part(k, i) = << >>
      <4>1. CASE i <= s
        BY <1>2, <3>2, <4>1, BelowRegistered
      <4>2. CASE i > s
        <5>1. i \in (s + 1)..MaxDepth
          BY <4>2
        <5>. QED
          BY <2>3, <5>1
      <4>. QED
        BY <4>1, <4>2
    <3>. QED
      BY <1>1, <1>2, <1>3, <3>1, <3>3, SerialUpdateLeftmost
  <2>5. ASSUME w \in ViewIds, LooksUpView(k, s, w) PROVE Serial'
    <3>1. tables[s].view[k] = w /\ UNCHANGED tables /\ Update(k, w, views)
      BY <2>5 DEF LooksUpView
    <3>2. /\ updates'[k] = updates[k] + 1
          /\ \A j \in Keys : j # k => updates'[j] = updates[j]
          /\ views'.value[w] = Append(views.value[w], updates[k] + 1)
          /\ \A x \in Keys \cup ViewIds : x # w => views'.value[x] = views.value[x]
      BY <1>2, <1>3, <2>5, <3>1, UpdateOfView
    <3>3. \A i \in Slots, j \in Keys : i # s \/ j # k => tables[i].view[j] # w
      BY <1>3, <2>5, <3>1 DEF ViewsHeld
    <3>4. Part(k, s) = views.value[w]
      <4>1. s # 0
        OBVIOUS
      <4>. QED
        BY <2>5, <3>1, <4>1 DEF Part
    <3>5. views'.value[w] = Append(Part(k, s), updates[k] + 1)
      BY <3>2, <3>4
    <3>6. /\ tables'[s].view[k] = w
          /\ \A i \in Slots, j \in Keys : i # s \/ j # k =>
                tables'[i].view[j] = tables[i].view[j] /\ tables[i].view[j] # w
      BY <3>1, <3>3
    <3>. QED
      BY <1>1, <1>2, <1>3, <2>3, <2>5, <3>2, <3>5, <3>6, SerialUpdateView
  <2>6. ASSUME MakesView(k, s, w) PROVE Serial'
    <3>1. /\ tables[s].view[k] = None /\ w \in ViewIds \ views.alloc
          /\ tables' = WithEntry(s, k, w) /\ Update(k, w, WithView(w))
      BY <2>6 DEF MakesView
    <3>2. /\ updates'[k] = updates[k] + 1
          /\ \A j \in Keys : j # k => updates'[j] = updates[j]
          /\ views'.value[w] = Append(<< >>, updates[k] + 1)
          /\ \A x \in Keys \cup ViewIds : x # w => views'.value[x] = views.value[x]
      BY <1>2, <1>3, <3>1, UpdateOfNewView
    <3>3. IsSet(tables', s, k, w)
      BY <1>3, <3>1, EntrySet
    <3>4. \A i \in Slots, j \in Keys : i # s \/ j # k =>
             tables'[i].view[j] = tables[i].view[j] /\ tables[i].view[j] # w
      <4>1. \A i \in Slots, j \in Keys : tables[i].view[j] # w
        BY <1>3, <3>1 DEF ViewsHeld
      <4>. QED
        BY <3>3, <4>1 DEF IsSet
    <3>5. tables'[s].view[k] = w
      BY <3>3 DEF IsSet
    <3>6. Part(k, s) = << >>
      BY <1>3, <3>1, EmptyPart
    <3>7. views'.value[w] = Append(Part(k, s), updates[k] + 1)
      BY <3>2, <3>6
    <3>8. w \in ViewIds
      BY <3>1
    <3>. QED
      BY <1>1, <1>2, <1>3, <2>3, <3>2, <3>4, <3>5, <3>7, <3>8, SerialUpdateView
  <2>. QED
    BY <1>6, <2>1, <2>4, <2>5, <2>6
<1>. QED
  BY <1>5, <1>6, LookupKinds

\* Where the head's view of reducer k goes: the leftmost view if table a holds
\* that one, table a otherwise.
Target(a, k) == IF LeftOf(a, k) = k THEN 0 ELSE a

\* The part of slot d is moved to the end of that of slot b.
PartMoves(b, d, k) ==
    /\ \A i \in 0..MaxDepth : i # b /\ i # d => Part(k, i)' = Part(k, i)
    /\ Part(k, d)' = << >>
    /\ Part(k, b)' = Part(k, b) \o Part(k, d)

\* The head's part is moved to the target.
LEMMA PartsMove ==
    ASSUME Engine, Declared, ViewsOK, ReducingStep, NEW a \in 0..(depth - 1), ReducedInto(a),
           NEW k \in Keys, Owned(k)
    PROVE  \E b \in {0, a}, d \in Slots : b = Target(a, k) /\ d = depth /\ PartMoves(b, d, k)
<1>1. /\ depth \in Slots /\ depth \in Nat /\ a \in Nat /\ a < depth /\ a # depth
      /\ a \in 0..MaxDepth /\ (a # 0 => a \in Slots)
  <2>1. TypeOK
    BY DEF Engine
  <2>2. depth \in Slots
    BY <2>1 DEF TypeOK
  <2>. QED
    BY <2>2
<1>2. ViewsTyped /\ ViewsHeld /\ ViewsPlaced
  BY DEF ViewsOK
<1>3. \A j \in Keys : tables[depth].view[j] \in {None} \cup ViewIds
  BY HeadHasNoLeftmost
<1>4. /\ \A i \in Slots \ {a, depth} : tables'[i] = tables[i]
      /\ tables'[depth] = NullTable
      /\ a # 0 => \A j \in Keys : tables'[a].view[j] = IF LeftOf(a, j) # None THEN LeftOf(a, j)
                                                       ELSE tables[depth].view[j]
      /\ \A j \in BothHold(a) : views'.value[LeftOf(a, j)]
                                   = views.value[LeftOf(a, j)] \o views.value[tables[depth].view[j]]
      /\ \A w \in Keys \cup ViewIds :
            (\A j \in BothHold(a) : LeftOf(a, j) # w) => views'.value[w] = views.value[w]
  BY DEF ReducedInto
<1>5. None \notin ViewIds /\ k \notin ViewIds /\ k # None
  BY KeysApart, ReducersAssumption DEF None, ViewIds
<1>6. \A j \in Keys : LeftOf(a, j) \in {None, j} \cup ViewIds
  <2>1. CASE a = 0
    BY <2>1 DEF LeftOf
  <2>2. CASE a # 0
    BY <1>1, <1>2, <2>2 DEF LeftOf, ViewsPlaced, PlacedAt
  <2>. QED
    BY <2>1, <2>2
<1>7. views.value \in [Keys \cup ViewIds -> Seq(Nat)]
  BY <1>2 DEF ViewsTyped
<1>8. \A w \in Keys \cup ViewIds :
         (\A j \in Keys : LeftOf(a, j) # w) => views'.value[w] = views.value[w]
  BY <1>4 DEF BothHold
<1>9. PICK w : w = tables[depth].view[k]
  OBVIOUS
<1>10. PICK x : x = LeftOf(a, k)
  OBVIOUS
<1>11. w \in {None} \cup ViewIds /\ x \in {None, k} \cup ViewIds
  BY <1>3, <1>6, <1>9, <1>10
<1>12. PICK q \in Seq(Nat) : q = Part(k, depth)
  <2>1. depth \in 0..MaxDepth
    BY <1>1
  <2>2. Parts(k) \in PartsType /\ Parts(k)[depth] = Part(k, depth)
    BY <1>2, <2>1, PartsAre
  <2>3. Parts(k)[depth] \in Seq(Nat)
    BY <2>1, <2>2 DEF PartsType
  <2>. QED
    BY <2>2, <2>3
<1>13. /\ w \in ViewIds => q = views.value[w]
       /\ w = None => q = << >>
  <2>1. depth # 0
    BY <1>1
  <2>. QED
    BY <1>5, <1>9, <1>12, <2>1 DEF Part
<1>0. PICK d \in Slots : d = depth
  BY <1>1
<1>14. Part(k, d)' = << >>
  <2>0. /\ depth' = depth /\ depth # 0
    BY <1>1, ReducingKeeps
  <2>1. tables'[depth].view[k] \notin ViewIds
    BY <1>4, <1>5 DEF NullTable
  <2>. QED
    BY <1>0, <2>0, <2>1 DEF Part
<1>15. /\ x # None /\ w # None => views'.value[x] = views.value[x] \o views.value[w]
       /\ x # None /\ w = None => views'.value[x] = views.value[x]
  <2>1. ASSUME x # None, w # None
        PROVE  views'.value[x] = views.value[x] \o views.value[w]
    <3>1. k \in BothHold(a)
      BY <1>9, <1>10, <2>1 DEF BothHold
    <3>. QED
      BY <1>4, <1>9, <1>10, <3>1
  <2>2. ASSUME x # None, w = None PROVE views'.value[x] = views.value[x]
    <3>1. \A j \in BothHold(a) : LeftOf(a, j) # x
      <4>1. ASSUME NEW j \in Keys, LeftOf(a, j) = x PROVE j = k
        BY <1>1, <1>10, <2>2, <4>1, LeftApart
      <4>2. k \notin BothHold(a)
        BY <1>9, <2>2 DEF BothHold
      <4>. QED
        BY <4>1, <4>2 DEF BothHold
    <3>2. x \in Keys \cup ViewIds
      BY <1>11, <2>2
    <3>. QED
      BY <1>4, <3>1, <3>2
  <2>. QED
    BY <2>1, <2>2
<1>16. x # k => views'.value[k] = views.value[k]
  <2>. SUFFICES ASSUME x # k PROVE views'.value[k] = views.value[k]
    OBVIOUS
  <2>1. \A j \in Keys : LeftOf(a, j) # k
    BY <1>5, <1>6, <1>10, KeysApart
  <2>. QED
    BY <1>8, <2>1
<1>17. ASSUME NEW i \in Slots, i # a, tables[i].view[k] \in ViewIds
       PROVE  views'.value[tables[i].view[k]] = views.value[tables[i].view[k]]
  <2>1. ASSUME NEW j \in Keys PROVE LeftOf(a, j) # tables[i].view[k]
    <3>1. CASE a = 0
      BY <1>17, <3>1, KeysApart DEF LeftOf
    <3>2. CASE a # 0
      BY <1>1, <1>2, <1>17, <3>2 DEF LeftOf, ViewsHeld
    <3>. QED
      BY <3>1, <3>2
  <2>. QED
    BY <1>8, <1>17, <2>1
<1>18. ASSUME NEW i \in Slots, i # a, i # depth PROVE Part(k, i)' = Part(k, i)
  <2>1. tables'[i].view[k] = tables[i].view[k] /\ i # 0
    BY <1>4, <1>18
  <2>. QED
    BY <1>17, <1>18, <2>1 DEF Part
<1>19. CASE x = k
  <2>1. Target(a, k) = 0
    BY <1>10, <1>19 DEF Target
  <2>2. Part(k, 0)' = Part(k, 0) \o q
    <3>1. views.value[k] \in Seq(Nat)
      BY <1>7
    <3>2. CASE w # None
      BY <1>5, <1>11, <1>13, <1>15, <1>19, <3>2 DEF Part
    <3>3. CASE w = None
      BY <1>5, <1>13, <1>15, <1>19, <3>1, <3>3, ConcatLaws DEF Part
    <3>. QED
      BY <3>2, <3>3
  <2>3. a # 0 => Part(k, a)' = Part(k, a)
    <3>1. a # 0 => tables[a].view[k] = k /\ tables'[a].view[k] = k
      BY <1>4, <1>5, <1>10, <1>19 DEF LeftOf
    <3>. QED
      BY <1>5, <3>1 DEF Part
  <2>4. ASSUME NEW i \in 0..MaxDepth, i # 0, i # depth PROVE Part(k, i)' = Part(k, i)
    <3>1. i \in Slots
      BY <2>4
    <3>. QED
      BY <1>18, <2>3, <2>4, <3>1
  <2>. QED
    <3>1. PartMoves(0, d, k)
      BY <1>0, <1>12, <1>14, <2>2, <2>4 DEF PartMoves
    <3>. QED
      BY <1>0, <2>1, <3>1
<1>20. CASE x # k
  <2>1. Target(a, k) = a /\ a # 0 /\ x = tables[a].view[k]
    BY <1>10, <1>20 DEF Target, LeftOf
  <2>2. Part(k, 0)' = Part(k, 0)
    BY <1>16, <1>20 DEF Part
  <2>3. Part(k, a)' = Part(k, a) \o q
    <3>1. tables'[a].view[k] = IF x # None THEN x ELSE w
      BY <1>4, <1>9, <1>10, <2>1
    <3>2. CASE x # None
      <4>1. x \in ViewIds
        BY <1>11, <1>20, <3>2
      <4>2. Part(k, a) = views.value[x] /\ Part(k, a)' = views'.value[x]
        BY <2>1, <3>1, <3>2, <4>1 DEF Part
      <4>3. views.value[x] \in Seq(Nat)
        BY <1>7, <4>1
      <4>4. CASE w # None
        BY <1>11, <1>13, <1>15, <3>2, <4>2, <4>4
      <4>5. CASE w = None
        <5>1. views'.value[x] = views.value[x]
          BY <1>15, <3>2, <4>5
        <5>. QED
          BY <1>13, <4>2, <4>3, <4>5, <5>1, ConcatLaws
      <4>. QED
        BY <4>4, <4>5
    <3>3. CASE x = None
      <4>1. Part(k, a) = << >>
        BY <1>5, <2>1, <3>3 DEF Part
      <4>2. Part(k, a)' = q
        <5>1. CASE w = None
          BY <1>5, <1>13, <2>1, <3>1, <3>3, <5>1 DEF Part
        <5>2. CASE w # None
          <6>1. w \in ViewIds
            BY <1>11, <5>2
          <6>2. views'.value[w] = views.value[w]
            BY <1>1, <1>9, <1>17, <6>1
          <6>. QED
            BY <1>13, <2>1, <3>1, <3>3, <6>1, <6>2 DEF Part
        <5>. QED
          BY <5>1, <5>2
      <4>. QED
        BY <4>1, <4>2, ConcatLaws
    <3>. QED
      BY <3>2, <3>3
  <2>4. ASSUME NEW i \in 0..MaxDepth, i # a, i # depth PROVE Part(k, i)' = Part(k, i)
    <3>1. i = 0 \/ i \in Slots
      OBVIOUS
    <3>. QED
      BY <1>18, <2>2, <2>4, <3>1
  <2>. QED
    <3>1. PartMoves(a, d, k)
      BY <1>0, <1>12, <1>14, <2>3, <2>4 DEF PartMoves
    <3>. QED
      BY <1>0, <2>1, <3>1
<1>. QED
  BY <1>19, <1>20

\* Reducing keeps the serial order.
LEMMA SerialReduce ==
    ASSUME Engine, Declared, ViewsOK, ViewsOK', Serial, ReducingStep
    PROVE  Serial'
<1>1. UNCHANGED <<owner, updates>>
  BY ReducingKeeps
<1>2. ViewsTyped /\ ViewsTyped'
  BY DEF ViewsOK
<1>3. depth \in Slots /\ depth \in Nat
  <2>1. TypeOK
    BY DEF Engine
  <2>2. depth \in Slots
    BY <2>1 DEF TypeOK
  <2>. QED
    BY <2>2
<1>4. CASE UNCHANGED <<tables, views>>
  <2>1. UNCHANGED hyper
    BY <1>1, <1>4 DEF hyper
  <2>. QED
    BY <2>1, SerialSame
<1>5. ASSUME NEW a \in 0..(depth - 1), ReducedInto(a), NEW k \in Keys, Owned(k)'
      PROVE  Folded(Parts(k), MaxDepth)' = Count(updates[k])'
  <2>1. Owned(k)
    BY <1>1, <1>5 DEF Owned
  <2>2. PICK b \in {0, a}, d \in Slots : b = Target(a, k) /\ d = depth /\ PartMoves(b, d, k)
    BY <1>5, <2>1, PartsMove
  <2>3. d \in 1..MaxDepth /\ b \in 0..(d - 1) /\ b \in 0..MaxDepth /\ d \in 0..MaxDepth
    BY <1>3, <2>2
  <2>4. PICK g \in PartsType : g = Parts(k)
    BY <1>2, PartsAre
  <2>5. \A i \in 0..MaxDepth : g[i] = Part(k, i)
    BY <1>2, <2>4, PartsAre
  <2>6. PICK h \in PartsType : h = Parts(k)'
    BY <1>2, PartsAreNext
  <2>7. \A i \in 0..MaxDepth : h[i] = Part(k, i)'
    BY <1>2, <2>6, PartsAreNext
  <2>8. h[b] = g[b] \o g[d] /\ h[d] = << >>
    BY <2>2, <2>3, <2>5, <2>7 DEF PartMoves
  <2>9. \A i \in 0..MaxDepth : i # b /\ i # d => h[i] = g[i]
    BY <2>2, <2>5, <2>7 DEF PartMoves
  <2>10. \A i \in (d + 1)..MaxDepth : g[i] = << >>
    <3>1. ASSUME NEW i \in (d + 1)..MaxDepth PROVE g[i] = << >>
      <4>1. i \in Slots /\ i > depth /\ i \in 0..MaxDepth
        BY <1>3, <2>2
      <4>2. Part(k, i) = << >>
        BY <4>1, NoTableNoPart
      <4>. QED
        BY <2>5, <4>1, <4>2
    <3>. QED
      BY <3>1
  <2>11. \A i \in (b + 1)..(d - 1) : g[i] = << >>
    <3>1. ASSUME NEW i \in (b + 1)..(d - 1) PROVE g[i] = << >>
      <4>1. i \in Slots /\ i \in 0..MaxDepth /\ i \in Nat /\ a \in Nat
        BY <1>3, <2>2, <2>3
      <4>2. CASE i > a
        <5>1. i \in (a + 1)..(depth - 1)
          BY <1>3, <2>2, <4>1, <4>2
        <5>2. frames[i].InContin = {}
          BY <1>5, <5>1 DEF ReducedInto
        <5>3. Part(k, i) = << >>
          BY <4>1, <5>2, NoTableNoPart
        <5>. QED
          BY <2>5, <4>1, <5>3
      <4>3. CASE i <= a
        <5>1. a # 0 /\ b = 0 /\ LeftOf(a, k) = k
          BY <2>2, <4>1, <4>3 DEF Target
        <5>2. a \in Slots /\ tables[a].view[k] = k
          BY <1>3, <5>1 DEF LeftOf
        <5>3. a = RegisteredAt(k)
          BY <2>1, <5>2 DEF ViewsOK, ViewsPlaced, PlacedAt
        <5>4. Part(k, i) = << >>
          BY <2>1, <4>1, <4>3, <5>3, BelowRegistered
        <5>. QED
          BY <2>5, <4>1, <5>4
      <4>. QED
        BY <4>1, <4>2, <4>3
    <3>. QED
      BY <3>1
  <2>12. Folded(h, MaxDepth) = Folded(g, MaxDepth)
    <3>1. Merged(g, h, b, d)
      BY <2>8, <2>9, <2>10, <2>11 DEF Merged
    <3>. QED
      BY <2>3, <2>4, <2>6, <3>1, FoldedMerge
  <2>. QED
    BY <1>1, <2>1, <2>4, <2>6, <2>12 DEF Serial
<1>6. ASSUME NEW a \in 0..(depth - 1), ReducedInto(a) PROVE Serial'
  BY <1>5, <1>6 DEF Serial
<1>. QED
  BY <1>4, <1>6, ReduceKinds

\* Every step keeps it.
LEMMA SerialKept ==
    ASSUME RInv, RInv', Serial, [ReducersNext]_rvars
    PROVE  Serial'
<1>1. Engine /\ Declared /\ ViewsOK /\ ViewsOK'
  BY DEF RInv
<1>2. CASE ReducingStep
  BY <1>1, <1>2, SerialReduce
<1>3. CASE UNCHANGED hyper
  BY <1>3, SerialSame
<1>4. ASSUME NEW k \in Keys, Hyper(k) PROVE Serial'
  BY <1>1, <1>4, SerialRegister, SerialUnregister, SerialLookup DEF Hyper
<1>5. UNCHANGED rvars => UNCHANGED hyper
  BY DEF rvars, hyper
<1>. QED
  BY <1>1, <1>2, <1>3, <1>4, <1>5, ReducersKinds DEF ReducingStep

\* reducer_lookup, create_reducer_view, reduce_local_views and
\* merge_two_hyper_tables ("being sure to preserve left-to-right ordering"): in
\* every program that registers no reducer while one of the frame's spawns is
\* open, the views of a reducer, from left to right, are the serial sequence of
\* its updates.
THEOREM UpdatesInSerialOrder ==
    ASSUME ~RegisterInContinuation
    PROVE  ReducersSpec => []SerialOrder
<1>1. RInv /\ Serial => SerialOrder
  <2>. SUFFICES ASSUME RInv, Serial, NEW k \in Keys, owner[k] # NoOwner
                PROVE  LeftToRight(k) = [n \in 1..updates[k] |-> n]
    BY DEF SerialOrder
  <2>1. Engine /\ ViewsOK /\ ViewsTyped
    BY DEF RInv, ViewsOK
  <2>2. depth \in 0..MaxDepth /\ depth \in Nat
    <3>1. TypeOK
      BY <2>1 DEF Engine
    <3>2. depth \in 1..MaxDepth
      BY <3>1 DEF TypeOK
    <3>. QED
      BY <3>2
  <2>3. LeftToRight(k) = Folded(Parts(k), depth)
    BY <2>1, <2>2, LeftToRightIs
  <2>4. PICK g \in PartsType : g = Parts(k)
    BY <2>1, PartsAre
  <2>5. \A i \in (depth + 1)..MaxDepth : g[i] = << >>
    <3>1. ASSUME NEW i \in (depth + 1)..MaxDepth PROVE g[i] = << >>
      <4>1. i \in Slots /\ i > depth /\ i \in 0..MaxDepth
        BY <2>2
      <4>. QED
        BY <2>1, <2>4, <4>1, NoTableNoPart, PartsAre
    <3>. QED
      BY <3>1
  <2>6. Folded(g, MaxDepth) = Folded(g, depth)
    <3>1. MaxDepth \in 0..MaxDepth
      OBVIOUS
    <3>. QED
      BY <2>2, <2>5, <3>1, FoldedEmpty
  <2>7. Folded(g, MaxDepth) = Count(updates[k])
    BY <2>4 DEF Serial, Owned
  <2>. QED
    BY <2>3, <2>4, <2>6, <2>7 DEF Count
<1>2. RInv /\ RInv' /\ Serial /\ [ReducersNext]_rvars => Serial'
  BY SerialKept
<1>3. ReducersSpec => []RInv
  BY ReducersInvariant
<1>. QED
  BY SerialInit, <1>1, <1>2, <1>3, PTL DEF ReducersSpec

-----------------------------------------------------------------------------
(***************************************************************************)
(* Parallel strands have views of their own.  First the marks of a frame:  *)
(* what it has outstanding is marked in InContin.                          *)
(***************************************************************************)
\* A task that is outstanding and no longer running is marked in the frame
\* that spawned it, but for the moment before its continuation; so is a loop
\* that is outstanding, but for the moment before the sync that follows it.
OpenMarked ==
    \A i \in 1..depth, c \in 1..frame_id, q \in Regs :
        Open(c, i, q) /\ (i < depth => frames[i + 1].fid # c)
        => \/ q + 1 \in frames[i].InContin
           \/ i = depth /\ pc = "continue" /\ q = sync_reg
           \/ i = depth /\ tree[c].type = "loop"

\* A loop past its first iteration is marked, but for the time between
\* iterations.
IterationMarked ==
    \A i \in 1..depth :
        frames[i].type = "loop" /\ frames[i].iter # 0
          => Loop \in frames[i].InContin \/ (i = depth /\ pc = "between")

\* A frame's children were born in iterations up to the present one.
BornBefore ==
    \A i \in 1..depth, c \in 1..frame_id :
        tree[c].level = i + 1 /\ tree[c].path[i] = frames[i].fid
          => tree[c].iter <= frames[i].iter

Marks == OpenMarked /\ IterationMarked /\ BornBefore

\* The kinds of steps, with the guards that reducers add.
LEMMA SyncedKinds ==
    ASSUME [ReducersNext]_rvars
    PROVE  \/ Push /\ UNCHANGED hyper /\ LoopSynced /\ pc \in {"body", "newloop"}
           \/ /\ Pop /\ UNCHANGED hyper
              /\ do_loop_end \/ MayEnd
           \/ ReducingStep
           \/ do_loop_begin /\ UNCHANGED hyper
           \/ do_loop_iteration_begin /\ UNCHANGED hyper
           \/ \E k \in Keys : Hyper(k)
           \/ UNCHANGED rvars
<1>1. ASSUME NEW n \in SyncRegCounts, Plain(do_enter(n))
      PROVE  Push /\ UNCHANGED hyper /\ LoopSynced /\ pc \in {"body", "newloop"}
  <2>1. n \in 0..MaxRegs /\ 0 \in Regs
    OBVIOUS
  <2>2. CanPush /\ start_new_function("spawner", n, 0) /\ pc' = "body" /\ pc = "body"
    BY <1>1 DEF Plain, do_enter
  <2>3. Push
    BY <2>1, <2>2 DEF Push
  <2>. QED
    BY <1>1, <2>2, <2>3 DEF Plain
<1>2. ASSUME NEW n \in SyncRegCounts, NEW r \in Regs, Plain(do_task(n, r))
      PROVE  Push /\ UNCHANGED hyper /\ LoopSynced /\ pc \in {"body", "newloop"}
  <2>1. n \in 0..MaxRegs
    OBVIOUS
  <2>2. CanPush /\ start_new_function("detacher", n, r) /\ pc' = "body" /\ pc = "body"
    BY <1>2 DEF Plain, do_task
  <2>3. Push
    BY <2>1, <2>2 DEF Push
  <2>. QED
    BY <1>2, <2>2, <2>3 DEF Plain
<1>3. ASSUME NEW n \in SyncRegCounts, NEW r \in Regs, Plain(do_loop_iteration_first(n, r))
      PROVE  Push /\ UNCHANGED hyper /\ LoopSynced /\ pc \in {"body", "newloop"}
  <2>1. (IF n > 0 THEN n ELSE 1) \in 0..MaxRegs
    OBVIOUS
  <2>2. /\ start_new_function("loop", IF n > 0 THEN n ELSE 1, r)
        /\ pc' = "body" /\ CanPush /\ pc = "newloop"
    BY <1>3 DEF Plain, do_loop_iteration_first
  <2>3. Push
    BY <2>1, <2>2 DEF Push
  <2>. QED
    BY <1>3, <2>2, <2>3 DEF Plain
<1>4. CASE Control
  BY <1>1, <1>2, <1>3, <1>4 DEF Control, Plain, Pop, ReducingStep
<1>. QED
  BY <1>4 DEF ReducersNext

\* Initially nothing is outstanding.
LEMMA MarksInit == Init => Marks
<1>. SUFFICES ASSUME Init PROVE Marks
  OBVIOUS
<1>1. depth = 1 /\ frame_id = 0 /\ frames[1] = [ResetFrame EXCEPT !.sds = 1]
  BY DEF Init
<1>2. frames[1].type = "none"
  BY <1>1 DEF ResetFrame
<1>3. (\A c \in 1..frame_id : FALSE) /\ \A i \in 1..depth : i = 1
  BY <1>1
<1>. QED
  BY <1>2, <1>3 DEF Marks, OpenMarked, IterationMarked, BornBefore

\* Types that the proofs below use.
LEMMA EngineTypes ==
    ASSUME Engine
    PROVE  /\ TypeOK /\ Shape /\ InTree /\ LoopsApart
           /\ depth \in Slots /\ depth \in Nat /\ depth \in 1..depth /\ frame_id \in Nat
           /\ frame_id \in Frames /\ sync_reg \in 0..(MaxRegs - 1)
           /\ head = frames[depth] /\ frames \in [Slots -> FrameData]
<1>1. TypeOK /\ Shape /\ InTree /\ LoopsApart
  BY DEF Engine
<1>2. depth \in Slots /\ frame_id \in Frames /\ sync_reg \in Regs
      /\ frames \in [Slots -> FrameData]
  BY <1>1 DEF TypeOK
<1>. QED
  BY <1>1, <1>2 DEF head

\* A path names frames that are there.
LEMMA PathOld ==
    ASSUME Engine, NEW f \in 0..frame_id, NEW i \in 1..tree[f].level
    PROVE  /\ tree[f].path[i] \in 0..frame_id /\ tree[f].level \in Slots
           /\ tree[tree[f].path[i]].level = i
           /\ \A j \in 1..i : tree[tree[f].path[i]].path[j] = tree[f].path[j]
           /\ i <= depth /\ tree[f].path[i] = frames[i].fid
                => \A j \in 1..i : tree[f].path[j] = frames[j].fid
  BY DEF Engine, InTree, PathsAgree

\* A frame on the stack.
LEMMA StackFrame ==
    ASSUME Engine, NEW i \in 1..depth
    PROVE  /\ frames[i].fid \in 0..frame_id /\ frames[i].fid \notin joined
           /\ tree[frames[i].fid].level = i
           /\ tree[frames[i].fid].type = frames[i].type
           /\ i > 1 => tree[frames[i].fid].iter = frames[i - 1].iter
           /\ \A j \in 1..i : tree[frames[i].fid].path[j] = frames[j].fid
<1>1. /\ frames[i].fid \in 0..frame_id /\ frames[i].fid \notin joined
      /\ tree[frames[i].fid].level = i
      /\ tree[frames[i].fid].type = frames[i].type
      /\ i > 1 => tree[frames[i].fid].iter = frames[i - 1].iter
  BY DEF Engine, InTree, OnStack
<1>2. tree[frames[i].fid].path[i] = frames[i].fid
  BY <1>1 DEF Engine, InTree, PathsAgree
<1>. PICK f : f = frames[i].fid
  OBVIOUS
<1>3. i \in 1..tree[f].level /\ f \in 0..frame_id
  BY <1>1
<1>4. \A j \in 1..i : tree[f].path[j] = frames[j].fid
  BY <1>1, <1>2, <1>3, PathOld
<1>. QED
  BY <1>1, <1>4

\* A push.
LEMMA MarksPush ==
    ASSUME Engine, Marks, Push, LoopSynced, pc \in {"body", "newloop"}
    PROVE  Marks'
<1>1. /\ TypeOK /\ depth \in Nat /\ frame_id \in Nat /\ depth \in 1..depth /\ depth \in Slots
      /\ frames \in [Slots -> FrameData]
  BY EngineTypes
<1>. PICK type \in {"spawner", "detacher", "loop"}, n \in 0..MaxRegs, r \in Regs :
         CanPush /\ start_new_function(type, n, r) /\ pc' = "body"
  BY DEF Push
<1>. PICK g : g = frame_id + 1
  OBVIOUS
<1>2. /\ depth' = depth + 1 /\ frame_id' = g /\ joined' = joined /\ pc' = "body"
      /\ \A i \in 1..depth : frames'[i] = frames[i]
      /\ \A f \in 0..frame_id : tree'[f] = tree[f]
  BY <1>1, PushMarks
<1>3. /\ tree'[g].level = depth + 1 /\ tree'[g].iter = frames[depth].iter
      /\ \A i \in 1..depth : tree'[g].path[i] = frames[i].fid
      /\ frames'[depth + 1].fid = g /\ frames'[depth + 1].iter = 0
  <2>1. frames'[depth + 1] = NewFrame(type, n)
    BY <1>1, PushFacts
  <2>2. frames'[depth + 1].iter = 0
    BY <2>1 DEF NewFrame
  <2>. QED
    BY <1>1, <2>2, PushTree
\* A child of a frame on the stack is one from before, or the new frame.
<1>4. ASSUME NEW i \in 1..depth', NEW c \in 1..frame_id', tree'[c].level = i + 1,
             tree'[c].path[i] = frames'[i].fid
      PROVE  \/ i \in 1..depth /\ c \in 1..frame_id
             \/ i = depth /\ c = g
  <2>1. CASE c = g
    BY <1>1, <1>3, <1>4, <2>1
  <2>2. CASE c # g
    <3>1. c \in 1..frame_id /\ c \in 0..frame_id /\ tree'[c] = tree[c]
      BY <1>1, <1>2, <2>2
    <3>2. i # depth + 1
      <4>. SUFFICES ASSUME i = depth + 1 PROVE FALSE
        OBVIOUS
      <4>1. i \in 1..tree[c].level
        BY <1>1, <1>4, <3>1
      <4>2. tree[c].path[i] \in 0..frame_id
        BY <3>1, <4>1, PathOld
      <4>3. tree[c].path[i] = g
        BY <1>3, <1>4, <3>1
      <4>. QED
        BY <1>1, <4>2, <4>3
    <3>. QED
      BY <1>1, <1>2, <3>1, <3>2
  <2>. QED
    BY <2>1, <2>2
<1>5. OpenMarked'
  <2>. SUFFICES ASSUME NEW i \in 1..depth', NEW c \in 1..frame_id', NEW q \in Regs,
                       Open(c, i, q)', i < depth' => frames'[i + 1].fid # c
                PROVE  q + 1 \in frames'[i].InContin
    BY DEF OpenMarked
  <2>1. /\ tree'[c].level = i + 1 /\ tree'[c].path[i] = frames'[i].fid /\ tree'[c].reg = q
        /\ tree'[c].type # "spawner" /\ c \notin joined
    BY <1>2 DEF Open
  <2>2. ~(i = depth /\ c = g)
    BY <1>1, <1>2, <1>3
  <2>3. i \in 1..depth /\ c \in 1..frame_id
    BY <1>4, <2>1, <2>2
  <2>4. c \in 0..frame_id /\ tree'[c] = tree[c] /\ frames'[i] = frames[i]
    BY <1>1, <1>2, <2>3
  <2>5. Open(c, i, q)
    BY <2>1, <2>4 DEF Open
  <2>6. i < depth => frames[i + 1].fid # c
    <3>. SUFFICES ASSUME i < depth PROVE frames[i + 1].fid # c
      OBVIOUS
    <3>1. i + 1 \in 1..depth /\ i < depth'
      BY <1>1, <1>2, <2>3
    <3>. QED
      BY <1>2, <3>1
  <2>7. ~(i = depth /\ tree[c].type = "loop")
    <3>. SUFFICES ASSUME i = depth, tree[c].type = "loop" PROVE FALSE
      OBVIOUS
    <3>1. tree[c].level = depth + 1 /\ tree[c].path[depth] = head.fid
      BY <2>5 DEF Open, head
    <3>. QED
      BY <2>1, <2>3, <3>1 DEF LoopSynced
  <2>. QED
    BY <2>3, <2>4, <2>5, <2>6, <2>7 DEF Marks, OpenMarked
<1>6. IterationMarked'
  <2>. SUFFICES ASSUME NEW i \in 1..depth', frames'[i].type = "loop", frames'[i].iter # 0
                PROVE  Loop \in frames'[i].InContin
    BY DEF IterationMarked
  <2>1. i \in 1..depth /\ frames'[i] = frames[i]
    BY <1>1, <1>2, <1>3
  <2>. QED
    BY <2>1 DEF Marks, IterationMarked
<1>7. BornBefore'
  <2>. SUFFICES ASSUME NEW i \in 1..depth', NEW c \in 1..frame_id',
                       tree'[c].level = i + 1, tree'[c].path[i] = frames'[i].fid
                PROVE  tree'[c].iter <= frames'[i].iter
    BY DEF BornBefore
  <2>1. CASE i \in 1..depth /\ c \in 1..frame_id
    <3>1. c \in 0..frame_id /\ tree'[c] = tree[c] /\ frames'[i] = frames[i]
      BY <1>1, <1>2, <2>1
    <3>. QED
      BY <2>1, <3>1 DEF Marks, BornBefore
  <2>2. CASE i = depth /\ c = g
    <3>1. frames[depth] \in FrameData /\ frames[depth].iter \in Nat
      <4>1. frames[depth] \in FrameData
        BY <1>1
      <4>. QED
        <5>1. frames[depth].iter \in 0..MaxIters
          BY <4>1, FrameFields
        <5>. QED
          BY <4>1, <5>1
    <3>. QED
      BY <1>1, <1>2, <1>3, <2>2, <3>1
  <2>. QED
    BY <1>4, <2>1, <2>2
<1>. QED
  BY <1>5, <1>6, <1>7 DEF Marks

\* The head is a child of the frame under it.
LEMMA HeadIsChild ==
    ASSUME Engine, depth > 1
    PROVE  /\ head.fid \in 1..frame_id /\ head.fid \notin joined
           /\ tree[head.fid].level = (depth - 1) + 1
           /\ tree[head.fid].path[depth - 1] = frames[depth - 1].fid
           /\ tree[head.fid].type = head.type
           /\ tree[head.fid].iter = frames[depth - 1].iter
           /\ tree[head.fid].reg \in Regs
<1>1. /\ TypeOK /\ InTree /\ depth \in 1..depth /\ depth \in Nat /\ head = frames[depth]
      /\ frame_id \in Nat /\ frame_id \in Frames /\ depth - 1 \in 1..depth
  BY EngineTypes
<1>. PICK f : f = head.fid
  OBVIOUS
<1>2. /\ f \in 0..frame_id /\ f \notin joined /\ tree[f].level = depth
      /\ tree[f].type = head.type /\ tree[f].iter = frames[depth - 1].iter
      /\ tree[f].path[depth - 1] = frames[depth - 1].fid
  BY <1>1, StackFrame
<1>3. f # 0
  BY <1>1, <1>2 DEF InTree
<1>4. f \in Frames /\ tree[f].reg \in Regs
  <2>1. f \in Frames
    BY <1>1, <1>2
  <2>. QED
    BY <1>1, <2>1 DEF TypeOK
<1>. QED
  BY <1>1, <1>2, <1>3, <1>4

\* What a pop leads to: a task's continuation, a loop's sync, or neither after
\* a call.
LEMMA PopEnds ==
    ASSUME Engine, Pop
    PROVE  \/ head.type = "spawner"
           \/ pc' = "continue" /\ sync_reg' = tree[head.fid].reg
           \/ head.type = "loop"
<1>1. pc = "between" => head.type = "loop"
  BY DEF Engine, Shape
<1>. QED
  BY <1>1 DEF Pop, leave_cilk_function, return_from_detach, do_loop_end

\* A pop.
LEMMA MarksPop ==
    ASSUME Engine, Marks, Pop
    PROVE  Marks'
<1>1. /\ TypeOK /\ Shape /\ depth \in Nat /\ frame_id \in Nat /\ depth \in 1..depth
      /\ head = frames[depth]
  BY EngineTypes
<1>2. /\ depth > 1 /\ depth' = depth - 1 /\ pc' # "between"
      /\ \A i \in 1..depth' : frames'[i].InContin = frames[i].InContin
  BY <1>1, PopFacts
<1>3. /\ frame_id' = frame_id /\ joined' = joined /\ tree' = tree
      /\ \A i \in 1..depth' :
            /\ frames'[i].type = frames[i].type /\ frames'[i].fid = frames[i].fid
            /\ frames'[i].iter = frames[i].iter
  BY <1>1, PopTree
<1>4. \A i \in 1..depth' : i \in 1..depth /\ i < depth
  BY <1>1, <1>2
<1>5. OpenMarked'
  <2>. SUFFICES ASSUME NEW i \in 1..depth', NEW c \in 1..frame_id, NEW q \in Regs,
                       Open(c, i, q)', i < depth' => frames'[i + 1].fid # c
                PROVE  \/ q + 1 \in frames'[i].InContin
                       \/ i = depth' /\ pc' = "continue" /\ q = sync_reg'
                       \/ i = depth' /\ tree[c].type = "loop"
    BY <1>3 DEF OpenMarked
  <2>1. Open(c, i, q) /\ i \in 1..depth /\ i < depth
    BY <1>3, <1>4 DEF Open
  <2>2. CASE frames[i + 1].fid # c
    <3>1. q + 1 \in frames[i].InContin
      BY <2>1, <2>2 DEF Marks, OpenMarked
    <3>. QED
      BY <1>2, <3>1
  <2>3. CASE frames[i + 1].fid = c
    <3>1. i = depth'
      <4>. SUFFICES ASSUME i # depth' PROVE FALSE
        OBVIOUS
      <4>1. i < depth' /\ i + 1 \in 1..depth'
        BY <1>1, <1>2
      <4>. QED
        BY <1>3, <2>3, <4>1
    <3>2. c = head.fid
      BY <1>1, <1>2, <2>3, <3>1
    <3>3. tree[c].type # "spawner" /\ tree[c].reg = q
      BY <2>1 DEF Open
    <3>4. tree[c].type = head.type
      BY <1>2, <3>2, HeadIsChild
    <3>. QED
      BY <3>1, <3>2, <3>3, <3>4, PopEnds
  <2>. QED
    BY <2>2, <2>3
<1>6. IterationMarked'
  BY <1>2, <1>3, <1>4 DEF Marks, IterationMarked
<1>7. BornBefore'
  BY <1>3, <1>4 DEF Marks, BornBefore
<1>. QED
  BY <1>5, <1>6, <1>7 DEF Marks

\* What is outstanding stays so under a step of the head, and the other frames
\* keep their marks.
LEMMA OpenBefore ==
    ASSUME tree' = tree, joined \subseteq joined', NEW i \in Slots, NEW c, NEW q,
           \A j \in Slots : frames'[j].fid = frames[j].fid, Open(c, i, q)'
    PROVE  Open(c, i, q)
  BY DEF Open

\* A step of the head.
LEMMA MarksHead ==
    ASSUME Engine, Marks, HeadStep
    PROVE  Marks'
<1>1. /\ TypeOK /\ LoopsApart /\ Shape /\ depth \in Nat /\ frame_id \in Nat /\ depth \in 1..depth
      /\ depth \in Slots /\ head = frames[depth] /\ sync_reg \in 0..(MaxRegs - 1)
      /\ frames[depth] \in FrameData /\ frames \in [Slots -> FrameData]
  BY EngineTypes
<1>2. /\ depth' = depth /\ frame_id' = frame_id /\ tree' = tree
      /\ \A i \in Slots :
            /\ frames'[i].type = frames[i].type /\ frames'[i].fid = frames[i].fid
            /\ i # depth => frames'[i] = frames[i]
  BY HeadStepFacts
<1>3. \A i \in 1..depth : i \in Slots
  BY <1>1
<1>4. joined \subseteq joined'
  BY DEF HeadStep, do_detach_continue, do_sync, do_loop_iteration_end, do_loop_iteration_begin
<1>5. \/ frames'[depth].iter = frames[depth].iter
      \/ do_loop_iteration_end /\ frames'[depth].iter = frames[depth].iter + 1 /\ pc' = "between"
  <2>1. CASE do_loop_iteration_end
    BY <1>1, <2>1, IterationTree
  <2>2. CASE HeadOnly
    BY <1>1, <2>2, HeadTree
  <2>. QED
    BY <2>1, <2>2 DEF HeadStep, HeadOnly
<1>6. frames[depth].iter \in Nat
  BY <1>1 DEF FrameData
<1>7. OpenMarked'
  <2>. SUFFICES ASSUME NEW i \in 1..depth, NEW c \in 1..frame_id, NEW q \in Regs,
                       Open(c, i, q)', i < depth => frames'[i + 1].fid # c
                PROVE  \/ q + 1 \in frames'[i].InContin
                       \/ i = depth /\ pc' = "continue" /\ q = sync_reg'
                       \/ i = depth /\ tree[c].type = "loop"
    BY <1>2 DEF OpenMarked
  <2>1. Open(c, i, q)
    BY <1>2, <1>3, <1>4, OpenBefore
  <2>2. i < depth => frames[i + 1].fid # c
    <3>1. i < depth => i + 1 \in Slots
      BY <1>1
    <3>. QED
      BY <1>2, <3>1
  <2>3. \/ q + 1 \in frames[i].InContin
        \/ i = depth /\ pc = "continue" /\ q = sync_reg
        \/ i = depth /\ tree[c].type = "loop"
    BY <2>1, <2>2 DEF Marks, OpenMarked
  <2>4. CASE i # depth
    BY <1>2, <1>3, <2>3, <2>4
  <2>5. CASE i = depth
    <3>1. q + 1 # Loop
      OBVIOUS
    <3>2. CASE do_detach_continue
      BY <1>1, <2>3, <2>5, <3>2, HeadContin
    <3>3. ASSUME NEW r \in Regs, do_sync(r) PROVE q + 1 \in frames'[i].InContin \/ tree[c].type = "loop"
      <4>1. q # r
        <5>1. joined' = joined \cup Joining(r) /\ c \notin joined'
          BY <3>3 DEF do_sync, Open
        <5>2. /\ tree[c].level = depth + 1 /\ tree[c].path[depth] = head.fid
              /\ tree[c].reg = q /\ tree[c].type # "spawner"
          BY <1>1, <2>1, <2>5 DEF Open
        <5>. QED
          BY <5>1, <5>2 DEF Joining
      <4>2. frames'[depth].InContin = head.InContin \ {r + 1} /\ pc = "body"
        BY <1>1, <3>3, HeadContin DEF do_sync
      <4>3. q + 1 # r + 1
        BY <4>1
      <4>. QED
        BY <1>1, <2>3, <2>5, <4>2, <4>3
    <3>4. CASE do_loop_iteration_end
      <4>1. frames'[depth].InContin = head.InContin \ {Loop} /\ pc = "body"
        BY <1>1, <3>4, HeadContin DEF do_loop_iteration_end
      <4>. QED
        BY <1>1, <2>3, <2>5, <3>1, <4>1
    <3>5. CASE do_loop_iteration_begin
      <4>1. frames'[depth].InContin = head.InContin \cup {Loop} /\ pc = "between"
        BY <1>1, <3>5, HeadContin DEF do_loop_iteration_begin
      <4>. QED
        BY <1>1, <2>3, <2>5, <4>1
    <3>. QED
      BY <2>5, <3>2, <3>3, <3>4, <3>5 DEF HeadStep
  <2>. QED
    BY <2>4, <2>5
<1>8. IterationMarked'
  <2>. SUFFICES ASSUME NEW i \in 1..depth, frames'[i].type = "loop", frames'[i].iter # 0
                PROVE  Loop \in frames'[i].InContin \/ (i = depth /\ pc' = "between")
    BY <1>2 DEF IterationMarked
  <2>1. CASE i # depth
    BY <1>2, <1>3, <2>1 DEF Marks, IterationMarked
  <2>2. CASE i = depth
    <3>1. CASE do_loop_iteration_end
      BY <1>1, <2>2, <3>1, IterationTree
    <3>2. CASE ~do_loop_iteration_end
      <4>1. frames[depth].type = "loop" /\ frames[depth].iter # 0
        BY <1>2, <1>5, <1>1, <2>2, <3>2
      <4>2. Loop \in frames[depth].InContin \/ pc = "between"
        BY <1>1, <4>1 DEF Marks, IterationMarked
      <4>3. CASE do_detach_continue
        <5>1. frames'[depth].InContin = head.InContin \cup {sync_reg + 1} /\ pc = "continue"
          BY <1>1, <4>3, HeadContin DEF do_detach_continue
        <5>. QED
          BY <1>1, <2>2, <4>2, <5>1
      <4>4. ASSUME NEW r \in Regs, do_sync(r) PROVE Loop \in frames'[depth].InContin
        <5>1. frames'[depth].InContin = head.InContin \ {r + 1} /\ pc = "body"
          BY <1>1, <4>4, HeadContin DEF do_sync
        <5>2. r + 1 # Loop
          OBVIOUS
        <5>. QED
          BY <1>1, <4>2, <5>1, <5>2
      <4>5. CASE do_loop_iteration_begin
        BY <1>1, <2>2, <4>5, HeadContin
      <4>. QED
        BY <2>2, <3>2, <4>3, <4>4, <4>5 DEF HeadStep
    <3>. QED
      BY <3>1, <3>2
  <2>. QED
    BY <2>1, <2>2
<1>9. BornBefore'
  <2>. SUFFICES ASSUME NEW i \in 1..depth, NEW c \in 1..frame_id,
                       tree[c].level = i + 1, tree[c].path[i] = frames'[i].fid
                PROVE  tree[c].iter <= frames'[i].iter
    BY <1>2 DEF BornBefore
  <2>1. tree[c].iter <= frames[i].iter
    BY <1>2, <1>3 DEF Marks, BornBefore
  <2>2. CASE i # depth
    BY <1>2, <1>3, <2>1, <2>2
  <2>3. CASE i = depth
    <3>1. tree[c].iter \in Nat
      <4>1. c \in Frames
        <5>1. frame_id \in Frames
          BY EngineTypes
        <5>. QED
          BY <5>1
      <4>. QED
        BY <1>1, <4>1 DEF TypeOK
    <3>. QED
      BY <1>5, <1>6, <2>1, <2>3, <3>1
  <2>. QED
    BY <2>2, <2>3
<1>. QED
  BY <1>7, <1>8, <1>9 DEF Marks

\* A step that leaves the stack and the tree.
LEMMA MarksSame ==
    ASSUME Marks, UNCHANGED <<depth, frames, frame_id, tree, joined, sync_reg>>,
           pc' = pc \/ (pc = "body" /\ pc' = "newloop")
    PROVE  Marks'
<1>1. OpenMarked'
  BY DEF Marks, OpenMarked, Open
<1>2. IterationMarked'
  BY DEF Marks, IterationMarked
<1>3. BornBefore'
  BY DEF Marks, BornBefore
<1>. QED
  BY <1>1, <1>2, <1>3 DEF Marks

\* Every step keeps the marks.
LEMMA MarksStep ==
    ASSUME Engine, Marks, [ReducersNext]_rvars
    PROVE  Marks'
<1>1. CASE HeadStep
  BY <1>1, MarksHead
<1>2. ReducingStep \/ do_loop_iteration_begin => HeadStep
  BY DEF ReducingStep, Reducing, HeadStep
<1>3. CASE do_loop_begin
  BY <1>3, MarksSame DEF do_loop_begin
<1>4. ASSUME NEW k \in Keys, Hyper(k) PROVE Marks'
  BY <1>4, MarksSame DEF Hyper, register, unregister, hyper_lookup, SameEngine
<1>5. CASE UNCHANGED rvars
  BY <1>5, MarksSame DEF rvars, vars
<1>. QED
  BY <1>1, <1>2, <1>3, <1>4, <1>5, MarksPush, MarksPop, SyncedKinds

(***************************************************************************)
(* Then the strands that have used a view: where in the tree they are.     *)
(***************************************************************************)
Users == [owner : Frames, iter : 0..MaxIters]

\* Below slot i, the youngest common frame, a is parallel to the strand.
ParallelAt(a, i) ==
    Outstanding(a, i) \/ (is_loop_frame(i) /\ IterOf(a, i) # frames[i].iter)

\* Strand a ran under the frame in slot i.
Under(a, i) == i \in 1..tree[a.owner].level /\ tree[a.owner].path[i] = frames[i].fid

\* Strand a is one of the past.
UserKnown(a) ==
    /\ a.owner \in 0..frame_id
    /\ \A i \in 1..depth : frames[i].fid = a.owner => a.iter <= frames[i].iter

\* A task of the head has returned and its continuation has not begun, or a
\* loop has ended and its sync has not come.
Ending(i) == i = depth /\ (pc = "continue" \/ ~LoopSynced)

\* What is true of the users of a view in the table of slot i.
UserOf(a, i) == Under(a, i) /\ (IsLCA(a, i) /\ ~Ending(i) => ~ParallelAt(a, i))

\* What is true of the users of a leftmost view declared by slot d.
UserOfLeftmost(a, d) ==
    Under(a, d) /\ (is_loop_frame(d) => IterOf(a, d) = frames[d].iter)

\* Logical parallelism is decided below the youngest common frame.
LEMMA ParallelIsAt ==
    ASSUME NEW a, LogicallyParallel(a)
    PROVE  \E i \in 1..depth : IsLCA(a, i) /\ ParallelAt(a, i)
<1>1. PICK i \in 1..depth :
         /\ IsLCA(a, i)
         /\ IF tree[a.owner].level = i THEN is_loop_frame(i) /\ a.iter # frames[i].iter
            ELSE \/ /\ tree[tree[a.owner].path[i + 1]].type # "spawner"
                    /\ tree[a.owner].path[i + 1] \notin joined
                 \/ is_loop_frame(i) /\ tree[tree[a.owner].path[i + 1]].iter # frames[i].iter
  BY DEF LogicallyParallel
<1>. QED
  BY <1>1 DEF ParallelAt, Outstanding, IterOf, ChildOf

\* The child of the youngest common frame.
LEMMA ChildBelow ==
    ASSUME Engine, NEW a, a.owner \in 0..frame_id, NEW i \in 1..depth, Under(a, i),
           tree[a.owner].level # i
    PROVE  /\ ChildOf(a, i) \in 1..frame_id /\ tree[ChildOf(a, i)].level = i + 1
           /\ tree[ChildOf(a, i)].path[i] = frames[i].fid
           /\ tree[ChildOf(a, i)].reg \in Regs /\ tree[ChildOf(a, i)].iter \in Nat
<1>1. TypeOK /\ InTree /\ depth \in Nat /\ frame_id \in Nat /\ frame_id \in Frames
  BY EngineTypes
<1>. PICK f : f = a.owner
  OBVIOUS
<1>2. /\ f \in 0..frame_id /\ i \in 1..tree[f].level /\ tree[f].path[i] = frames[i].fid
      /\ tree[f].level # i
  BY DEF Under
<1>3. tree[f].level \in 1..MaxDepth
  BY <1>2, PathOld
<1>4. i + 1 \in 1..tree[f].level /\ i \in 1..(i + 1)
  BY <1>1, <1>2, <1>3
<1>. PICK c : c = tree[f].path[i + 1]
  OBVIOUS
<1>5. c \in 0..frame_id /\ tree[c].level = i + 1 /\ tree[c].path[i] = tree[f].path[i]
  BY <1>2, <1>4, PathOld
<1>6. c # 0
  <2>1. i + 1 # 1
    BY <1>1
  <2>. QED
    BY <1>1, <1>5, <2>1 DEF InTree
<1>7. c \in Frames /\ tree[c].reg \in Regs /\ tree[c].iter \in 0..MaxIters
  <2>1. c \in Frames
    BY <1>1, <1>5
  <2>. QED
    BY <1>1, <2>1 DEF TypeOK
<1>8. ChildOf(a, i) = c
  BY DEF ChildOf
<1>. QED
  BY <1>1, <1>2, <1>5, <1>6, <1>7, <1>8

\* Below a frame that is in no continuation nothing is outstanding.
LEMMA NotOutstanding ==
    ASSUME Engine, Marks, LoopSynced, pc = "body", NEW a, a.owner \in 0..frame_id,
           NEW i \in 1..depth, IsLCA(a, i), frames[i].InContin \subseteq {Loop}
    PROVE  ~Outstanding(a, i)
<1>. SUFFICES ASSUME Outstanding(a, i) PROVE FALSE
  OBVIOUS
<1>1. depth \in Nat /\ head = frames[depth]
  BY EngineTypes
<1>2. tree[a.owner].level \in 1..MaxDepth
  BY DEF Engine, InTree, PathsAgree
<1>3. Under(a, i) /\ tree[a.owner].level # i
  BY <1>1, <1>2 DEF IsLCA, Under, Outstanding
<1>. PICK c : c = ChildOf(a, i)
  OBVIOUS
<1>4. /\ c \in 1..frame_id /\ tree[c].level = i + 1
      /\ tree[c].path[i] = frames[i].fid /\ tree[c].reg \in Regs
  BY <1>3, ChildBelow
<1>5. tree[c].type # "spawner" /\ c \notin joined
  BY DEF Outstanding
<1>. PICK q \in Regs : q = tree[c].reg
  BY <1>4
<1>6. Open(c, i, q)
  BY <1>4, <1>5 DEF Open
<1>7. i < depth => frames[i + 1].fid # c
  <2>1. i < tree[a.owner].level
    BY <1>1, <1>2, <1>3 DEF Under
  <2>. QED
    BY <2>1 DEF IsLCA, ChildOf
<1>8. ~(i = depth /\ tree[c].type = "loop")
  <2>. SUFFICES ASSUME i = depth, tree[c].type = "loop" PROVE FALSE
    OBVIOUS
  <2>. QED
    BY <1>1, <1>4, <1>5 DEF LoopSynced
<1>9. q + 1 \notin frames[i].InContin
  BY DEF Loop
<1>. QED
  BY <1>4, <1>6, <1>7, <1>8, <1>9 DEF Marks, OpenMarked

\* Below a loop that is not marked everything is of the first iteration.
LEMMA SameIteration ==
    ASSUME Engine, Marks, pc = "body", NEW a \in Users, UserKnown(a),
           NEW i \in 1..depth, Under(a, i), is_loop_frame(i), Loop \notin frames[i].InContin
    PROVE  IterOf(a, i) = frames[i].iter
<1>1. frames[i].iter = 0
  BY DEF Marks, IterationMarked, is_loop_frame
<1>2. CASE tree[a.owner].level = i
  <2>1. a.owner = frames[i].fid
    BY <1>2 DEF UserKnown, Under, Engine, InTree, PathsAgree
  <2>2. a.iter <= 0
    BY <1>1, <2>1 DEF UserKnown
  <2>3. a.iter \in 0..MaxIters
    BY DEF Users
  <2>. QED
    BY <1>1, <1>2, <2>2, <2>3 DEF IterOf
<1>3. CASE tree[a.owner].level # i
  <2>. PICK c : c = ChildOf(a, i)
    OBVIOUS
  <2>1. /\ c \in 1..frame_id /\ tree[c].level = i + 1
        /\ tree[c].path[i] = frames[i].fid /\ tree[c].iter \in Nat
    BY <1>3, ChildBelow DEF UserKnown
  <2>2. tree[c].iter <= frames[i].iter
    BY <2>1 DEF Marks, BornBefore
  <2>. QED
    BY <1>1, <1>3, <2>1, <2>2 DEF IterOf
<1>. QED
  BY <1>2, <1>3

\* So below a frame in no continuation nothing is parallel.
LEMMA NotParallel ==
    ASSUME Engine, Marks, LoopSynced, pc = "body", NEW a \in Users, UserKnown(a),
           NEW i \in 1..depth, IsLCA(a, i), frames[i].InContin = {}
    PROVE  ~ParallelAt(a, i)
<1>1. ~Outstanding(a, i)
  BY NotOutstanding DEF UserKnown
<1>2. Under(a, i)
  <2>1. tree[a.owner].level \in 1..MaxDepth
    BY DEF Engine, InTree, PathsAgree, UserKnown
  <2>2. depth \in Nat
    BY EngineTypes
  <2>. QED
    BY <2>1, <2>2 DEF IsLCA, Under
<1>3. is_loop_frame(i) => IterOf(a, i) = frames[i].iter
  BY <1>2, SameIteration
<1>. QED
  BY <1>1, <1>3 DEF ParallelAt

\* The youngest common frame is not below one that a ran under.
LEMMA LCAAbove ==
    ASSUME Engine, NEW a, a.owner \in 0..frame_id, NEW i \in 1..depth, NEW j \in 1..depth,
           Under(a, i), IsLCA(a, j)
    PROVE  i <= j
<1>. SUFFICES ASSUME j < i PROVE FALSE
  <2>1. depth \in Nat
    BY EngineTypes
  <2>. QED
    BY <2>1
<1>1. depth \in Nat /\ tree[a.owner].level \in 1..MaxDepth
  <2>1. tree[a.owner].level \in 1..MaxDepth
    BY DEF Engine, InTree, PathsAgree
  <2>. QED
    BY <2>1, EngineTypes
<1>2. i \in 1..tree[a.owner].level /\ tree[a.owner].path[i] = frames[i].fid /\ i <= depth
  BY <1>1 DEF Under
<1>3. \A m \in 1..i : tree[a.owner].path[m] = frames[m].fid
  BY <1>2, PathOld
<1>4. j + 1 \in 1..i /\ j < depth /\ j < tree[a.owner].level
  BY <1>1, <1>2
<1>. QED
  BY <1>3, <1>4 DEF IsLCA

\* The running strand.
CurrentUser == [owner |-> head.fid, iter |-> head.iter]

\* It ran under every frame on the stack, and is parallel to itself nowhere.
LEMMA CurrentUserFacts ==
    ASSUME Engine
    PROVE  /\ CurrentUser \in Users /\ UserKnown(CurrentUser)
           /\ \A i \in 1..depth : /\ Under(CurrentUser, i)
                                  /\ IterOf(CurrentUser, i) = frames[i].iter
                                  /\ IsLCA(CurrentUser, i) => ~ParallelAt(CurrentUser, i)
<1>1. /\ depth \in Nat /\ depth \in 1..depth /\ head = frames[depth] /\ depth \in Slots
      /\ frames \in [Slots -> FrameData] /\ TypeOK
  BY EngineTypes
<1>. PICK a : a = CurrentUser
  OBVIOUS
<1>2. a.owner = frames[depth].fid /\ a.iter = frames[depth].iter
  BY <1>1 DEF CurrentUser
<1>3. head \in FrameData
  BY <1>1, HeadType
<1>3a. head.fid \in Frames /\ head.iter \in 0..MaxIters
  BY <1>3, FrameFields
<1>4. a \in Users
  BY <1>3a DEF CurrentUser, Users
<1>5. /\ a.owner \in 0..frame_id /\ tree[a.owner].level = depth
      /\ \A j \in 1..depth : tree[a.owner].path[j] = frames[j].fid
  BY <1>1, <1>2, StackFrame
<1>6. UserKnown(a)
  <2>1. ASSUME NEW i \in 1..depth, frames[i].fid = a.owner PROVE a.iter <= frames[i].iter
    <3>1. i = depth
      BY <1>5, <2>1, StackFrame
    <3>2. a.iter \in 0..MaxIters
      BY <1>4 DEF Users
    <3>. QED
      BY <1>2, <3>1, <3>2
  <2>. QED
    BY <1>5, <2>1 DEF UserKnown
<1>7. ASSUME NEW i \in 1..depth
      PROVE  /\ Under(a, i) /\ IterOf(a, i) = frames[i].iter
             /\ IsLCA(a, i) => ~ParallelAt(a, i)
  <2>1. Under(a, i)
    BY <1>5 DEF Under
  <2>2. CASE i = depth
    <3>1. IterOf(a, i) = frames[i].iter /\ ~Outstanding(a, i)
      BY <1>2, <1>5, <2>2 DEF IterOf, Outstanding
    <3>. QED
      BY <2>1, <3>1 DEF ParallelAt
  <2>3. CASE i # depth
    <3>1. i + 1 \in 1..depth /\ i < depth
      BY <1>1, <2>3
    <3>2. ChildOf(a, i) = frames[i + 1].fid
      BY <1>5, <3>1 DEF ChildOf
    <3>3. IterOf(a, i) = tree[frames[i + 1].fid].iter
      BY <1>5, <2>3, <3>2 DEF IterOf
    <3>4. tree[frames[i + 1].fid].iter = frames[(i + 1) - 1].iter
      <4>1. i + 1 > 1
        BY <1>1
      <4>. QED
        BY <3>1, <4>1, StackFrame
    <3>5. (i + 1) - 1 = i
      BY <1>1
    <3>6. ~IsLCA(a, i)
      BY <1>5, <3>1 DEF IsLCA
    <3>. QED
      BY <2>1, <3>3, <3>4, <3>5, <3>6
  <2>. QED
    BY <2>2, <2>3
<1>. QED
  BY <1>4, <1>6, <1>7

\* A step that leaves the tree, the frames at slots i and i + 1 and what is
\* joined, or joins more, makes nothing parallel.
LEMMA ParallelKept ==
    ASSUME Engine, NEW a, a.owner \in 0..frame_id, NEW i \in Nat, i \in 1..tree[a.owner].level,
           \A f \in 0..frame_id : tree'[f] = tree[f], joined \subseteq joined',
           frames'[i].type = frames[i].type, frames'[i].iter = frames[i].iter
    PROVE  /\ IterOf(a, i)' = IterOf(a, i)
           /\ Outstanding(a, i)' => Outstanding(a, i)
           /\ ParallelAt(a, i)' => ParallelAt(a, i)
<1>1. tree'[a.owner] = tree[a.owner]
  OBVIOUS
<1>2. tree[a.owner].level # i => ChildOf(a, i) \in 0..frame_id
  <2>. SUFFICES ASSUME tree[a.owner].level # i PROVE ChildOf(a, i) \in 0..frame_id
    OBVIOUS
  <2>1. tree[a.owner].level \in 1..MaxDepth
    BY DEF Engine, InTree, PathsAgree
  <2>2. i + 1 \in 1..tree[a.owner].level
    BY <2>1
  <2>. QED
    BY <2>2, PathOld DEF ChildOf
<1>3. ChildOf(a, i)' = ChildOf(a, i)
  BY <1>1 DEF ChildOf
<1>4. tree[a.owner].level # i => tree'[ChildOf(a, i)] = tree[ChildOf(a, i)]
  BY <1>2
<1>5. IterOf(a, i)' = IterOf(a, i)
  BY <1>1, <1>3, <1>4 DEF IterOf
<1>6. Outstanding(a, i)' => Outstanding(a, i)
  BY <1>1, <1>3, <1>4 DEF Outstanding
<1>. QED
  BY <1>5, <1>6 DEF ParallelAt, is_loop_frame

\* A strand stays under a frame.
LEMMA UnderKept ==
    ASSUME NEW a, NEW i, Under(a, i), tree'[a.owner] = tree[a.owner],
           frames'[i].fid = frames[i].fid
    PROVE  Under(a, i)'
  BY DEF Under

\* The frames of a step that pushes: those on the stack stay, and no strand of
\* the past is under the new one.
LEMMA UserPush ==
    ASSUME Engine, Push, NEW a, UserKnown(a)
    PROVE  /\ UserKnown(a)'
           /\ \A i \in 1..depth : UserOfLeftmost(a, i) => UserOfLeftmost(a, i)'
           /\ \A i \in 1..depth :
                 LoopSynced /\ pc \in {"body", "newloop"} /\ UserOf(a, i) => UserOf(a, i)'
<1>1. TypeOK /\ depth \in Nat /\ frame_id \in Nat /\ depth \in 1..depth
  BY EngineTypes
<1>2. /\ depth' = depth + 1
      /\ \A i \in 1..depth : frames'[i] = frames[i]
      /\ frames'[depth + 1].fid = frame_id + 1
      /\ frame_id' = frame_id + 1 /\ joined' = joined
      /\ \A f \in 0..frame_id : tree'[f] = tree[f]
  BY <1>1, PushMarks
<1>3. /\ a.owner \in 0..frame_id
      /\ \A i \in 1..depth : frames[i].fid = a.owner => a.iter <= frames[i].iter
  BY DEF UserKnown
<1>4. UserKnown(a)'
  <2>1. ASSUME NEW i \in 1..depth', frames'[i].fid = a.owner PROVE a.iter <= frames'[i].iter
    <3>1. i # depth + 1
      BY <1>1, <1>2, <1>3, <2>1
    <3>2. i \in 1..depth
      BY <1>1, <1>2, <3>1
    <3>. QED
      BY <1>2, <1>3, <2>1, <3>2
  <2>2. a.owner \in 0..frame_id'
    BY <1>1, <1>2, <1>3
  <2>. QED
    BY <2>1, <2>2 DEF UserKnown
<1>5. ASSUME NEW i \in 1..depth, Under(a, i)
      PROVE  /\ Under(a, i)' /\ IterOf(a, i)' = IterOf(a, i)
             /\ ParallelAt(a, i)' => ParallelAt(a, i)
  <2>1. i \in Nat /\ i \in 1..tree[a.owner].level
    BY <1>5 DEF Under
  <2>2. Under(a, i)'
    BY <1>2, <1>3, <1>5, UnderKept
  <2>3. /\ IterOf(a, i)' = IterOf(a, i)
        /\ ParallelAt(a, i)' => ParallelAt(a, i)
    BY <1>2, <1>3, <2>1, ParallelKept
  <2>. QED
    BY <2>2, <2>3
<1>6. ASSUME NEW i \in 1..depth, UserOfLeftmost(a, i) PROVE UserOfLeftmost(a, i)'
  BY <1>2, <1>5, <1>6 DEF UserOfLeftmost, is_loop_frame
<1>7. ASSUME NEW i \in 1..depth, LoopSynced, pc \in {"body", "newloop"}, UserOf(a, i)
      PROVE  UserOf(a, i)'
  <2>1. Under(a, i)
    BY <1>7 DEF UserOf
  <2>2. ~Ending(i)
    BY <1>7 DEF Ending
  <2>3. IsLCA(a, i)' => IsLCA(a, i)
    <3>. SUFFICES ASSUME IsLCA(a, i)', i < depth, i < tree[a.owner].level
                  PROVE  tree[a.owner].path[i + 1] # frames[i + 1].fid
      BY <1>2, <1>3, <2>1 DEF IsLCA, Under
    <3>1. i + 1 \in 1..depth /\ i < depth'
      BY <1>1, <1>2
    <3>. QED
      BY <1>2, <1>3, <3>1 DEF IsLCA
  <2>. QED
    BY <1>5, <1>7, <2>1, <2>2, <2>3 DEF UserOf
<1>. QED
  BY <1>4, <1>6, <1>7

\* A pop.
LEMMA UserPop ==
    ASSUME Engine, Pop, NEW a, UserKnown(a)
    PROVE  /\ UserKnown(a)'
           /\ \A i \in 1..depth' : UserOfLeftmost(a, i) => UserOfLeftmost(a, i)'
           /\ \A i \in 1..depth' : UserOf(a, i) => UserOf(a, i)'
<1>1. /\ TypeOK /\ Shape /\ depth \in Nat /\ frame_id \in Nat /\ depth \in 1..depth
      /\ head = frames[depth]
  BY EngineTypes
<1>2. depth > 1 /\ depth' = depth - 1
  BY <1>1, PopFacts
<1>3. /\ frame_id' = frame_id /\ joined' = joined /\ tree' = tree
      /\ \A i \in 1..depth' :
            /\ frames'[i].type = frames[i].type /\ frames'[i].fid = frames[i].fid
            /\ frames'[i].iter = frames[i].iter
  BY <1>1, PopTree
<1>4. \A i \in 1..depth' : i \in 1..depth /\ i < depth
  BY <1>1, <1>2
<1>5. UserKnown(a)'
  BY <1>3, <1>4 DEF UserKnown
<1>6. ASSUME NEW i \in 1..depth', Under(a, i)
      PROVE  /\ Under(a, i)' /\ IterOf(a, i)' = IterOf(a, i)
             /\ ParallelAt(a, i)' => ParallelAt(a, i)
  <2>1. i \in Nat /\ i \in 1..tree[a.owner].level
    BY <1>6 DEF Under
  <2>2. Under(a, i)'
    BY <1>3, <1>6, UnderKept
  <2>3. /\ IterOf(a, i)' = IterOf(a, i)
        /\ ParallelAt(a, i)' => ParallelAt(a, i)
    BY <1>3, <2>1, ParallelKept DEF UserKnown
  <2>. QED
    BY <2>2, <2>3
<1>7. ASSUME NEW i \in 1..depth', UserOfLeftmost(a, i) PROVE UserOfLeftmost(a, i)'
  BY <1>3, <1>6, <1>7 DEF UserOfLeftmost, is_loop_frame
<1>8. ASSUME NEW i \in 1..depth', UserOf(a, i) PROVE UserOf(a, i)'
  <2>1. Under(a, i) /\ Under(a, i)'
    BY <1>6, <1>8 DEF UserOf
  <2>. SUFFICES ASSUME IsLCA(a, i)', ~Ending(i)', ParallelAt(a, i)' PROVE FALSE
    BY <2>1 DEF UserOf
  <2>2. ParallelAt(a, i) /\ ~Ending(i)
    BY <1>4, <1>6, <2>1 DEF Ending
  <2>3. ~IsLCA(a, i)
    BY <1>8, <2>2 DEF UserOf
  <2>4. /\ i < depth /\ i < tree[a.owner].level
        /\ tree[a.owner].path[i + 1] = frames[i + 1].fid
    <3>1. i <= tree[a.owner].level /\ tree[a.owner].path[i] = frames[i].fid
      BY <2>1 DEF Under
    <3>. QED
      BY <2>3, <3>1 DEF IsLCA
  <2>5. i = depth'
    <3>. SUFFICES ASSUME i # depth' PROVE FALSE
      OBVIOUS
    <3>1. i < depth' /\ i + 1 \in 1..depth'
      BY <1>1, <1>2
    <3>. QED
      BY <1>3, <2>4, <3>1 DEF IsLCA
  <2>. PICK c : c = head.fid
    OBVIOUS
  <2>6. ChildOf(a, i) = c /\ tree[a.owner].level # i
    <3>1. i + 1 = depth
      BY <1>1, <1>2, <2>5
    <3>2. tree[a.owner].level # i
      BY <1>1, <2>4
    <3>. QED
      BY <1>1, <2>4, <3>1, <3>2 DEF ChildOf
  <2>7. /\ c \in 1..frame_id /\ c \notin joined /\ tree[c].level = i + 1
        /\ tree[c].path[i] = frames[i].fid
        /\ tree[c].type = head.type /\ tree[c].iter = frames[i].iter
    <3>1. i = depth - 1
      BY <1>2, <2>5
    <3>. QED
      BY <1>2, <3>1, HeadIsChild
  <2>8. IterOf(a, i) = frames[i].iter
    BY <2>6, <2>7 DEF IterOf
  <2>9. tree[c].type # "spawner"
    BY <2>2, <2>6, <2>8 DEF ParallelAt, Outstanding
  <2>10. head.type = "loop"
    <3>1. pc' # "continue"
      BY <2>5 DEF Ending
    <3>. QED
      BY <2>7, <2>9, <3>1, PopEnds
  <2>11. ~LoopSynced'
    <3>1. /\ c \in 1..frame_id' /\ tree'[c].level = depth' + 1
          /\ tree'[c].path[depth'] = frames'[depth'].fid
          /\ tree'[c].type = "loop" /\ c \notin joined'
      BY <1>3, <2>5, <2>7, <2>10
    <3>. QED
      BY <3>1 DEF LoopSynced, head
  <2>. QED
    BY <2>5, <2>11 DEF Ending
<1>. QED
  BY <1>5, <1>7, <1>8

\* A step of the head.
LEMMA UserHead ==
    ASSUME Engine, HeadStep, NEW a \in Users, UserKnown(a)
    PROVE  /\ UserKnown(a)'
           /\ \A i \in 1..depth :
                 /\ i # depth \/ ~do_loop_iteration_end
                 /\ UserOfLeftmost(a, i)
                 => UserOfLeftmost(a, i)'
           /\ \A i \in 1..(depth - 1) : UserOf(a, i) => UserOf(a, i)'
<1>1. /\ TypeOK /\ Shape /\ LoopsApart /\ depth \in Nat /\ frame_id \in Nat /\ depth \in 1..depth
      /\ depth \in Slots /\ frames \in [Slots -> FrameData]
  BY EngineTypes
<1>2. /\ depth' = depth /\ frame_id' = frame_id /\ tree' = tree
      /\ \A i \in Slots :
            /\ frames'[i].type = frames[i].type /\ frames'[i].fid = frames[i].fid
            /\ i # depth => frames'[i] = frames[i]
  BY HeadStepFacts
<1>3. \A i \in 1..depth : i \in Slots
  BY <1>1
<1>4. joined \subseteq joined'
  BY DEF HeadStep, do_detach_continue, do_sync, do_loop_iteration_end, do_loop_iteration_begin
<1>5. \/ frames'[depth].iter = frames[depth].iter
      \/ do_loop_iteration_end /\ frames'[depth].iter = frames[depth].iter + 1
  <2>1. CASE do_loop_iteration_end
    BY <1>1, <2>1, IterationTree
  <2>2. CASE HeadOnly
    BY <1>1, <2>2, HeadTree
  <2>. QED
    BY <2>1, <2>2 DEF HeadStep, HeadOnly
<1>6. UserKnown(a)'
  <2>1. ASSUME NEW i \in 1..depth, frames'[i].fid = a.owner PROVE a.iter <= frames'[i].iter
    <3>1. a.iter <= frames[i].iter
      BY <1>2, <1>3, <2>1 DEF UserKnown
    <3>2. CASE i # depth
      BY <1>2, <1>3, <3>1, <3>2
    <3>3. CASE i = depth
      <4>1. frames[depth].iter \in 0..MaxIters
        BY <1>1, FrameFields
      <4>2. a.iter \in 0..MaxIters
        BY DEF Users
      <4>. QED
        BY <1>5, <3>1, <3>3, <4>1, <4>2
    <3>. QED
      BY <3>2, <3>3
  <2>. QED
    BY <1>2, <2>1 DEF UserKnown
<1>7. ASSUME NEW i \in 1..depth, Under(a, i), frames'[i].iter = frames[i].iter
      PROVE  /\ Under(a, i)' /\ IterOf(a, i)' = IterOf(a, i)
             /\ ParallelAt(a, i)' => ParallelAt(a, i)
  <2>1. i \in Nat /\ i \in 1..tree[a.owner].level
    BY <1>7 DEF Under
  <2>2. Under(a, i)'
    BY <1>2, <1>3, <1>7, UnderKept
  <2>3. /\ IterOf(a, i)' = IterOf(a, i)
        /\ ParallelAt(a, i)' => ParallelAt(a, i)
    BY <1>2, <1>3, <1>4, <1>7, <2>1, ParallelKept DEF UserKnown
  <2>. QED
    BY <2>2, <2>3
<1>8. ASSUME NEW i \in 1..depth, i # depth \/ ~do_loop_iteration_end, UserOfLeftmost(a, i)
      PROVE  UserOfLeftmost(a, i)'
  <2>1. frames'[i].iter = frames[i].iter /\ frames'[i].type = frames[i].type
    BY <1>2, <1>3, <1>5, <1>8
  <2>2. Under(a, i)
    BY <1>8 DEF UserOfLeftmost
  <2>. QED
    BY <1>7, <1>8, <2>1, <2>2 DEF UserOfLeftmost, is_loop_frame
<1>9. ASSUME NEW i \in 1..(depth - 1), UserOf(a, i) PROVE UserOf(a, i)'
  <2>1. i \in 1..depth /\ i # depth /\ i + 1 \in Slots /\ i \in Slots
    BY <1>1
  <2>2. Under(a, i) /\ ~Ending(i)
    BY <1>9, <2>1 DEF UserOf, Ending
  <2>3. frames'[i].iter = frames[i].iter
    BY <1>2, <2>1
  <2>4. IsLCA(a, i)' => IsLCA(a, i)
    BY <1>2, <2>1 DEF IsLCA
  <2>. QED
    BY <1>7, <1>9, <2>1, <2>2, <2>3, <2>4 DEF UserOf
<1>. QED
  BY <1>6, <1>8, <1>9

\* A step that leaves the engine, or starts a loop.
LEMMA UserSame ==
    ASSUME UNCHANGED <<depth, frames, frame_id, tree, joined>>, NEW a,
           pc' = pc \/ (pc = "body" /\ pc' = "newloop")
    PROVE  /\ UserKnown(a) => UserKnown(a)'
           /\ \A i \in 1..depth : UserOfLeftmost(a, i) => UserOfLeftmost(a, i)'
           /\ \A i \in 1..depth : UserOf(a, i) => UserOf(a, i)'
           /\ \A i \in 1..depth : Under(a, i) => Under(a, i)'
<1>1. ASSUME NEW i \in 1..depth
      PROVE  /\ Under(a, i)' = Under(a, i) /\ IsLCA(a, i)' = IsLCA(a, i)
             /\ ParallelAt(a, i)' = ParallelAt(a, i) /\ IterOf(a, i)' = IterOf(a, i)
  BY DEF Under, IsLCA, ParallelAt, Outstanding, IterOf, ChildOf, is_loop_frame
<1>2. \A i \in 1..depth : Ending(i) => Ending(i)'
  <2>1. LoopSynced' = LoopSynced
    BY DEF LoopSynced, head
  <2>. QED
    BY <2>1 DEF Ending
<1>3. UserKnown(a) => UserKnown(a)'
  BY DEF UserKnown
<1>4. \A i \in 1..depth : UserOfLeftmost(a, i) => UserOfLeftmost(a, i)'
  BY <1>1 DEF UserOfLeftmost, is_loop_frame
<1>5. \A i \in 1..depth : UserOf(a, i) => UserOf(a, i)'
  BY <1>1, <1>2 DEF UserOf
<1>. QED
  BY <1>1, <1>3, <1>4, <1>5

\* Where the users of the views are in the tree.
UsersPlaced ==
    /\ \A w \in Keys \cup ViewIds : \A a \in views.users[w] : UserKnown(a)
    /\ \A i \in Slots, k \in Keys, w \in ViewIds :
          tables[i].view[k] = w => \A a \in views.users[w] : UserOf(a, i)
    /\ \A k \in Keys, d \in Slots :
          Owned(k) /\ Decl(k) = d => \A a \in views.users[k] : UserOfLeftmost(a, d)

\* Initially no view has been used.
LEMMA UsersInit == ReducersInit => UsersPlaced
<1>. SUFFICES ASSUME ReducersInit PROVE UsersPlaced
  OBVIOUS
<1>1. views = [alloc |-> {}, value |-> [w \in Keys \cup ViewIds |-> <<>>],
               users |-> [w \in Keys \cup ViewIds |-> {}]]
  BY DEF ReducersInit
<1>2. \A w \in Keys \cup ViewIds : views.users[w] = {}
  BY <1>1
<1>. QED
  BY <1>2 DEF UsersPlaced

\* A view in a table is in that of a frame on the stack.
LEMMA EntryOnStack ==
    ASSUME ViewsOK, NEW i \in Slots, NEW k \in Keys, NEW w \in ViewIds, tables[i].view[k] = w
    PROVE  tables[i].made /\ i \in 1..depth /\ frames[i].InContin # {}
<1>1. None \notin ViewIds
  BY ReducersAssumption DEF None, ViewIds
<1>2. tables[i].made
  BY <1>1, NotMade DEF ViewsOK
<1>. QED
  BY <1>2 DEF ViewsOK, TablesInContin

\* A user of a view is a strand.
LEMMA UsersAre ==
    ASSUME ViewsOK, NEW w \in Keys \cup ViewIds, NEW a \in views.users[w]
    PROVE  a \in Users
  BY DEF ViewsOK, ViewsTyped, Users

\* A step that uses no view, and moves no view to where its users are not.
LEMMA UsersMove ==
    ASSUME Engine, Declared, ViewsOK, UsersPlaced, views'.users = views.users, UNCHANGED owner,
           \A a \in Users : UserKnown(a) => UserKnown(a)',
           \A a \in Users, d \in 1..depth :
              /\ UserKnown(a) /\ UserOfLeftmost(a, d)
              /\ \E k \in Keys : Owned(k) /\ Decl(k) = d
              => UserOfLeftmost(a, d)',
           \A i \in Slots, k \in Keys, w \in ViewIds :
              tables'[i].view[k] = w =>
                 \E j \in Slots :
                    /\ tables[j].view[k] = w
                    /\ \A a \in Users : UserKnown(a) /\ UserOf(a, j) => UserOf(a, i)'
    PROVE  UsersPlaced'
<1>1. ASSUME NEW w \in Keys \cup ViewIds, NEW a \in views'.users[w] PROVE UserKnown(a)'
  <2>1. a \in views.users[w] /\ a \in Users
    BY <1>1, UsersAre
  <2>. QED
    BY <2>1 DEF UsersPlaced
<1>2. ASSUME NEW i \in Slots, NEW k \in Keys, NEW w \in ViewIds, tables'[i].view[k] = w,
             NEW a \in views'.users[w]
      PROVE  UserOf(a, i)'
  <2>1. a \in views.users[w] /\ a \in Users /\ UserKnown(a)
    BY <1>2, UsersAre DEF UsersPlaced
  <2>2. PICK j \in Slots : /\ tables[j].view[k] = w
                           /\ \A b \in Users : UserKnown(b) /\ UserOf(b, j) => UserOf(b, i)'
    BY <1>2
  <2>3. UserOf(a, j)
    BY <2>1, <2>2 DEF UsersPlaced
  <2>. QED
    BY <2>1, <2>2, <2>3
<1>3. ASSUME NEW k \in Keys, NEW d \in Slots, owner'[k] # NoOwner, owner'[k].slot = d,
             NEW a \in views'.users[k]
      PROVE  UserOfLeftmost(a, d)'
  <2>1. a \in views.users[k] /\ a \in Users /\ UserKnown(a)
    BY <1>3, UsersAre DEF UsersPlaced
  <2>2. Owned(k) /\ Decl(k) = d
    BY <1>3 DEF Owned, Decl
  <2>3. UserOfLeftmost(a, d)
    BY <2>1, <2>2 DEF UsersPlaced
  <2>4. d \in 1..depth
    BY <2>2 DEF Declared, OwnersOK
  <2>. QED
    BY <2>1, <2>2, <2>3, <2>4
<1>. QED
  BY <1>1, <1>2, <1>3 DEF UsersPlaced, Owned, Decl

\* The views that a push leaves alone.
LEMMA UsersPush ==
    ASSUME Engine, Declared, ViewsOK, UsersPlaced, Push, UNCHANGED hyper, LoopSynced,
           pc \in {"body", "newloop"}
    PROVE  UsersPlaced'
<1>1. views'.users = views.users /\ UNCHANGED <<owner, tables>>
  BY DEF hyper
<1>2. \A a \in Users : UserKnown(a) => UserKnown(a)'
  BY UserPush
<1>3. \A a \in Users, d \in 1..depth :
         UserKnown(a) /\ UserOfLeftmost(a, d) => UserOfLeftmost(a, d)'
  BY UserPush
<1>4. \A a \in Users, i \in 1..depth : UserKnown(a) /\ UserOf(a, i) => UserOf(a, i)'
  BY UserPush
<1>5. ASSUME NEW i \in Slots, NEW k \in Keys, NEW w \in ViewIds, tables'[i].view[k] = w
      PROVE  \E j \in Slots :
                /\ tables[j].view[k] = w
                /\ \A a \in Users : UserKnown(a) /\ UserOf(a, j) => UserOf(a, i)'
  <2>1. tables[i].view[k] = w
    BY <1>1, <1>5
  <2>2. i \in 1..depth
    BY <2>1, EntryOnStack
  <2>. QED
    BY <1>4, <2>1, <2>2
<1>. QED
  BY <1>1, <1>2, <1>3, <1>5, UsersMove

\* A pop.
LEMMA UsersPop ==
    ASSUME Engine, Declared, ViewsOK, UsersPlaced, Pop, UNCHANGED hyper,
           do_loop_end \/ MayEnd
    PROVE  UsersPlaced'
<1>1. views'.users = views.users /\ UNCHANGED <<owner, tables>>
  BY DEF hyper
<1>2. ViewsOK'
  BY ViewsPop
<1>3. TypeOK /\ Shape /\ depth \in Nat /\ depth' = depth - 1 /\ depth > 1
  <2>1. TypeOK /\ Shape /\ depth \in Nat
    BY EngineTypes
  <2>. QED
    BY <2>1, PopFacts
<1>4. \A a \in Users : UserKnown(a) => UserKnown(a)'
  BY UserPop
<1>5. \A k \in Keys : Decl(k) # depth
  BY DEF do_loop_end, MayEnd, Declared, LoopBits, Decl
<1>6. ASSUME NEW a \in Users, NEW d \in 1..depth, UserKnown(a), UserOfLeftmost(a, d),
             \E k \in Keys : Owned(k) /\ Decl(k) = d
      PROVE  UserOfLeftmost(a, d)'
  <2>1. d \in 1..depth'
    BY <1>3, <1>5, <1>6
  <2>. QED
    BY <1>6, <2>1, UserPop
<1>7. \A a \in Users, i \in 1..depth' : UserKnown(a) /\ UserOf(a, i) => UserOf(a, i)'
  BY UserPop
<1>8. ASSUME NEW i \in Slots, NEW k \in Keys, NEW w \in ViewIds, tables'[i].view[k] = w
      PROVE  \E j \in Slots :
                /\ tables[j].view[k] = w
                /\ \A a \in Users : UserKnown(a) /\ UserOf(a, j) => UserOf(a, i)'
  <2>1. tables[i].view[k] = w
    BY <1>1, <1>8
  <2>2. tables[i].made
    BY <2>1, EntryOnStack
  <2>3. i \in 1..depth'
    BY <1>1, <1>2, <2>2 DEF ViewsOK, TablesInContin
  <2>. QED
    BY <1>7, <2>1, <2>3
<1>. QED
  BY <1>1, <1>4, <1>6, <1>8, UsersMove

\* A view that moves down from the head was used above the frame it moves to.
LEMMA UserMoves ==
    ASSUME Engine, HeadStep, NEW a \in Users, UserKnown(a), UserOf(a, depth),
           NEW i \in 1..(depth - 1)
    PROVE  UserOf(a, i)'
<1>1. depth \in Nat /\ depth \in 1..depth /\ depth \in Slots
  BY EngineTypes
<1>2. /\ depth' = depth /\ tree' = tree
      /\ \A j \in Slots : frames'[j].fid = frames[j].fid
  BY HeadStepFacts
<1>3. /\ a.owner \in 0..frame_id /\ depth \in 1..tree[a.owner].level
      /\ tree[a.owner].path[depth] = frames[depth].fid
  BY DEF UserKnown, UserOf, Under
<1>4. \A j \in 1..depth : tree[a.owner].path[j] = frames[j].fid
  BY <1>1, <1>3, PathOld
<1>5. tree[a.owner].level \in 1..MaxDepth
  BY <1>3, PathOld
<1>6. /\ i \in 1..depth /\ i + 1 \in 1..depth /\ i < depth /\ i < tree[a.owner].level
      /\ i \in Slots /\ i + 1 \in Slots /\ i \in 1..tree[a.owner].level
  BY <1>1, <1>3, <1>5
<1>7. Under(a, i)'
  BY <1>2, <1>4, <1>6 DEF Under
<1>8. ~IsLCA(a, i)'
  BY <1>2, <1>4, <1>6 DEF IsLCA
<1>. QED
  BY <1>7, <1>8 DEF UserOf

\* Reducing uses no view.
LEMMA ReducingUsers ==
    ASSUME ReducingStep
    PROVE  views'.users = views.users
<1>1. reduce_local_views
  BY DEF ReducingStep, Reducing
<1>2. \A P : Reduced(views, P).users = views.users
  BY DEF Reduced
<1>3. CASE ReduceIntoParent
  BY <1>2, <1>3 DEF ReduceIntoParent
<1>4. CASE ReduceIntoLeftmost
  BY <1>2, <1>4 DEF ReduceIntoLeftmost
<1>. QED
  BY <1>1, <1>3, <1>4 DEF reduce_local_views

\* A step that reduces.
LEMMA UsersReduce ==
    ASSUME Engine, Declared, ViewsOK, UsersPlaced, ReducingStep
    PROVE  UsersPlaced'
<1>1. depth \in Nat /\ depth \in Slots
  BY EngineTypes
<1>2. views'.users = views.users /\ UNCHANGED owner
  BY ReducingUsers, ReducingKeeps
<1>3. HeadStep
  BY DEF ReducingStep, Reducing, HeadStep
<1>4. \A a \in Users : UserKnown(a) => UserKnown(a)'
  BY <1>3, UserHead
<1>5. ASSUME NEW a \in Users, NEW d \in 1..depth, UserKnown(a), UserOfLeftmost(a, d),
             \E k \in Keys : Owned(k) /\ Decl(k) = d
      PROVE  UserOfLeftmost(a, d)'
  <2>1. d # depth \/ ~do_loop_iteration_end
    <3>. SUFFICES ASSUME do_loop_iteration_end, d = depth PROVE FALSE
      OBVIOUS
    <3>1. ~do_detach_continue /\ \A r \in Regs : ~do_sync(r)
      <4>1. pc = "body" /\ pc' = "between"
        BY DEF do_loop_iteration_end
      <4>. QED
        BY <4>1 DEF do_detach_continue, do_sync
    <3>2. MayEnd
      BY <3>1 DEF ReducingStep, Reducing
    <3>. QED
      BY <1>5, <3>2 DEF MayEnd, Decl
  <2>. QED
    BY <1>3, <1>5, <2>1, UserHead
<1>6. \A a \in Users, i \in 1..(depth - 1) : UserKnown(a) /\ UserOf(a, i) => UserOf(a, i)'
  BY <1>3, UserHead
<1>7. \A a \in Users, i \in 1..(depth - 1) : UserKnown(a) /\ UserOf(a, depth) => UserOf(a, i)'
  BY <1>3, UserMoves
<1>8. None \notin ViewIds
  BY ReducersAssumption DEF None, ViewIds
<1>9. ASSUME NEW i \in Slots, NEW k \in Keys, NEW w \in ViewIds, tables'[i].view[k] = w
      PROVE  \E j \in Slots :
                /\ tables[j].view[k] = w
                /\ \A a \in Users : UserKnown(a) /\ UserOf(a, j) => UserOf(a, i)'
  <2>1. /\ i \in 1..(depth - 1)
        /\ tables[i].view[k] = w \/ tables[depth].view[k] = w
    <3>1. CASE ~tables[depth].made /\ UNCHANGED <<tables, views>>
      <4>1. tables[i].view[k] = w
        BY <1>9, <3>1
      <4>2. tables[i].made /\ i \in 1..depth
        BY <4>1, EntryOnStack
      <4>3. i # depth
        BY <3>1, <4>2
      <4>. QED
        BY <1>1, <4>1, <4>2, <4>3
    <3>2. ASSUME NEW b \in 0..(depth - 1), ReducedInto(b)
          PROVE  /\ i \in 1..(depth - 1)
                 /\ tables[i].view[k] = w \/ tables[depth].view[k] = w
      <4>1. i # depth
        <5>1. tables'[depth] = NullTable /\ NullTable.view[k] = None
          BY <3>2 DEF ReducedInto, NullTable
        <5>. QED
          BY <1>8, <1>9, <5>1
      <4>2. CASE i = b
        <5>1. tables'[b].view[k] = IF LeftOf(b, k) # None THEN LeftOf(b, k)
                                   ELSE tables[depth].view[k]
          BY <1>1, <3>2, <4>2 DEF ReducedInto
        <5>2. LeftOf(b, k) = tables[i].view[k]
          BY <4>2 DEF LeftOf
        <5>. QED
          BY <1>1, <1>9, <4>2, <5>1, <5>2
      <4>3. CASE i # b
        <5>1. tables'[i] = tables[i]
          BY <3>2, <4>1, <4>3 DEF ReducedInto
        <5>2. tables[i].view[k] = w
          BY <1>9, <5>1
        <5>3. i \in 1..depth
          BY <5>2, EntryOnStack
        <5>. QED
          BY <1>1, <4>1, <5>2, <5>3
      <4>. QED
        BY <4>2, <4>3
    <3>. QED
      BY <3>1, <3>2, ReduceKinds
  <2>. QED
    BY <1>1, <1>6, <1>7, <2>1
<1>. QED
  BY <1>2, <1>4, <1>5, <1>9, UsersMove

\* An iteration begins.
LEMMA UsersIterationBegin ==
    ASSUME Engine, Declared, ViewsOK, UsersPlaced, do_loop_iteration_begin, UNCHANGED hyper
    PROVE  UsersPlaced'
<1>1. depth \in Nat /\ depth \in Slots /\ head = frames[depth]
  BY EngineTypes
<1>2. views'.users = views.users /\ UNCHANGED <<owner, tables>>
  BY DEF hyper
<1>3. HeadStep /\ ~do_loop_iteration_end
  BY DEF HeadStep, do_loop_iteration_begin, do_loop_iteration_end
<1>4. \A a \in Users : UserKnown(a) => UserKnown(a)'
  BY <1>3, UserHead
<1>5. \A a \in Users, d \in 1..depth :
         UserKnown(a) /\ UserOfLeftmost(a, d) => UserOfLeftmost(a, d)'
  BY <1>3, UserHead
<1>6. \A a \in Users, i \in 1..(depth - 1) : UserKnown(a) /\ UserOf(a, i) => UserOf(a, i)'
  BY <1>3, UserHead
<1>7. frames[depth].InContin = {}
  BY <1>1 DEF do_loop_iteration_begin, Declared, LoopBits
<1>8. ASSUME NEW i \in Slots, NEW k \in Keys, NEW w \in ViewIds, tables'[i].view[k] = w
      PROVE  \E j \in Slots :
                /\ tables[j].view[k] = w
                /\ \A a \in Users : UserKnown(a) /\ UserOf(a, j) => UserOf(a, i)'
  <2>1. tables[i].view[k] = w
    BY <1>2, <1>8
  <2>2. i \in 1..depth /\ frames[i].InContin # {}
    BY <2>1, EntryOnStack
  <2>3. i \in 1..(depth - 1)
    BY <1>1, <1>7, <2>2
  <2>. QED
    BY <1>6, <2>1, <2>3
<1>. QED
  BY <1>2, <1>4, <1>5, <1>8, UsersMove

\* A loop starts, or nothing happens.
LEMMA UsersSame ==
    ASSUME Engine, Declared, ViewsOK, UsersPlaced, UNCHANGED hyper,
           UNCHANGED <<depth, frames, frame_id, tree, joined>>,
           pc' = pc \/ (pc = "body" /\ pc' = "newloop")
    PROVE  UsersPlaced'
<1>1. views'.users = views.users /\ UNCHANGED <<owner, tables>>
  BY DEF hyper
<1>2. \A a \in Users : UserKnown(a) => UserKnown(a)'
  BY UserSame
<1>3. \A a \in Users, d \in 1..depth : UserOfLeftmost(a, d) => UserOfLeftmost(a, d)'
  BY UserSame
<1>4. \A a \in Users, i \in 1..depth : UserOf(a, i) => UserOf(a, i)'
  BY UserSame
<1>5. ASSUME NEW i \in Slots, NEW k \in Keys, NEW w \in ViewIds, tables'[i].view[k] = w
      PROVE  \E j \in Slots :
                /\ tables[j].view[k] = w
                /\ \A a \in Users : UserKnown(a) /\ UserOf(a, j) => UserOf(a, i)'
  <2>1. tables[i].view[k] = w
    BY <1>1, <1>5
  <2>2. i \in 1..depth
    BY <2>1, EntryOnStack
  <2>. QED
    BY <1>4, <2>1, <2>2
<1>. QED
  BY <1>1, <1>2, <1>3, <1>5, UsersMove

\* What the record of the views is.
ViewsRecord(vs) ==
    vs \in [alloc : SUBSET ViewIds, value : [Keys \cup ViewIds -> Seq(Nat)],
            users : [Keys \cup ViewIds -> SUBSET [owner : Frames, iter : 0..MaxIters]]]

\* An update through view w adds the running strand to its users.
LEMMA UpdateUsers ==
    ASSUME Engine, NEW k \in Keys, NEW w \in Keys \cup ViewIds, NEW vs,
           ViewsRecord(vs), Update(k, w, vs)
    PROVE  /\ views'.users[w] = vs.users[w] \cup {CurrentUser}
           /\ \A x \in Keys \cup ViewIds : x # w => views'.users[x] = vs.users[x]
<1>. PICK u : u = CurrentUser
  OBVIOUS
<1>. PICK s : s = Append(vs.value[w], updates[k] + 1)
  OBVIOUS
<1>1. views' = [vs EXCEPT !.value[w] = s, !.users[w] = @ \cup {u}]
  BY DEF Update, CurrentUser
<1>2. /\ views'.users[w] = vs.users[w] \cup {u}
      /\ \A x \in Keys \cup ViewIds : x # w => views'.users[x] = vs.users[x]
  BY <1>1 DEF ViewsRecord
<1>. QED
  BY <1>2

\* The views, with their types.
LEMMA ViewsAre ==
    ASSUME ViewsOK
    PROVE  views \in [alloc : SUBSET ViewIds, value : [Keys \cup ViewIds -> Seq(Nat)],
                      users : [Keys \cup ViewIds -> SUBSET [owner : Frames, iter : 0..MaxIters]]]
  BY DEF ViewsOK, ViewsTyped

\* A new view has no users.
LEMMA NewViewUnused ==
    ASSUME ViewsOK, NEW w \in ViewIds
    PROVE  /\ WithView(w).users[w] = {}
           /\ \A x \in Keys \cup ViewIds : x # w => WithView(w).users[x] = views.users[x]
  BY DEF ViewsOK, ViewsTyped, WithView

\* What a hook on reducers does to the users.
LEMMA UsersHyper ==
    ASSUME Engine, Declared, ViewsOK, UsersPlaced,
           UNCHANGED <<depth, frames, frame_id, tree, joined, pc>>,
           \A w \in Keys \cup ViewIds : views'.users[w] \subseteq views.users[w] \cup {CurrentUser},
           \A i \in Slots, j \in Keys, w \in ViewIds :
              tables'[i].view[j] = w =>
                 tables[i].view[j] = w \/ (i \in 1..depth /\ views'.users[w] \subseteq {CurrentUser}),
           \A j \in Keys : owner'[j] # NoOwner =>
              owner'[j] = owner[j] \/ views'.users[j] = {}
    PROVE  UsersPlaced'
<1>. PICK u : u = CurrentUser
  OBVIOUS
<1>1. /\ u \in Users /\ UserKnown(u)
      /\ \A i \in 1..depth : /\ Under(u, i) /\ IterOf(u, i) = frames[i].iter
                             /\ IsLCA(u, i) => ~ParallelAt(u, i)
  BY CurrentUserFacts
<1>2. /\ \A i \in 1..depth : UserOf(u, i)
      /\ \A d \in 1..depth : UserOfLeftmost(u, d)
  BY <1>1 DEF UserOf, UserOfLeftmost
<1>3. /\ \A a : UserKnown(a) => UserKnown(a)'
      /\ \A a, i : i \in 1..depth /\ UserOfLeftmost(a, i) => UserOfLeftmost(a, i)'
      /\ \A a, i : i \in 1..depth /\ UserOf(a, i) => UserOf(a, i)'
  BY UserSame
<1>4. ASSUME NEW w \in Keys \cup ViewIds, NEW a \in views'.users[w] PROVE UserKnown(a)'
  <2>1. a \in views.users[w] \/ a = u
    BY <1>4
  <2>2. UserKnown(a)
    BY <1>1, <2>1 DEF UsersPlaced
  <2>. QED
    BY <1>3, <2>2
<1>5. ASSUME NEW i \in Slots, NEW k \in Keys, NEW w \in ViewIds, tables'[i].view[k] = w,
             NEW a \in views'.users[w]
      PROVE  UserOf(a, i)'
  <2>1. a \in views.users[w] \/ a = u
    BY <1>5
  <2>2. CASE tables[i].view[k] = w
    <3>1. i \in 1..depth
      BY <2>2, EntryOnStack
    <3>2. UserOf(a, i)
      BY <1>2, <2>1, <2>2, <3>1 DEF UsersPlaced
    <3>. QED
      BY <1>3, <3>1, <3>2
  <2>3. CASE i \in 1..depth /\ views'.users[w] \subseteq {CurrentUser}
    <3>1. a = u
      BY <1>5, <2>3
    <3>. QED
      BY <1>2, <1>3, <2>3, <3>1
  <2>. QED
    BY <1>5, <2>2, <2>3
<1>6. ASSUME NEW k \in Keys, NEW d \in Slots, owner'[k] # NoOwner, owner'[k].slot = d,
             NEW a \in views'.users[k]
      PROVE  UserOfLeftmost(a, d)'
  <2>1. owner'[k] = owner[k]
    BY <1>6
  <2>2. Owned(k) /\ Decl(k) = d
    BY <1>6, <2>1 DEF Owned, Decl
  <2>3. d \in 1..depth
    BY <2>2 DEF Declared, OwnersOK
  <2>4. a \in views.users[k] \/ a = u
    BY <1>6
  <2>5. UserOfLeftmost(a, d)
    BY <1>2, <2>2, <2>3, <2>4 DEF UsersPlaced
  <2>. QED
    BY <1>3, <2>3, <2>5
<1>. QED
  BY <1>4, <1>5, <1>6 DEF UsersPlaced, Owned, Decl

\* A reducer is registered: its leftmost view has not been used.
LEMMA RegisterUsers ==
    ASSUME Engine, Declared, ViewsOK, NEW k \in Keys, register(k)
    PROVE  /\ views'.users[k] = {}
           /\ \A x \in Keys \cup ViewIds : x # k => views'.users[x] = views.users[x]
           /\ \A j \in Keys : j # k => owner'[j] = owner[j]
           /\ \A i \in Slots, j \in Keys, w \in ViewIds :
                 tables'[i].view[j] = w => tables[i].view[j] = w
<1>1. views' = [views EXCEPT !.value[k] = <<>>, !.users[k] = {}]
  BY DEF register
<1>2. /\ views'.users[k] = {}
      /\ \A x \in Keys \cup ViewIds : x # k => views'.users[x] = views.users[x]
  BY <1>1, ViewsAre
<1>3. \A j \in Keys : j # k => owner'[j] = owner[j]
  <2>1. owner' = [owner EXCEPT ![k] = [slot |-> depth, since |-> frame_id]]
    BY DEF register
  <2>2. owner \in [Keys -> [slot : 0..MaxDepth, since : Frames]]
    BY DEF Declared, OwnersOK
  <2>. QED
    BY <2>1, <2>2
<1>4. ASSUME NEW i \in Slots, NEW j \in Keys, NEW w \in ViewIds, tables'[i].view[j] = w
      PROVE  tables[i].view[j] = w
  <2>1. CASE stealable
    <3>. PICK s : s = ViewSlot
      OBVIOUS
    <3>1. s \in Slots
      BY <2>1, StealableSlot
    <3>2. tables' = WithEntry(s, k, k)
      BY <2>1 DEF register, WithEntry
    <3>3. IsSet(tables', s, k, k)
      BY <3>1, <3>2, EntrySet DEF ViewsOK
    <3>4. w # k
      BY KeysApart
    <3>. QED
      BY <1>4, <3>3, <3>4 DEF IsSet
  <2>2. CASE ~stealable
    BY <1>4, <2>2 DEF register
  <2>. QED
    BY <2>1, <2>2
<1>. QED
  BY <1>2, <1>3, <1>4

\* A reducer dies.
LEMMA UnregisterUsers ==
    ASSUME Engine, Declared, ViewsOK, NEW k \in Keys, unregister(k)
    PROVE  /\ views' = views
           /\ \A j \in Keys : owner'[j] # NoOwner => owner'[j] = owner[j]
           /\ \A i \in Slots, j \in Keys, w \in ViewIds :
                 tables'[i].view[j] = w => tables[i].view[j] = w
<1>1. \A j \in Keys : owner'[j] # NoOwner => owner'[j] = owner[j]
  <2>1. owner' = [owner EXCEPT ![k] = NoOwner]
    BY DEF unregister
  <2>2. owner \in [Keys -> [slot : 0..MaxDepth, since : Frames]]
    BY DEF Declared, OwnersOK
  <2>. QED
    BY <2>1, <2>2
<1>2. ASSUME NEW i \in Slots, NEW j \in Keys, NEW w \in ViewIds, tables'[i].view[j] = w
      PROVE  tables[i].view[j] = w
  <2>1. CASE stealable
    <3>. PICK s : s = ViewSlot
      OBVIOUS
    <3>1. s \in Slots
      BY <2>1, StealableSlot
    <3>2. tables' = WithoutEntry(s, k)
      BY <2>1 DEF unregister, WithoutEntry
    <3>3. IsSet(tables', s, k, None)
      BY <3>1, <3>2, EntryCleared DEF ViewsOK
    <3>4. w # None
      BY ReducersAssumption DEF None, ViewIds
    <3>. QED
      BY <1>2, <3>3, <3>4 DEF IsSet
  <2>2. CASE ~stealable
    BY <1>2, <2>2 DEF unregister
  <2>. QED
    BY <2>1, <2>2
<1>. QED
  BY <1>1, <1>2 DEF unregister

\* The views that a look-up uses, and by whom.
LEMMA LookupUsers ==
    ASSUME Engine, Declared, ViewsOK, NEW k \in Keys, hyper_lookup(k)
    PROVE  \/ /\ LooksUpLeftmost(k)
              /\ \A x \in Keys \cup ViewIds : x # k => views'.users[x] = views.users[x]
              /\ views'.users[k] = views.users[k] \cup {CurrentUser}
           \/ \E w \in ViewIds \cup {k} :
                 /\ stealable /\ LooksUpView(k, ViewSlot, w)
                 /\ \A x \in Keys \cup ViewIds : x # w => views'.users[x] = views.users[x]
                 /\ views'.users[w] = views.users[w] \cup {CurrentUser}
           \/ \E w \in ViewIds :
                 /\ stealable /\ MakesView(k, ViewSlot, w)
                 /\ \A x \in Keys \cup ViewIds : x # w => views'.users[x] = views.users[x]
                 /\ views'.users[w] = {CurrentUser}
<1>. PICK vs : vs = views
  OBVIOUS
<1>1. ViewsRecord(vs)
  BY ViewsAre DEF ViewsRecord
<1>2. ASSUME NEW w \in Keys \cup ViewIds, Update(k, w, views)
      PROVE  /\ views'.users[w] = views.users[w] \cup {CurrentUser}
             /\ \A x \in Keys \cup ViewIds : x # w => views'.users[x] = views.users[x]
  <2>1. Update(k, w, vs)
    BY <1>2
  <2>2. /\ views'.users[w] = vs.users[w] \cup {CurrentUser}
        /\ \A x \in Keys \cup ViewIds : x # w => views'.users[x] = vs.users[x]
    BY <1>1, <2>1, UpdateUsers
  <2>. QED
    BY <2>2
<1>3. CASE LooksUpLeftmost(k)
  BY <1>2, <1>3 DEF LooksUpLeftmost
<1>4. ASSUME stealable, NEW w \in ViewIds \cup {k}, LooksUpView(k, ViewSlot, w)
      PROVE  /\ views'.users[w] = views.users[w] \cup {CurrentUser}
             /\ \A x \in Keys \cup ViewIds : x # w => views'.users[x] = views.users[x]
  BY <1>2, <1>4 DEF LooksUpView
<1>5. ASSUME stealable, NEW w \in ViewIds \cup {k}, MakesView(k, ViewSlot, w)
      PROVE  /\ w \in ViewIds /\ views'.users[w] = {CurrentUser}
             /\ \A x \in Keys \cup ViewIds : x # w => views'.users[x] = views.users[x]
  <2>1. w \in ViewIds /\ Update(k, w, WithView(w))
    BY <1>5 DEF MakesView
  <2>. PICK ws : ws = WithView(w)
    OBVIOUS
  <2>2. ViewsRecord(ws)
    BY <2>1, ViewAdded DEF ViewsOK, ViewsRecord
  <2>3. /\ ws.users[w] = {}
        /\ \A x \in Keys \cup ViewIds : x # w => ws.users[x] = views.users[x]
    BY <2>1, NewViewUnused
  <2>4. Update(k, w, ws)
    BY <2>1
  <2>5. /\ views'.users[w] = ws.users[w] \cup {CurrentUser}
        /\ \A x \in Keys \cup ViewIds : x # w => views'.users[x] = ws.users[x]
    BY <2>1, <2>2, <2>4, UpdateUsers
  <2>. QED
    BY <2>1, <2>3, <2>5
<1>6. \/ LooksUpLeftmost(k)
      \/ /\ stealable
         /\ \E w \in ViewIds \cup {k} :
               LooksUpView(k, ViewSlot, w) \/ MakesView(k, ViewSlot, w)
  BY LookupKinds
<1>7. CASE stealable /\ \E w \in ViewIds \cup {k} : LooksUpView(k, ViewSlot, w)
  BY <1>4, <1>7
<1>8. CASE stealable /\ \E w \in ViewIds \cup {k} : MakesView(k, ViewSlot, w)
  BY <1>5, <1>8
<1>. QED
  BY <1>2, <1>3, <1>6, <1>7, <1>8 DEF LooksUpLeftmost

\* The hooks on reducers keep the users in their places.
LEMMA UsersHook ==
    ASSUME Engine, Declared, ViewsOK, UsersPlaced, NEW k \in Keys, Hyper(k)
    PROVE  UsersPlaced'
<1>1. UNCHANGED <<depth, frames, frame_id, tree, joined, pc>>
  BY DEF Hyper, register, unregister, hyper_lookup, SameEngine
<1>2. CASE register(k)
  <2>1. /\ views'.users[k] = {}
        /\ \A x \in Keys \cup ViewIds : x # k => views'.users[x] = views.users[x]
        /\ \A j \in Keys : j # k => owner'[j] = owner[j]
        /\ \A i \in Slots, j \in Keys, w \in ViewIds :
              tables'[i].view[j] = w => tables[i].view[j] = w
    BY <1>2, RegisterUsers
  <2>2. \A w \in Keys \cup ViewIds : views'.users[w] \subseteq views.users[w] \cup {CurrentUser}
    BY <2>1
  <2>3. \A j \in Keys : owner'[j] # NoOwner => owner'[j] = owner[j] \/ views'.users[j] = {}
    BY <2>1
  <2>. QED
    BY <1>1, <2>1, <2>2, <2>3, UsersHyper
<1>3. CASE unregister(k)
  <2>1. /\ views' = views
        /\ \A j \in Keys : owner'[j] # NoOwner => owner'[j] = owner[j]
        /\ \A i \in Slots, j \in Keys, w \in ViewIds :
              tables'[i].view[j] = w => tables[i].view[j] = w
    BY <1>3, UnregisterUsers
  <2>. QED
    BY <1>1, <2>1, UsersHyper
<1>4. CASE hyper_lookup(k)
  <2>1. UNCHANGED owner
    BY <1>4 DEF hyper_lookup
  <2>2. CASE /\ LooksUpLeftmost(k)
             /\ \A x \in Keys \cup ViewIds : x # k => views'.users[x] = views.users[x]
             /\ views'.users[k] = views.users[k] \cup {CurrentUser}
    <3>1. UNCHANGED tables
      BY <2>2 DEF LooksUpLeftmost
    <3>2. \A w \in Keys \cup ViewIds : views'.users[w] \subseteq views.users[w] \cup {CurrentUser}
      BY <2>2
    <3>. QED
      BY <1>1, <2>1, <3>1, <3>2, UsersHyper
  <2>3. ASSUME NEW w \in ViewIds \cup {k}, stealable, LooksUpView(k, ViewSlot, w),
               \A x \in Keys \cup ViewIds : x # w => views'.users[x] = views.users[x],
               views'.users[w] = views.users[w] \cup {CurrentUser}
        PROVE  UsersPlaced'
    <3>1. UNCHANGED tables
      BY <2>3 DEF LooksUpView
    <3>2. \A x \in Keys \cup ViewIds : views'.users[x] \subseteq views.users[x] \cup {CurrentUser}
      BY <2>3
    <3>. QED
      BY <1>1, <2>1, <3>1, <3>2, UsersHyper
  <2>4. ASSUME NEW w \in ViewIds, stealable, MakesView(k, ViewSlot, w),
               \A x \in Keys \cup ViewIds : x # w => views'.users[x] = views.users[x],
               views'.users[w] = {CurrentUser}
        PROVE  UsersPlaced'
    <3>. PICK s : s = ViewSlot
      OBVIOUS
    <3>1. s \in 1..depth /\ s \in Slots
      BY <2>4, StealableSlot
    <3>2. tables' = WithEntry(s, k, w)
      BY <2>4 DEF MakesView
    <3>3. IsSet(tables', s, k, w)
      BY <3>1, <3>2, EntrySet DEF ViewsOK
    <3>4. \A x \in Keys \cup ViewIds : views'.users[x] \subseteq views.users[x] \cup {CurrentUser}
      BY <2>4
    <3>5. ASSUME NEW i \in Slots, NEW j \in Keys, NEW x \in ViewIds, tables'[i].view[j] = x
          PROVE  \/ tables[i].view[j] = x
                 \/ i \in 1..depth /\ views'.users[x] \subseteq {CurrentUser}
      <4>1. CASE i = s /\ j = k
        <5>1. x = w
          BY <3>3, <3>5, <4>1 DEF IsSet
        <5>. QED
          BY <2>4, <3>1, <4>1, <5>1
      <4>2. CASE i # s \/ j # k
        BY <3>3, <3>5, <4>2 DEF IsSet
      <4>. QED
        BY <4>1, <4>2
    <3>. QED
      BY <1>1, <2>1, <3>4, <3>5, UsersHyper
  <2>. QED
    BY <1>4, <2>2, <2>3, <2>4, LookupUsers
<1>. QED
  BY <1>2, <1>3, <1>4 DEF Hyper

\* Every step keeps them.
LEMMA UsersStep ==
    ASSUME Engine, Declared, ViewsOK, UsersPlaced, [ReducersNext]_rvars
    PROVE  UsersPlaced'
<1>1. CASE do_loop_begin /\ UNCHANGED hyper
  BY <1>1, UsersSame DEF do_loop_begin
<1>2. CASE UNCHANGED rvars
  BY <1>2, UsersSame DEF rvars, vars, hyper
<1>. QED
  BY <1>1, <1>2, SyncedKinds, UsersPush, UsersPop, UsersReduce, UsersIterationBegin, UsersHook

(***************************************************************************)
(* The theorem.                                                            *)
(***************************************************************************)
\* What a look-up finds was used by no strand parallel to the running one.
LEMMA LookupApart ==
    ASSUME RInv, Marks, UsersPlaced, NEW k \in Keys, hyper_lookup(k),
           NEW w \in Keys \cup ViewIds, NEW a \in views.users[w], a \in views'.users[w],
           views'.users[w] # views.users[w]
    PROVE  ~LogicallyParallel(a)
<1>1. Engine /\ Declared /\ ViewsOK
  BY DEF RInv
<1>2. pc = "body" /\ LoopSynced /\ Owned(k) /\ depth \in Nat
  <2>1. depth \in Nat
    BY <1>1, EngineTypes
  <2>. QED
    BY <2>1 DEF hyper_lookup, Owned
<1>3. a \in Users /\ UserKnown(a) /\ a.owner \in 0..frame_id
  BY <1>1, UsersAre DEF UsersPlaced, UserKnown
<1>. SUFFICES ASSUME NEW j \in 1..depth, IsLCA(a, j), ParallelAt(a, j) PROVE FALSE
  BY ParallelIsAt
<1>4. frames[j].InContin # {}
  BY <1>1, <1>2, <1>3, NotParallel
<1>5. CASE LooksUpLeftmost(k)
  <2>1. ~stealable
    BY <1>5 DEF LooksUpLeftmost
  <2>. QED
    BY <1>1, <1>4, <2>1, StealableSlot
<1>6. CASE stealable
  <2>. PICK s : s = ViewSlot
    OBVIOUS
  <2>1. /\ s \in 1..depth /\ s \in Slots
        /\ \A i \in (s + 1)..depth : frames[i].InContin = {}
    BY <1>1, <1>6, StealableSlot
  <2>2. j <= s
    BY <1>2, <1>4, <2>1
  <2>3. ASSUME w \in ViewIds, tables[s].view[k] = w PROVE FALSE
    <3>1. UserOf(a, s)
      BY <2>1, <2>3 DEF UsersPlaced
    <3>2. Under(a, s)
      BY <3>1 DEF UserOf
    <3>3. s <= j
      BY <1>1, <1>3, <2>1, <3>2, LCAAbove
    <3>4. s = j
      BY <1>2, <2>1, <2>2, <3>3
    <3>. QED
      BY <1>2, <3>1, <3>4 DEF UserOf, Ending
  <2>4. ASSUME w = k, tables[s].view[k] = k PROVE FALSE
    <3>. PICK d : d = Decl(k)
      OBVIOUS
    <3>1. d \in 1..depth /\ d \in Slots
      <4>1. d \in 1..depth
        BY <1>1, <1>2 DEF Declared, OwnersOK
      <4>. QED
        BY <1>1, <4>1, EngineTypes
    <3>2. UserOfLeftmost(a, d)
      BY <1>2, <2>4, <3>1 DEF UsersPlaced
    <3>3. Under(a, d)
      BY <3>2 DEF UserOfLeftmost
    <3>4. d <= j
      BY <1>1, <1>3, <3>1, <3>3, LCAAbove
    <3>5. s = RegisteredAt(k)
      BY <1>1, <1>2, <2>1, <2>4 DEF ViewsOK, ViewsPlaced, PlacedAt
    <3>6. frames[d].ParentContin \in Nat
      <4>1. frames[d] \in FrameData
        BY <1>1, <3>1, EngineTypes
      <4>. QED
        BY <4>1, FrameFields
    <3>7. Loop \in frames[d].InContin /\ s = d
      <4>1. CASE Loop \in frames[d].InContin
        BY <3>5, <4>1 DEF RegisteredAt
      <4>2. CASE Loop \notin frames[d].InContin
        <5>1. s < d
          BY <2>1, <3>1, <3>5, <3>6, <4>2 DEF RegisteredAt
        <5>. QED
          BY <1>2, <2>1, <2>2, <3>1, <3>4, <5>1
      <4>. QED
        BY <4>1, <4>2
    <3>8. j = d
      BY <1>2, <2>1, <2>2, <3>1, <3>4, <3>7
    <3>9. frames[d].InContin \subseteq {Loop} /\ frames[d].type = "loop"
      <4>1. ~LoopBodySpawns
        BY <1>1, <1>2, <3>7 DEF ViewsOK, ViewsPlaced
      <4>. QED
        BY <1>1, <3>1, <3>7, <4>1 DEF Declared, LoopBits
    <3>10. ~Outstanding(a, j)
      BY <1>1, <1>2, <1>3, <3>8, <3>9, NotOutstanding
    <3>11. IterOf(a, j) = frames[j].iter
      BY <3>2, <3>8, <3>9 DEF UserOfLeftmost, is_loop_frame
    <3>. QED
      BY <3>10, <3>11 DEF ParallelAt
  <2>5. ASSUME NEW x \in ViewIds \cup {k}, LooksUpView(k, ViewSlot, x),
               \A y \in Keys \cup ViewIds : y # x => views'.users[y] = views.users[y]
        PROVE  FALSE
    <3>1. w = x /\ tables[s].view[k] = x
      BY <2>5 DEF LooksUpView
    <3>. QED
      BY <2>3, <2>4, <3>1
  <2>6. ASSUME NEW x \in ViewIds,
               \A y \in Keys \cup ViewIds : y # x => views'.users[y] = views.users[y],
               views'.users[x] = {CurrentUser}
        PROVE  FALSE
    <3>1. a = CurrentUser
      BY <2>6
    <3>. QED
      BY <1>1, <3>1, CurrentUserFacts
  <2>. QED
    BY <1>1, <1>6, <2>5, <2>6, LookupUsers DEF LooksUpLeftmost
<1>. QED
  BY <1>1, <1>5, <1>6, LookupUsers

\* No step gives two parallel strands the same view.
LEMMA StepApart ==
    ASSUME RInv, Marks, UsersPlaced, [ReducersNext]_rvars,
           NEW w \in Keys \cup ViewIds, NEW a \in views.users[w],
           views'.users[w] # views.users[w], views'.users[w] # {}, a \in views'.users[w]
    PROVE  ~LogicallyParallel(a)
<1>1. Engine /\ Declared /\ ViewsOK
  BY DEF RInv
<1>2. UNCHANGED hyper \/ UNCHANGED rvars => FALSE
  BY DEF rvars, hyper
<1>3. ReducingStep => FALSE
  BY ReducingUsers
<1>4. ASSUME NEW k \in Keys, Hyper(k) PROVE ~LogicallyParallel(a)
  <2>1. CASE register(k)
    BY <1>1, <2>1, RegisterUsers
  <2>2. CASE unregister(k)
    BY <1>1, <2>2, UnregisterUsers
  <2>3. CASE hyper_lookup(k)
    BY <2>3, LookupApart
  <2>. QED
    BY <1>4, <2>1, <2>2, <2>3 DEF Hyper
<1>. QED
  BY <1>2, <1>3, <1>4, SyncedKinds

\* hyper_lookup: in every program that registers no reducer while one of the
\* frame's spawns is open, a look-up never gives the running strand a view that
\* a strand logically parallel to it has used.
THEOREM ParallelStrandsApart ==
    ASSUME ~RegisterInContinuation
    PROVE  ReducersSpec => ParallelStrandsHaveOwnViews
<1>. DEFINE I == RInv /\ Marks /\ UsersPlaced
            Step == \A w \in Keys \cup ViewIds : \A a \in views.users[w] :
                       views'.users[w] # views.users[w] /\ views'.users[w] # {}
                           /\ a \in views'.users[w]
                       => ~LogicallyParallel(a)
<1>1. ReducersInit => I
  BY RInvInit, MarksInit, UsersInit DEF ReducersInit
<1>2. I /\ [ReducersNext]_rvars => I'
  BY EngineStep, DeclaredStep, ViewsStep, MarksStep, UsersStep DEF RInv
<1>3. I /\ [ReducersNext]_rvars => [Step]_rvars
  BY StepApart
<1>. QED
  BY <1>1, <1>2, <1>3, PTL DEF ReducersSpec, ParallelStrandsHaveOwnViews
=============================================================================
