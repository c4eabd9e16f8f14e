------------------------- MODULE RaceDetectorProofs -------------------------
(***************************************************************************)
(* Proofs about RaceDetector: what shadow memory may hold, that the        *)
(* reports of a run are determinacy races of the execution, and that one   *)
(* reader and one writer stand for all accesses to a location.  The        *)
(* engine's part of the inductive invariant is that of SPBagsProofs,       *)
(* carried by the entries of the dictionaries in the place of recorded     *)
(* accesses.                                                               *)
(***************************************************************************)
EXTENDS RaceDetector, SPBagsProofs

USE BoundsAssumption DEF Slots, Regs, DS, Frames, Loop

\* The detector drives the engine through its hooks alone: SPBags' own record
\* of accesses stays empty.
EngineOK ==
    /\ TypeOK /\ Shape /\ BagsInPlace /\ InTree /\ LoopsApart
    /\ strands = {}

\* A hook of the engine is a step of SPBags that records no access and leaves
\* the dictionaries and the history of the detector alone.
LEMMA ControlIsNext ==
    ASSUME Control
    PROVE  /\ Next /\ strands' = strands /\ SameShadow
           /\ SameStrand \/ clearOccupied
<1>1. ASSUME NEW n \in SyncRegCounts, OldStrand(do_enter(n))
      PROVE  Next /\ strands' = strands /\ SameShadow /\ SameStrand
  BY <1>1 DEF OldStrand, Next, do_enter, start_new_function
<1>2. ASSUME OldStrand(leave_cilk_function)
      PROVE  Next /\ strands' = strands /\ SameShadow /\ SameStrand
  BY <1>2 DEF OldStrand, Next, leave_cilk_function
<1>3. ASSUME NEW n \in SyncRegCounts, NEW r \in Regs, NewStrand(do_task(n, r))
      PROVE  Next /\ strands' = strands /\ SameShadow /\ clearOccupied
  BY <1>3 DEF NewStrand, Next, do_task, start_new_function
<1>4. ASSUME OldStrand(return_from_detach)
      PROVE  Next /\ strands' = strands /\ SameShadow /\ SameStrand
  BY <1>4 DEF OldStrand, Next, return_from_detach
<1>5. ASSUME NewStrand(do_detach_continue) \/ NewStrand(do_detach_unwind)
      PROVE  Next /\ strands' = strands /\ SameShadow /\ clearOccupied
  BY <1>5 DEF NewStrand, Next, do_detach_continue, do_detach_unwind
<1>6. ASSUME NEW r \in Regs, NewStrand(do_sync(r))
      PROVE  Next /\ strands' = strands /\ SameShadow /\ clearOccupied
  BY <1>6 DEF NewStrand, Next, do_sync
<1>7. ASSUME OldStrand(do_loop_begin) \/ OldStrand(do_loop_end)
      PROVE  Next /\ strands' = strands /\ SameShadow /\ SameStrand
  BY <1>7 DEF OldStrand, Next, do_loop_begin, do_loop_end
<1>8. ASSUME NEW n \in SyncRegCounts, NEW r \in Regs,
             NewStrand(do_loop_iteration_first(n, r))
      PROVE  Next /\ strands' = strands /\ SameShadow /\ clearOccupied
  BY <1>8 DEF NewStrand, Next, do_loop_iteration_first, start_new_function
<1>9. ASSUME NewStrand(do_loop_iteration_begin) \/ NewStrand(do_loop_iteration_end)
      PROVE  Next /\ strands' = strands /\ SameShadow /\ clearOccupied
  BY <1>9 DEF NewStrand, Next, do_loop_iteration_begin, do_loop_iteration_end
<1>. QED
  BY <1>1, <1>2, <1>3, <1>4, <1>5, <1>6, <1>7, <1>8, <1>9 DEF Control

\* An access leaves the engine alone, but for the mark of the head's bag.
Mark == pc = "body" /\ UNCHANGED Engine /\ (getSbagForAccess \/ UNCHANGED frames)

\* Every hook of an access is a mark.
LEMMA AccessMarks ==
    ASSUME NEW l \in Locs, Access(l)
    PROVE  Mark
  BY DEF Access, do_read_slow, do_write_slow, check_read_fast, check_write_fast,
         record_alloc, check_races_and_update_with_read,
         check_races_and_update_with_write, Mark

\* What a mark changes: the used bits of the head.
LEMMA MarkFacts ==
    ASSUME TypeOK, Mark
    PROVE  /\ UNCHANGED <<depth, bagOf, nds, frame_id, pc, sync_reg, tree, joined, strands>>
           /\ frames' \in [Slots -> FrameData]
           /\ \A i \in 1..depth :
                 /\ frames'[i].type = frames[i].type /\ frames'[i].fid = frames[i].fid
                 /\ frames'[i].iter = frames[i].iter
                 /\ frames'[i].version = frames[i].version
                 /\ frames'[i].sds = frames[i].sds /\ frames'[i].ids = frames[i].ids
                 /\ frames'[i].Pbags = frames[i].Pbags
                 /\ frames[i].Sbag_used => frames'[i].Sbag_used
                 /\ frames[i].Iterbag_used => frames'[i].Iterbag_used
                 /\ frames'[i].Iterbag_used => frames[i].Iterbag_used \/ frames[i].type = "loop"
           /\ getSbagForAccess /\ head.type = "loop" => frames'[depth].Iterbag_used
           /\ getSbagForAccess /\ head.type # "loop" => frames'[depth].Sbag_used
<1>1. UNCHANGED <<depth, bagOf, nds, frame_id, pc, sync_reg, tree, joined, strands>>
  BY DEF Mark, Engine
<1>2. /\ depth \in Slots /\ frames \in [Slots -> FrameData]
      /\ frames[depth] \in FrameData
      /\ \A i \in 1..depth : i \in Slots /\ frames[i] \in FrameData
  <2>1. depth \in 1..MaxDepth /\ frames \in [Slots -> FrameData]
    BY DEF TypeOK
  <2>. QED
    BY <2>1
<1>3. frames' \in [Slots -> FrameData]
  <2>0. frames[depth].Sbag_used \in BOOLEAN /\ frames[depth].Iterbag_used \in BOOLEAN
    BY <1>2, FrameFields
  <2>1. /\ (frames[depth].Sbag_used \/ head.type # "loop") \in BOOLEAN
        /\ (frames[depth].Iterbag_used \/ head.type = "loop") \in BOOLEAN
    BY <2>0
  <2>2. 0 \in Regs /\ TRUE \in BOOLEAN /\ {} \in SUBSET (0..MaxRegs)
    OBVIOUS
  <2>3. CASE getSbagForAccess
    BY <2>1, <2>2, <2>3, StackUpdates DEF getSbagForAccess
  <2>. QED
    BY <1>2, <2>3 DEF Mark
<1>4. ASSUME getSbagForAccess
      PROVE  /\ head.type = "loop" => frames'[depth].Iterbag_used
             /\ head.type # "loop" => frames'[depth].Sbag_used
  BY <1>2, <1>4 DEF getSbagForAccess, FrameData
<1>5. ASSUME NEW i \in 1..depth
      PROVE  /\ frames'[i].type = frames[i].type /\ frames'[i].fid = frames[i].fid
             /\ frames'[i].iter = frames[i].iter
             /\ frames'[i].version = frames[i].version
             /\ frames'[i].sds = frames[i].sds /\ frames'[i].ids = frames[i].ids
             /\ frames'[i].Pbags = frames[i].Pbags
             /\ frames[i].Sbag_used => frames'[i].Sbag_used
             /\ frames[i].Iterbag_used => frames'[i].Iterbag_used
             /\ frames'[i].Iterbag_used => frames[i].Iterbag_used \/ frames[i].type = "loop"
  <2>1. CASE getSbagForAccess
    <3>1. /\ frames'[i].type = frames[i].type /\ frames'[i].fid = frames[i].fid
          /\ frames'[i].iter = frames[i].iter
          /\ frames'[i].version = frames[i].version
          /\ frames'[i].sds = frames[i].sds /\ frames'[i].ids = frames[i].ids
          /\ frames'[i].Pbags = frames[i].Pbags
      BY <1>2, <2>1 DEF getSbagForAccess, FrameData
    <3>2. /\ frames[i].Sbag_used => frames'[i].Sbag_used
          /\ frames[i].Iterbag_used => frames'[i].Iterbag_used
          /\ frames'[i].Iterbag_used => frames[i].Iterbag_used \/ frames[i].type = "loop"
      BY <1>2, <2>1 DEF getSbagForAccess, FrameData, head
    <3>. QED
      BY <3>1, <3>2
  <2>. QED
    BY <2>1 DEF Mark
<1>. QED
  BY <1>1, <1>3, <1>4, <1>5

\* A mark keeps every live bag live.
LEMMA MarkLive ==
    ASSUME TypeOK, Mark, NEW d, LiveBag(bagOf[d])
    PROVE  LiveBag(bagOf[d])'
<1>1. PICK i \in 1..depth : LiveAt(i, bagOf[d])
  BY DEF LiveBag
<1>2. /\ depth' = depth /\ bagOf' = bagOf /\ frames'[i].Pbags = frames[i].Pbags
      /\ frames[i].Sbag_used => frames'[i].Sbag_used
      /\ frames[i].Iterbag_used => frames'[i].Iterbag_used
  BY MarkFacts
<1>. QED
  BY <1>1, <1>2 DEF LiveBag, LiveAt

\* A mark keeps the engine's part of the invariant.
LEMMA MarkKeeps ==
    ASSUME EngineOK, Mark
    PROVE  EngineOK'
<1>1. /\ UNCHANGED <<depth, bagOf, nds, frame_id, pc, sync_reg, tree, joined, strands>>
      /\ frames' \in [Slots -> FrameData]
      /\ \A i \in 1..depth :
            /\ frames'[i].type = frames[i].type /\ frames'[i].fid = frames[i].fid
            /\ frames'[i].iter = frames[i].iter
            /\ frames'[i].sds = frames[i].sds /\ frames'[i].ids = frames[i].ids
            /\ frames'[i].Iterbag_used => frames[i].Iterbag_used \/ frames[i].type = "loop"
  BY MarkFacts DEF EngineOK
<1>t. depth \in 1..MaxDepth /\ 1 \in 1..depth /\ depth \in 1..depth
  BY DEF EngineOK, TypeOK
<1>2. TypeOK'
  BY <1>1 DEF EngineOK, TypeOK
<1>3. Shape'
  BY <1>1, <1>t DEF EngineOK, Shape, head
<1>4. BagsInPlace'
  BY <1>1, <1>t DEF EngineOK, BagsInPlace
<1>5. InTree'
  <2>1. OnStack'
    <3>1. \A i \in 1..depth : i > 1 => i - 1 \in 1..depth
      BY <1>t
    <3>. QED
      BY <1>1, <3>1 DEF EngineOK, InTree, OnStack
  <2>2. PathsAgree'
    <3>1. OnStack /\ PathsAgree
      BY DEF EngineOK, InTree
    <3>2. ASSUME NEW f \in 0..frame_id, NEW j \in 1..tree[f].level,
                 j <= depth, tree[f].path[j] = frames'[j].fid, NEW i \in 1..j
          PROVE  tree[f].path[i] = frames'[i].fid
      <4>0. tree[f].level \in Slots
        BY <3>1 DEF PathsAgree
      <4>1. j \in 1..depth /\ i \in 1..depth
        BY <3>2, <1>t, <4>0
      <4>2. tree[f].path[j] = frames[j].fid
        BY <4>1, <3>2, <1>1
      <4>. QED
        BY <4>1, <4>2, <3>1, <3>2, <1>1 DEF PathsAgree
    <3>. QED
      BY <1>1, <3>1, <3>2 DEF PathsAgree
  <2>. QED
    BY <1>1, <2>1, <2>2 DEF EngineOK, InTree
<1>6. LoopsApart'
  <2>1. \A i \in 2..depth : i \in 1..depth /\ i - 1 \in 1..depth
    BY <1>t
  <2>. QED
    BY <1>1, <1>t, <2>1 DEF EngineOK, LoopsApart, head
<1>. QED
  BY <1>1, <1>2, <1>3, <1>4, <1>5, <1>6 DEF EngineOK

\* What a step of the detector does to the engine.
LEMMA DetectorStepKinds ==
    ASSUME [DetectorNext]_dvars
    PROVE  \/ Next /\ strands' = strands /\ Control
           \/ Mark /\ \E l \in Locs : Access(l)
           \/ UNCHANGED dvars
  BY ControlIsNext, AccessMarks DEF DetectorNext

\* Every step of the detector keeps the engine's part of the invariant.
LEMMA EngineStep == EngineOK /\ [DetectorNext]_dvars => EngineOK'
<1>. SUFFICES ASSUME EngineOK, [DetectorNext]_dvars PROVE EngineOK'
  OBVIOUS
<1>0. NoDanglingBag
  BY DEF EngineOK, NoDanglingBag
<1>1. ASSUME [Next]_vars, strands' = strands PROVE EngineOK'
  <2>1. TypeOK /\ Shape /\ BagsInPlace /\ InTree /\ LoopsApart
    BY DEF EngineOK
  <2>2. TypeOK' /\ Shape' /\ BagsInPlace' /\ InTree' /\ LoopsApart'
    BY <1>0, <1>1, <2>1, TypeStep, ShapeStep, BagsStep, TreeStep, LoopsStep
  <2>. QED
    BY <1>1, <2>2 DEF EngineOK
<1>2. UNCHANGED dvars => UNCHANGED vars /\ strands' = strands
  BY DEF dvars, vars
<1>. QED
  BY <1>1, <1>2, MarkKeeps, DetectorStepKinds

\* The initial state of the engine satisfies its part of the invariant.
LEMMA EngineInit == DetectorInit => EngineOK
  BY InitFacts, BagsInit, TreeInit DEF DetectorInit, Init, EngineOK

(***************************************************************************)
(* The entries of the dictionaries.                                        *)
(***************************************************************************)
\* An access shadow memory may ask about: its node exists, its bag is in use
\* and it is where the invocation tree says.
Tracked(a) ==
    /\ a \in MemoryAccess /\ a.ds \in 1..nds
    /\ LiveBag(bagOf[a.ds]) /\ Placed(a)

Entry(a) == a = NoAccess \/ Tracked(a)

EntriesTracked == \A l \in Locs : Entry(reads[l]) /\ Entry(writes[l])

\* Every hook of the engine keeps a live bag live and the nodes in existence.
LEMMA LiveStep ==
    ASSUME TypeOK, Shape, BagsInPlace, Next, NEW d \in 1..nds, LiveBag(bagOf[d])
    PROVE  d \in 1..nds' /\ LiveBag(bagOf[d])'
<1>t. /\ depth \in 1..MaxDepth /\ nds \in 1..MaxDS /\ d \in DS
  BY DEF TypeOK
<1>1. CASE Push
  <2>1. PICK type \in {"spawner", "detacher", "loop"}, n \in 0..MaxRegs, r \in Regs :
           CanPush /\ start_new_function(type, n, r) /\ pc' = "body"
    BY <1>1 DEF Push
  <2>2. /\ depth' = depth + 1
        /\ nds' = IF type = "loop" THEN nds + 2 ELSE nds + 1
        /\ \A i \in 1..depth : frames'[i] = frames[i]
    BY <2>1, PushFacts
  <2>3. bagOf'[d] = bagOf[d]
    BY <2>1, PushNodes
  <2>4. PICK i \in 1..depth : LiveAt(i, bagOf[d])
    BY DEF LiveBag
  <2>5. i \in 1..depth' /\ frames'[i] = frames[i] /\ d \in 1..nds'
    BY <2>2, <1>t
  <2>. QED
    BY <2>3, <2>4, <2>5 DEF LiveBag, LiveAt
<1>2. CASE Pop
  BY <1>2, <1>t, PopFacts, PopLive
<1>3. CASE HeadOnly
  BY <1>3, HeadFacts, HeadLive
<1>4. CASE do_loop_begin
  BY <1>4 DEF do_loop_begin, LiveBag, LiveAt
<1>5. CASE do_loop_iteration_end
  <2>1. nds' \in Nat /\ nds <= nds'
    BY <1>5, IterationFacts
  <2>2. d \in 1..nds'
    BY <2>1, <1>t
  <2>. QED
    BY <1>5, <2>2, IterationLive
<1>. QED
  BY <1>1, <1>2, <1>3, <1>4, <1>5, StepKinds

\* A step of the detector keeps track of an access.
LEMMA TrackedStep ==
    ASSUME EngineOK, [DetectorNext]_dvars, NEW a, Tracked(a)
    PROVE  Tracked(a)'
<1>0. /\ TypeOK /\ Shape /\ BagsInPlace /\ InTree /\ LoopsApart
      /\ a \in MemoryAccess /\ a.ds \in 1..nds /\ LiveBag(bagOf[a.ds]) /\ Placed(a)
  BY DEF EngineOK, Tracked
<1>1. CASE Next
  <2>1. a.ds \in 1..nds' /\ LiveBag(bagOf[a.ds])'
    BY <1>0, <1>1, LiveStep
  <2>2. Placed(a)'
    BY <1>0, <1>1, PlacedStep
  <2>. QED
    BY <1>0, <2>1, <2>2 DEF Tracked
<1>2. CASE UNCHANGED vars
  <2>1. UNCHANGED <<depth, frames, bagOf, nds, frame_id, tree, joined>>
    BY <1>2 DEF vars
  <2>2. Placed(a)'
    BY <1>0, <2>1 DEF Placed, Home, ChildOf, IterOf, Outstanding, IsLCA,
                      InPbag, InIterbag, InSbag, is_loop_frame
  <2>3. LiveBag(bagOf[a.ds])'
    BY <1>0, <2>1 DEF LiveBag, LiveAt
  <2>. QED
    BY <1>0, <2>1, <2>2, <2>3 DEF Tracked
<1>3. CASE Mark
  <2>1. UNCHANGED <<depth, bagOf, nds, frame_id, pc, sync_reg, tree, joined, strands>>
    BY <1>0, <1>3, MarkFacts
  <2>2. LiveBag(bagOf[a.ds])'
    BY <1>0, <1>3, MarkLive
  <2>3. CASE getSbagForAccess
    BY <1>0, <2>1, <2>2, <2>3, PlacedMark DEF Tracked
  <2>4. CASE UNCHANGED frames
    BY <1>2, <2>1, <2>4 DEF vars
  <2>. QED
    BY <1>3, <2>3, <2>4 DEF Mark
<1>4. UNCHANGED dvars => UNCHANGED vars
  BY DEF dvars
<1>. QED
  BY <1>1, <1>2, <1>3, <1>4, DetectorStepKinds

(***************************************************************************)
(* What an access does to the shadow memory.                               *)
(***************************************************************************)
\* An entry that does not race is replaced by one that names the running
\* strand, with the bag getSbagForAccess has just marked: MemoryAccess_t::set
\* keeps the version only where it is the current one, or is not looked at.
LEMMA SetTracked ==
    ASSUME EngineOK, pc = "body", getSbagForAccess, UNCHANGED Engine,
           NEW a, Entry(a), ~RacesWith(a)
    PROVE  /\ set(a).owner = head.fid /\ set(a).iter = head.iter
           /\ isValid(set(a))
           /\ \E b : b = set(a) /\ Tracked(b)'
<1>0. /\ TypeOK /\ Shape /\ BagsInPlace /\ InTree /\ LoopsApart /\ Mark
  BY DEF EngineOK, Mark
<1>1. PICK c : c = CurrentAccess
  OBVIOUS
<1>2. /\ c \in MemoryAccess /\ c.ds \in 1..nds /\ Placed(c)
      /\ bagOf[c.ds] = IF head.type = "loop" THEN Iterbag(depth) ELSE Sbag(depth)
      /\ c.owner = head.fid /\ c.iter = head.iter
      /\ head.type = "loop" => c.version = head.version
  BY <1>0, <1>1, CurrentPlaced DEF CurrentAccess
<1>3. PICK b : b = set(a)
  OBVIOUS
<1>4. b = IF a.ds = c.ds THEN [c EXCEPT !.version = a.version] ELSE c
  BY <1>1, <1>3 DEF set
<1>5. nds \in Nat /\ c.ds # 0
  <2>1. nds \in 1..MaxDS
    BY <1>0 DEF TypeOK
  <2>. QED
    BY <1>2, <2>1
<1>6. ASSUME a.ds = c.ds
      PROVE  a \in MemoryAccess /\ a.ds \in 1..nds /\ Placed(a)
  BY <1>2, <1>5, <1>6 DEF Entry, Tracked, NoAccess
<1>7. b.ds = c.ds /\ b.owner = c.owner /\ b.iter = c.iter /\ b \in MemoryAccess
  <2>1. CASE a.ds = c.ds
    <3>1. a.version \in 0..(VersionMod - 1)
      BY <1>6, <2>1 DEF MemoryAccess
    <3>. QED
      BY <1>2, <1>4, <2>1, <3>1 DEF MemoryAccess
  <2>. QED
    BY <1>2, <1>4, <2>1
<1>8. head.type = "loop" => b.version = c.version
  <2>1. ASSUME head.type = "loop", a.ds = c.ds
        PROVE  a.version = c.version
    <3>1. /\ bagOf[a.ds] = Iterbag(depth) /\ Iterbag(depth).kind = "I"
          /\ Iterbag(depth).slot = depth
      BY <1>2, <2>1, BagsDiffer
    <3>2. ~(a.version < head.version)
      BY <1>5, <2>1, <3>1 DEF RacesWith, isValid, previousAccessInParallel,
                              check_parallel_iter
    <3>3. a.version <= head.version
      BY <1>6, <2>1, <3>1 DEF Placed, InIterbag, Home, head
    <3>4. a.version \in Nat /\ head.version \in Nat
      <4>1. a.version \in 0..(VersionMod - 1)
        BY <1>6, <2>1 DEF MemoryAccess
      <4>2. head.version \in 0..(VersionMod - 1)
        BY <1>0, HeadType, FrameFields
      <4>. QED
        BY <4>1, <4>2
    <3>. QED
      BY <1>2, <2>1, <3>2, <3>3, <3>4
  <2>2. CASE a.ds = c.ds
    BY <1>2, <1>4, <2>1, <2>2 DEF MemoryAccess
  <2>. QED
    BY <1>4, <2>2
<1>9. Placed(b)
  <2>1. Home(b) = Home(c) /\ Home(c) = depth
    BY <1>2, <1>7, BagsDiffer DEF Home
  <2>2. IterOf(b, depth) = IterOf(c, depth) /\ (Outstanding(b, depth) <=> Outstanding(c, depth))
    BY <1>7 DEF IterOf, Outstanding, ChildOf
  <2>3. IsLCA(b, depth) <=> IsLCA(c, depth)
    BY <1>7 DEF IsLCA
  <2>4. InPbag(b, depth) /\ InSbag(b, depth)
    BY <1>2, <1>7, <2>1, <2>2 DEF Placed, InPbag, InSbag, ChildOf
  <2>5. InIterbag(b, depth)
    <3>1. CASE head.type = "loop"
      BY <1>2, <1>7, <1>8, <2>1, <3>1 DEF Placed, InIterbag
    <3>2. CASE head.type # "loop"
      BY <1>2, <1>7, <3>2, BagsDiffer DEF InIterbag
    <3>. QED
      BY <3>1, <3>2
  <2>. QED
    BY <1>2, <1>7, <2>1, <2>2, <2>3, <2>4, <2>5 DEF Placed
<1>10. Placed(b)'
  BY <1>0, <1>9, PlacedMark DEF Engine
<1>11. LiveBag(bagOf[b.ds])'
  <2>1. /\ bagOf' = bagOf /\ depth' = depth
        /\ head.type = "loop" => frames'[depth].Iterbag_used
        /\ head.type # "loop" => frames'[depth].Sbag_used
    BY <1>0, MarkFacts
  <2>2. depth \in 1..depth
    <3>1. depth \in 1..MaxDepth
      BY <1>0 DEF TypeOK
    <3>. QED
      BY <3>1
  <2>. QED
    BY <1>2, <1>7, <2>1, <2>2 DEF LiveBag, LiveAt
<1>12. nds' = nds
  BY DEF Engine
<1>. QED
  BY <1>2, <1>3, <1>5, <1>7, <1>10, <1>11, <1>12 DEF Tracked, isValid

\* An entry after a check is tracked.
LEMMA UpdatedTracked ==
    ASSUME EngineOK, pc = "body", UNCHANGED Engine,
           NEW a, Entry(a),
           getSbagForAccess \/ (RacesWith(a) /\ UNCHANGED frames)
    PROVE  \E b : b = Updated(a) /\ Tracked(b)'
<1>1. CASE RacesWith(a)
  <2>1. Updated(a) = a /\ Tracked(a)
    BY <1>1 DEF Updated, Entry, RacesWith, isValid, NoAccess
  <2>2. TypeOK /\ Mark
    BY DEF EngineOK, Mark
  <2>3. UNCHANGED <<depth, bagOf, nds, frame_id, pc, sync_reg, tree, joined, strands>>
    BY <2>2, MarkFacts
  <2>4. LiveBag(bagOf[a.ds])'
    BY <2>1, <2>2, MarkLive DEF Tracked
  <2>5. Placed(a)'
    <3>1. CASE getSbagForAccess
      BY <2>1, <2>2, <2>3, <3>1, PlacedMark DEF Tracked
    <3>2. CASE UNCHANGED frames
      BY <2>1, <2>3, <3>2 DEF Tracked, Placed, Home, ChildOf, IterOf, Outstanding,
         IsLCA, InPbag, InIterbag, InSbag, is_loop_frame
    <3>. QED
      BY <3>1, <3>2
  <2>. QED
    BY <2>1, <2>3, <2>4, <2>5 DEF Tracked
<1>2. CASE ~RacesWith(a)
  BY <1>2, SetTracked DEF Updated
<1>. QED
  BY <1>1, <1>2

\* What an access does to the entries of its location: each is left alone,
\* replaced after a check that found it serial, or forgotten with the object.
Kept(a, b) == b = a
Checked(a, b) ==
    /\ b = Updated(a)
    /\ getSbagForAccess \/ (RacesWith(a) /\ UNCHANGED frames)

\* The hooks of an access do one of these to each entry of the location, and
\* nothing to the entries of others.
LEMMA EntrySteps ==
    ASSUME NEW l \in Locs, Access(l), reads \in [Locs -> MemoryAccess \cup {NoAccess}],
           writes \in [Locs -> MemoryAccess \cup {NoAccess}]
    PROVE  /\ pc = "body" /\ UNCHANGED Engine
           /\ \A m \in Locs \ {l} : reads'[m] = reads[m] /\ writes'[m] = writes[m]
           /\ \/ Kept(reads[l], reads'[l]) \/ Checked(reads[l], reads'[l])
              \/ reads'[l] = NoAccess
           /\ \/ Kept(writes[l], writes'[l]) \/ Checked(writes[l], writes'[l])
              \/ writes'[l] = NoAccess
           /\ reads' = [m \in Locs |-> reads'[m]] /\ writes' = [m \in Locs |-> writes'[m]]
<1>1. CASE do_read_slow(l)
  <2>1. /\ pc = "body" /\ UNCHANGED Engine /\ writes' = writes
        /\ \/ UNCHANGED reads
           \/ getSbagForAccess /\ reads' = [reads EXCEPT ![l] = Updated(reads[l])]
    BY <1>1 DEF do_read_slow, check_races_and_update_with_read
  <2>. QED
    BY <2>1 DEF Kept, Checked
<1>2. CASE do_write_slow(l)
  <2>1. /\ pc = "body" /\ UNCHANGED Engine /\ reads' = reads
        /\ \/ UNCHANGED writes
           \/ getSbagForAccess /\ writes' = [writes EXCEPT ![l] = Updated(writes[l])]
    BY <1>2 DEF do_write_slow, check_races_and_update_with_write
  <2>. QED
    BY <2>1 DEF Kept, Checked
<1>3. CASE check_read_fast(l)
  <2>1. /\ pc = "body" /\ UNCHANGED Engine /\ writes' = writes
        /\ getSbagForAccess \/ (RacesWith(reads[l]) /\ UNCHANGED frames)
        /\ reads' = [reads EXCEPT ![l] = Updated(reads[l])]
    BY <1>3 DEF check_read_fast
  <2>. QED
    BY <2>1 DEF Kept, Checked
<1>4. CASE check_write_fast(l)
  <2>1. /\ pc = "body" /\ UNCHANGED Engine /\ reads' = reads
        /\ getSbagForAccess \/ (RacesWith(writes[l]) /\ UNCHANGED frames)
        /\ writes' = [writes EXCEPT ![l] = Updated(writes[l])]
    BY <1>4 DEF check_write_fast
  <2>. QED
    BY <2>1 DEF Kept, Checked
<1>5. CASE record_alloc(l)
  <2>1. /\ pc = "body" /\ UNCHANGED Engine
        /\ reads' = [reads EXCEPT ![l] = NoAccess]
        /\ writes' = [writes EXCEPT ![l] = NoAccess]
    BY <1>5 DEF record_alloc
  <2>. QED
    BY <2>1
<1>. QED
  BY <1>1, <1>2, <1>3, <1>4, <1>5 DEF Access

\* The dictionaries are functions on the locations, and their valid entries
\* are tracked.
ShadowOK ==
    /\ reads \in [Locs -> MemoryAccess \cup {NoAccess}]
    /\ writes \in [Locs -> MemoryAccess \cup {NoAccess}]
    /\ EntriesTracked

\* An entry of the location accessed is tracked after the access.
LEMMA EntryStep ==
    ASSUME EngineOK, pc = "body", UNCHANGED Engine, [DetectorNext]_dvars,
           NEW a, NEW b, Entry(a), Kept(a, b) \/ Checked(a, b) \/ b = NoAccess
    PROVE  Entry(b)'
<1>1. CASE Kept(a, b)
  BY <1>1, TrackedStep DEF Kept, Entry
<1>2. CASE Checked(a, b)
  BY <1>2, UpdatedTracked DEF Checked, Entry
<1>. QED
  BY <1>1, <1>2 DEF Entry, NoAccess

\* Every step of the detector keeps the valid entries tracked.
LEMMA ShadowStep == EngineOK /\ ShadowOK /\ [DetectorNext]_dvars => ShadowOK'
<1>. SUFFICES ASSUME EngineOK, ShadowOK, [DetectorNext]_dvars PROVE ShadowOK'
  OBVIOUS
<1>1. \A a : Entry(a) => Entry(a)'
  BY TrackedStep DEF Entry, NoAccess
<1>2. ASSUME UNCHANGED <<reads, writes>> PROVE ShadowOK'
  <2>1. ASSUME NEW l \in Locs PROVE (Entry(reads[l]) /\ Entry(writes[l]))'
    <3>1. PICK a : a = reads[l]
      OBVIOUS
    <3>2. PICK b : b = writes[l]
      OBVIOUS
    <3>3. Entry(a)' /\ Entry(b)'
      BY <1>1, <3>1, <3>2 DEF ShadowOK, EntriesTracked
    <3>. QED
      BY <1>2, <3>1, <3>2, <3>3
  <2>. QED
    BY <1>2, <2>1 DEF ShadowOK, EntriesTracked
<1>3. ASSUME NEW l \in Locs, Access(l) PROVE ShadowOK'
  <2>1. /\ pc = "body" /\ UNCHANGED Engine
        /\ \A m \in Locs \ {l} : reads'[m] = reads[m] /\ writes'[m] = writes[m]
        /\ \/ Kept(reads[l], reads'[l]) \/ Checked(reads[l], reads'[l])
           \/ reads'[l] = NoAccess
        /\ \/ Kept(writes[l], writes'[l]) \/ Checked(writes[l], writes'[l])
           \/ writes'[l] = NoAccess
        /\ reads' = [m \in Locs |-> reads'[m]] /\ writes' = [m \in Locs |-> writes'[m]]
    BY <1>3, EntrySteps DEF ShadowOK
  <2>2. ASSUME NEW m \in Locs PROVE (Entry(reads[m]) /\ Entry(writes[m]))'
    <3>1. PICK a, b, c, d : a = reads[m] /\ b = reads'[m] /\ c = writes[m] /\ d = writes'[m]
      OBVIOUS
    <3>2. Entry(a) /\ Entry(c)
      BY <3>1 DEF ShadowOK, EntriesTracked
    <3>3. /\ Kept(a, b) \/ Checked(a, b) \/ b = NoAccess
          /\ Kept(c, d) \/ Checked(c, d) \/ d = NoAccess
      BY <2>1, <3>1 DEF Kept
    <3>4. Entry(b)' /\ Entry(d)'
      BY <2>1, <3>2, <3>3, EntryStep
    <3>. QED
      BY <3>1, <3>4
  <2>3. EntriesTracked'
    BY <2>2 DEF EntriesTracked
  <2>4. \A m \in Locs : /\ reads'[m] \in MemoryAccess \cup {NoAccess}
                        /\ writes'[m] \in MemoryAccess \cup {NoAccess}
    BY <2>2 DEF Entry, Tracked, NoAccess
  <2>. QED
    BY <2>1, <2>3, <2>4 DEF ShadowOK
<1>4. Control \/ UNCHANGED dvars => UNCHANGED <<reads, writes>>
  BY ControlIsNext DEF SameShadow, dvars, shadow
<1>. QED
  BY <1>2, <1>3, <1>4 DEF DetectorNext

\* The dictionaries start out empty.
LEMMA ShadowInit == DetectorInit => ShadowOK
  BY DEF DetectorInit, ShadowOK, EntriesTracked, Entry

\* The inductive invariant behind the theorems about shadow memory.
LEMMA ShadowInvariant == DetectorSpec => [](EngineOK /\ ShadowOK)
  BY EngineInit, ShadowInit, EngineStep, ShadowStep, PTL DEF DetectorSpec

(***************************************************************************)
(* Reports.                                                                *)
(***************************************************************************)
\* The entries of a location are accesses that were made to its object: the
\* history holds one of the same kind by the same frame in the same iteration.
Recorded(a, l, w) ==
    isValid(a) => \E e \in past[l] : /\ e.write = w /\ e.acc.owner = a.owner
                                     /\ e.acc.iter = a.iter

EntriesRecorded ==
    \A l \in Locs : Recorded(reads[l], l, FALSE) /\ Recorded(writes[l], l, TRUE)

\* What is said of a location and its history of accesses.
HistoryOK ==
    /\ past \in [Locs -> SUBSET [acc : MemoryAccess, write : BOOLEAN]]
    /\ readsOcc \subseteq Locs /\ writesOcc \subseteq Locs
    /\ races \subseteq [loc : Locs, kind : Kinds]
    /\ real \subseteq [loc : Locs, kind : Kinds]
    /\ EntriesRecorded
    /\ ReportsAreRaces

\* Whether an access is parallel depends on the frame and the iteration it
\* was made in.
LEMMA SameStrandParallel ==
    ASSUME NEW a, NEW b, a.owner = b.owner, a.iter = b.iter
    PROVE  LogicallyParallel(a) <=> LogicallyParallel(b)
  BY DEF LogicallyParallel, IsLCA

\* An entry that races with the running strand makes the race real.
LEMMA RaceIsReal ==
    ASSUME EngineOK, ShadowOK, HistoryOK, NEW l \in Locs, NEW w \in BOOLEAN,
           NEW a, Entry(a), NEW v \in BOOLEAN, Recorded(a, l, v), RacesWith(a), v \/ w
    PROVE  [loc |-> l, kind |-> IF ~v THEN "RW" ELSE IF w THEN "WW" ELSE "WR"]
             \in TrueRaces(l, w)
<1>1. a \in MemoryAccess /\ Placed(a)
  BY DEF Entry, Tracked, RacesWith, isValid, NoAccess
<1>2. LogicallyParallel(a)
  BY <1>1, ParallelIsTrue DEF RacesWith, EngineOK
<1>3. PICK e \in past[l] : e.write = v /\ e.acc.owner = a.owner /\ e.acc.iter = a.iter
  BY DEF Recorded, RacesWith
<1>4. LogicallyParallel(e.acc)
  BY <1>2, <1>3, SameStrandParallel
<1>. QED
  BY <1>3, <1>4 DEF TrueRaces

\* What a read (w false) or a write of a location does to its entries, to the
\* reports and to the history.
Hit(l, w) ==
    /\ past' = [past EXCEPT ![l] = past[l] \cup {[acc |-> CurrentAccess, write |-> w]}]
    /\ real' = real \cup TrueRaces(l, w)
    /\ w => reads' = reads /\ writes'[l] \in {writes[l], Updated(writes[l])}
    /\ ~w => writes' = writes /\ reads'[l] \in {reads[l], Updated(reads[l])}
    /\ races \subseteq races'
    /\ \A y \in races' : \/ y \in races
                         \/ /\ y = [loc |-> l, kind |-> IF w THEN "WW" ELSE "WR"]
                            /\ RacesWith(writes[l])
                         \/ w /\ y = [loc |-> l, kind |-> "RW"] /\ RacesWith(reads[l])
    /\ w => readsOcc' = readsOcc /\ writesOcc' \subseteq writesOcc \cup {l}
    /\ ~w => writesOcc' = writesOcc /\ readsOcc' \subseteq readsOcc \cup {l}

\* Every hook of an access is such a read or write, or an allocation.
LEMMA AccessHits ==
    ASSUME NEW l \in Locs, Access(l), ShadowOK
    PROVE  Hit(l, FALSE) \/ Hit(l, TRUE) \/ record_alloc(l)
<1>t. DOMAIN reads = Locs /\ DOMAIN writes = Locs
  BY DEF ShadowOK
<1>1. CASE do_read_slow(l)
  BY <1>1, <1>t DEF do_read_slow, check_races_and_update_with_read, Witness, Report, Hit
<1>2. CASE do_write_slow(l)
  BY <1>2, <1>t DEF do_write_slow, check_races_and_update_with_write, Witness, Report, Hit
<1>3. CASE check_read_fast(l)
  BY <1>3, <1>t DEF check_read_fast, Witness, Report, Hit
<1>4. CASE check_write_fast(l)
  BY <1>4, <1>t DEF check_write_fast, Witness, Report, Hit
<1>. QED
  BY <1>1, <1>2, <1>3, <1>4 DEF Access

\* A read or a write leaves the entries of its location recorded.
LEMMA RecordedStep ==
    ASSUME HistoryOK, NEW l \in Locs, NEW w \in BOOLEAN, NEW v \in BOOLEAN, NEW a, NEW b,
           past' = [past EXCEPT ![l] = past[l] \cup {[acc |-> CurrentAccess, write |-> w]}],
           Recorded(a, l, v), b = a \/ (v = w /\ b = Updated(a))
    PROVE  Recorded(b, l, v)'
<1>1. past'[l] = past[l] \cup {[acc |-> CurrentAccess, write |-> w]}
  BY DEF HistoryOK
<1>2. CASE b = a
  BY <1>1, <1>2 DEF Recorded
<1>3. CASE v = w /\ b = set(a)
  <2>1. PICK c : c = CurrentAccess
    OBVIOUS
  <2>2. b.owner = c.owner /\ b.iter = c.iter
    BY <1>3, <2>1 DEF set, CurrentAccess
  <2>3. PICK e : e = [acc |-> c, write |-> w]
    OBVIOUS
  <2>4. e \in past'[l] /\ e.write = v /\ e.acc.owner = b.owner /\ e.acc.iter = b.iter
    BY <1>1, <1>3, <2>1, <2>2, <2>3
  <2>. QED
    BY <2>4 DEF Recorded
<1>. QED
  BY <1>2, <1>3 DEF Updated

\* Every step of the detector reports real races alone.
LEMMA HistoryStep ==
    EngineOK /\ ShadowOK /\ HistoryOK /\ [DetectorNext]_dvars => HistoryOK'
<1>. SUFFICES ASSUME EngineOK, ShadowOK, HistoryOK, [DetectorNext]_dvars PROVE HistoryOK'
  OBVIOUS
<1>1. ASSUME UNCHANGED <<reads, writes, history>>,
             readsOcc' \in {readsOcc, {}}, writesOcc' \in {writesOcc, {}}
      PROVE  HistoryOK'
  BY <1>1 DEF HistoryOK, history, EntriesRecorded, Recorded, ReportsAreRaces
<1>2. ASSUME NEW l \in Locs, NEW w \in BOOLEAN, Access(l), Hit(l, w) PROVE HistoryOK'
  <2>1. /\ past' = [past EXCEPT ![l] = past[l] \cup {[acc |-> CurrentAccess, write |-> w]}]
        /\ real' = real \cup TrueRaces(l, w)
        /\ w => reads' = reads /\ writes'[l] \in {writes[l], Updated(writes[l])}
        /\ ~w => writes' = writes /\ reads'[l] \in {reads[l], Updated(reads[l])}
        /\ \A y \in races' : \/ y \in races
                             \/ /\ y = [loc |-> l, kind |-> IF w THEN "WW" ELSE "WR"]
                                /\ RacesWith(writes[l])
                             \/ w /\ y = [loc |-> l, kind |-> "RW"] /\ RacesWith(reads[l])
        /\ readsOcc' \subseteq Locs /\ writesOcc' \subseteq Locs
    BY <1>2 DEF Hit, HistoryOK
  <2>2. past' \in [Locs -> SUBSET [acc : MemoryAccess, write : BOOLEAN]]
    <3>1. [acc |-> CurrentAccess, write |-> w] \in [acc : MemoryAccess, write : BOOLEAN]
      BY CurrentPlaced DEF EngineOK
    <3>. QED
      BY <2>1, <3>1 DEF HistoryOK
  <2>3. \A m \in Locs \ {l} : past'[m] = past[m] /\ reads'[m] = reads[m] /\ writes'[m] = writes[m]
    BY <1>2, <2>1, EntrySteps DEF ShadowOK, HistoryOK
  <2>4. EntriesRecorded'
    <3>1. ASSUME NEW m \in Locs \ {l}
          PROVE  (Recorded(reads[m], m, FALSE) /\ Recorded(writes[m], m, TRUE))'
      BY <2>3 DEF HistoryOK, EntriesRecorded, Recorded
    <3>2. (Recorded(reads[l], l, FALSE) /\ Recorded(writes[l], l, TRUE))'
      <4>1. PICK a, b, c, d : a = reads[l] /\ b = reads'[l] /\ c = writes[l] /\ d = writes'[l]
        OBVIOUS
      <4>2. Recorded(a, l, FALSE) /\ Recorded(c, l, TRUE)
        BY <4>1 DEF HistoryOK, EntriesRecorded
      <4>3. b = a \/ (w = FALSE /\ b = Updated(a))
        BY <2>1, <4>1
      <4>4. d = c \/ (w = TRUE /\ d = Updated(c))
        BY <2>1, <4>1
      <4>5. Recorded(b, l, FALSE)' /\ Recorded(d, l, TRUE)'
        BY <2>1, <4>2, <4>3, <4>4, RecordedStep
      <4>. QED
        BY <4>1, <4>5
    <3>. QED
      BY <3>1, <3>2 DEF EntriesRecorded
  <2>5. /\ Entry(reads[l]) /\ Recorded(reads[l], l, FALSE)
        /\ Entry(writes[l]) /\ Recorded(writes[l], l, TRUE)
    BY DEF ShadowOK, EntriesTracked, HistoryOK, EntriesRecorded
  <2>6. \A y \in races' : y \in races \/ y \in TrueRaces(l, w)
    <3>1. RacesWith(writes[l]) =>
            [loc |-> l, kind |-> IF w THEN "WW" ELSE "WR"] \in TrueRaces(l, w)
      <4>1. PICK a : a = writes[l]
        OBVIOUS
      <4>2. RacesWith(a) => [loc |-> l, kind |-> IF ~TRUE THEN "RW" ELSE
                                                  IF w THEN "WW" ELSE "WR"] \in TrueRaces(l, w)
        BY <2>5, <4>1, RaceIsReal
      <4>. QED
        BY <4>1, <4>2
    <3>2. w /\ RacesWith(reads[l]) => [loc |-> l, kind |-> "RW"] \in TrueRaces(l, w)
      <4>1. PICK a : a = reads[l]
        OBVIOUS
      <4>2. w /\ RacesWith(a) => [loc |-> l, kind |-> IF ~FALSE THEN "RW" ELSE
                                          IF w THEN "WW" ELSE "WR"] \in TrueRaces(l, w)
        BY <2>5, <4>1, RaceIsReal
      <4>. QED
        BY <4>1, <4>2
    <3>. QED
      BY <2>1, <3>1, <3>2
  <2>7. TrueRaces(l, w) \subseteq [loc : Locs, kind : Kinds]
    BY DEF TrueRaces, Kinds
  <2>. QED
    BY <2>1, <2>2, <2>4, <2>6, <2>7 DEF HistoryOK, ReportsAreRaces
<1>3. ASSUME NEW l \in Locs, record_alloc(l) PROVE HistoryOK'
  <2>1. /\ reads' = [reads EXCEPT ![l] = NoAccess]
        /\ writes' = [writes EXCEPT ![l] = NoAccess]
        /\ past' = [past EXCEPT ![l] = {}]
        /\ UNCHANGED <<readsOcc, writesOcc, races, real>>
    BY <1>3 DEF record_alloc
  <2>2. past' \in [Locs -> SUBSET [acc : MemoryAccess, write : BOOLEAN]]
    BY <2>1 DEF HistoryOK
  <2>3. EntriesRecorded'
    <3>1. ASSUME NEW m \in Locs
          PROVE  (Recorded(reads[m], m, FALSE) /\ Recorded(writes[m], m, TRUE))'
      <4>1. CASE m = l
        BY <2>1, <4>1 DEF ShadowOK, Recorded, isValid, NoAccess
      <4>2. CASE m # l
        BY <2>1, <4>2 DEF ShadowOK, HistoryOK, EntriesRecorded, Recorded
      <4>. QED
        BY <4>1, <4>2
    <3>. QED
      BY <3>1 DEF EntriesRecorded
  <2>. QED
    BY <2>1, <2>2, <2>3 DEF HistoryOK, ReportsAreRaces
<1>4. CASE Control
  BY <1>1, <1>4, ControlIsNext DEF SameShadow, SameStrand, clearOccupied
<1>5. CASE UNCHANGED dvars
  BY <1>1, <1>5 DEF dvars, shadow
<1>6. CASE \E l \in Locs : Access(l)
  BY <1>2, <1>3, <1>6, AccessHits
<1>. QED
  BY <1>4, <1>5, <1>6 DEF DetectorNext

\* Nothing has been accessed or reported at the start.
LEMMA HistoryInit == DetectorInit => HistoryOK
  BY DEF DetectorInit, HistoryOK, EntriesRecorded, Recorded, isValid, NoAccess, ReportsAreRaces

\* The inductive invariant behind the theorems about reports.
LEMMA HistoryInvariant == DetectorSpec => [](EngineOK /\ ShadowOK /\ HistoryOK)
  BY ShadowInvariant, HistoryInit, HistoryStep, PTL DEF DetectorSpec

\* Shadow memory never holds an access whose bag has been deleted: every valid
\* entry of Reads and Writes may be asked about.
THEOREM ShadowNeverDangles == DetectorSpec => []ShadowIsLive
<1>1. EngineOK /\ ShadowOK /\ HistoryOK => ShadowIsLive
  BY DEF EngineOK, ShadowOK, EntriesTracked, Entry, Tracked, HistoryOK, ShadowIsLive,
         DetectorTypeOK, isValid, NoAccess
<1>. QED
  BY <1>1, HistoryInvariant, PTL

\* Cilksan has no false positives among accesses made without locks: whatever
\* the program does, check_races_and_update reports only determinacy races of
\* the execution, each of the kind it is.
THEOREM NoFalseReports == DetectorSpec => []ReportsAreRaces
<1>1. HistoryOK => ReportsAreRaces
  BY DEF HistoryOK
<1>. QED
  BY <1>1, HistoryInvariant, PTL

(***************************************************************************)
(* Completeness.  One reader and one writer per location are enough in     *)
(* programs whose loop bodies neither spawn nor call, whose frames have    *)
(* one sync region and which do not reuse a location within a strand.      *)
(***************************************************************************)
\* Access x is parallel to the running strand, its youngest running frame
\* being in slot k.
Par(x, k) == Outstanding(x, k) \/ (is_loop_frame(k) /\ IterOf(x, k) # frames[k].iter)

AllSpawners(i, j) == \A k \in (i + 1)..j : frames[k].type = "spawner"

\* Access d is in parallel with every strand, now or later, that access e is
\* in parallel with.
Cover(d, e) ==
    \A i, j \in 1..depth : IsLCA(d, i) /\ IsLCA(e, j) =>
        /\ i = j /\ Par(e, j) => Par(d, i)
        /\ i < j => Par(d, i) \/ (~Par(e, j) /\ AllSpawners(i, j))
        /\ i > j => ~Par(e, j)

\* Access d is in parallel with every later strand that the running strand is
\* in parallel with.
CoversNow(d) ==
    \A i \in 1..depth : IsLCA(d, i) => Par(d, i) \/ AllSpawners(i, depth)

\* Access x was made: by a frame of the tree, in no later iteration than the
\* running one.
Made(x) ==
    /\ x.owner \in 0..frame_id
    /\ head.type = "loop" /\ IsLCA(x, depth) => IterOf(x, depth) <= head.iter

Reported(l) == \E y \in races : y.loc = l

\* No frame is above a loop frame.
LoopsOnTop == \A k \in 1..(depth - 1) : frames[k].type # "loop"

\* The one reader and the one writer stand for all the others.
EntriesCover ==
    \A l \in Locs : \A e \in past[l] :
        /\ Made(e.acc)
        /\ ~e.write => isValid(reads[l]) /\ Cover(reads[l], e.acc)
        /\ e.write => isValid(writes[l]) /\ Cover(writes[l], e.acc)

\* An occupancy bit: the strand has accessed the location, its races with
\* the accesses of the past are reported and the entry covers the strand.
OccupiedChecked ==
    /\ pc = "between" => readsOcc = {} /\ writesOcc = {}
    /\ pc = "body" =>
         /\ \A l \in readsOcc :
              /\ isValid(reads[l]) /\ CoversNow(reads[l])
              /\ \A e \in past[l] : e.write /\ LogicallyParallel(e.acc) => Reported(l)
         /\ \A l \in writesOcc :
              /\ isValid(writes[l]) /\ CoversNow(writes[l])
              /\ \A e \in past[l] : LogicallyParallel(e.acc) => Reported(l)

CoverOK == LoopsOnTop /\ EntriesCover /\ OccupiedChecked /\ RacesAreReported

\* The hooks leave a loop frame at the head of the stack, in this class.
LEMMA LoopsAreLeaves ==
    ASSUME ~LoopBodySpawns, ~LoopBodyCalls, EngineOK, Control, head.type = "loop"
    PROVE  depth' # depth + 1
<1>1. LoopsApart /\ depth \in Nat
  <2>1. depth \in 1..MaxDepth
    BY DEF EngineOK, TypeOK
  <2>. QED
    BY <2>1 DEF EngineOK
<1>2. \A n \in SyncRegCounts : ~(MayCall /\ OldStrand(do_enter(n)))
  BY DEF MayCall
<1>3. \A n \in SyncRegCounts, r \in Regs : ~NewStrand(do_task(n, r))
  BY DEF NewStrand, do_task, MaySpawn
<1>4. \A n \in SyncRegCounts, r \in Regs : ~NewStrand(do_loop_iteration_first(n, r))
  BY <1>1 DEF NewStrand, do_loop_iteration_first, LoopsApart
<1>5. OldStrand(leave_cilk_function) \/ OldStrand(return_from_detach) \/ OldStrand(do_loop_end)
        => depth' # depth + 1
  BY <1>1 DEF OldStrand, leave_cilk_function, return_from_detach, do_loop_end, exit_function
<1>6. ASSUME \/ NewStrand(do_detach_continue) \/ NewStrand(do_detach_unwind)
             \/ (\E r \in Regs : NewStrand(do_sync(r)))
             \/ OldStrand(do_loop_begin) \/ NewStrand(do_loop_iteration_begin)
             \/ NewStrand(do_loop_iteration_end)
      PROVE  depth' # depth + 1
  <2>1. depth' = depth
    BY <1>6 DEF OldStrand, NewStrand, do_detach_continue, do_detach_unwind, do_sync,
       do_loop_begin, do_loop_iteration_begin, do_loop_iteration_end
  <2>. QED
    BY <1>1, <2>1
<1>. QED
  BY <1>2, <1>3, <1>4, <1>5, <1>6 DEF Control

\* The tree around an access whose youngest running frame is in slot k.
LEMMA BelowLCA ==
    ASSUME TypeOK, InTree, NEW x, x.owner \in 0..frame_id, NEW k \in 1..depth, IsLCA(x, k)
    PROVE  /\ k \in Slots /\ k \in 1..tree[x.owner].level
           /\ tree[x.owner].level # k =>
                /\ k + 1 \in 1..tree[x.owner].level
                /\ ChildOf(x, k) \in 1..frame_id /\ tree[ChildOf(x, k)].level = k + 1
                /\ tree[ChildOf(x, k)].path[k] = frames[k].fid
<1>1. /\ tree[x.owner].level \in 1..MaxDepth /\ depth \in 1..MaxDepth
      /\ tree[0].level = 1 /\ k \in 1..MaxDepth /\ frame_id \in 0..MaxFrames
  <2>1. depth \in 1..MaxDepth /\ frame_id \in 0..MaxFrames
    BY DEF TypeOK
  <2>2. tree[x.owner].level \in 1..MaxDepth /\ tree[0].level = 1
    BY DEF InTree, PathsAgree
  <2>. QED
    BY <2>1, <2>2
<1>2. k \in 1..tree[x.owner].level /\ tree[x.owner].path[k] = frames[k].fid
  BY <1>1 DEF IsLCA
<1>3. ASSUME tree[x.owner].level # k
      PROVE  /\ k + 1 \in 1..tree[x.owner].level
             /\ ChildOf(x, k) \in 1..frame_id /\ tree[ChildOf(x, k)].level = k + 1
             /\ tree[ChildOf(x, k)].path[k] = frames[k].fid
  <2>1. k + 1 \in 1..tree[x.owner].level /\ k \in 1..(k + 1)
    BY <1>1, <1>2, <1>3
  <2>2. /\ ChildOf(x, k) \in 0..frame_id /\ tree[ChildOf(x, k)].level = k + 1
        /\ tree[ChildOf(x, k)].path[k] = tree[x.owner].path[k]
    BY <2>1 DEF InTree, PathsAgree, ChildOf
  <2>3. ChildOf(x, k) # 0
    BY <1>1, <2>2
  <2>. QED
    BY <1>1, <1>2, <2>1, <2>2, <2>3
<1>. QED
  BY <1>1, <1>2, <1>3

\* A push is above every access made so far: nothing becomes parallel.
LEMMA ParPush ==
    ASSUME TypeOK, InTree, NEW x, x.owner \in 0..frame_id,
           NEW type \in {"spawner", "detacher", "loop"}, NEW n \in 0..MaxRegs,
           NEW r \in Regs, CanPush, start_new_function(type, n, r)
    PROVE  /\ \A m : m = depth + 1 => ~IsLCA(x, m)'
           /\ \A k \in 1..depth : IsLCA(x, k)' => IsLCA(x, k) /\ (Par(x, k)' <=> Par(x, k))
<1>1. /\ frame_id' = frame_id + 1 /\ joined' = joined
      /\ \A f \in 0..frame_id : tree'[f] = tree[f]
      /\ frames'[depth + 1].fid = frame_id + 1
  BY PushTree
<1>2. depth' = depth + 1 /\ \A i \in 1..depth : frames'[i] = frames[i]
  BY PushFacts
<1>3. /\ depth \in 1..MaxDepth /\ frame_id \in 0..MaxFrames
      /\ tree[x.owner].level \in 1..MaxDepth
      /\ \A j \in 1..tree[x.owner].level : tree[x.owner].path[j] \in 0..frame_id
  BY DEF TypeOK, InTree, PathsAgree
<1>4. tree'[x.owner] = tree[x.owner]
  BY <1>1
<1>5. ASSUME NEW m, m = depth + 1 PROVE ~IsLCA(x, m)'
  <2>1. ASSUME m <= tree[x.owner].level PROVE tree[x.owner].path[m] # frame_id + 1
    BY <1>3, <1>5, <2>1
  <2>2. IsLCA(x, m)' => /\ m <= tree'[x.owner].level
                        /\ tree'[x.owner].path[m] = frames'[m].fid
    BY DEF IsLCA
  <2>. QED
    BY <1>1, <1>4, <1>5, <2>1, <2>2
<1>6. ASSUME NEW k \in 1..depth, IsLCA(x, k)'
      PROVE  IsLCA(x, k) /\ (Par(x, k)' <=> Par(x, k))
  <2>1. IsLCA(x, k)
    <3>1. k < depth => k < depth + 1 /\ k + 1 \in 1..depth
      BY <1>3
    <3>. QED
      BY <1>2, <1>4, <1>6, <3>1 DEF IsLCA
  <2>2. tree[x.owner].level # k => ChildOf(x, k) \in 0..frame_id
    BY <2>1, <1>3, BelowLCA
  <2>3. ChildOf(x, k)' = ChildOf(x, k) /\ frames'[k] = frames[k]
    BY <1>2, <1>4 DEF ChildOf
  <2>4. tree[x.owner].level # k => tree'[ChildOf(x, k)] = tree[ChildOf(x, k)]
    BY <1>1, <2>2
  <2>5. (Outstanding(x, k)' <=> Outstanding(x, k)) /\ IterOf(x, k)' = IterOf(x, k)
    BY <1>1, <1>4, <2>3, <2>4 DEF Outstanding, IterOf
  <2>. QED
    BY <2>1, <2>3, <2>5 DEF Par, is_loop_frame
<1>. QED
  BY <1>5, <1>6

\* A pop gives the accesses made under the head to its parent: they are
\* parallel there if the head was a task or a loop.
LEMMA ParPop ==
    ASSUME TypeOK, Shape, InTree, LoopsOnTop, Pop, NEW x, x.owner \in 0..frame_id,
           NEW k \in 1..(depth - 1), IsLCA(x, k)'
    PROVE  \/ IsLCA(x, k) /\ (Par(x, k)' <=> Par(x, k))
           \/ /\ k = depth - 1 /\ IsLCA(x, depth)
              /\ Par(x, k)' <=> head.type # "spawner"
<1>1. /\ depth > 1 /\ depth' = depth - 1 /\ depth \in 1..MaxDepth
      /\ tree' = tree /\ joined' = joined /\ frame_id' = frame_id
      /\ \A i \in 1..(depth - 1) :
            /\ frames'[i].type = frames[i].type /\ frames'[i].fid = frames[i].fid
            /\ frames'[i].iter = frames[i].iter
  BY PopFacts, PopTree DEF TypeOK
<1>2. /\ k \in 1..depth /\ k < depth /\ k \in Nat
      /\ k + 1 < depth => k + 1 \in 1..(depth - 1)
  BY <1>1
<1>3. frames[k].type # "loop" /\ frames'[k].type # "loop"
  BY <1>1, <1>2 DEF LoopsOnTop
<1>4. tree[x.owner].level \in 1..MaxDepth
  BY DEF InTree, PathsAgree
<1>5. k <= tree[x.owner].level /\ tree[x.owner].path[k] = frames[k].fid
  BY <1>1, <1>2 DEF IsLCA
<1>6. (Par(x, k)' <=> Outstanding(x, k)) /\ (Par(x, k) <=> Outstanding(x, k))
  BY <1>1, <1>3 DEF Par, Outstanding, IterOf, ChildOf, is_loop_frame
<1>7. CASE IsLCA(x, k)
  BY <1>6, <1>7
<1>8. CASE ~IsLCA(x, k)
  <2>1. k < tree[x.owner].level /\ tree[x.owner].path[k + 1] = frames[k + 1].fid
    BY <1>2, <1>5, <1>8 DEF IsLCA
  <2>2. k + 1 = depth
    BY <1>1, <1>2, <2>1 DEF IsLCA
  <2>3. IsLCA(x, depth)
    BY <1>1, <1>4, <2>1, <2>2 DEF IsLCA
  <2>4. /\ head.fid \notin joined /\ tree[head.fid].type = head.type
        /\ ChildOf(x, k) = head.fid /\ tree[x.owner].level # k
    BY <1>1, <1>2, <1>4, <2>1, <2>2 DEF InTree, OnStack, ChildOf, head
  <2>5. Outstanding(x, k) <=> head.type # "spawner"
    BY <2>4 DEF Outstanding
  <2>. QED
    BY <1>1, <1>6, <2>2, <2>3, <2>5
<1>. QED
  BY <1>7, <1>8

\* A step of the head alone makes nothing parallel; if it syncs, nothing made
\* under the head is parallel any more: the frame has one sync region.
LEMMA ParHead ==
    ASSUME ~LoopBodySpawns, MaxRegs = 1, TypeOK, Shape, InTree, LoopsApart, HeadOnly,
           NEW x, x.owner \in 0..frame_id, NEW k \in 1..depth, IsLCA(x, k)'
    PROVE  /\ IsLCA(x, k)
           /\ \/ UNCHANGED joined /\ (Par(x, k)' <=> Par(x, k))
              \/ /\ joined' # joined /\ k < depth /\ (Par(x, k)' <=> Par(x, k))
              \/ /\ joined' # joined /\ k = depth /\ ~Par(x, k)'
<1>1. /\ frame_id' = frame_id /\ tree' = tree /\ depth' = depth
      /\ \A i \in Slots : /\ frames'[i].type = frames[i].type
                          /\ frames'[i].fid = frames[i].fid
                          /\ frames'[i].iter = frames[i].iter
      /\ \/ joined' = joined
         \/ \E r \in Regs : joined' = joined \cup Joining(r) /\ head.type # "loop"
  BY HeadTree, HeadFacts
<1>2. depth \in 1..MaxDepth
  BY DEF TypeOK
<1>3. k \in Slots /\ (k < depth => k + 1 \in Slots)
  BY <1>2
<1>4. IsLCA(x, k)
  BY <1>1, <1>3 DEF IsLCA
<1>5. IterOf(x, k)' = IterOf(x, k) /\ ChildOf(x, k)' = ChildOf(x, k)
  BY <1>1 DEF IterOf, ChildOf
<1>6. CASE joined' = joined
  BY <1>1, <1>3, <1>4, <1>5, <1>6 DEF Par, Outstanding, is_loop_frame
<1>7. CASE joined' # joined
  <2>1. PICK r \in Regs : joined' = joined \cup Joining(r) /\ head.type # "loop"
    BY <1>1, <1>7
  <2>2. tree[x.owner].level # k =>
           /\ ChildOf(x, k) \in 1..frame_id /\ tree[ChildOf(x, k)].level = k + 1
           /\ tree[ChildOf(x, k)].path[k] = frames[k].fid
    BY <1>4, BelowLCA
  <2>3. CASE k < depth
    <3>1. tree[x.owner].level # k => ChildOf(x, k) \notin Joining(r)
      BY <1>2, <2>2, <2>3 DEF Joining
    <3>2. Outstanding(x, k)' <=> Outstanding(x, k)
      BY <1>1, <1>5, <2>1, <3>1 DEF Outstanding
    <3>. QED
      BY <1>1, <1>3, <1>4, <1>5, <1>7, <2>3, <3>2 DEF Par, is_loop_frame
  <2>4. CASE k = depth
    <3>1. ASSUME tree[x.owner].level # k, tree[ChildOf(x, k)].type # "spawner"
          PROVE  ChildOf(x, k) \in Joining(r)
      <4>1. tree[ChildOf(x, k)].reg = r
        <5>1. ChildOf(x, k) \in Frames
          <6>1. frame_id \in 0..MaxFrames
            BY DEF TypeOK
          <6>. QED
            BY <2>2, <3>1, <6>1
        <5>2. tree[ChildOf(x, k)].reg \in 0..0
          BY <5>1 DEF TypeOK
        <5>. QED
          BY <5>2
      <4>. QED
        BY <2>2, <2>4, <3>1, <4>1 DEF Joining, head
    <3>2. ~Outstanding(x, k)'
      BY <1>1, <1>5, <2>1, <3>1 DEF Outstanding
    <3>3. ~is_loop_frame(k)'
      BY <1>1, <1>3, <2>1, <2>4 DEF is_loop_frame, head
    <3>. QED
      BY <1>4, <1>7, <2>4, <3>2, <3>3 DEF Par
  <2>. QED
    BY <1>2, <2>3, <2>4
<1>. QED
  BY <1>6, <1>7

\* At the end of an iteration what was made under the loop frame becomes
\* parallel to the iterations to come.
LEMMA ParIteration ==
    ASSUME TypeOK, InTree, do_loop_iteration_end, NEW x \in MemoryAccess, Made(x),
           NEW k \in 1..depth, IsLCA(x, k)'
    PROVE  /\ IsLCA(x, k)
           /\ IF k < depth THEN Par(x, k)' <=> Par(x, k)
              ELSE k = depth /\ Par(x, k)' /\ head.type = "loop" /\ IterOf(x, k)' <= head.iter + 1
<1>1. /\ frame_id' = frame_id /\ tree' = tree /\ joined' = joined /\ depth' = depth
      /\ \A i \in Slots : i # depth => frames'[i] = frames[i]
      /\ frames'[depth].type = frames[depth].type
      /\ frames'[depth].fid = frames[depth].fid
      /\ frames'[depth].iter = frames[depth].iter + 1
  BY IterationTree
<1>2. /\ depth \in 1..MaxDepth /\ head = frames[depth]
  BY DEF TypeOK, head
<1>3. k \in Slots /\ (k < depth => k + 1 \in Slots)
  BY <1>2
<1>4. IsLCA(x, k)
  <2>1. \A i \in Slots : frames'[i].fid = frames[i].fid
    BY <1>1
  <2>. QED
    BY <1>1, <1>3, <2>1 DEF IsLCA
<1>5. IterOf(x, k)' = IterOf(x, k) /\ (Outstanding(x, k)' <=> Outstanding(x, k))
  BY <1>1 DEF IterOf, ChildOf, Outstanding
<1>6. CASE k < depth
  BY <1>1, <1>2, <1>3, <1>4, <1>5, <1>6 DEF Par, is_loop_frame
<1>7. CASE k = depth
  <2>1. head.type = "loop"
    BY DEF do_loop_iteration_end
  <2>2. IterOf(x, k) <= head.iter
    BY <1>4, <1>7, <2>1 DEF Made
  <2>3. IterOf(x, k) \in Nat
    <3>1. tree[x.owner].level # k => ChildOf(x, k) \in Frames
      <4>1. tree[x.owner].level # k => ChildOf(x, k) \in 1..frame_id
        BY <1>4, BelowLCA DEF Made
      <4>2. frame_id \in 0..MaxFrames
        BY DEF TypeOK
      <4>. QED
        BY <4>1, <4>2
    <3>2. tree[x.owner].level # k => tree[ChildOf(x, k)].iter \in 0..MaxIters
      BY <3>1 DEF TypeOK
    <3>. QED
      BY <3>2 DEF IterOf, MemoryAccess
  <2>4. head.iter \in Nat
    BY HeadType, FrameFields
  <2>5. IterOf(x, k) # frames'[k].iter /\ is_loop_frame(k)'
    BY <1>1, <1>2, <1>7, <2>1, <2>2, <2>3, <2>4 DEF is_loop_frame
  <2>6. IterOf(x, k) <= head.iter + 1
    BY <2>2, <2>3, <2>4
  <2>. QED
    BY <1>2, <1>4, <1>5, <1>7, <2>1, <2>5, <2>6 DEF Par
<1>. QED
  BY <1>2, <1>6, <1>7

\* A mark makes nothing parallel or serial.
LEMMA ParMark ==
    ASSUME TypeOK, Mark, NEW x, NEW k \in 1..depth
    PROVE  (IsLCA(x, k)' <=> IsLCA(x, k)) /\ (Par(x, k)' <=> Par(x, k))
<1>1. /\ UNCHANGED <<depth, bagOf, nds, frame_id, pc, sync_reg, tree, joined, strands>>
      /\ \A i \in 1..depth : /\ frames'[i].type = frames[i].type
                             /\ frames'[i].fid = frames[i].fid
                             /\ frames'[i].iter = frames[i].iter
  BY MarkFacts
<1>2. k < depth => k + 1 \in 1..depth
  <2>1. depth \in 1..MaxDepth
    BY DEF TypeOK
  <2>. QED
    BY <2>1
<1>. QED
  BY <1>1, <1>2 DEF IsLCA, Par, Outstanding, IterOf, ChildOf, is_loop_frame

\* The frames of the stack are of the same types after a step of the head, of
\* an iteration or a mark, as far as the stack goes after a push or a pop.
LEMMA TypesKept ==
    ASSUME TypeOK, Shape, LoopsApart, Next \/ Mark, NEW i \in 1..depth, i \in 1..depth'
    PROVE  frames'[i].type = frames[i].type
<1>1. i \in Slots
  <2>1. depth \in 1..MaxDepth
    BY DEF TypeOK
  <2>. QED
    BY <2>1
<1>2. CASE Push
  BY <1>2, PushFacts DEF Push
<1>3. CASE Pop
  BY <1>3, PopTree
<1>4. CASE HeadOnly
  BY <1>1, <1>4, HeadTree
<1>5. CASE do_loop_begin
  BY <1>5 DEF do_loop_begin
<1>6. CASE do_loop_iteration_end
  BY <1>1, <1>6, IterationTree
<1>7. CASE Mark
  BY <1>7, MarkFacts
<1>. QED
  BY <1>2, <1>3, <1>4, <1>5, <1>6, <1>7, StepKinds

\* A push covers what was covered.
LEMMA CoverPush ==
    ASSUME TypeOK, InTree, Push, NEW x, NEW y, x.owner \in 0..frame_id,
           y.owner \in 0..frame_id, Cover(x, y)
    PROVE  Cover(x, y)'
<1>1. PICK type \in {"spawner", "detacher", "loop"}, n \in 0..MaxRegs, r \in Regs :
         CanPush /\ start_new_function(type, n, r) /\ pc' = "body"
  BY DEF Push
<1>2. /\ depth' = depth + 1 /\ depth \in 1..MaxDepth
      /\ \A i \in 1..depth : frames'[i] = frames[i]
  BY <1>1, PushFacts DEF TypeOK
<1>3. ASSUME NEW i \in 1..depth', NEW j \in 1..depth', IsLCA(x, i)', IsLCA(y, j)'
      PROVE  /\ i \in 1..depth /\ IsLCA(x, i) /\ (Par(x, i)' <=> Par(x, i))
             /\ j \in 1..depth /\ IsLCA(y, j) /\ (Par(y, j)' <=> Par(y, j))
             /\ AllSpawners(i, j) => AllSpawners(i, j)'
  <2>1. i \in 1..depth /\ j \in 1..depth
    <3>1. i # depth + 1 /\ j # depth + 1
      BY <1>1, <1>3, ParPush
    <3>. QED
      BY <1>2, <3>1
  <2>2. AllSpawners(i, j) => AllSpawners(i, j)'
    <3>1. \A k \in (i + 1)..j : k \in 1..depth
      BY <1>2, <2>1
    <3>. QED
      BY <1>2, <3>1 DEF AllSpawners
  <2>. QED
    BY <1>1, <1>3, <2>1, <2>2, ParPush
<1>. QED
  BY <1>3 DEF Cover

\* A pop covers what was covered.
LEMMA CoverPop ==
    ASSUME TypeOK, Shape, InTree, LoopsOnTop, Pop, NEW x, NEW y, x.owner \in 0..frame_id,
           y.owner \in 0..frame_id, Cover(x, y)
    PROVE  Cover(x, y)'
<1>1. /\ depth > 1 /\ depth' = depth - 1 /\ depth \in 1..MaxDepth
      /\ \A i \in 1..(depth - 1) : frames'[i].type = frames[i].type
  BY PopFacts, PopTree DEF TypeOK
<1>2. ASSUME NEW i \in 1..(depth - 1), NEW j \in 1..(depth - 1), IsLCA(x, i)', IsLCA(y, j)'
      PROVE  /\ i = j /\ Par(y, j)' => Par(x, i)'
             /\ i < j => Par(x, i)' \/ (~Par(y, j)' /\ AllSpawners(i, j)')
             /\ i > j => ~Par(y, j)'
  <2>1. \/ IsLCA(x, i) /\ (Par(x, i)' <=> Par(x, i))
        \/ i = depth - 1 /\ IsLCA(x, depth) /\ (Par(x, i)' <=> head.type # "spawner")
    BY <1>2, ParPop
  <2>2. \/ IsLCA(y, j) /\ (Par(y, j)' <=> Par(y, j))
        \/ j = depth - 1 /\ IsLCA(y, depth) /\ (Par(y, j)' <=> head.type # "spawner")
    BY <1>2, ParPop
  <2>3. /\ i \in 1..depth /\ j \in 1..depth /\ depth \in 1..depth
        /\ i < depth /\ j < depth /\ i \in Nat /\ j \in Nat
        /\ j # depth - 1 => j < depth - 1
        /\ i # depth - 1 => i < depth - 1
        /\ depth \in (i + 1)..depth
    BY <1>1
  <2>4. /\ AllSpawners(i, j) => AllSpawners(i, j)'
        /\ AllSpawners(i, depth) => head.type = "spawner" /\ AllSpawners(i, j)'
    <3>1. \A k \in (i + 1)..j : k \in 1..(depth - 1) /\ k \in (i + 1)..depth
      BY <1>1
    <3>. QED
      BY <1>1, <2>3, <3>1 DEF AllSpawners, head
  <2>5. CASE IsLCA(x, i) /\ IsLCA(y, j) /\ (Par(x, i)' <=> Par(x, i)) /\ (Par(y, j)' <=> Par(y, j))
    BY <2>3, <2>4, <2>5 DEF Cover
  <2>6. CASE /\ IsLCA(x, i) /\ (Par(x, i)' <=> Par(x, i))
             /\ j = depth - 1 /\ IsLCA(y, depth) /\ (Par(y, j)' <=> head.type # "spawner")
    <3>1. Par(x, i) \/ (~Par(y, depth) /\ AllSpawners(i, depth))
      BY <2>3, <2>6 DEF Cover
    <3>. QED
      BY <2>3, <2>4, <2>6, <3>1
  <2>7. CASE /\ i = depth - 1 /\ IsLCA(x, depth) /\ (Par(x, i)' <=> head.type # "spawner")
             /\ IsLCA(y, j) /\ (Par(y, j)' <=> Par(y, j))
    <3>1. ~Par(y, j)
      BY <2>3, <2>7 DEF Cover
    <3>. QED
      BY <2>3, <2>7, <3>1
  <2>8. CASE /\ i = depth - 1 /\ (Par(x, i)' <=> head.type # "spawner")
             /\ j = depth - 1 /\ (Par(y, j)' <=> head.type # "spawner")
    BY <2>3, <2>8
  <2>. QED
    BY <2>1, <2>2, <2>5, <2>6, <2>7, <2>8
<1>. QED
  BY <1>1, <1>2 DEF Cover

\* A step of the head covers what was covered.
LEMMA CoverHead ==
    ASSUME ~LoopBodySpawns, MaxRegs = 1, TypeOK, Shape, InTree, LoopsApart, HeadOnly,
           NEW x, NEW y, x.owner \in 0..frame_id, y.owner \in 0..frame_id, Cover(x, y)
    PROVE  Cover(x, y)'
<1>1. depth' = depth /\ depth \in 1..MaxDepth
  BY HeadFacts DEF TypeOK
<1>2. ASSUME NEW i \in 1..depth, NEW j \in 1..depth, IsLCA(x, i)', IsLCA(y, j)'
      PROVE  /\ i = j /\ Par(y, j)' => Par(x, i)'
             /\ i < j => Par(x, i)' \/ (~Par(y, j)' /\ AllSpawners(i, j)')
             /\ i > j => ~Par(y, j)'
  <2>1. /\ IsLCA(x, i)
        /\ \/ UNCHANGED joined /\ (Par(x, i)' <=> Par(x, i))
           \/ joined' # joined /\ i < depth /\ (Par(x, i)' <=> Par(x, i))
           \/ joined' # joined /\ i = depth /\ ~Par(x, i)'
    BY <1>2, ParHead
  <2>2. /\ IsLCA(y, j)
        /\ \/ UNCHANGED joined /\ (Par(y, j)' <=> Par(y, j))
           \/ joined' # joined /\ j < depth /\ (Par(y, j)' <=> Par(y, j))
           \/ joined' # joined /\ j = depth /\ ~Par(y, j)'
    BY <1>2, ParHead
  <2>3. AllSpawners(i, j) => AllSpawners(i, j)'
    <3>1. \A k \in (i + 1)..j : k \in Slots
      BY <1>1
    <3>. QED
      BY <3>1, HeadTree DEF AllSpawners
  <2>4. /\ i = j /\ Par(y, j) => Par(x, i)
        /\ i < j => Par(x, i) \/ (~Par(y, j) /\ AllSpawners(i, j))
        /\ i > j => ~Par(y, j)
    BY <2>1, <2>2 DEF Cover
  <2>5. depth \in Nat /\ i \in Nat /\ j \in Nat /\ i <= depth /\ j <= depth
    BY <1>1
  <2>. QED
    BY <2>1, <2>2, <2>3, <2>4, <2>5
<1>. QED
  BY <1>1, <1>2 DEF Cover

\* The end of an iteration covers what was covered.
LEMMA CoverIteration ==
    ASSUME TypeOK, InTree, do_loop_iteration_end, NEW x \in MemoryAccess,
           NEW y \in MemoryAccess, Made(x), Made(y), Cover(x, y)
    PROVE  Cover(x, y)'
<1>1. depth' = depth /\ depth \in 1..MaxDepth
  BY IterationTree DEF TypeOK
<1>2. ASSUME NEW i \in 1..depth, NEW j \in 1..depth, IsLCA(x, i)', IsLCA(y, j)'
      PROVE  /\ i = j /\ Par(y, j)' => Par(x, i)'
             /\ i < j => Par(x, i)' \/ (~Par(y, j)' /\ AllSpawners(i, j)')
             /\ i > j => ~Par(y, j)'
  <2>1. /\ IsLCA(x, i)
        /\ IF i < depth THEN Par(x, i)' <=> Par(x, i)
           ELSE i = depth /\ Par(x, i)' /\ head.type = "loop" /\ IterOf(x, i)' <= head.iter + 1
    BY <1>2, ParIteration
  <2>2. /\ IsLCA(y, j)
        /\ IF j < depth THEN Par(y, j)' <=> Par(y, j)
           ELSE j = depth /\ Par(y, j)' /\ head.type = "loop" /\ IterOf(y, j)' <= head.iter + 1
    BY <1>2, ParIteration
  <2>3. AllSpawners(i, j) =>
          AllSpawners(i, j)' /\ (i < j /\ j = depth => head.type = "spawner")
    <3>1. (\A k \in (i + 1)..j : k \in Slots) /\ (i < j => j \in (i + 1)..j)
      BY <1>1
    <3>2. \A k \in Slots : frames'[k].type = frames[k].type
      BY IterationTree
    <3>. QED
      BY <3>1, <3>2 DEF AllSpawners, head
  <2>4. /\ i = j /\ Par(y, j) => Par(x, i)
        /\ i < j => Par(x, i) \/ (~Par(y, j) /\ AllSpawners(i, j))
        /\ i > j => ~Par(y, j)
    BY <2>1, <2>2 DEF Cover
  <2>5. depth \in Nat /\ i \in Nat /\ j \in Nat /\ i <= depth /\ j <= depth
    BY <1>1
  <2>. QED
    BY <2>1, <2>2, <2>3, <2>4, <2>5
<1>. QED
  BY <1>1, <1>2 DEF Cover

\* A mark covers what was covered.
LEMMA CoverMark ==
    ASSUME TypeOK, Shape, LoopsApart, Mark, NEW x, NEW y
    PROVE  (Cover(x, y) => Cover(x, y)') /\ (CoversNow(x) => CoversNow(x)')
<1>1. depth' = depth /\ depth \in 1..MaxDepth
  BY MarkFacts DEF TypeOK
<1>2. \A i, j \in 1..depth : AllSpawners(i, j) => AllSpawners(i, j)'
  <2>1. \A i, j \in 1..depth : \A k \in (i + 1)..j : k \in 1..depth
    BY <1>1
  <2>. QED
    BY <1>1, <2>1, TypesKept DEF AllSpawners
<1>3. \A k \in 1..depth : /\ IsLCA(x, k)' <=> IsLCA(x, k)
                          /\ Par(x, k)' <=> Par(x, k)
                          /\ IsLCA(y, k)' <=> IsLCA(y, k)
                          /\ Par(y, k)' <=> Par(y, k)
  BY ParMark
<1>4. Cover(x, y) => Cover(x, y)'
  BY <1>1, <1>2, <1>3 DEF Cover
<1>5. CoversNow(x) => CoversNow(x)'
  <2>1. depth \in 1..depth
    BY <1>1
  <2>2. \A i \in 1..depth : AllSpawners(i, depth) => AllSpawners(i, depth)'
    BY <1>1, <1>2, <2>1 DEF AllSpawners
  <2>. QED
    BY <1>1, <1>3, <2>2 DEF CoversNow
<1>. QED
  BY <1>4, <1>5

\* The hooks keep loop frames on top of the stack.
LEMMA LoopsOnTopStep ==
    ASSUME ~LoopBodySpawns, ~LoopBodyCalls, EngineOK, LoopsOnTop, Control
    PROVE  LoopsOnTop'
<1>1. /\ TypeOK /\ Shape /\ LoopsApart /\ Next /\ depth \in 1..MaxDepth
  BY ControlIsNext DEF EngineOK, TypeOK
<1>2. /\ depth' = depth \/ depth' = depth + 1 \/ depth' = depth - 1
      /\ depth' = depth + 1 => head.type # "loop"
  BY <1>1, PushFacts, PopFacts, HeadFacts, IterationFacts, StepKinds, LoopsAreLeaves
     DEF Push, do_loop_begin
<1>3. ASSUME NEW k \in 1..(depth' - 1) PROVE frames'[k].type # "loop"
  <2>1. k \in 1..depth /\ k \in 1..depth' /\ (k = depth => depth' = depth + 1)
    BY <1>1, <1>2
  <2>2. frames'[k].type = frames[k].type
    BY <1>1, <2>1, TypesKept
  <2>3. k # depth => k \in 1..(depth - 1)
    BY <1>1, <2>1
  <2>. QED
    BY <1>2, <2>1, <2>2, <2>3 DEF LoopsOnTop, head
<1>. QED
  BY <1>3 DEF LoopsOnTop

\* The hooks keep an access made: the loop frame that gets an iteration more
\* is the head.
LEMMA MadeStep ==
    ASSUME ~LoopBodySpawns, ~LoopBodyCalls, MaxRegs = 1, EngineOK, LoopsOnTop, Control,
           NEW x \in MemoryAccess, Made(x)
    PROVE  Made(x)'
<1>1. /\ TypeOK /\ Shape /\ InTree /\ LoopsApart /\ Next /\ depth \in 1..MaxDepth
      /\ x.owner \in 0..frame_id /\ frame_id \in 0..MaxFrames
  BY ControlIsNext DEF EngineOK, TypeOK, Made
<1>2. CASE Push
  <2>1. PICK type \in {"spawner", "detacher", "loop"}, n \in 0..MaxRegs, r \in Regs :
           CanPush /\ start_new_function(type, n, r) /\ pc' = "body"
    BY <1>2 DEF Push
  <2>2. PICK m : m = depth + 1
    OBVIOUS
  <2>3. depth' = m /\ frame_id' = frame_id + 1
    BY <1>1, <2>1, <2>2, PushFacts, PushTree
  <2>4. ~IsLCA(x, m)'
    BY <1>1, <2>1, <2>2, ParPush
  <2>. QED
    BY <1>1, <2>3, <2>4 DEF Made
<1>3. CASE Pop
  <2>1. depth > 1 /\ depth' = depth - 1 /\ frame_id' = frame_id
    BY <1>1, <1>3, PopFacts, PopTree
  <2>2. depth' \in 1..(depth - 1) /\ depth' \in 1..depth'
    BY <1>1, <2>1
  <2>3. frames'[depth'].type # "loop"
    BY <1>1, <1>3, <2>2, PopTree DEF LoopsOnTop
  <2>. QED
    BY <1>1, <2>1, <2>3 DEF Made, head
<1>4. CASE HeadOnly \/ do_loop_begin
  <2>1. /\ depth' = depth /\ frame_id' = frame_id /\ tree' = tree
        /\ \A i \in Slots : /\ frames'[i].type = frames[i].type
                            /\ frames'[i].fid = frames[i].fid
                            /\ frames'[i].iter = frames[i].iter
    BY <1>1, <1>4, HeadFacts, HeadTree DEF do_loop_begin
  <2>2. IsLCA(x, depth)' <=> IsLCA(x, depth)
    BY <1>1, <2>1 DEF IsLCA
  <2>3. IterOf(x, depth)' = IterOf(x, depth)
    BY <2>1 DEF IterOf, ChildOf
  <2>. QED
    BY <1>1, <2>1, <2>2, <2>3 DEF Made, head
<1>5. CASE do_loop_iteration_end
  <2>1. /\ depth' = depth /\ frame_id' = frame_id
        /\ frames'[depth].iter = frames[depth].iter + 1
    BY <1>1, <1>5, IterationTree
  <2>2. PICK k \in 1..depth : k = depth
    BY <1>1
  <2>3. IsLCA(x, k)' => IterOf(x, k)' <= frames'[k].iter
    BY <1>1, <1>5, <2>1, <2>2, ParIteration DEF head
  <2>4. /\ IsLCA(x, depth)' <=> IsLCA(x, k)'
        /\ IterOf(x, depth)' = IterOf(x, k)'
    BY <2>1, <2>2 DEF IsLCA, IterOf, ChildOf
  <2>. QED
    BY <1>1, <2>1, <2>2, <2>3, <2>4 DEF Made, head
<1>. QED
  BY <1>1, <1>2, <1>3, <1>4, <1>5, StepKinds

\* The hooks cover what was covered.
LEMMA CoverStep ==
    ASSUME ~LoopBodySpawns, ~LoopBodyCalls, MaxRegs = 1, EngineOK, LoopsOnTop, Control,
           NEW x \in MemoryAccess, NEW y \in MemoryAccess, Made(x), Made(y), Cover(x, y)
    PROVE  Cover(x, y)'
<1>1. /\ TypeOK /\ Shape /\ InTree /\ LoopsApart /\ Next
      /\ x.owner \in 0..frame_id /\ y.owner \in 0..frame_id
  BY ControlIsNext DEF EngineOK, Made
<1>2. CASE do_loop_begin
  <2>1. UNCHANGED <<depth, frames, tree, joined>>
    BY <1>2 DEF do_loop_begin
  <2>2. \A z, k : (IsLCA(z, k)' <=> IsLCA(z, k)) /\ (Par(z, k)' <=> Par(z, k))
    BY <2>1 DEF IsLCA, Par, Outstanding, IterOf, ChildOf, is_loop_frame
  <2>3. \A i, j : AllSpawners(i, j)' <=> AllSpawners(i, j)
    BY <2>1 DEF AllSpawners
  <2>. QED
    BY <2>1, <2>2, <2>3 DEF Cover
<1>. QED
  BY <1>1, <1>2, StepKinds, CoverPush, CoverPop, CoverHead, CoverIteration

\* An entry is an access that was made.
LEMMA EntryMade ==
    ASSUME EngineOK, NEW a, Tracked(a)
    PROVE  Made(a)
<1>1. TypeOK /\ InTree /\ Placed(a) /\ depth \in 1..MaxDepth
  BY DEF EngineOK, TypeOK, Tracked
<1>2. ASSUME head.type = "loop", IsLCA(a, depth) PROVE IterOf(a, depth) <= head.iter
  <2>1. depth \in 1..depth
    BY <1>1
  <2>2. Home(a) = depth
    BY <1>1, <1>2, <2>1, HomeIsLCA
  <2>. QED
    BY <1>1, <1>2, <2>2 DEF Placed, is_loop_frame, head
<1>. QED
  BY <1>1, <1>2 DEF Made, Placed

\* Logical parallelism is parallelism at the youngest running frame.
LEMMA ParallelAtLCA ==
    ASSUME NEW x
    PROVE  LogicallyParallel(x) <=> \E k \in 1..depth : IsLCA(x, k) /\ Par(x, k)
  BY DEF LogicallyParallel, Par, Outstanding, IterOf, ChildOf

\* What covers a parallel access is parallel.
LEMMA CoverSees ==
    ASSUME EngineOK, NEW a, Tracked(a), NEW x, Cover(a, x), LogicallyParallel(x)
    PROVE  LogicallyParallel(a)
<1>1. PICK j \in 1..depth : IsLCA(x, j) /\ Par(x, j)
  BY ParallelAtLCA
<1>2. PICK i \in 1..depth : IsLCA(a, i)
  BY DEF Tracked, Placed
<1>3. Par(a, i)
  BY <1>1, <1>2 DEF Cover
<1>. QED
  BY <1>2, <1>3, ParallelAtLCA

\* The code sees that an entry is parallel: no frame hides a loop's body.
LEMMA EntrySeen ==
    ASSUME ~LoopBodySpawns, EngineOK, LoopsOnTop, NEW a, Tracked(a), LogicallyParallel(a)
    PROVE  RacesWith(a)
<1>1. TypeOK /\ InTree /\ a \in MemoryAccess /\ Placed(a) /\ LiveBag(bagOf[a.ds])
  BY DEF EngineOK, Tracked
<1>2. ~HiddenByCallee(a)
  BY DEF HiddenByCallee, LoopsOnTop, is_loop_frame
<1>3. isValid(a)
  BY <1>1 DEF isValid, MemoryAccess
<1>. QED
  BY <1>1, <1>2, <1>3, TrueIsParallel DEF RacesWith

\* An access of the running strand is made under the head and is parallel to
\* nothing yet.
LEMMA CurrentLCA ==
    ASSUME EngineOK, NEW c, c.owner = head.fid, c.iter = head.iter
    PROVE  /\ Made(c) /\ IsLCA(c, depth) /\ ~Par(c, depth)
           /\ \A k \in 1..depth : IsLCA(c, k) => k = depth
<1>1. /\ depth \in 1..MaxDepth /\ head = frames[depth] /\ head \in FrameData
      /\ InTree /\ depth \in 1..depth
  BY HeadType DEF EngineOK, TypeOK, head
<1>2. /\ c.owner \in 0..frame_id /\ tree[c.owner].level = depth
      /\ tree[c.owner].path[depth] = frames[depth].fid
      /\ \A i \in 1..depth : tree[c.owner].path[i] = frames[i].fid
  <2>1. OnStack /\ PathsAgree
    BY <1>1 DEF InTree
  <2>2. c.owner \in 0..frame_id /\ tree[c.owner].level = depth
    BY <1>1, <2>1 DEF OnStack
  <2>3. tree[c.owner].path[depth] = frames[depth].fid
    BY <1>1, <2>1, <2>2 DEF PathsAgree
  <2>. QED
    BY <1>1, <2>1, <2>2, <2>3 DEF PathsAgree
<1>3. IsLCA(c, depth)
  BY <1>1, <1>2 DEF IsLCA
<1>4. IterOf(c, depth) = head.iter /\ ~Outstanding(c, depth) /\ head.iter \in Nat
  BY <1>1, <1>2, FrameFields DEF IterOf, Outstanding
<1>5. ASSUME NEW k \in 1..depth, IsLCA(c, k) PROVE k = depth
  <2>1. k # depth => k < depth /\ k + 1 \in 1..depth
    BY <1>1
  <2>. QED
    BY <1>2, <1>5, <2>1 DEF IsLCA
<1>. QED
  BY <1>1, <1>2, <1>3, <1>4, <1>5 DEF Made, Par

\* What a check or a redundant access leaves in the entry of its kind covers
\* the running strand and whatever the entry has covered before.
LEMMA AccessCovers ==
    ASSUME ~LoopBodySpawns, EngineOK, LoopsOnTop, NEW a, Entry(a), NEW b,
           \/ b = Updated(a)
           \/ b = a /\ isValid(a) /\ CoversNow(a)
    PROVE  /\ isValid(b) /\ CoversNow(b) /\ Cover(b, CurrentAccess)
           /\ \A x : isValid(a) /\ Cover(a, x) => Cover(b, x)
<1>. PICK c : c = CurrentAccess
  OBVIOUS
<1>1. c.owner = head.fid /\ c.iter = head.iter /\ depth \in 1..MaxDepth
  BY DEF CurrentAccess, EngineOK, TypeOK
<1>2. isValid(a) => Tracked(a)
  BY DEF Entry, isValid, NoAccess
<1>3. \A i \in 1..depth : i <= depth /\ ~(i > depth)
  BY <1>1
<1>4. ASSUME NEW d, CoversNow(d) PROVE Cover(d, c)
  BY <1>1, <1>3, <1>4, CurrentLCA DEF Cover, CoversNow
<1>5. CASE b = a /\ isValid(a) /\ CoversNow(a)
  BY <1>4, <1>5
<1>6. CASE RacesWith(a) /\ b = a
  <2>1. Tracked(a) /\ LogicallyParallel(a)
    BY <1>2, <1>6, ParallelIsTrue DEF RacesWith, Tracked, EngineOK
  <2>2. CoversNow(a)
    <3>1. PICK k \in 1..depth : IsLCA(a, k) /\ Par(a, k)
      BY <2>1, ParallelAtLCA
    <3>2. \A i \in 1..depth : IsLCA(a, i) => i = k
      BY <2>1, <3>1, HomeIsLCA DEF Tracked, EngineOK
    <3>. QED
      BY <3>1, <3>2 DEF CoversNow
  <2>. QED
    BY <1>4, <1>6, <2>2 DEF RacesWith
<1>7. CASE ~RacesWith(a) /\ b = set(a)
  <2>1. b.owner = head.fid /\ b.iter = head.iter /\ b.ds = c.ds
    BY <1>1, <1>7 DEF set, CurrentAccess
  <2>2. isValid(b)
    <3>1. c.ds \in 1..nds /\ nds \in 1..MaxDS
      BY CurrentPlaced DEF EngineOK, TypeOK
    <3>. QED
      BY <2>1, <3>1 DEF isValid
  <2>3. CoversNow(b)
    <3>1. AllSpawners(depth, depth)
      BY <1>1 DEF AllSpawners
    <3>. QED
      BY <2>1, <3>1, CurrentLCA DEF CoversNow
  <2>4. ASSUME NEW x, isValid(a), Cover(a, x) PROVE Cover(b, x)
    <3>1. ~LogicallyParallel(x)
      BY <1>2, <1>7, <2>4, CoverSees, EntrySeen
    <3>2. \A j \in 1..depth : IsLCA(x, j) => ~Par(x, j)
      BY <3>1, ParallelAtLCA
    <3>3. \A i \in 1..depth : IsLCA(b, i) => i = depth
      BY <2>1, CurrentLCA
    <3>. QED
      BY <1>3, <3>2, <3>3 DEF Cover
  <2>. QED
    BY <1>4, <2>2, <2>3, <2>4
<1>. QED
  BY <1>5, <1>6, <1>7 DEF Updated

\* What is written when an access is checked, and what is not when an occupancy
\* bit says it has been checked before.
Checks(l, w) ==
    /\ RacesWith(writes[l]) \/ (w /\ RacesWith(reads[l])) => Reported(l)'
    /\ w => writes'[l] = Updated(writes[l])
    /\ ~w => reads'[l] = Updated(reads[l])

Skips(l, w) == (IF w THEN l \in writesOcc ELSE l \in readsOcc) /\ UNCHANGED <<reads, writes>>

\* A read that races with the entry of Writes reports the location.
LEMMA ReadReports ==
    ASSUME NEW l, Report(l, IF RacesWith(writes[l]) THEN "WR" ELSE "", ""),
           RacesWith(writes[l])
    PROVE  Reported(l)'
<1>1. [loc |-> l, kind |-> "WR"] \in races'
  BY DEF Report
<1>. QED
  BY <1>1 DEF Reported

\* A write that races with either entry reports the location.
LEMMA WriteReports ==
    ASSUME NEW l, Report(l, IF RacesWith(reads[l]) THEN "RW" ELSE "",
                            IF RacesWith(writes[l]) THEN "WW" ELSE ""),
           RacesWith(reads[l]) \/ RacesWith(writes[l])
    PROVE  Reported(l)'
<1>1. [loc |-> l, kind |-> "RW"] \in races' \/ [loc |-> l, kind |-> "WW"] \in races'
  BY DEF Report
<1>. QED
  BY <1>1 DEF Reported

\* An access is checked, or is skipped for an occupancy bit, or is a new object.
LEMMA AccessChecks ==
    ASSUME NEW l \in Locs, Access(l), ShadowOK
    PROVE  \/ \E w \in BOOLEAN : Hit(l, w) /\ (Checks(l, w) \/ Skips(l, w))
           \/ record_alloc(l)
<1>t. DOMAIN reads = Locs /\ DOMAIN writes = Locs
  BY DEF ShadowOK
<1>1. CASE do_read_slow(l)
  <2>1. Hit(l, FALSE)
    BY <1>1, <1>t DEF do_read_slow, check_races_and_update_with_read, Witness, Report, Hit
  <2>2. CASE l \in readsOcc
    BY <1>1, <2>1, <2>2 DEF do_read_slow, Skips
  <2>3. CASE l \notin readsOcc
    BY <1>1, <1>t, <2>1, <2>3, ReadReports
       DEF do_read_slow, check_races_and_update_with_read, Checks
  <2>. QED
    BY <2>2, <2>3
<1>2. CASE do_write_slow(l)
  <2>1. Hit(l, TRUE)
    BY <1>2, <1>t DEF do_write_slow, check_races_and_update_with_write, Witness, Report, Hit
  <2>2. CASE l \in writesOcc
    BY <1>2, <2>1, <2>2 DEF do_write_slow, Skips
  <2>3. CASE l \notin writesOcc
    BY <1>2, <1>t, <2>1, <2>3, WriteReports
       DEF do_write_slow, check_races_and_update_with_write, Checks
  <2>. QED
    BY <2>2, <2>3
<1>3. CASE check_read_fast(l)
  <2>1. Hit(l, FALSE)
    BY <1>3, <1>t DEF check_read_fast, Witness, Report, Hit
  <2>2. Checks(l, FALSE)
    BY <1>3, <1>t, ReadReports DEF check_read_fast, Checks
  <2>. QED
    BY <2>1, <2>2
<1>4. CASE check_write_fast(l)
  <2>1. Hit(l, TRUE)
    BY <1>4, <1>t DEF check_write_fast, Witness, Report, Hit
  <2>2. Checks(l, TRUE)
    BY <1>4, <1>t, WriteReports DEF check_write_fast, Checks
  <2>. QED
    BY <2>1, <2>2
<1>. QED
  BY <1>1, <1>2, <1>3, <1>4 DEF Access

\* The races of an access with the accesses of the past are reported when it
\* is checked, and have been if it is not.
LEMMA RacesReported ==
    ASSUME ~LoopBodySpawns, EngineOK, ShadowOK, CoverOK, NEW l \in Locs, NEW w \in BOOLEAN,
           pc = "body", Hit(l, w), Checks(l, w) \/ Skips(l, w),
           NEW e \in past[l], e.write \/ w, LogicallyParallel(e.acc)
    PROVE  Reported(l)'
<1>1. LoopsOnTop /\ EntriesCover /\ OccupiedChecked /\ races \subseteq races'
  BY DEF CoverOK, Hit
<1>2. CASE Skips(l, w)
  BY <1>1, <1>2 DEF Skips, OccupiedChecked, Reported
<1>3. CASE Checks(l, w) /\ e.write
  <2>1. PICK a : a = writes[l]
    OBVIOUS
  <2>2. Tracked(a) /\ Cover(a, e.acc)
    BY <1>1, <1>3, <2>1 DEF EntriesCover, ShadowOK, EntriesTracked, Entry, isValid, NoAccess
  <2>3. RacesWith(a)
    BY <1>1, <2>2, CoverSees, EntrySeen
  <2>. QED
    BY <1>3, <2>1, <2>3 DEF Checks
<1>4. CASE Checks(l, w) /\ ~e.write
  <2>1. PICK a : a = reads[l]
    OBVIOUS
  <2>2. Tracked(a) /\ Cover(a, e.acc)
    BY <1>1, <1>4, <2>1 DEF EntriesCover, ShadowOK, EntriesTracked, Entry, isValid, NoAccess
  <2>3. RacesWith(a)
    BY <1>1, <2>2, CoverSees, EntrySeen
  <2>. QED
    BY <1>4, <2>1, <2>3 DEF Checks
<1>. QED
  BY <1>2, <1>3, <1>4

\* A read or a write keeps the one reader and the one writer representative.
LEMMA HitCovers ==
    ASSUME ~LoopBodySpawns, EngineOK, ShadowOK, HistoryOK, CoverOK, NEW l \in Locs,
           NEW w \in BOOLEAN, Access(l), Hit(l, w), Checks(l, w) \/ Skips(l, w)
    PROVE  CoverOK'
<1>1. /\ Mark /\ pc = "body" /\ TypeOK /\ Shape /\ LoopsApart
      /\ LoopsOnTop /\ EntriesCover /\ OccupiedChecked /\ RacesAreReported
  BY AccessMarks DEF EngineOK, CoverOK, Mark
<1>2. /\ UNCHANGED <<depth, bagOf, nds, frame_id, pc, sync_reg, tree, joined, strands>>
      /\ \A i \in 1..depth : /\ frames'[i].type = frames[i].type
                             /\ frames'[i].iter = frames[i].iter
      /\ depth \in 1..depth /\ \A k \in 1..(depth - 1) : k \in 1..depth
  <2>1. depth \in 1..MaxDepth
    BY <1>1 DEF TypeOK
  <2>. QED
    BY <1>1, <2>1, MarkFacts
<1>3. \A m \in Locs \ {l} : past'[m] = past[m] /\ reads'[m] = reads[m] /\ writes'[m] = writes[m]
  BY EntrySteps DEF Hit, ShadowOK, HistoryOK
<1>. PICK c : c = CurrentAccess
  OBVIOUS
<1>4. /\ past'[l] = past[l] \cup {[acc |-> c, write |-> w]}
      /\ real' = real \cup TrueRaces(l, w) /\ races \subseteq races'
      /\ w => reads' = reads /\ readsOcc' = readsOcc /\ writesOcc' \subseteq writesOcc \cup {l}
      /\ ~w => writes' = writes /\ writesOcc' = writesOcc /\ readsOcc' \subseteq readsOcc \cup {l}
  BY DEF Hit, HistoryOK
<1>5. c.owner = head.fid /\ c.iter = head.iter
  BY DEF CurrentAccess
<1>6. LoopsOnTop'
  BY <1>1, <1>2 DEF LoopsOnTop
<1>7. /\ \A x : Made(x) => Made(x)'
      /\ \A x, y : Cover(x, y) => Cover(x, y)'
      /\ \A x : CoversNow(x) => CoversNow(x)'
      /\ \A x : LogicallyParallel(x)' <=> LogicallyParallel(x)
  <2>1. \A x : \A k \in 1..depth : (IsLCA(x, k)' <=> IsLCA(x, k)) /\ (Par(x, k)' <=> Par(x, k))
    BY <1>1, ParMark
  <2>2. ASSUME NEW x PROVE LogicallyParallel(x)' <=> LogicallyParallel(x)
    <3>1. LogicallyParallel(x)' <=> \E k \in 1..depth : IsLCA(x, k)' /\ Par(x, k)'
      BY <1>2 DEF LogicallyParallel, Par, Outstanding, IterOf, ChildOf
    <3>. QED
      BY <2>1, <3>1, ParallelAtLCA
  <2>3. ASSUME NEW x, Made(x) PROVE Made(x)'
    <3>1. (IsLCA(x, depth)' <=> IsLCA(x, depth)) /\ IterOf(x, depth)' = IterOf(x, depth)
      BY <1>2, <2>1 DEF IterOf, ChildOf
    <3>. QED
      BY <1>2, <2>3, <3>1 DEF Made, head
  <2>. QED
    BY <1>1, <2>2, <2>3, CoverMark
<1>8. \A e \in past[l] : (e.write \/ w) /\ LogicallyParallel(e.acc) => Reported(l)'
  BY <1>1, RacesReported
<1>9. ~LogicallyParallel(c)
  BY <1>2, <1>5, CurrentLCA, ParallelAtLCA
<1>10. \A m : Reported(m) => Reported(m)'
  BY <1>4 DEF Reported
\* The entry of the kind of the access.
<1>11. /\ w => /\ isValid(writes'[l]) /\ CoversNow(writes'[l]) /\ Cover(writes'[l], c)
               /\ \A x : isValid(writes[l]) /\ Cover(writes[l], x) => Cover(writes'[l], x)
       /\ ~w => /\ isValid(reads'[l]) /\ CoversNow(reads'[l]) /\ Cover(reads'[l], c)
                /\ \A x : isValid(reads[l]) /\ Cover(reads[l], x) => Cover(reads'[l], x)
  <2>1. CASE w
    <3>. PICK a, b : a = writes[l] /\ b = writes'[l]
      OBVIOUS
    <3>1. Entry(a)
      BY DEF ShadowOK, EntriesTracked
    <3>2. b = Updated(a) \/ (b = a /\ isValid(a) /\ CoversNow(a))
      BY <1>1, <2>1 DEF Checks, Skips, OccupiedChecked
    <3>3. /\ isValid(b) /\ CoversNow(b) /\ Cover(b, c)
          /\ \A x : isValid(a) /\ Cover(a, x) => Cover(b, x)
      BY <1>1, <3>1, <3>2, AccessCovers
    <3>. QED
      BY <2>1, <3>3
  <2>2. CASE ~w
    <3>. PICK a, b : a = reads[l] /\ b = reads'[l]
      OBVIOUS
    <3>1. Entry(a)
      BY DEF ShadowOK, EntriesTracked
    <3>2. b = Updated(a) \/ (b = a /\ isValid(a) /\ CoversNow(a))
      BY <1>1, <2>2 DEF Checks, Skips, OccupiedChecked
    <3>3. /\ isValid(b) /\ CoversNow(b) /\ Cover(b, c)
          /\ \A x : isValid(a) /\ Cover(a, x) => Cover(b, x)
      BY <1>1, <3>1, <3>2, AccessCovers
    <3>. QED
      BY <2>2, <3>3
  <2>. QED
    BY <2>1, <2>2
<1>12. EntriesCover'
  <2>1. ASSUME NEW m \in Locs \ {l}, NEW e \in past[m]
        PROVE  (/\ Made(e.acc)
                /\ ~e.write => isValid(reads[m]) /\ Cover(reads[m], e.acc)
                /\ e.write => isValid(writes[m]) /\ Cover(writes[m], e.acc))'
    <3>1. PICK a, b, x : a = reads[m] /\ b = writes[m] /\ x = e.acc
      OBVIOUS
    <3>2. /\ Made(x)
          /\ ~e.write => isValid(a) /\ Cover(a, x)
          /\ e.write => isValid(b) /\ Cover(b, x)
      BY <1>1, <3>1 DEF EntriesCover
    <3>3. /\ Made(x)'
          /\ ~e.write => isValid(a) /\ Cover(a, x)'
          /\ e.write => isValid(b) /\ Cover(b, x)'
      BY <1>7, <3>2
    <3>4. reads'[m] = a /\ writes'[m] = b
      BY <1>3, <3>1
    <3>. QED
      BY <3>1, <3>3, <3>4
  <2>2. ASSUME NEW e, e \in past'[l]
        PROVE  (/\ Made(e.acc)
                /\ ~e.write => isValid(reads[l]) /\ Cover(reads[l], e.acc)
                /\ e.write => isValid(writes[l]) /\ Cover(writes[l], e.acc))'
    <3>1. PICK a, b, x : a = reads'[l] /\ b = writes'[l] /\ x = e.acc
      OBVIOUS
    <3>2. CASE e \in past[l]
      <4>1. /\ Made(x)
            /\ ~e.write => isValid(a) /\ Cover(a, x)
            /\ e.write => isValid(b) /\ Cover(b, x)
        BY <1>1, <1>4, <1>11, <3>1, <3>2 DEF EntriesCover
      <4>2. /\ Made(x)'
            /\ ~e.write => isValid(a) /\ Cover(a, x)'
            /\ e.write => isValid(b) /\ Cover(b, x)'
        BY <1>7, <4>1
      <4>. QED
        BY <3>1, <4>2
    <3>3. CASE e = [acc |-> c, write |-> w]
      <4>1. /\ Made(x)
            /\ ~e.write => isValid(a) /\ Cover(a, x)
            /\ e.write => isValid(b) /\ Cover(b, x)
        BY <1>5, <1>11, <3>1, <3>3, CurrentLCA
      <4>2. /\ Made(x)'
            /\ ~e.write => isValid(a) /\ Cover(a, x)'
            /\ e.write => isValid(b) /\ Cover(b, x)'
        BY <1>7, <4>1
      <4>. QED
        BY <3>1, <4>2
    <3>. QED
      BY <1>4, <2>2, <3>2, <3>3
  <2>. QED
    BY <1>3, <2>1, <2>2 DEF EntriesCover
<1>13. OccupiedChecked'
  <2>1. ASSUME NEW m, m \in readsOcc'
        PROVE  (/\ isValid(reads[m]) /\ CoversNow(reads[m])
                /\ \A e \in past[m] : e.write /\ LogicallyParallel(e.acc) => Reported(m))'
    <3>1. PICK a : a = reads'[m]
      OBVIOUS
    <3>2. m \in Locs
      BY <1>4, <2>1 DEF HistoryOK
    <3>3. isValid(a) /\ CoversNow(a)
      <4>1. CASE m = l /\ ~w
        BY <1>11, <3>1, <4>1
      <4>2. CASE m # l \/ w
        BY <1>1, <1>3, <1>4, <2>1, <3>1, <3>2, <4>2 DEF OccupiedChecked
      <4>. QED
        BY <4>1, <4>2
    <3>4. ASSUME NEW e, e \in past'[m], e.write, LogicallyParallel(e.acc)'
          PROVE  Reported(m)'
      <4>1. LogicallyParallel(e.acc)
        BY <1>7, <3>4
      <4>2. e # [acc |-> c, write |-> w]
        BY <1>9, <4>1
      <4>3. e \in past[m]
        BY <1>3, <1>4, <3>2, <3>4, <4>2
      <4>4. CASE m = l
        BY <1>8, <3>4, <4>1, <4>3, <4>4
      <4>5. CASE m # l
        BY <1>1, <1>4, <1>10, <2>1, <3>4, <4>1, <4>3, <4>5 DEF OccupiedChecked
      <4>. QED
        BY <4>4, <4>5
    <3>. QED
      BY <1>7, <3>1, <3>3, <3>4
  <2>2. ASSUME NEW m, m \in writesOcc'
        PROVE  (/\ isValid(writes[m]) /\ CoversNow(writes[m])
                /\ \A e \in past[m] : LogicallyParallel(e.acc) => Reported(m))'
    <3>1. PICK a : a = writes'[m]
      OBVIOUS
    <3>2. m \in Locs
      BY <1>4, <2>2 DEF HistoryOK
    <3>3. isValid(a) /\ CoversNow(a)
      <4>1. CASE m = l /\ w
        BY <1>11, <3>1, <4>1
      <4>2. CASE m # l \/ ~w
        BY <1>1, <1>3, <1>4, <2>2, <3>1, <3>2, <4>2 DEF OccupiedChecked
      <4>. QED
        BY <4>1, <4>2
    <3>4. ASSUME NEW e, e \in past'[m], LogicallyParallel(e.acc)'
          PROVE  Reported(m)'
      <4>1. LogicallyParallel(e.acc)
        BY <1>7, <3>4
      <4>2. e # [acc |-> c, write |-> w]
        BY <1>9, <4>1
      <4>3. e \in past[m]
        BY <1>3, <1>4, <3>2, <3>4, <4>2
      <4>4. CASE m = l /\ w
        BY <1>8, <4>1, <4>3, <4>4
      <4>5. CASE m # l \/ ~w
        BY <1>1, <1>4, <1>10, <2>2, <4>1, <4>3, <4>5 DEF OccupiedChecked
      <4>. QED
        BY <4>4, <4>5
    <3>. QED
      BY <1>7, <3>1, <3>3, <3>4
  <2>. QED
    BY <1>1, <1>2, <2>1, <2>2 DEF OccupiedChecked
<1>14. RacesAreReported'
  <2>1. \A x \in TrueRaces(l, w) : x.loc = l /\ Reported(l)'
    BY <1>8 DEF TrueRaces
  <2>2. \A x \in real : Reported(x.loc)'
    BY <1>1, <1>10 DEF RacesAreReported, Reported
  <2>. QED
    BY <1>4, <2>1, <2>2 DEF RacesAreReported, Reported
<1>. QED
  BY <1>6, <1>12, <1>13, <1>14 DEF CoverOK

\* A mark changes nothing a location has been found to satisfy.
LEMMA MarkCovers ==
    ASSUME EngineOK, Mark
    PROVE  /\ \A x : Made(x) => Made(x)'
           /\ \A x, y : Cover(x, y) => Cover(x, y)'
           /\ \A x : CoversNow(x) => CoversNow(x)'
           /\ \A x : LogicallyParallel(x)' <=> LogicallyParallel(x)
           /\ LoopsOnTop => LoopsOnTop'
<1>1. TypeOK /\ Shape /\ LoopsApart
  BY DEF EngineOK
<1>2. /\ UNCHANGED <<depth, bagOf, nds, frame_id, pc, sync_reg, tree, joined, strands>>
      /\ \A i \in 1..depth : /\ frames'[i].type = frames[i].type
                             /\ frames'[i].iter = frames[i].iter
      /\ depth \in 1..depth /\ \A k \in 1..(depth - 1) : k \in 1..depth
  <2>1. depth \in 1..MaxDepth
    BY <1>1 DEF TypeOK
  <2>. QED
    BY <1>1, <2>1, MarkFacts
<1>3. \A x : \A k \in 1..depth : (IsLCA(x, k)' <=> IsLCA(x, k)) /\ (Par(x, k)' <=> Par(x, k))
  BY <1>1, ParMark
<1>4. ASSUME NEW x PROVE LogicallyParallel(x)' <=> LogicallyParallel(x)
  <2>1. LogicallyParallel(x)' <=> \E k \in 1..depth : IsLCA(x, k)' /\ Par(x, k)'
    BY <1>2 DEF LogicallyParallel, Par, Outstanding, IterOf, ChildOf
  <2>. QED
    BY <1>3, <2>1, ParallelAtLCA
<1>5. ASSUME NEW x, Made(x) PROVE Made(x)'
  <2>1. (IsLCA(x, depth)' <=> IsLCA(x, depth)) /\ IterOf(x, depth)' = IterOf(x, depth)
    BY <1>2, <1>3 DEF IterOf, ChildOf
  <2>. QED
    BY <1>2, <1>5, <2>1 DEF Made, head
<1>6. LoopsOnTop => LoopsOnTop'
  BY <1>2 DEF LoopsOnTop
<1>. QED
  BY <1>1, <1>4, <1>5, <1>6, CoverMark

\* An allocation forgets the location: it has not been accessed in the strand.
LEMMA AllocCovers ==
    ASSUME ~ReuseInStrand, EngineOK, ShadowOK, HistoryOK, CoverOK, NEW l \in Locs,
           Access(l), record_alloc(l)
    PROVE  CoverOK'
<1>1. /\ l \notin readsOcc \cup writesOcc
      /\ past' = [past EXCEPT ![l] = {}]
      /\ UNCHANGED <<Engine, readsOcc, writesOcc, races, real>>
      /\ \A m \in Locs \ {l} : reads'[m] = reads[m] /\ writes'[m] = writes[m]
  BY EntrySteps DEF record_alloc, ShadowOK
<1>2. past'[l] = {} /\ \A m \in Locs \ {l} : past'[m] = past[m]
  BY <1>1 DEF HistoryOK
<1>3. /\ LoopsOnTop /\ EntriesCover /\ OccupiedChecked /\ RacesAreReported
      /\ readsOcc \subseteq Locs /\ writesOcc \subseteq Locs
  BY DEF CoverOK, HistoryOK
<1>4. /\ \A x : Made(x) => Made(x)'
      /\ \A x, y : Cover(x, y) => Cover(x, y)'
      /\ \A x : CoversNow(x) => CoversNow(x)'
      /\ \A x : LogicallyParallel(x)' <=> LogicallyParallel(x)
      /\ LoopsOnTop'
  BY <1>3, AccessMarks, MarkCovers
<1>5. EntriesCover'
  <2>1. ASSUME NEW m \in Locs, NEW e, e \in past'[m]
        PROVE  (/\ Made(e.acc)
                /\ ~e.write => isValid(reads[m]) /\ Cover(reads[m], e.acc)
                /\ e.write => isValid(writes[m]) /\ Cover(writes[m], e.acc))'
    <3>1. PICK a, b, x : a = reads[m] /\ b = writes[m] /\ x = e.acc
      OBVIOUS
    <3>2. m # l /\ e \in past[m]
      BY <1>2, <2>1
    <3>3. /\ Made(x)
          /\ ~e.write => isValid(a) /\ Cover(a, x)
          /\ e.write => isValid(b) /\ Cover(b, x)
      BY <1>3, <3>1, <3>2 DEF EntriesCover
    <3>4. /\ Made(x)'
          /\ ~e.write => isValid(a) /\ Cover(a, x)'
          /\ e.write => isValid(b) /\ Cover(b, x)'
      BY <1>4, <3>3
    <3>5. reads'[m] = a /\ writes'[m] = b
      BY <1>1, <3>1, <3>2
    <3>. QED
      BY <3>1, <3>4, <3>5
  <2>. QED
    BY <2>1 DEF EntriesCover
<1>6. OccupiedChecked'
  <2>1. ASSUME pc = "body", NEW m \in readsOcc
        PROVE  (/\ isValid(reads[m]) /\ CoversNow(reads[m])
                /\ \A e \in past[m] : e.write /\ LogicallyParallel(e.acc) => Reported(m))'
    <3>1. PICK a : a = reads[m]
      OBVIOUS
    <3>2. /\ isValid(a) /\ CoversNow(a)
          /\ \A e \in past[m] : e.write /\ LogicallyParallel(e.acc) => Reported(m)
      BY <1>3, <2>1, <3>1 DEF OccupiedChecked
    <3>3. past'[m] = past[m] /\ reads'[m] = a /\ (Reported(m)' <=> Reported(m))
      BY <1>1, <1>2, <1>3, <3>1 DEF Reported
    <3>. QED
      BY <1>4, <3>1, <3>2, <3>3
  <2>2. ASSUME pc = "body", NEW m \in writesOcc
        PROVE  (/\ isValid(writes[m]) /\ CoversNow(writes[m])
                /\ \A e \in past[m] : LogicallyParallel(e.acc) => Reported(m))'
    <3>1. PICK a : a = writes[m]
      OBVIOUS
    <3>2. /\ isValid(a) /\ CoversNow(a)
          /\ \A e \in past[m] : LogicallyParallel(e.acc) => Reported(m)
      BY <1>3, <2>2, <3>1 DEF OccupiedChecked
    <3>3. past'[m] = past[m] /\ writes'[m] = a /\ (Reported(m)' <=> Reported(m))
      BY <1>1, <1>2, <1>3, <3>1 DEF Reported
    <3>. QED
      BY <1>4, <3>1, <3>2, <3>3
  <2>3. pc' = pc /\ readsOcc' = readsOcc /\ writesOcc' = writesOcc
    BY <1>1 DEF Engine
  <2>. QED
    BY <1>3, <2>1, <2>2, <2>3 DEF OccupiedChecked
<1>7. RacesAreReported'
  BY <1>1, <1>3 DEF RacesAreReported
<1>. QED
  BY <1>4, <1>5, <1>6, <1>7 DEF CoverOK

\* The hooks that go on with the strand: a call and its return keep what an
\* occupancy bit stands for, and after the others the strand ends.
LEMMA OccupiedStep ==
    ASSUME EngineOK, LoopsOnTop, OccupiedChecked, EntriesCover, ShadowOK, HistoryOK, Control
    PROVE  OccupiedChecked'
<1>1. /\ TypeOK /\ Shape /\ InTree /\ LoopsApart /\ depth \in 1..MaxDepth
      /\ SameShadow
  BY ControlIsNext DEF EngineOK, TypeOK
<1>2. CASE clearOccupied
  BY <1>2 DEF clearOccupied, OccupiedChecked
<1>3. CASE ~clearOccupied
  <2>1. SameStrand /\ \/ \E n \in SyncRegCounts : do_enter(n)
                      \/ leave_cilk_function \/ return_from_detach
                      \/ do_loop_begin \/ do_loop_end
    BY <1>3 DEF Control, OldStrand, NewStrand
  <2>2. UNCHANGED <<reads, writes, past, races, readsOcc, writesOcc>>
    BY <1>1, <2>1 DEF SameShadow, SameStrand, history
  <2>3. CASE return_from_detach \/ do_loop_begin
    BY <2>3 DEF return_from_detach, do_loop_begin, OccupiedChecked
  <2>4. CASE do_loop_end
    <3>1. readsOcc = {} /\ writesOcc = {}
      BY <2>4 DEF do_loop_end, OccupiedChecked
    <3>. QED
      BY <2>2, <3>1 DEF OccupiedChecked
  <2>5. ASSUME pc = "body", pc' = "body",
               \A x : x.owner \in 0..frame_id /\ CoversNow(x) => CoversNow(x)',
               \A x : x.owner \in 0..frame_id /\ LogicallyParallel(x)' => LogicallyParallel(x)
        PROVE  OccupiedChecked'
    <3>0. /\ readsOcc \subseteq Locs /\ writesOcc \subseteq Locs
          /\ \A m : Reported(m)' <=> Reported(m)
      BY <2>2 DEF HistoryOK, Reported
    <3>1. \A m \in Locs : \A e \in past[m] : e.acc.owner \in 0..frame_id
      BY DEF EntriesCover, Made
    <3>2. \A m \in Locs : /\ isValid(reads[m]) => reads[m].owner \in 0..frame_id
                          /\ isValid(writes[m]) => writes[m].owner \in 0..frame_id
      BY DEF ShadowOK, EntriesTracked, Entry, Tracked, Placed, isValid, NoAccess
    <3>3. ASSUME NEW m \in readsOcc
          PROVE  (/\ isValid(reads[m]) /\ CoversNow(reads[m])
                  /\ \A e \in past[m] : e.write /\ LogicallyParallel(e.acc) => Reported(m))'
      <4>1. PICK a : a = reads[m]
        OBVIOUS
      <4>2. /\ isValid(a) /\ CoversNow(a) /\ a.owner \in 0..frame_id
            /\ \A e \in past[m] : e.write /\ LogicallyParallel(e.acc) => Reported(m)
        BY <2>5, <3>0, <3>2, <4>1 DEF OccupiedChecked
      <4>3. reads'[m] = a /\ CoversNow(a)' /\ past'[m] = past[m]
        BY <2>2, <2>5, <4>1, <4>2
      <4>4. ASSUME NEW e \in past[m], e.write, LogicallyParallel(e.acc)'
            PROVE  Reported(m)'
        BY <2>5, <3>0, <3>1, <4>2, <4>4
      <4>. QED
        BY <4>1, <4>2, <4>3, <4>4
    <3>4. ASSUME NEW m \in writesOcc
          PROVE  (/\ isValid(writes[m]) /\ CoversNow(writes[m])
                  /\ \A e \in past[m] : LogicallyParallel(e.acc) => Reported(m))'
      <4>1. PICK a : a = writes[m]
        OBVIOUS
      <4>2. /\ isValid(a) /\ CoversNow(a) /\ a.owner \in 0..frame_id
            /\ \A e \in past[m] : LogicallyParallel(e.acc) => Reported(m)
        BY <2>5, <3>0, <3>2, <4>1 DEF OccupiedChecked
      <4>3. writes'[m] = a /\ CoversNow(a)' /\ past'[m] = past[m]
        BY <2>2, <2>5, <4>1, <4>2
      <4>4. ASSUME NEW e \in past[m], LogicallyParallel(e.acc)'
            PROVE  Reported(m)'
        BY <2>5, <3>0, <3>1, <4>2, <4>4
      <4>. QED
        BY <4>1, <4>2, <4>3, <4>4
    <3>. QED
      BY <2>2, <2>5, <3>3, <3>4 DEF OccupiedChecked
  <2>6. CASE \E n \in SyncRegCounts : do_enter(n)
    <3>1. PICK n \in SyncRegCounts : do_enter(n)
      BY <2>6
    <3>2. /\ pc = "body" /\ pc' = "body" /\ CanPush /\ start_new_function("spawner", n, 0)
          /\ n \in 0..MaxRegs /\ 0 \in Regs
      BY <3>1 DEF do_enter
    <3>3. /\ depth' = depth + 1 /\ \A i \in 1..depth : frames'[i] = frames[i]
          /\ frames'[depth + 1].type = "spawner"
      BY <1>1, <3>2, PushFacts, PushTree
    <3>4. ASSUME NEW x, x.owner \in 0..frame_id, NEW i \in 1..depth', IsLCA(x, i)'
          PROVE  i \in 1..depth /\ IsLCA(x, i) /\ (Par(x, i)' <=> Par(x, i))
      <4>1. i # depth + 1
        BY <1>1, <3>2, <3>4, ParPush
      <4>2. i \in 1..depth
        BY <1>1, <3>3, <4>1
      <4>. QED
        BY <1>1, <3>2, <3>4, <4>2, ParPush
    <3>5. ASSUME NEW x, x.owner \in 0..frame_id, CoversNow(x) PROVE CoversNow(x)'
      <4>1. ASSUME NEW i \in 1..depth, AllSpawners(i, depth)
            PROVE  \A k \in (i + 1)..depth' : frames'[k].type = "spawner"
        <5>1. \A k \in (i + 1)..depth' : k = depth + 1 \/ k \in 1..depth
          BY <1>1, <3>3
        <5>2. \A k \in (i + 1)..depth' : k = depth + 1 \/ k \in (i + 1)..depth
          BY <1>1, <3>3
        <5>. QED
          BY <3>3, <4>1, <5>1, <5>2 DEF AllSpawners
      <4>2. ASSUME NEW i \in 1..depth', IsLCA(x, i)'
            PROVE  Par(x, i)' \/ \A k \in (i + 1)..depth' : frames'[k].type = "spawner"
        BY <3>4, <3>5, <4>1, <4>2 DEF CoversNow
      <4>. QED
        BY <4>2 DEF CoversNow, AllSpawners
    <3>6. ASSUME NEW x, x.owner \in 0..frame_id, LogicallyParallel(x)'
          PROVE  LogicallyParallel(x)
      <4>1. \E k \in 1..depth' : IsLCA(x, k)' /\ Par(x, k)'
        BY <3>6 DEF LogicallyParallel, Par, Outstanding, IterOf, ChildOf
      <4>. QED
        BY <3>4, <3>6, <4>1, ParallelAtLCA
    <3>. QED
      BY <2>5, <3>2, <3>5, <3>6
  <2>7. CASE leave_cilk_function
    <3>1. /\ pc = "body" /\ pc' = "body" /\ head.type = "spawner" /\ Pop
          /\ depth > 1 /\ depth' = depth - 1
      BY <2>7 DEF leave_cilk_function, Pop, exit_function
    <3>2. \A i \in 1..(depth - 1) : frames'[i].type = frames[i].type
      BY <1>1, <3>1, PopTree
    <3>3. ASSUME NEW x, x.owner \in 0..frame_id, NEW i \in 1..(depth - 1), IsLCA(x, i)'
          PROVE  \/ IsLCA(x, i) /\ (Par(x, i)' <=> Par(x, i))
                 \/ i = depth - 1 /\ ~Par(x, i)'
      BY <1>1, <3>1, <3>3, ParPop
    <3>4. ASSUME NEW x, x.owner \in 0..frame_id, CoversNow(x) PROVE CoversNow(x)'
      <4>1. ASSUME NEW i \in 1..(depth - 1), AllSpawners(i, depth) \/ i = depth - 1
            PROVE  \A k \in (i + 1)..(depth - 1) : frames'[k].type = "spawner"
        <5>1. \A k \in (i + 1)..(depth - 1) :
                 k \in 1..(depth - 1) /\ k \in (i + 1)..depth /\ i # depth - 1
          BY <1>1
        <5>. QED
          BY <3>2, <4>1, <5>1 DEF AllSpawners
      <4>2. \A i \in 1..(depth - 1) : i \in 1..depth
        BY <1>1
      <4>3. ASSUME NEW i \in 1..(depth - 1), IsLCA(x, i)'
            PROVE  Par(x, i)' \/ \A k \in (i + 1)..(depth - 1) : frames'[k].type = "spawner"
        BY <3>3, <3>4, <4>1, <4>2, <4>3 DEF CoversNow
      <4>. QED
        BY <3>1, <4>3 DEF CoversNow, AllSpawners
    <3>5. ASSUME NEW x, x.owner \in 0..frame_id, LogicallyParallel(x)'
          PROVE  LogicallyParallel(x)
      <4>1. \E k \in 1..(depth - 1) : IsLCA(x, k)' /\ Par(x, k)'
        BY <3>1, <3>5 DEF LogicallyParallel, Par, Outstanding, IterOf, ChildOf
      <4>2. \A k \in 1..(depth - 1) : k \in 1..depth
        BY <1>1
      <4>. QED
        BY <3>3, <3>5, <4>1, <4>2, ParallelAtLCA
    <3>. QED
      BY <2>5, <3>1, <3>4, <3>5
  <2>. QED
    BY <2>1, <2>3, <2>4, <2>6, <2>7
<1>. QED
  BY <1>2, <1>3

\* The hooks keep the one reader and the one writer representative.
LEMMA ControlCovers ==
    ASSUME ~LoopBodySpawns, ~LoopBodyCalls, MaxRegs = 1, EngineOK, ShadowOK, HistoryOK,
           CoverOK, Control
    PROVE  CoverOK'
<1>1. LoopsOnTop /\ EntriesCover /\ OccupiedChecked /\ RacesAreReported
  BY DEF CoverOK
<1>2. UNCHANGED <<reads, writes, past, races, real>>
  BY ControlIsNext DEF SameShadow, history
<1>3. ASSUME NEW m \in Locs, NEW e \in past[m]
      PROVE  (/\ Made(e.acc)
              /\ ~e.write => isValid(reads[m]) /\ Cover(reads[m], e.acc)
              /\ e.write => isValid(writes[m]) /\ Cover(writes[m], e.acc))'
  <2>1. PICK a, b, x : a = reads[m] /\ b = writes[m] /\ x = e.acc
    OBVIOUS
  <2>2. /\ Made(x) /\ x \in MemoryAccess
        /\ ~e.write => isValid(a) /\ Cover(a, x)
        /\ e.write => isValid(b) /\ Cover(b, x)
    BY <1>1, <2>1 DEF EntriesCover, HistoryOK
  <2>3. /\ isValid(a) => a \in MemoryAccess /\ Made(a)
        /\ isValid(b) => b \in MemoryAccess /\ Made(b)
    BY <2>1, EntryMade DEF ShadowOK, EntriesTracked, Entry, Tracked, isValid, NoAccess
  <2>4. /\ Made(x)'
        /\ ~e.write => isValid(a) /\ Cover(a, x)'
        /\ e.write => isValid(b) /\ Cover(b, x)'
    BY <1>1, <2>2, <2>3, MadeStep, CoverStep
  <2>. QED
    BY <1>2, <2>1, <2>4
<1>4. EntriesCover'
  BY <1>2, <1>3 DEF EntriesCover
<1>5. RacesAreReported'
  BY <1>1, <1>2 DEF RacesAreReported
<1>. QED
  BY <1>1, <1>4, <1>5, LoopsOnTopStep, OccupiedStep DEF CoverOK

\* Nothing has been accessed when the detector starts.
LEMMA CoverInit == DetectorInit => CoverOK
<1>. SUFFICES ASSUME DetectorInit PROVE CoverOK
  OBVIOUS
<1>1. /\ depth = 1 /\ readsOcc = {} /\ writesOcc = {} /\ real = {}
      /\ \A l \in Locs : past[l] = {}
  BY DEF DetectorInit, Init
<1>. QED
  BY <1>1 DEF CoverOK, LoopsOnTop, EntriesCover, OccupiedChecked, RacesAreReported

\* A step that leaves the detector alone keeps everything.
LEMMA CoverStutter ==
    ASSUME EngineOK, CoverOK, UNCHANGED dvars
    PROVE  CoverOK'
<1>1. UNCHANGED <<depth, bagOf, nds, frame_id, frames, pc, sync_reg, tree, joined, strands,
                  reads, writes, readsOcc, writesOcc, races, past, real>>
  BY DEF dvars, vars, shadow, history
<1>2. \A x, k : (IsLCA(x, k)' <=> IsLCA(x, k)) /\ (Par(x, k)' <=> Par(x, k))
  BY <1>1 DEF IsLCA, Par, Outstanding, IterOf, ChildOf, is_loop_frame
<1>3. \A i, j : AllSpawners(i, j)' <=> AllSpawners(i, j)
  BY <1>1 DEF AllSpawners
<1>4. \A x : LogicallyParallel(x)' <=> LogicallyParallel(x)
  BY <1>1 DEF LogicallyParallel, IsLCA, Outstanding, IterOf, ChildOf, is_loop_frame
<1>5. \A x, y : Cover(x, y)' <=> Cover(x, y)
  BY <1>1, <1>2, <1>3 DEF Cover
<1>6. \A x : CoversNow(x)' <=> CoversNow(x)
  BY <1>1, <1>2, <1>3 DEF CoversNow
<1>7. \A x : Made(x)' <=> Made(x)
  BY <1>1 DEF Made, IsLCA, IterOf, ChildOf, head
<1>8. \A l : Reported(l)' <=> Reported(l)
  BY <1>1 DEF Reported
<1>9. EntriesCover'
  BY <1>1, <1>5, <1>7 DEF CoverOK, EntriesCover
<1>10. OccupiedChecked'
  BY <1>1, <1>4, <1>6, <1>8 DEF CoverOK, OccupiedChecked
<1>11. LoopsOnTop' /\ RacesAreReported'
  BY <1>1 DEF CoverOK, LoopsOnTop, RacesAreReported
<1>. QED
  BY <1>9, <1>10, <1>11 DEF CoverOK

\* Every step of the detector keeps the representatives.
LEMMA CoverKept ==
    ASSUME ~LoopBodySpawns, ~LoopBodyCalls, ~ReuseInStrand, MaxRegs = 1, EngineOK, ShadowOK,
           HistoryOK, CoverOK, [DetectorNext]_dvars
    PROVE  CoverOK'
<1>1. CASE Control
  BY <1>1, ControlCovers
<1>2. ASSUME NEW l \in Locs, Access(l) PROVE CoverOK'
  BY <1>2, AccessChecks, HitCovers, AllocCovers
<1>3. CASE UNCHANGED dvars
  BY <1>3, CoverStutter
<1>. QED
  BY <1>1, <1>2, <1>3 DEF DetectorNext

\* Remembering one reader and one writer per location is enough for
\* check_races_and_update: where loop bodies neither spawn nor call, a frame has
\* one sync region and no location is reused within a strand, a race is
\* reported on every location on which two parallel accesses conflict.
THEOREM RacyLocationsReported ==
    ASSUME ~LoopBodySpawns, ~LoopBodyCalls, ~ReuseInStrand, MaxRegs = 1
    PROVE  DetectorSpec => []RacesAreReported
<1>1. CoverOK => RacesAreReported
  BY DEF CoverOK
<1>2. EngineOK /\ ShadowOK /\ HistoryOK /\ CoverOK /\ [DetectorNext]_dvars => CoverOK'
  BY CoverKept
<1>. QED
  BY <1>1, <1>2, CoverInit, HistoryInvariant, PTL DEF DetectorSpec

\* An entry that races with the running strand stands for an access of its kind
\* that is parallel to it.
LEMMA RacingEntryStands ==
    ASSUME EngineOK, NEW a, Entry(a), NEW l \in Locs, NEW w \in BOOLEAN,
           Recorded(a, l, w), RacesWith(a)
    PROVE  \E e \in past[l] : e.write = w /\ LogicallyParallel(e.acc)
<1>1. a \in MemoryAccess /\ Placed(a)
  BY DEF Entry, Tracked, RacesWith, isValid, NoAccess
<1>2. LogicallyParallel(a)
  BY <1>1, ParallelIsTrue DEF RacesWith, EngineOK
<1>3. PICK e \in past[l] : e.write = w /\ e.acc.owner = a.owner /\ e.acc.iter = a.iter
  BY DEF Recorded, RacesWith
<1>. QED
  BY <1>2, <1>3, SameStrandParallel

\* What covers a parallel access races with the running strand.
LEMMA CoveringEntryRaces ==
    ASSUME ~LoopBodySpawns, EngineOK, LoopsOnTop, NEW a, Entry(a), isValid(a),
           NEW x, Cover(a, x), LogicallyParallel(x)
    PROVE  RacesWith(a)
<1>1. Tracked(a)
  BY DEF Entry, isValid, NoAccess
<1>. QED
  BY <1>1, CoverSees, EntrySeen

\* The one reader and the one writer that update keeps for a location answer
\* for every access that was made to it, at every moment: in programs of the
\* same class, each races with the running strand just when some access of its
\* kind is parallel to it, whatever it has replaced or been kept against.
THEOREM EntriesStand ==
    ASSUME ~LoopBodySpawns, ~LoopBodyCalls, ~ReuseInStrand, MaxRegs = 1
    PROVE  DetectorSpec => []EntriesStandForAll
<1>1. EngineOK /\ ShadowOK /\ HistoryOK /\ CoverOK => EntriesStandForAll
  <2>. SUFFICES ASSUME EngineOK, ShadowOK, HistoryOK, CoverOK, NEW l \in Locs
                PROVE  /\ RacesWith(reads[l]) <=>
                             \E e \in past[l] : ~e.write /\ LogicallyParallel(e.acc)
                       /\ RacesWith(writes[l]) <=>
                             \E e \in past[l] : e.write /\ LogicallyParallel(e.acc)
    BY DEF EntriesStandForAll
  <2>1. /\ Entry(reads[l]) /\ Recorded(reads[l], l, FALSE)
        /\ Entry(writes[l]) /\ Recorded(writes[l], l, TRUE)
    BY DEF ShadowOK, EntriesTracked, HistoryOK, EntriesRecorded
  <2>2. ASSUME RacesWith(reads[l])
        PROVE  \E e \in past[l] : ~e.write /\ LogicallyParallel(e.acc)
    BY <2>1, <2>2, RacingEntryStands
  <2>3. ASSUME RacesWith(writes[l])
        PROVE  \E e \in past[l] : e.write /\ LogicallyParallel(e.acc)
    BY <2>1, <2>3, RacingEntryStands
  <2>4. ASSUME NEW e \in past[l], LogicallyParallel(e.acc)
        PROVE  /\ ~e.write => RacesWith(reads[l])
               /\ e.write => RacesWith(writes[l])
    <3>1. /\ ~e.write => isValid(reads[l]) /\ Cover(reads[l], e.acc)
          /\ e.write => isValid(writes[l]) /\ Cover(writes[l], e.acc)
      BY DEF CoverOK, EntriesCover
    <3>2. LoopsOnTop
      BY DEF CoverOK
    <3>. QED
      BY <2>1, <2>4, <3>1, <3>2, CoveringEntryRaces
  <2>. QED
    BY <2>2, <2>3, <2>4
<1>2. EngineOK /\ ShadowOK /\ HistoryOK /\ CoverOK /\ [DetectorNext]_dvars => CoverOK'
  BY CoverKept
<1>. QED
  BY <1>1, <1>2, CoverInit, HistoryInvariant, PTL DEF DetectorSpec
=============================================================================
