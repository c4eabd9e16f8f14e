---------------------------- MODULE RaceDetector ----------------------------
(***************************************************************************)
(* Cilksan's determinacy-race detector: the SP-bags engine of SPBags under *)
(* the shadow memory of SimpleShadowMem, for accesses made without locks.  *)
(* A location is one byte of shadow memory; reads and writes hold the one  *)
(* reader and the one writer the dictionaries keep for it, and the         *)
(* occupancy bits mark what the running strand has accessed already on the *)
(* slow path.                                                              *)
(***************************************************************************)
EXTENDS SPBags

CONSTANTS
    Locs,           \* shadowed locations
    MaxAccesses,    \* bound: distinct accesses to one object
    LoopBodyCalls,  \* program class: may a loop body call functions?
    ReuseInStrand   \* program class: may a location be freed and allocated
                    \* again within the strand that accessed it?

ASSUME DetectorAssumption ==
    /\ MaxAccesses \in Nat
    /\ LoopBodyCalls \in BOOLEAN
    /\ ReuseInStrand \in BOOLEAN

VARIABLES
    reads, writes,          \* the dictionaries Reads and Writes
    readsOcc, writesOcc,    \* their occupancy bits
    races,                  \* history: what report_race was called with
    past,                   \* history: accesses to each location's object
    real                    \* history: the determinacy races of the execution

shadow == <<reads, writes, readsOcc, writesOcc>>
history == <<races, past, real>>
dvars == <<vars, shadow, history>>

\* An entry that is not isValid().
NoAccess == [ds |-> 0, version |-> 0, owner |-> 0, iter |-> 0]
isValid(a) == a.ds # 0

\* Mutant: the version of the entry that is replaced stays.
set_node(a) == [CurrentAccess EXCEPT !.version = a.version]

\* MemoryAccess_t::set leaves the version alone when the node is the same.
set(a) == IF a.ds = CurrentAccess.ds
          THEN [CurrentAccess EXCEPT !.version = a.version] ELSE CurrentAccess

\* Does entry a race with the running strand?
RacesWith(a) == isValid(a) /\ previousAccessInParallel(a)

\* The entry after a check: kept if it is parallel, replaced if it is serial
\* or invalid.
Updated(a) == IF RacesWith(a) THEN a ELSE set(a)

\* History: what the access does to the record of the execution.
TrueRaces(l, write) ==
    {[loc |-> l, kind |-> IF ~e.write THEN "RW" ELSE IF write THEN "WW" ELSE "WR"] :
        e \in {x \in past[l] : (x.write \/ write) /\ LogicallyParallel(x.acc)}}

Witness(l, write) ==
    /\ Cardinality(past[l]) < MaxAccesses
    /\ past' = [past EXCEPT ![l] = @ \cup {[acc |-> CurrentAccess, write |-> write]}]
    /\ real' = real \cup TrueRaces(l, write)

Report(l, rw, ww) ==
    races' = races \cup (IF rw # "" THEN {[loc |-> l, kind |-> rw]} ELSE {})
                   \cup (IF ww # "" THEN {[loc |-> l, kind |-> ww]} ELSE {})

Engine == <<depth, bagOf, nds, frame_id, pc, sync_reg, tree, joined, strands>>

(***************************************************************************)
(* do_read and do_write.  A small aligned access takes the fast path, which *)
(* neither consults nor sets occupancy (setOccupiedFast returns true).      *)
(***************************************************************************)
check_races_and_update_with_read(l) ==
    /\ getSbagForAccess
    /\ reads' = [reads EXCEPT ![l] = Updated(@)]
    /\ Report(l, IF RacesWith(writes[l]) THEN "WR" ELSE "", "")

check_races_and_update_with_write(l) ==
    /\ getSbagForAccess
    /\ writes' = [writes EXCEPT ![l] = Updated(@)]
    /\ Report(l, IF RacesWith(reads[l]) THEN "RW" ELSE "",
                 IF RacesWith(writes[l]) THEN "WW" ELSE "")

do_read_slow(l) ==
    /\ pc = "body"
    /\ readsOcc' = readsOcc \cup {l}
    /\ \/ l \notin readsOcc /\ check_races_and_update_with_read(l)
       \/ l \in readsOcc /\ UNCHANGED <<frames, reads, races>>
    /\ Witness(l, FALSE)
    /\ UNCHANGED <<Engine, writes, writesOcc>>

\* Also record_free, which checks a free as a write of the whole block.
do_write_slow(l) ==
    /\ pc = "body"
    /\ writesOcc' = writesOcc \cup {l}
    /\ \/ l \notin writesOcc /\ check_races_and_update_with_write(l)
       \/ l \in writesOcc /\ UNCHANGED <<frames, writes, races>>
    /\ Witness(l, TRUE)
    /\ UNCHANGED <<Engine, reads, readsOcc>>

\* check_read_fast: the bag is marked used when the entry is replaced, and
\* also otherwise if the line's grain size sends the access the slow way.
check_read_fast(l) ==
    /\ pc = "body"
    /\ \/ getSbagForAccess
       \/ RacesWith(reads[l]) /\ UNCHANGED frames
    /\ reads' = [reads EXCEPT ![l] = Updated(@)]
    /\ Report(l, IF RacesWith(writes[l]) THEN "WR" ELSE "", "")
    /\ Witness(l, FALSE)
    /\ UNCHANGED <<Engine, writes, readsOcc, writesOcc>>

check_write_fast(l) ==
    /\ pc = "body"
    /\ \/ getSbagForAccess
       \/ RacesWith(writes[l]) /\ UNCHANGED frames
    /\ writes' = [writes EXCEPT ![l] = Updated(@)]
    /\ Report(l, IF RacesWith(reads[l]) THEN "RW" ELSE "",
                 IF RacesWith(writes[l]) THEN "WW" ELSE "")
    /\ Witness(l, TRUE)
    /\ UNCHANGED <<Engine, reads, readsOcc, writesOcc>>

\* An allocation hook: record_alloc and clear_shadow_memory.  The location
\* becomes a new object; occupancy is not touched.
record_alloc(l) ==
    /\ pc = "body"
    /\ ReuseInStrand \/ l \notin readsOcc \cup writesOcc
    /\ getSbagForAccess
    /\ reads' = [reads EXCEPT ![l] = NoAccess]
    /\ writes' = [writes EXCEPT ![l] = NoAccess]
    /\ past' = [past EXCEPT ![l] = {}]
    /\ UNCHANGED <<Engine, readsOcc, writesOcc, races, real>>

(***************************************************************************)
(* The engine's hooks: those that start a new strand call clearOccupied.   *)
(***************************************************************************)
SameStrand == UNCHANGED <<readsOcc, writesOcc>>
clearOccupied == readsOcc' = {} /\ writesOcc' = {}
SameShadow == UNCHANGED <<reads, writes, history>>

NewStrand(A) == A /\ clearOccupied /\ SameShadow
OldStrand(A) == A /\ SameStrand /\ SameShadow

MayCall == head.type # "loop" \/ LoopBodyCalls

Control ==
    \/ MayCall /\ \E n \in SyncRegCounts : OldStrand(do_enter(n))
    \/ OldStrand(leave_cilk_function)
    \/ \E n \in SyncRegCounts, r \in Regs : NewStrand(do_task(n, r))
    \/ OldStrand(return_from_detach)
    \/ NewStrand(do_detach_continue)
    \/ NewStrand(do_detach_unwind)
    \/ \E r \in Regs : NewStrand(do_sync(r))
    \/ OldStrand(do_loop_begin)
    \/ \E n \in SyncRegCounts, r \in Regs : NewStrand(do_loop_iteration_first(n, r))
    \/ NewStrand(do_loop_iteration_begin)
    \/ NewStrand(do_loop_iteration_end)
    \/ OldStrand(do_loop_end)

Access(l) ==
    \/ do_read_slow(l)
    \/ do_write_slow(l)
    \/ check_read_fast(l)
    \/ check_write_fast(l)
    \/ record_alloc(l)

DetectorInit ==
    /\ Init
    /\ reads = [l \in Locs |-> NoAccess] /\ writes = [l \in Locs |-> NoAccess]
    /\ readsOcc = {} /\ writesOcc = {}
    /\ races = {} /\ past = [l \in Locs |-> {}] /\ real = {}

DetectorNext == Control \/ \E l \in Locs : Access(l)

DetectorSpec == DetectorInit /\ [][DetectorNext]_dvars

-----------------------------------------------------------------------------
Kinds == {"RW", "WR", "WW"}

\* The dictionaries hold accesses or invalid entries, and reports name a
\* location and a kind of race.
DetectorTypeOK ==
    /\ TypeOK
    /\ reads \in [Locs -> MemoryAccess \cup {NoAccess}]
    /\ writes \in [Locs -> MemoryAccess \cup {NoAccess}]
    /\ readsOcc \subseteq Locs /\ writesOcc \subseteq Locs
    /\ races \subseteq [loc : Locs, kind : Kinds]
    /\ real \subseteq [loc : Locs, kind : Kinds]

\* Every race Cilksan reports is a determinacy race of the execution, of the
\* reported kind: some access of that kind, logically parallel to the current
\* one, was made to the same object.
ReportsAreRaces == races \subseteq real

\* Keeping one reader and one writer per location is enough: a location on
\* which two logically parallel accesses conflict has a race reported.
RacesAreReported ==
    \A x \in real : \E y \in races : y.loc = x.loc

\* Shadow memory never holds an access whose bag has been deleted.
ShadowIsLive ==
    /\ DetectorTypeOK
    /\ \A l \in Locs : \A a \in {reads[l], writes[l]} :
          isValid(a) => LiveBag(bagOf[a.ds])

\* What check_races_and_update says when it quits early because the occupancy
\* bits are set: the access "is redundant with a previous access in the same
\* strand", so the object has been accessed before in the same way.
SkippedIsRedundant ==
    /\ \A l \in readsOcc : \E e \in past[l] : ~e.write
    /\ \A l \in writesOcc : \E e \in past[l] : e.write

\* One reader and one writer stand for all: at every moment the entry of Reads
\* (of Writes) races with the running strand just when some read (some write)
\* ever made to the location's object is logically parallel to it.  So
\* whichever access comes next, it is reported for what it is.
EntriesStandForAll ==
    \A l \in Locs :
        /\ RacesWith(reads[l]) <=>
              \E e \in past[l] : ~e.write /\ LogicallyParallel(e.acc)
        /\ RacesWith(writes[l]) <=>
              \E e \in past[l] : e.write /\ LogicallyParallel(e.acc)
=============================================================================
