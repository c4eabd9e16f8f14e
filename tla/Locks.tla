-------------------------------- MODULE Locks -------------------------------
(***************************************************************************)
(* Data races under locks: the locks a strand holds as Cilksan records     *)
(* them, the locker lists beside the reader and writer of a location, and  *)
(* the check that reports parallel accesses which share no lock.           *)
(*                                                                         *)
(* The SP-bags engine is taken by its answer (see SPBags): the strands of  *)
(* one execution are numbered in serial order, and a fork-join program     *)
(* makes two of them logically parallel when a second order of its strands *)
(* (every spawn visited continuation first) reverses them.  There is one   *)
(* location: shadow memory keeps every byte apart.                         *)
(*                                                                         *)
(* Program class: a critical section lies within one strand; a fake mutex  *)
(* is registered before it is used and a mutex known before mtx_timedlock; *)
(* no atomic access is made between begin_atomic and end_atomic.           *)
(***************************************************************************)
EXTENDS LockSets, FiniteSets

CONSTANTS
    NStrands,      \* strands of the execution; below 4 every order is fork-join,
                   \* above, some are of no fork-join program
    Mutexes,       \* addresses of mutexes
    MaxIds,        \* bound: lock ids handed out
    MaxAccesses,   \* bound: distinct accesses
    RelocksInStrand \* program class: may a strand access the location
                     \* again under other locks?

ASSUME LocksAssumption ==
    /\ NStrands \in Nat \ {0} /\ MaxIds \in Nat /\ MaxAccesses \in Nat
    /\ RelocksInStrand \in BOOLEAN

VARIABLES
    strand,               \* the running strand
    hebrew,               \* the second order: its position of every strand
    lock_ids, next_lock_id, \* ids of known mutexes; 0 where there is none
    lockset, lockset_empty, \* the locks held, as CilkSanImpl_t has them
    held,                 \* history: ids of the locks the program holds
    reads, writes,        \* the strand in each dictionary, 0 if invalid
    rlockers, wlockers,   \* the locker list of each dictionary
    occupied,             \* occupancy bits that are set: "read", "write"
    past,                 \* history: the accesses made
    reports, real         \* history: races reported, data races there are

lockvars == <<lock_ids, next_lock_id, lockset, lockset_empty, held>>
shadow == <<reads, writes, rlockers, wlockers, occupied>>
history == <<past, reports, real>>
vars == <<strand, hebrew, lockvars, shadow, history>>

Strands == 1..NStrands
atomic_lock_id == 0
LockIds == 0..MaxIds

\* previousAccessInParallel: the strand s, run already, is logically parallel
\* to the running one.
previousAccessInParallel(s) == s < strand /\ hebrew[s] > hebrew[strand]

(***************************************************************************)
(* Locks.  Parallel code only: is_execution_parallel() holds.              *)
(***************************************************************************)
do_acquire_lock(id) ==
    /\ lockset' = insert(lockset, id) /\ lockset_empty' = FALSE
    /\ held' = held \cup {id}

do_release_lock(id) ==
    /\ lockset' = remove(lockset, id)
    /\ lockset_empty' = (remove(lockset, id) = <<>>)
    /\ held' = held \ {id}

Known(m) == lock_ids[m] # 0
HeldMutex(m) == Known(m) /\ lock_ids[m] \in held

NewId(m) == /\ next_lock_id <= MaxIds
            /\ lock_ids' = [lock_ids EXCEPT ![m] = next_lock_id]
            /\ next_lock_id' = next_lock_id + 1

\* pthread_mutex_init, mtx_init and __cilksan_register_lock_explicit; the
\* first two give a known mutex a new id as well.
init_mutex(m) ==
    /\ ~HeldMutex(m) /\ NewId(m)
    /\ UNCHANGED <<strand, hebrew, lockset, lockset_empty, held, shadow, history>>

\* The destroy functions and __cilksan_unregister_lock_explicit.
destroy_mutex(m) ==
    /\ Known(m) /\ ~HeldMutex(m)
    /\ lock_ids' = [lock_ids EXCEPT ![m] = 0]
    /\ UNCHANGED <<strand, hebrew, next_lock_id, lockset, lockset_empty, held,
                   shadow, history>>

\* A successful lock, trylock or timedlock, or __cilksan_acquire_lock, of a
\* known mutex; the interposers of lock and trylock also take an unknown one.
lock_mutex(m) ==
    /\ ~HeldMutex(m)
    /\ IF Known(m)
       THEN do_acquire_lock(lock_ids[m]) /\ UNCHANGED <<lock_ids, next_lock_id>>
       ELSE NewId(m) /\ do_acquire_lock(next_lock_id)
    /\ UNCHANGED <<strand, hebrew, shadow, history>>

unlock_mutex(m) ==
    /\ HeldMutex(m) /\ do_release_lock(lock_ids[m])
    /\ UNCHANGED <<strand, hebrew, lock_ids, next_lock_id, shadow, history>>

begin_atomic ==
    /\ atomic_lock_id \notin held /\ do_acquire_lock(atomic_lock_id)
    /\ UNCHANGED <<strand, hebrew, lock_ids, next_lock_id, shadow, history>>

end_atomic ==
    /\ atomic_lock_id \in held /\ do_release_lock(atomic_lock_id)
    /\ UNCHANGED <<strand, hebrew, lock_ids, next_lock_id, shadow, history>>

(***************************************************************************)
(* The shadow memory.                                                      *)
(***************************************************************************)
RacesWith(s) == s # 0 /\ previousAccessInParallel(s)
\* Mutant: the last access is kept.
UpdatedAlways(s) == strand
Updated(s) == IF RacesWith(s) THEN s ELSE strand

\* LockerSetFn: lockers of serial accesses go if they are supersets of LS,
\* and LS joins the list unless a parallel locker is a subset of it.
Superseded(locker, LS) ==
    /\ ~previousAccessInParallel(locker.strand)
    /\ L_SUPERSET_OF_R \in intersect(locker.lockset, LS)

LockerSet(lockers, LS) ==
    {k \in lockers : ~Superseded(k, LS)}
    \cup (IF \E k \in lockers : /\ previousAccessInParallel(k.strand)
                                /\ L_SUBSET_OF_R \in intersect(k.lockset, LS)
          THEN {} ELSE {[strand |-> strand, lockset |-> LS]})

\* Mutant: the lockers' own parallelism is not asked for.
dataRaceWithAnyAccess(lockers, LS) ==
    \E k \in lockers : intersect(k.lockset, LS) = EMPTY
dataRaceWithPreviousAccesses(lockers, LS) ==
    \E k \in lockers : /\ previousAccessInParallel(k.strand)
                       /\ intersect(k.lockset, LS) = EMPTY

\* check_data_race: the entry is parallel, and its location has no lockers or
\* a parallel one that shares no lock with LS.
DataRace(s, lockers, LS) ==
    RacesWith(s) /\ (lockers = {} \/ dataRaceWithPreviousAccesses(lockers, LS))

Report(kinds) == reports' = reports \cup {[strand |-> strand, kind |-> k] : k \in kinds}
If(condition, kind) == IF condition THEN {kind} ELSE {}

\* do_read and do_write: no locks are looked at and no locker is recorded.
check_races_and_update(write) ==
    IF write
    THEN /\ writes' = Updated(writes)
         /\ Report(If(RacesWith(writes), "WW") \cup If(RacesWith(reads), "RW"))
         /\ UNCHANGED <<reads, rlockers, wlockers>>
    ELSE /\ reads' = Updated(reads)
         /\ Report(If(RacesWith(writes), "WR"))
         /\ UNCHANGED <<writes, rlockers, wlockers>>

\* do_locked_read and do_locked_write with the locks LS.
check_data_races_and_update(write, LS) ==
    IF write
    THEN /\ writes' = Updated(writes)
         /\ wlockers' = LockerSet(wlockers, LS)
         /\ Report(If(DataRace(writes, wlockers, LS), "WW")
                   \cup If(DataRace(reads, rlockers, LS), "RW"))
         /\ UNCHANGED <<reads, rlockers>>
    ELSE /\ reads' = Updated(reads)
         /\ rlockers' = LockerSet(rlockers, LS)
         /\ Report(If(DataRace(writes, wlockers, LS), "WR"))
         /\ UNCHANGED <<writes, wlockers>>

\* setOccupied: an access is skipped when the strand made one of its kind on
\* a slow path before, whatever the locks were.
Kind(write) == IF write THEN "write" ELSE "read"

Slow(write, check) ==
    /\ occupied' = occupied \cup {Kind(write)}
    /\ IF Kind(write) \in occupied
       THEN UNCHANGED <<reads, writes, rlockers, wlockers, reports>>
       ELSE check

(***************************************************************************)
(* Loads and stores, and frees, which are checked as stores.               *)
(***************************************************************************)
Pair(e, locks) ==
    /\ e.strand # strand /\ previousAccessInParallel(e.strand)
    /\ e.locks \cap locks = {}

RaceKind(e, write) == IF ~e.write THEN "RW" ELSE IF write THEN "WW" ELSE "WR"

\* History.  A data race is plain if the access holds no lock, or if nothing
\* that the dictionary recorded for the location before was under locks; it
\* is locked if both accesses hold locks.
Class(e, locks) ==
    IF locks = {} \/ \A d \in past : d.write = e.write => d.locks = {} THEN "plain"
    ELSE IF e.locks # {} THEN "locked" ELSE "mixed"

Witness(write, locks) ==
    LET conflicts == {e \in past : (e.write \/ write) /\ Pair(e, locks)} IN
    /\ ~RelocksInStrand => \A e \in past : e.strand = strand => e.locks = locks
    /\ past' = past \cup {[strand |-> strand, write |-> write, locks |-> locks]}
    /\ Cardinality(past') <= MaxAccesses
    /\ real' = real \cup
         {[strand |-> strand, kind |-> RaceKind(e, write),
           class |-> Class(e, locks)] : e \in conflicts}

\* The dispatch of __csan_load and __csan_store for an access that is not
\* atomic.  Only accesses without locks have a fast path.
access(write) ==
    /\ IF ~lockset_empty THEN Slow(write, check_data_races_and_update(write, lockset))
       ELSE \/ Slow(write, check_races_and_update(write))
            \/ check_races_and_update(write) /\ UNCHANGED occupied
    /\ Witness(write, held)
    /\ UNCHANGED <<strand, hebrew, lockvars>>

\* do_atomic_read and do_atomic_write (check_atomics): the atomic lock is
\* held for the access only.
atomic_access(write) ==
    LET LS == insert(lockset, atomic_lock_id) IN
    /\ atomic_lock_id \notin held
    /\ Slow(write, check_data_races_and_update(write, LS))
    /\ lockset' = remove(LS, atomic_lock_id)
    /\ Witness(write, held \cup {atomic_lock_id})
    /\ UNCHANGED <<strand, hebrew, lock_ids, next_lock_id, lockset_empty, held>>

\* The strand ends at a spawn, a sync or a return, and shadow memory's
\* occupancy bits are cleared.
next_strand ==
    /\ strand < NStrands /\ held = {}
    /\ strand' = strand + 1
    /\ occupied' = {}
    /\ UNCHANGED <<hebrew, lockvars, reads, writes, rlockers, wlockers, history>>

-----------------------------------------------------------------------------
Init ==
    /\ strand = 1
    /\ hebrew \in {p \in [Strands -> Strands] : \A s, t \in Strands : p[s] = p[t] => s = t}
    /\ lock_ids = [m \in Mutexes |-> 0] /\ next_lock_id = atomic_lock_id + 1
    /\ lockset = <<>> /\ lockset_empty = TRUE /\ held = {}
    /\ reads = 0 /\ writes = 0 /\ rlockers = {} /\ wlockers = {}
    /\ occupied = {} /\ past = {} /\ reports = {} /\ real = {}

Next ==
    \/ \E m \in Mutexes : init_mutex(m) \/ destroy_mutex(m)
                          \/ lock_mutex(m) \/ unlock_mutex(m)
    \/ begin_atomic \/ end_atomic
    \/ \E write \in BOOLEAN : access(write) \/ atomic_access(write)
    \/ next_strand

Spec == Init /\ [][Next]_vars

-----------------------------------------------------------------------------
Lockers == [strand : Strands, lockset : Seq(LockIds)]
Kinds == {"WW", "WR", "RW"}

\* The state is well typed, and no two known mutexes share an id.
LocksTypeOK ==
    /\ strand \in Strands /\ hebrew \in [Strands -> Strands]
    /\ lock_ids \in [Mutexes -> LockIds] /\ next_lock_id \in 1..MaxIds + 1
    /\ \A m, n \in Mutexes : Known(m) /\ lock_ids[m] = lock_ids[n] => m = n
    /\ held \subseteq LockIds /\ occupied \subseteq {"read", "write"}
    /\ reads \in 0..NStrands /\ writes \in 0..NStrands
    /\ rlockers \subseteq Lockers /\ wlockers \subseteq Lockers
    /\ reports \subseteq [strand : Strands, kind : Kinds]

\* The lockset is the locks the program holds, in order and without
\* duplicates, and locks_held() agrees, whatever the order in which critical
\* sections are nested and left, and around atomic accesses.
LocksetIsHeld ==
    /\ LocksTypeOK
    /\ ToSet(lockset) = held
    /\ \A i \in 1..Len(lockset) - 1 : lockset[i] < lockset[i + 1]
    /\ lockset_empty = (held = {})

\* Nothing is reported that the program orders or locks: a report is about a
\* parallel conflicting access which held no lock in common.
ReportsAreDataRaces ==
    \A r \in reports : \E t \in real : t.strand = r.strand /\ t.kind = r.kind

\* Locks never hide a race without locks: one whose later access holds none,
\* or whose location was never accessed under locks, is reported, whatever
\* locked accesses the dictionaries have seen and kept in between.
PlainRacesReported ==
    \A t \in real : t.class = "plain" => [strand |-> t.strand, kind |-> t.kind] \in reports

\* dataRaceWithPreviousAccesses decides about "a data race with the given
\* previous accesses": of two parallel accesses that both hold locks, but none
\* in common, the later one is reported.
LockedRacesReported ==
    \A t \in real : t.class = "locked" => [strand |-> t.strand, kind |-> t.kind] \in reports

\* What an intersection says is one-sided: EMPTY means that no lock is
\* shared, a shared lock is always seen, and an inclusion that is denied does
\* not hold, for every lockset that lockers keep and the locks held.
IntersectOneSided ==
    \A k \in rlockers \cup wlockers :
        LET l == ToSet(k.lockset)
            r == ToSet(lockset)
            res == intersect(k.lockset, lockset) IN
        /\ NONEMPTY \in res <=> l \cap r # {}
        /\ l # {} /\ l \subseteq r /\ res # {NONEMPTY} => L_SUBSET_OF_R \in res
        /\ r # {} /\ r \subseteq l /\ res # {NONEMPTY} => L_SUPERSET_OF_R \in res
=============================================================================
