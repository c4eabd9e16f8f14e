----------------------------- MODULE HyperTable -----------------------------
(***************************************************************************)
(* hyper_table, the hash table in which a frame keeps its reducer views: a *)
(* linear array while it is small, then ordered linear probing in a        *)
(* circular buffer with tombstones, rebuilt when it is overloaded,         *)
(* underloaded or after enough insertions and removals.                    *)
(***************************************************************************)
EXTENDS Integers, FiniteSets, FiniteSetsExt

CONSTANTS
    Keys,                 \* addresses of reducers, neither empty nor deleted
    Values,               \* views
    NoView,               \* no view (a null pointer)
    hash,                 \* the hash of each key, before it is masked
    IndexMod,             \* 2^32 in the code: index_t is unsigned
    MIN_CAPACITY, MIN_HT_CAPACITY, LOAD_FACTOR_CONSTANT, MIN_REBUILD_OP_COUNT,
    FillTables            \* may the program insert when no bucket is empty?

KEY_EMPTY == 0
KEY_DELETED == -1

ASSUME TableAssumption ==
    /\ Keys \subseteq Nat \ {0}
    /\ NoView \notin Values
    /\ hash \in [Keys -> Nat]
    /\ MIN_CAPACITY \in Nat \ {0} /\ MIN_HT_CAPACITY = 2 * MIN_CAPACITY
    /\ IndexMod \in Nat /\ IndexMod >= MIN_CAPACITY
    /\ LOAD_FACTOR_CONSTANT \in Nat \ {0, 1} /\ MIN_REBUILD_OP_COUNT \in Nat
    /\ FillTables \in BOOLEAN

\* A hyper_table: capacity, occupancy, ins_rm_count and the bucket array.
VARIABLE table

capacity == table.capacity

Empty == [key |-> KEY_EMPTY, hash |-> 0, value |-> NoView]
Tombstone == [key |-> KEY_DELETED, hash |-> 0, value |-> NoView]
Bucket(k, v) == [key |-> k, hash |-> 0, value |-> v]

is_empty(b) == b.key = KEY_EMPTY
is_tombstone(b) == b.key = KEY_DELETED
is_valid(b) == ~is_empty(b) /\ ~is_tombstone(b)

get_table_entry(cap, k) == hash[k] % cap

\* Mutant: the differences are compared as signed integers.
continue_probe_signed(tgt, h, i) == i - tgt <= i - h

\* Continue the probe for tgt past a bucket of hash h at index i: a
\* comparison of unsigned differences.
continue_probe(tgt, h, i) == (i - tgt) % IndexMod <= (i - h) % IndexMod

is_overloaded(occ, cap) ==
    occ > ((LOAD_FACTOR_CONSTANT - 1) * cap) \div LOAD_FACTOR_CONSTANT
is_underloaded(occ, cap) ==
    /\ cap > MIN_CAPACITY
    /\ occ <= (((LOAD_FACTOR_CONSTANT \div 2) - 1) * cap) \div LOAD_FACTOR_CONSTANT
time_to_rebuild(count, cap) ==
    count > MIN_REBUILD_OP_COUNT /\ count > cap \div (4 * LOAD_FACTOR_CONSTANT)

\* A new array: in a hash table every (2 * LOAD_FACTOR_CONSTANT + 1)-th entry
\* is a tombstone (graveyard hashing).
bucket_array_create(cap) ==
    LET step == 2 * LOAD_FACTOR_CONSTANT + 1 IN
    [i \in 0..(cap - 1) |->
        IF cap >= MIN_HT_CAPACITY /\ i % step = step - 1 THEN Tombstone ELSE Empty]

(***************************************************************************)
(* Probes.  At(t, tgt, k) is the index k steps after tgt; a probe for key  *)
(* x stops at the least offset where StopsFind or StopsInsert holds, or    *)
(* after going round the table.                                            *)
(***************************************************************************)
At(t, tgt, k) == (tgt + k) % t.capacity
Offsets(t) == 0..(t.capacity - 1)

StopsFind(t, x, k) ==
    LET tgt == get_table_entry(t.capacity, x)
        i == At(t, tgt, k)
        b == t.buckets[i] IN
    \/ b.key = x
    \/ is_empty(b)
    \/ is_valid(b) /\ ~continue_probe(tgt, b.hash, i)

\* The offsets at which a probe finds key x: at most one.
FoundAt(t, x) ==
    {k \in Offsets(t) :
        /\ t.buckets[At(t, get_table_entry(t.capacity, x), k)].key = x
        /\ \A j \in 0..(k - 1) : ~StopsFind(t, x, j)}

find_hash(t, x) ==
    LET found == FoundAt(t, x) IN
    IF found = {} THEN NoView
    ELSE t.buckets[At(t, get_table_entry(t.capacity, x), Min(found))].value

find_linear(t, x) ==
    LET hits == {i \in 0..(t.occupancy - 1) : t.buckets[i].key = x} IN
    IF hits = {} THEN NoView ELSE t.buckets[Max(hits)].value

\* The view of key x, or NoView.
find(t, x) ==
    IF t.capacity < MIN_HT_CAPACITY THEN find_linear(t, x) ELSE find_hash(t, x)

\* The first offset after k that is not a tombstone; capacity if the probe
\* comes back to its start first.
TombEnd(t, tgt, k) ==
    Min({j \in (k + 1)..t.capacity :
            j = t.capacity \/ ~is_tombstone(t.buckets[At(t, tgt, j)])})

\* Mutant: a tombstone is reused wherever it is met.
StopsAtTombstone(t, x, k) ==
    LET tgt == get_table_entry(t.capacity, x)
        i == At(t, tgt, k)
        b == t.buckets[i] IN
    b.key = x \/ ~is_valid(b) \/ ~continue_probe(tgt, b.hash, i)

StopsInsert(t, x, k) ==
    LET tgt == get_table_entry(t.capacity, x)
        i == At(t, tgt, k)
        b == t.buckets[i]
        end == TombEnd(t, tgt, k)
        next == t.buckets[At(t, tgt, end)] IN
    \/ b.key = x
    \/ is_empty(b)
    \/ /\ is_tombstone(b)
       /\ \/ is_empty(next)
          \/ end = t.capacity
          \/ ~continue_probe(tgt, next.hash, At(t, tgt, end))
    \/ is_valid(b) /\ ~continue_probe(tgt, b.hash, i)

\* Put bucket b into the table and count it.
Put(t, i, b) ==
    [t EXCEPT !.buckets[i] = b, !.occupancy = @ + 1, !.ins_rm_count = @ + 1]

\* Shift the buckets from index i on by one, up to the first entry that is
\* not valid, and put b at i.  With no such entry the last bucket is lost and
\* insert returns false.
ShiftIn(t, i, b) ==
    LET free == {k \in Offsets(t) : ~is_valid(t.buckets[At(t, i, k)])}
        last == IF free = {} THEN t.capacity - 1 ELSE Min(free)
        shifted == [j \in 0..(t.capacity - 1) |->
            LET k == (j - i) % t.capacity IN
            IF k = 0 THEN b
            ELSE IF k <= last THEN t.buckets[At(t, i, k - 1)]
            ELSE t.buckets[j]] IN
    IF free = {} THEN [t EXCEPT !.buckets = shifted]
    ELSE [t EXCEPT !.buckets = shifted, !.occupancy = @ + 1, !.ins_rm_count = @ + 1]

Rehashed(t, b) == [b EXCEPT !.hash = get_table_entry(t.capacity, b.key)]

\* insert into a hash table that needs no rebuilding.
InsertHash(t, b0) ==
    LET tgt == get_table_entry(t.capacity, b0.key)
        b == Rehashed(t, b0)
        stops == {k \in Offsets(t) : StopsInsert(t, b.key, k)}
        i == IF stops = {} THEN tgt ELSE At(t, tgt, Min(stops))
        at == t.buckets[i] IN
    IF at.key = b.key THEN [t EXCEPT !.buckets[i].value = b.value]
    ELSE IF stops # {} /\ ~is_valid(at) THEN Put(t, i, b)
    ELSE ShiftIn(t, i, b)

\* insert into a small table that is not full.
InsertLinear(t, b) ==
    LET hits == {i \in 0..(t.occupancy - 1) : t.buckets[i].key = b.key} IN
    IF hits # {} THEN [t EXCEPT !.buckets[Min(hits)] = b]
    ELSE [t EXCEPT !.buckets[t.occupancy] = b, !.occupancy = @ + 1]

\* Bucket b of the old array is inserted again, if it holds a view.
Reinserted(t, b) ==
    IF ~is_valid(b) THEN t
    ELSE IF t.capacity < MIN_HT_CAPACITY THEN InsertLinear(t, b)
    ELSE InsertHash(t, b)

\* Rebuild with capacity cap.  The insertions never rebuild again: the new
\* array has room and ins_rm_count starts below zero.
rebuild(t, cap) ==
    LET new == [capacity |-> cap, occupancy |-> 0, ins_rm_count |-> -t.occupancy,
                buckets |-> bucket_array_create(cap)]
        copied[i \in 0..t.capacity] ==
            IF i = 0 THEN new ELSE Reinserted(copied[i - 1], t.buckets[i - 1]) IN
    copied[t.capacity]

\* Mutant: insert never looks at the load.
PreparedByCount(t) ==
    LET t1 == IF t.capacity < MIN_HT_CAPACITY THEN rebuild(t, 2 * t.capacity) ELSE t IN
    IF time_to_rebuild(t1.ins_rm_count, t1.capacity) THEN rebuild(t1, t1.capacity)
    ELSE t1

\* The rebuilding insert does first.
Prepared(t) ==
    LET t1 == IF t.capacity < MIN_HT_CAPACITY THEN rebuild(t, 2 * t.capacity) ELSE t IN
    IF is_overloaded(t1.occupancy, t1.capacity) THEN rebuild(t1, 2 * t1.capacity)
    ELSE IF time_to_rebuild(t1.ins_rm_count, t1.capacity) THEN rebuild(t1, t1.capacity)
    ELSE t1

Inserted(t, b) ==
    IF t.capacity < MIN_HT_CAPACITY /\ t.occupancy < t.capacity
    THEN InsertLinear(t, b)
    ELSE InsertHash(Prepared(t), b)

\* remove from a small table: the last bucket takes the place.
RemoveLinear(t, x) ==
    LET i == Min({j \in 0..(t.occupancy - 1) : t.buckets[j].key = x})
        last == t.occupancy - 1 IN
    [t EXCEPT !.buckets = [@ EXCEPT ![i] = t.buckets[last], ![last] = Empty],
              !.occupancy = @ - 1]

\* remove from a hash table: a tombstone, and a rebuild if it is time.
RemoveHash(t, x) ==
    LET i == At(t, get_table_entry(t.capacity, x), Min(FoundAt(t, x)))
        t1 == [t EXCEPT !.buckets[i] = Tombstone, !.occupancy = @ - 1,
                        !.ins_rm_count = @ + 1] IN
    IF is_underloaded(t1.occupancy, t.capacity) THEN rebuild(t1, t.capacity \div 2)
    ELSE IF time_to_rebuild(t1.ins_rm_count, t.capacity) THEN rebuild(t1, t.capacity)
    ELSE t1

NewTable ==
    [capacity |-> MIN_CAPACITY, occupancy |-> 0, ins_rm_count |-> 0,
     buckets |-> bucket_array_create(MIN_CAPACITY)]

(***************************************************************************)
(* The operations.                                                         *)
(***************************************************************************)
\* Is a bucket of the hash table empty?
HasRoom(t) == \E i \in Offsets(t) : is_empty(t.buckets[i])

insert(k, v) ==
    /\ FillTables \/ capacity < MIN_HT_CAPACITY \/ HasRoom(Prepared(table))
    /\ table' = Inserted(table, Bucket(k, v))
    /\ table'.capacity <= IndexMod

\* Removing a key that is not in the table changes nothing.
remove(k) ==
    /\ find(table, k) # NoView
    /\ table' = IF capacity < MIN_HT_CAPACITY THEN RemoveLinear(table, k)
                ELSE RemoveHash(table, k)

clear ==
    /\ table.occupancy > 0
    /\ table' = IF capacity = MIN_CAPACITY
                THEN [table EXCEPT !.buckets = [i \in DOMAIN @ |-> Empty],
                                   !.occupancy = 0]
                ELSE NewTable

TableInit == table = NewTable

TableNext ==
    \/ \E k \in Keys, v \in Values : insert(k, v)
    \/ \E k \in Keys : remove(k)
    \/ clear

TableSpec == TableInit /\ [][TableNext]_table

-----------------------------------------------------------------------------
\* The table is an array of capacity buckets; valid ones hold a key and a
\* view, and in a hash table the index the key hashes to.
TableTypeOK ==
    /\ capacity \in Nat \ {0}
    /\ table.occupancy \in 0..capacity
    /\ table.ins_rm_count \in Int
    /\ DOMAIN table.buckets = 0..(capacity - 1)
    /\ \A i \in 0..(capacity - 1) :
          LET b == table.buckets[i] IN
          is_valid(b) => /\ b.key \in Keys /\ b.value \in Values
                         /\ capacity >= MIN_HT_CAPACITY
                              => b.hash = get_table_entry(capacity, b.key)

ValidIndices == {i \in 0..(capacity - 1) : is_valid(table.buckets[i])}

\* occupancy counts the valid buckets and no key is in the table twice, also
\* after any rebuild ("Mismatched occupancy after resizing table").
OccupancyCounts ==
    /\ table.occupancy = Cardinality(ValidIndices)
    /\ \A i, j \in ValidIndices :
          table.buckets[i].key = table.buckets[j].key => i = j

\* Every bucket was inserted below the load threshold: an insertion made by
\* rebuild never has to rebuild again, and one by the program never fails.
LoadBounded ==
    /\ TableTypeOK
    /\ capacity >= MIN_HT_CAPACITY =>
          \A o \in 0..(table.occupancy - 1) : ~is_overloaded(o, capacity)

\* find returns the bucket of a key that is in the table ("Returns a pointer
\* to the bucket associated with key, if it exists").
FindsEveryBucket ==
    \A i \in ValidIndices : LET b == table.buckets[i] IN find(table, b.key) = b.value

\* What find returns, for every key.
Views == [k \in Keys |-> find(table, k)]

Map == INSTANCE ViewMap WITH views <- Views

\* Seen through find, the table is a map: whatever probes wrapped, buckets
\* shifted, tombstones were reused and rebuilds happened, insert changes the
\* view of its key alone and remove deletes its key alone.
ImplementsMap == Map!MapSpec
=============================================================================
