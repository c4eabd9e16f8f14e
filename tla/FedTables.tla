------------------------------ MODULE FedTables -----------------------------
(***************************************************************************)
(* The front-end data (FED) tables of csanrt.cpp: every compilation unit   *)
(* that is loaded appends its entries to the table of their type, under a  *)
(* spin lock, while lookups (a report being printed) read the table with   *)
(* no lock at all.  A type's entries are spread over tables of PerTable    *)
(* entries, an index array points to the tables, and the array is replaced *)
(* by one of twice its capacity when it is full.                           *)
(*                                                                         *)
(* One FED type is modelled, and the object table and the PC table that    *)
(* grow with it.  Units are loaded by threads of their own (constructors,  *)
(* dlopen); one step is one access to memory that another thread can see.  *)
(***************************************************************************)
EXTENDS Integers, Sequences, FiniteSets

CONSTANTS
    NUnits,     \* units, and threads that load them
    NumEntries, \* FED entries of each unit
    Readers,    \* threads that look entries up
    PerTable,   \* NUM_ELEMENTS_PER_TABLE
    Capacity    \* DEFAULT_NUM_POINTERS_TO_TABLES

Units == 1..NUnits

ASSUME FedAssumption ==
    /\ NUnits \in Nat /\ NumEntries \in [Units -> Nat]
    /\ PerTable \in Nat \ {0} /\ Capacity \in Nat \ {0}

VARIABLES
    lock,            \* the spin lock
    fed_tables,      \* fed_table_index_t; tables names an array, 0 if null
    arrays,          \* arrays of fed_table_t ever allocated, never freed
    stores,          \* entry storage ever allocated
    obj_entries,     \* the object table
    pc_cap,          \* total_load etc.: the capacity of the tool's PC table
    pc, added,       \* of every loading thread; entries it has added
    id_base,         \* of every unit; -1 before update_ids
    reader           \* of every reader: its lookup and the last answer

vars == <<lock, fed_tables, arrays, stores, obj_entries, pc_cap, pc, added,
          id_base, reader>>
tablevars == <<fed_tables, arrays, stores>>

Entry == [unit : 0..NUnits, local : Nat]
Null == [unit |-> 0, local |-> 0]      \* the lookup's answer NULL
Garbage == [unit |-> 0, local |-> 1]   \* what reading a null pointer gives

\* fed_table_t; calloc leaves cells with neither entries nor storage.
EmptyCell == [num_entries |-> 0, store |-> 0]
calloc(n) == [i \in 1..n |-> EmptyCell]

(***************************************************************************)
(* The unit that holds the lock adds its entries.                          *)
(***************************************************************************)
CurrentArray == arrays[fed_tables.tables]
InsertionTable == CurrentArray[fed_tables.num_tables]
is_table_full == InsertionTable.num_entries = PerTable

\* The array that replaces a full one; mutant: nothing is copied into it.
GrownEmpty(old) == calloc(2 * fed_tables.capacity)
Grown(old) == [i \in 1..2 * fed_tables.capacity |->
                 IF i <= Len(old) THEN old[i] ELSE EmptyCell]

\* allocate_new_table_and_append_to_index, up to the new array.  The old one
\* stays, in old_tables_list, "in case they are being accessed".
grow_index ==
    /\ fed_tables.capacity = fed_tables.num_tables
    /\ arrays' = Append(arrays, Grown(CurrentArray))
    /\ fed_tables' = [fed_tables EXCEPT !.capacity = 2 * @, !.tables = Len(arrays) + 1]
    /\ UNCHANGED stores

\* The rest of it: the next cell of the array gets storage of its own.
append_table ==
    /\ fed_tables.capacity > fed_tables.num_tables
    /\ stores' = Append(stores, <<>>)
    /\ arrays' = [arrays EXCEPT ![fed_tables.tables][fed_tables.num_tables + 1] =
                                  [num_entries |-> 0, store |-> Len(stores) + 1]]
    /\ fed_tables' = [fed_tables EXCEPT !.num_tables = @ + 1]

\* initialize_fed_tables: the first table is appended as all others are.
initialize_fed_tables ==
    /\ fed_tables.tables = 0
    /\ arrays' = <<[calloc(Capacity) EXCEPT ![1] = [num_entries |-> 0, store |-> 1]]>>
    /\ stores' = <<<<>>>>
    /\ fed_tables' = [num_tables |-> 1, capacity |-> Capacity,
                      num_total_entries |-> 0, tables |-> 1]

add_entry_to_table(u) ==
    LET s == InsertionTable.store IN
    /\ stores' = [stores EXCEPT ![s] = Append(@, [unit |-> u, local |-> added[u]])]
    /\ arrays' = [arrays EXCEPT
                    ![fed_tables.tables][fed_tables.num_tables].num_entries = @ + 1]
    /\ UNCHANGED fed_tables

\* add_fed_table: one turn of its loop, and the end of the loop.
add_fed_entry(u) ==
    /\ pc[u] = "add" /\ added[u] < NumEntries[u]
    /\ IF is_table_full
       THEN (grow_index \/ append_table) /\ UNCHANGED added
       ELSE add_entry_to_table(u) /\ added' = [added EXCEPT ![u] = @ + 1]
    /\ UNCHANGED <<lock, obj_entries, pc_cap, pc, id_base, reader>>

add_fed_total(u) ==
    /\ pc[u] = "add" /\ added[u] = NumEntries[u]
    /\ fed_tables' = [fed_tables EXCEPT !.num_total_entries = @ + NumEntries[u]]
    /\ pc' = [pc EXCEPT ![u] = "ids"]
    /\ UNCHANGED <<lock, arrays, stores, obj_entries, pc_cap, added, id_base, reader>>

(***************************************************************************)
(* __csanrt_unit_init of unit u.                                           *)
(***************************************************************************)
\* The compare-and-exchange that takes the lock; a failed one changes nothing.
acquire(u) ==
    /\ pc[u] = "start" /\ lock = 0
    /\ lock' = 1
    /\ pc' = [pc EXCEPT ![u] = "tables"]
    /\ UNCHANGED <<tablevars, obj_entries, pc_cap, added, id_base, reader>>

tables_ready(u) ==
    /\ pc[u] = "tables"
    /\ \/ initialize_fed_tables
       \/ fed_tables.tables # 0 /\ UNCHANGED tablevars
    /\ pc' = [pc EXCEPT ![u] = "add"]
    /\ UNCHANGED <<lock, obj_entries, pc_cap, added, id_base, reader>>

\* update_ids; mutant: the base is taken after the unit's entries.
base_after(u) == fed_tables.num_total_entries
base_before(u) == fed_tables.num_total_entries - NumEntries[u]

update_ids(u) ==
    /\ pc[u] = "ids"
    /\ id_base' = [id_base EXCEPT ![u] = base_before(u)]
    /\ pc' = [pc EXCEPT ![u] = "objects"]
    /\ UNCHANGED <<lock, tablevars, obj_entries, pc_cap, added, reader>>

\* add_obj_table: a longer array replaces the old one, which is deleted, so
\* the program class has no object lookup while a unit is being added.
add_obj_table(u) ==
    /\ pc[u] = "objects"
    /\ obj_entries' = obj_entries \o
          [i \in 1..NumEntries[u] |-> [unit |-> u, local |-> i - 1]]
    /\ pc' = [pc EXCEPT ![u] = "tool"]
    /\ UNCHANGED <<lock, tablevars, pc_cap, added, id_base, reader>>

\* __csan_unit_init of the tool: grow_pc_table.
unit_init(u) ==
    /\ pc[u] = "tool"
    /\ pc_cap' = pc_cap + NumEntries[u]
    /\ pc' = [pc EXCEPT ![u] = "release"]
    /\ UNCHANGED <<lock, tablevars, obj_entries, added, id_base, reader>>

\* Mutant: the exchange expects the value it has just stored.
lock_kept == 1
lock_released == 0

release(u) ==
    /\ pc[u] = "release"
    /\ lock' = lock_released
    /\ pc' = [pc EXCEPT ![u] = "done"]
    /\ UNCHANGED <<tablevars, obj_entries, pc_cap, added, id_base, reader>>

Load(u) == \/ acquire(u) \/ tables_ready(u) \/ add_fed_entry(u) \/ add_fed_total(u)
           \/ update_ids(u) \/ add_obj_table(u) \/ unit_init(u) \/ release(u)

(***************************************************************************)
(* get_fed_entry, one read of shared memory at a time.                     *)
(***************************************************************************)
\* A unit's ids are used once its base is set.
Owned(u) == IF id_base[u] = -1 THEN {}
            ELSE id_base[u] .. (id_base[u] + NumEntries[u] - 1)
Ids == 0..fed_tables.num_total_entries

\* `must` (history): the id is one that a unit has been given.
begin_lookup(r, id) ==
    /\ reader[r].at = "idle" /\ fed_tables.tables # 0
    /\ reader' = [reader EXCEPT ![r] =
          [at |-> "total", id |-> id, tables |-> 0, entry |-> Null,
           must |-> \E u \in Units : id \in Owned(u)]]
    /\ UNCHANGED <<lock, tablevars, obj_entries, pc_cap, pc, added, id_base>>

read_total(r) ==
    /\ reader[r].at = "total"
    /\ reader' = [reader EXCEPT ![r].at =
          IF reader[r].id < fed_tables.num_total_entries THEN "tables" ELSE "answered"]
    /\ UNCHANGED <<lock, tablevars, obj_entries, pc_cap, pc, added, id_base>>

\* get_table_for_id reads the array's address.
read_tables(r) ==
    /\ reader[r].at = "tables"
    /\ reader' = [reader EXCEPT ![r].at = "cell", ![r].tables = fed_tables.tables]
    /\ UNCHANGED <<lock, tablevars, obj_entries, pc_cap, pc, added, id_base>>

\* get_entry_for_table reads the table, in whichever array it was found.
EntryAt(array, id) ==
    LET t == (id \div PerTable) + 1
        s == IF t <= Len(array) THEN array[t].store ELSE 0
        i == (id % PerTable) + 1 IN
    IF s # 0 /\ i <= Len(stores[s]) THEN stores[s][i] ELSE Garbage

read_entry(r) ==
    /\ reader[r].at = "cell"
    /\ reader' = [reader EXCEPT ![r].at = "answered",
                      ![r].entry = EntryAt(arrays[reader[r].tables], reader[r].id)]
    /\ UNCHANGED <<lock, tablevars, obj_entries, pc_cap, pc, added, id_base>>

\* The caller has used the answer.
end_lookup(r) ==
    /\ reader[r].at = "answered"
    /\ reader' = [reader EXCEPT ![r] = [@ EXCEPT !.at = "idle", !.id = 0,
                      !.tables = 0, !.entry = Null, !.must = FALSE]]
    /\ UNCHANGED <<lock, tablevars, obj_entries, pc_cap, pc, added, id_base>>

Lookup(r) == \/ \E id \in Ids : begin_lookup(r, id)
             \/ read_total(r) \/ read_tables(r) \/ read_entry(r) \/ end_lookup(r)

-----------------------------------------------------------------------------
Init ==
    /\ lock = 0
    /\ fed_tables = [num_tables |-> 0, capacity |-> 0, num_total_entries |-> 0,
                     tables |-> 0]
    /\ arrays = <<>> /\ stores = <<>> /\ obj_entries = <<>> /\ pc_cap = 0
    /\ pc = [u \in Units |-> "start"] /\ added = [u \in Units |-> 0]
    /\ id_base = [u \in Units |-> -1]
    /\ reader = [r \in Readers |-> [at |-> "idle", id |-> 0, tables |-> 0,
                                    entry |-> Null, must |-> FALSE]]

Next == (\E u \in Units : Load(u)) \/ (\E r \in Readers : Lookup(r))

\* A thread that loads a unit is scheduled as long as it can take a step.
Fairness == \A u \in Units : WF_vars(Load(u))

Spec == Init /\ [][Next]_vars /\ Fairness

-----------------------------------------------------------------------------
\* A lookup that is answered while units are being added, and the index array
\* replaced, between its reads gives the entry the id's unit registered, and
\* never says NULL for an id that its unit was already given.
LookupsFindEntry ==
    \A r \in Readers : reader[r].at = "answered" =>
        LET e == reader[r].entry IN
        /\ e # Garbage
        /\ reader[r].must => e # Null
        /\ e # Null => \A u \in Units :
              reader[r].id \in Owned(u) => e = [unit |-> u,
                                                local |-> reader[r].id - id_base[u]]

\* Global ids are handed out without gaps or overlaps: a unit's local id i is
\* global id id_base + i in the FED tables, in the object table and within
\* the tool's PC table, which are kept by different code under one lock.
TablesAgree ==
    \A u \in Units : \A id \in Owned(u) :
        LET e == [unit |-> u, local |-> id - id_base[u]] IN
        /\ EntryAt(CurrentArray, id) = e
        /\ pc[u] \in {"tool", "release", "done"} => obj_entries[id + 1] = e
        /\ pc[u] = "done" => id < pc_cap

\* Every unit is initialised, whatever other units contend for the lock.
UnitsInitialised == \A u \in Units : <>(pc[u] = "done")
=============================================================================
