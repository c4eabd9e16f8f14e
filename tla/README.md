# Cilktools, specified in TLA+

The repository holds the productivity tools of OpenCilk. Its centre is
**Cilksan**, a determinacy-race detector: the compiler instruments a Cilk
program with CSI hooks, the program runs serially, and Cilksan keeps, beside
the program's stack, a stack of shadow frames from which it can tell whether an
earlier memory access is logically parallel to the running strand. The other
tools (Cilkscale, Cilkiaf) and the CSI runtime are much smaller.

This directory models Cilksan, checks it with TLC and proves with TLAPS, for
every value of the constants, what the engine, the detector, the hook driver,
the disjoint sets, the lock sets, the call stacks and the tables promise.
Cilksan is called by a serial program and has no threads, timers or retries of
its own, so nearly everything here is a safety property. The one place with
concurrency is the registration of units (`csanrt.cpp`), where constructors and
look-ups may run in several threads under a spin lock; the liveness property and
the only fairness assumption are there.

## Inventory

| part | state | operations | how it is reached |
|---|---|---|---|
| SP-bags engine (`cilksan.cpp`, `frame_data.h`, `spbag.h`, `stack.h`) | `frame_stack` of `FrameData_t`, each with an S-bag, an array of P-bags (one per sync region), an Iter-bag for loop frames, `InContin`, `ParentContin` | `do_enter`/`do_leave`, `do_detach`, `do_enter_helper`, `return_from_detach`, `do_detach_continue`, `do_sync`, `do_loop_*` | CSI hooks of `driver.cpp` |
| disjoint sets (`disjointset.h`) | parent-or-bag pointer, rank and reference count of each node; slabs of nodes | `combine`, `find_set`, `inc_ref_count`, `dec_ref_count` | bags and shadow memory hold references |
| shadow memory (`simple_shadow_mem.h`, `dictionary.h`) | dictionaries Reads, Writes, Allocs: pages of lines of `MemoryAccess_t`; occupancy bits; lockers | `check_race`, `update`, `check_read_fast`, `check_write_fast`, `clear`, `setOccupied` | `do_read`, `do_write`, allocation hooks |
| hook driver (`driver.cpp`, `cilksan_internal.h`, `checking.h`) | `parallel_execution`, `spbags_frame_skipped`, MAAP stack, `checking_disabled`, stack pointers | one function for each CSI hook | the instrumented program |
| locks (`locksets.h`, `locking.cpp`) | the locks held; lists of lockers for each location | acquire, release, intersect | lock hooks, data-race path |
| reducers (`reducers.cpp`, `hypertable.h`) | a hash table of views for each frame | register, unregister, lookup, merge on sync and return | reducer hooks, `do_sync`, task exit |
| call stacks and reports (`race_info.h`, `print_addr.cpp`) | reference-counted call stacks, recorded races | push, pop, copy, print | every frame and every report |
| allocators (`shadow_mem_allocator.h`, `disjointset.h`) | slabs on a free and a full list, bit map of each slab | get, return | shadow memory, disjoint sets |
| FED and object tables (`csanrt.cpp`, `csi/csirt.c`) | tables of program locations for each unit | register, look up | unit constructors, reports |
| Cilkscale (`cilkscale/`) | shadow stack of work and span, timers | one update for each hook | CSI hooks, user probes |
| library hooks (`libhooks.cpp`, `hook_format.inc`, MAAP functions of `driver.cpp`) | stacks `MAAPs` and `MAAP_counts`, `checking_disabled` | one hook for each library function, format interpreters, `set_MAAP`, `get_MAAP`, `before_call`, `after_call` | the instrumented program, around every call |
| Cilkiaf (`cilkiaf/`), scripts (`Cilkscale_vis/`) | counters; none | hooks; plotting | |

The behaviours that are hard here are not races in the tool but **sequences**:
the right bag after any interleaving of spawns, calls, syncs, loop iterations
and unwinds; state keyed to a strand or an iteration that outlives it
(occupancy bits, 16-bit versions, recorded nodes, recycled call-stack nodes);
several stacks that must be pushed and popped in step by hooks with early
returns; ownership of bags and nodes that shadow memory points at; and the
boundaries of small tables. They are the `hazards` of `PROJECT.json`, each at
its line.

## Modules

| module | models | uses |
|---|---|---|
| `SPBags` | the SP-bags engine and the query `previousAccessInParallel` | |
| `SPBagsProofs` | proofs: types, live bags, continuations; the bags say what the invocation tree says | `SPBags` |
| `RaceDetector` | shadow memory and the race checks on top of the engine | `SPBags` |
| `RaceDetectorProofs` | proofs: reports are races and races are reported | `RaceDetector`, `SPBagsProofs` |
| `Partition` | what the disjoint sets promise: every access in one live bag, bags merge | |
| `DisjointSet` | nodes, union by rank, path compression, reference counts; implements `Partition` | `Partition` |
| `ViewMap` | what a table of reducer views promises: a partial map | |
| `HyperTable` | the hash table of views; implements `ViewMap` | `ViewMap` |
| `Reducers` | reducer views on the frame stack: registration, look-up, reducing | `SPBags` |
| `ReducersProofs` | proofs: views are placed once, new frames find none, updates stay in serial order | `Reducers`, `SPBagsProofs`, `Recursion` |
| `Driver` | the CSI hooks: parallel execution, skipped frames, call stack, over the engine | `SPBags` |
| `DriverProofs` | proofs: the stacks keep in step, what is not looked at is serial | `Driver`, `SPBagsProofs` |
| `LockSets` | `LockSet_t`: insert, remove, intersect on sorted arrays | |
| `Locks` | lock ids, locks held, locker lists and the data-race check | `LockSets` |
| `LocksProofs` | proofs: lock sets, intersection, reports | `Locks`, `Recursion` |
| `CallStack` | what a call stack promises: a stack, and copies that persist | |
| `RaceReports` | shared reference-counted call stacks, the common context, the races found; implements `CallStack` | `CallStack` |
| `HookTables` | what each library hook pops and checks | |
| `FormatHooks` | the format interpreters of printf and scanf | `HookTables` |
| `LibHooks` | calls, MAAPs, hooks and callbacks | `FormatHooks` |
| `ReportsAndHooksProofs` | proofs: counts, common context, distinct races, the refinement of `CallStack`; MAAP stacks, answers of `get_MAAP`, what hooks check | `RaceReports`, `LibHooks`, `Recursion` |
| `FedTables` | FED, object and PC tables, loader threads and look-ups | |
| `StructuresProofs` | proofs: counts, roots, ranks, the refinement of `Partition`; load, order and the refinement of `ViewMap`; look-ups find the entry, the tables agree | `DisjointSet`, `HyperTable`, `FedTables`, `Recursion` |
| `Recursion` | lemmas: induction and recursion on bounded measures, stated for functions | |
| `MC...` | the TLC instances of the modules they are named after; `MCStructures` of `DisjointSet` and `HyperTable` | |

### SPBags

A state is the frame stack, the partition of disjoint-set nodes into bags, and
what the program must do next.

* `frames[i]` is the `FrameData_t` in slot `i` of `frame_stack`, `depth` its
  size. Stack slots are reused without being freed, so a slot above `depth`
  holds what `reset` and the bag setters left in it.
* `bagOf[d]` is the bag that `find_set` reaches from node `d`. A bag is named by
  kind, slot and region. `NoBag` is a bag that was deleted although the node
  still pointed at it: this is what a dangling pointer looks like.
* `pc` and `sync_reg` restrict the hooks to the sequences a compiled program
  produces: a task exit is followed by its continuation or its unwind, a loop
  hook by iterations.
* `tree`, `joined`, `strands` are history: the invocation tree, which tasks and
  loops have been synced, and the accesses made. Nothing reads them but the
  properties (and `tree[..].reg`, the sync region the compiler passes again to
  `__csan_task_exit` and `__csan_after_loop`).

Each action is one hook with everything it calls: `do_enter`,
`leave_cilk_function`, `do_task`, `return_from_detach`, `do_detach_continue`,
`do_detach_unwind`, `do_sync`, `do_loop_begin`, `do_loop_iteration_first`,
`do_loop_iteration_begin`, `do_loop_iteration_end`, `do_loop_end`,
`record_access`.

Abstractions: a function without spawns that the driver skips
(`spbags_frame_skipped`) is a stuttering step; a loop with no iteration is not
generated; an access is recorded under the node its bag was created with, where
the code takes `get_ds()`, the root of that node's set, which is in the same
set and so answers every query alike; call stacks, reducers and statistics are
left out.

The truth the engine is compared with is `LogicallyParallel`, read off the
invocation tree: find the youngest running frame common to the access and the
strand; the access is parallel iff below that frame it is in a task or loop that
has not been synced, or in another iteration of that frame's loop.

### RaceDetector

Adds, for every location (one byte), the reader and the writer that the
dictionaries hold, and the occupancy bits. `do_read_slow` and `do_write_slow`
are `check_races_and_update`, which returns early on set occupancy bits;
`check_read_fast` and `check_write_fast` are the path of small aligned accesses,
which does not touch occupancy; `record_alloc` is an allocation hook. The hooks
of the engine are composed with `clearOccupied` where the code starts a new
strand. The history `real` collects the determinacy races of the execution and
`races` the ones reported.

### DisjointSet and Partition

`SPBags` treats the bags as a partition of nodes. `DisjointSet` is how the code
keeps that partition: `heap` holds parent or bag, rank and reference count of
each `DisjointSet_t`, `dsOf` the `_ds` of each bag, `entry` the node that each
shadow-memory entry holds. The actions are the operations the rest of Cilksan
performs: `create_sbag` (`createNewSBag`), `create_pbag`, `merge` (combine a bag
and delete the other one, as every merge of the engine does), `delete_bag` (a
bag not marked used; that it holds no access is `NoDanglingBag` of `SPBags`),
`set`, `copy`, `invalidate` (`MemoryAccess_t`) and the query `get_sbag_or_null`,
which compresses paths. Deleting a node releases its parent, and so on upwards;
compression frees nodes that it passes over.

`Partition` says the same with a set of live bags and a map from entries to
bags. `ImplementsPartition` maps each entry to the bag of its node's root, so a
query must be a stuttering step and a merge must move exactly the accesses of
the merged bag, whichever node becomes the root. `RefCountsExact` says that the
reference count of a node is the number of children, bags and entries that
point at it: neither a leak nor a free too early.

Abstractions: the slabs from which nodes come are reduced to taking the lowest
free node, call stacks stored in the nodes are left out, and `MaxRank` bounds
the rank, which a long-lived set would raise without limit as nodes are reused.

### HyperTable and ViewMap

`table` is a `hyper_table`: capacity, occupancy, `ins_rm_count` and the bucket
array. `insert`, `remove` and `clear` are the three operations, each with the
rebuilding it causes; `find` is an operator. The probe loops are written as the
least offset at which the loop stops (`StopsFind`, `StopsInsert`), which is what
a loop with `continue` and `break` computes. `continue_probe` keeps the unsigned
wrap-around that the code relies on, modulo `IndexMod`: 2^16 in the runs, where
the code has 2^32, since TLC's own integers are 32 bits wide; indices are below
16 in both; the bound in `insert` keeps every index below `IndexMod`.
`ImplementsMap` shows through `find` that the table is a map; `LoadBounded` is
why the insertions that `rebuild` makes never rebuild again, which the model
assumes and the code asserts.

The table stays in order as long as the program inserts into no hash table
without an empty bucket (`HasRoom`). The code does not see to that: `FillTables`
is TRUE for the programs that do it, and `hyper_table_full` shows what happens to
them. With `FillTables = FALSE` the last empty bucket may still be filled, and
keys found and removed in the full table.

Keys are numbers whose hashes the instance chooses: hashing itself only has to
be a function.

### Reducers

Adds to the engine the `reducer_views` of every slot of the frame stack, with
each table taken as the map that `HyperTable` implements, the allocated views
and their values. `register`, `unregister` and `hyper_lookup` are the hooks on
reducers; `reduce_local_views` is part of `do_detach_continue`, `do_sync` and
`do_loop_iteration_end`, where it either merges the table into that of the
nearest ancestor in a continuation or reduces every view into its leftmost one.
Updates are numbered and `reduce_fn` is concatenation, the reduction that shows
every mistake of order, so `SerialOrder` can ask that the views, read from left
to right, spell out the serial execution at *every* moment, not only after the
last sync.

Where the code removes buckets through `buckets[keysToRemove[i]]` with an
address for an index, each round removes any one key of the table or none: what
lies out of the array's bounds is not known.

Abstractions: a look-up and the update made through its result are one action;
`reduce_fn`, run with checking disabled, calls no hook; freeing a view does not
touch the shadow memory (`mark_free`); the unwind path of a spawn is left out; a
parallel loop is followed at once by its sync, as the compiler emits it; a
reducer dies before the frame or the iteration that declares it, and after the
tasks started since have been synced. `RegisterInContinuation` is the class of
programs: whether a frame may declare a reducer while one of its own spawns is
open. The passing runs exclude it, the findings show why; with it
`ParallelStrandsHaveOwnViews` is violated too, because the leftmost view is put
in the table where a strand of the continuation and a task spawned by it find
the same view.

### Driver

Composes the engine with what `driver.cpp` keeps beside it: `parallel_execution`
(two entries for each function, task and loop: the state at entry below the
current one), `spbags_frame_skipped` and the call stack. A function that cannot
spawn and is entered while `is_local_synced()` gets no frame; its accesses are
recorded under the frame of its caller. Each action is one hook and calls the
action of `SPBags` that the hook calls. `prog` is the program: a stack of
activations and open sites, which restricts the hooks to well-formed sequences.
`unseen` collects the accesses that were not recorded because
`is_execution_parallel()` was false: `UnseenStaySerial` says that none of them
could ever have raced, `SerialHasNoParallel` that no recorded access is parallel
to code that is not looked at. They are judged by `LogicallyParallel`, from the
invocation tree.

Program class: `SyncAfterLoop` says that a loop's sync is the next hook after
`__csan_after_loop`, as the compiler emits it. With `FALSE`, code between the
two is regarded as serial and `SerialHasNoParallel` is violated. The unwind of
a loop body's task, stack switching and the allocation functions are left out; a
load or store is one action.

### LockSets and Locks

`LockSets` translates `locksets.h`: lock sets are sorted sequences, `intersect`
is the merge of two of them, with its early stops. `Locks` takes the SP-bags
engine by its answer: strands are numbered in the order they run and are
parallel when a second order reverses them. Up to three strands every second
order belongs to a fork-join program; above that some do not, and what is proved
of every order holds of those that do. It models how a mutex gets its id
(`locking.cpp`), which locks the tool believes are held, the two paths of an
access (`do_locked_read/write` and `do_read/write`), the locker lists of a
location and their pruning. `held` is the truth about locks, `real` about races.

`PlainRacesReported` asks that locked accesses never hide a race in which the
later access holds no lock, or on a location not accessed under locks before.
`IntersectOneSided` is the part of `intersect` that holds for the lockers of an
execution: it reports a lock in common exactly when there is one, and an
inclusion whenever there is one and no early stop.

Program class: a critical section lies within one strand, atomics are not
nested in atomic sections, and with `RelocksInStrand = FALSE` a strand does not
access a location again under other locks. With `TRUE` the occupancy bits skip
the second access and `PlainRacesReported` is violated. Only `mtx_timedlock` of a
mutex that has no id differs from the other lock functions; it is excluded.

### CallStack and RaceReports

The call stack of the running code is a list of nodes; shadow memory keeps
copies by pointing at its tail. `nodes` and `free_list` are the nodes with their
counts and the LIFO list of freed ones, so an address is used again at once.
`push`, `pop`, `copy` and `destroy` are the operations, the last two with the
cascade of frees. `CallStack` is the promise: a stack, and copies that stay what
they were. `get_call_stack_divergence_pt` compares node *addresses* from the
outermost frame on: `CommonContextIsShared` says that this is comparison of
activations, which needs that a copied node is never recycled. `report_race`
files a race under a key and looks for an equivalent one under that key only;
`DistinctRaces` says that no equivalent race is ever filed under another.

### HookTables, FormatHooks and LibHooks

The compiler tells a hook, for each pointer argument, whether another task may
modify or read what it points at (its MAAP). The caller pushes one value for
each pointer argument; the callee, or the hook of a library function, pops them.
`HookTables` has a row for each of the 368 hooks of `libhooks.cpp`: the values
it pops into variables, whether it drops the rest, when it checks, and which
arguments it checks under which value. Lengths are abstracted: a check is known
by the argument it starts at, and checks of one argument by different branches
for different lengths are one check. Functions whose hook returns at once are
rows too. `FormatHooks` interprets formats by directive, as `vprintf_common` and
`vscanf_common` do; what the parsers make of a format's characters is the
directive. `LibHooks` runs calls of instrumented functions, callbacks from code
that is not instrumented, units compiled without MAAPs, scopes with checking
off, and any library call of the table. `Arg` lists the pointer parameters of an
instrumented function. Comparators, which `qsort` calls, have two of them, so they
ask `get_MAAP` for the first two only; with a third the answer could be a value
left for another parameter. The variable arguments of a call have names that are not those of
the hook's own arguments.

`MAAPsBalanced` is the stack discipline: whatever path hooks take, the two
stacks hold exactly the values of the calls in progress. `ChecksUseOwnMAAP` asks
that no check is filtered by the value of something else, `VarArgsChecked` that
after a scanf or printf the variable arguments checked are those the C library
touched, as far as the conversions are ones both interpreters support.

### FedTables

A unit is added by a thread that takes `lock`, appends its entries to fixed-size
tables (in an index that is replaced by one of twice the capacity when full),
gets the base of its ids, adds its object table and grows the tool's PC table. A
look-up (`get_fed_entry`) holds no lock: it reads the total, then the address of
the index, then the entry, and another thread may take any number of steps in
between. Old indices are kept, so a stale index must still lead to the entry.

Fairness: `WF_vars(Load(u))` for each unit, a thread that can take a step takes
one in the end. Weak fairness is enough for the spin lock because there are
finitely many units and each takes the lock once, so it becomes free for good.
`initialize_fed_tables` runs under the lock; `__csan_init`, which runs before it
without, is not modelled. No object look-up happens while a unit is added, since
the old object table is deleted at once.

## Runs

| run | instance | shows |
|---|---|---|
| `spbags` | 4 frames, 2 sync regions, loops of 3 iterations, versions modulo 2 | the query is exactly `LogicallyParallel`, across loop iterations and version wrap |
| `detector` | 3 frames with loops of 3 iterations, 4 with one call and no loop, 1 location, 3 accesses, versions modulo 2 | reports are races and races are reported, in tasks and in loops; the entry kept answers for every access made |
| `structures` | 4 nodes, 3 S-bags, 1 P-bag, 2 entries, ranks to 2; or a table with capacities from 2, load factor 1/2, rebuilt after 8 operations, 4 keys with wrapping hashes, 2 views, never filled | any order of operations on the sets implements `Partition`, with exact counts; the table is a map across growth from array to hash table and back, tombstones, graveyard, overload |
| `reducers` | 4 frames, 2 sync regions, loops of 2 iterations, 1 reducer, 3 updates | updates keep their serial order; parallel strands have views of their own |
| `libhooks` | all hooks but two, 2 functions (one of a unit without MAAPs), nesting to 4, formats of 2 directives | hooks and calls keep the MAAP stacks, checks use the right values |
| `race_reports` | 4 nodes, 1 call site, 2 copies, 5 activations, 2 reports | call stacks persist, the common context is real, races are distinct |
| `driver` | 4 frames, nesting to 7, loops of 2 iterations, 2 sync regions | the driver's stacks keep in step and nothing parallel goes unchecked |
| `locks` | 3 strands in every order, 2 mutexes, fake mutexes and atomics, 3 accesses | lock sets are exact, reports are data races, plain races are reported |
| `fed_tables` | 3 units of 3, 2 and 4 entries, 2 to a table, index of 1, one reader | look-ups are right at every interleaving; every unit is initialised |
| `locked_races_missed` | as `locks` | **violated**: see findings |
| `reducers_dangling` | 2 reducers, declared in continuations | **violated**: see findings |
| `hyper_table_full` | the table of `structures` with the load factor of the code, 15/16 | **violated**: see findings |

Every type invariant is a conjunct of the run's invariant that most depends on
it, or stands by itself where the types are the claim (`TypeOK`: the version
stays within its width; `DriverTypeOK`: the stacks are as long as the nesting).

Bounds. Four frames reach every relation the code distinguishes: two siblings
under a parent under the root, a chain of calls below a task, a loop in a loop.
Two regions make a sync of one of them with the other outstanding. `VersionMod`
is 2 instead of 2^16, so that three iterations wrap it; the code does not depend
on the width. `MaxDS` is large enough for three iterations of a loop below a task, and
bounds the number of fresh nodes in nested loops.
`MaxAccesses` is 3 because a lost race needs a kept entry, a replaced one and
the access that should have met the first. In the detector run the constraint
`SmallPrograms` admits any three frames, and four of which one at most is a call
and none a loop: a race between two tasks needs a third for the entry they
replace. All programs of four frames would take too long. The detector, driver, locks and report runs do not
check deadlock: the program under test ends when the bounds are used up.

Four nodes with ranks to 2 give paths of length two, the shortest that
compression changes, and let nodes be freed and used again while others still
point at them; merging stops where a rank would pass `MaxRank` and creation
where all nodes are alive, so `structures` does not check deadlock (a table never
stops). Its two structures share no state, so each behaviour exercises one, chosen
at the start; the run is the union of the two state spaces and not their product.
Four keys are more than the linear array of two holds, and their hashes
put runs across the end of a buffer of four and of eight. With the constants of
the code, graveyard tombstones (one in 33) and the load threshold (15/16) need
tables far larger than TLC could enumerate, so the capacities and the load factor
are scaled down together. The count that forces a rebuild is the code's 8: with a
smaller one tombstones never pile up.

Three views and three updates put one update in the leftmost view, one in the
view of a continuation and one in the view of a continuation below it, so both
ways of reducing happen in one behaviour. The reducer runs do not check
deadlock, for the reason the detector runs do not. In `structures` S-bags, entries
and views are symmetric; `Partition` and `ViewMap` treat them alike and have no
fairness part.

In `libhooks`, four hooks with early returns and callbacks (`DeepCalls`) occur
at every depth and the others at the first two, since a hook touches nothing but
the values of its own call, above which there is nothing. Two directives are
the shortest format in which one can take the value of the other. In
`race_reports` one call site repeated is recursion, where comparing call sites
instead of nodes is wrong; five activations over four nodes recycle one while
two copies hold others. `MaxNest` is 7: a task below a loop body below a task
below main. Three strands are a parallel pair with a third that is in series
with either, which is what pruning of lockers can get wrong. In `fed_tables`
nine entries fill five tables, so the index grows three times under one look-up.

## Findings and known disagreements

Three runs exhibit a fault (quoted in `PROJECT.json`):

1. `LockSet_t::intersect` stops when one array is used up and forgets what is
   left of the other. For two sets with no lock in common, such as `{1}` and
   `{2}`, it returns `L_SUPERSET_OF_R` or `L_SUBSET_OF_R` instead of `EMPTY`,
   and `dataRaceWithPreviousAccesses` compares with `EMPTY`: parallel accesses
   under different locks, or one atomic and one under a mutex, are not reported.
2. `reduce_local_views` frees views and then fails to remove them from a table
   that is kept because it also holds a leftmost view: the keys to remove are
   addresses cut to 32 bits and used as indices. A later look-up returns freed
   memory.
3. `insert` puts a bucket in its place and shifts the buckets from there on, up to
   the first that is not valid. `is_overloaded` lets a table of 8 hold 8 buckets and
   tombstones together, none of them empty, and the run to be shifted can then go
   all the way round: a bucket that is `capacity - 1` steps from its home is moved
   onto its home, in front of buckets that hash before it. The table is no longer
   in order, `find` stops too early and returns null for a key that is stored, and
   the next insertion of that key stores it twice, against the assertion
   "Mismatched occupancy after resizing table". `hypertable.h` by itself, driven
   through the corresponding calls, does the same.

Others are excluded from the passing runs by a constant or a named exception,
and can be seen by changing it:

* `check_parallel_iter` looks at the head frame only. A function called from a
  loop body gets a frame of its own, and from there accesses made by the body in
  *other* iterations look serial. `NoMissedParallelism` excepts this case
  (`HiddenByCallee`); `ParallelismDecided`, without it, is violated in `MCSPBags`
  (`frame_data.h:245`).
* The loop frame keeps what earlier iterations spawned in its P-bag 0. If the
  body of a later iteration syncs region 0, all of it becomes serial:
  `NoMissedParallelism` is violated with `LoopBodySpawns = TRUE`
  (`cilksan.cpp:377`). `NoFalseParallelism`, `NoDanglingBag` and
  `OnlySyncSerialises` hold there.
* `clear_shadow_memory` leaves occupancy bits set, so the first access to memory
  that is freed and allocated again within one strand is skipped:
  `SkippedIsRedundant` is violated with `ReuseInStrand = TRUE` (`cilksan.cpp:906`).
* A reducer registered in a continuation puts its leftmost view in the frame's
  table. The sync keeps such a table, `unregister` after the sync looks for no
  table, and `reset` leaves it in the slot for the next frame:
  `FreshFrameHasNoViews` is violated with `RegisterInContinuation = TRUE`
  (`frame_data.h:178`).
* An access of a strand under fewer locks than an earlier one is skipped:
  `PlainRacesReported` is violated with `RelocksInStrand = TRUE`
  (`cilksan.cpp:785`).
* Code between `__csan_after_loop` and the loop's sync counts as serial:
  `SerialHasNoParallel` is violated with `SyncAfterLoop = FALSE` (`driver.cpp:397`).
* The hook of `fputs` leaves the value of its stream on the stack
  (`libhooks.cpp:1979`), and that of `sscanf` runs the printf interpreter
  (`libhooks.cpp:3742`): both are left out of `MCLibCalls`; with them
  `MAAPsBalanced` and `VarArgsChecked` are violated. A null `%s` leaves its value
  to the next argument (`hook_format.inc:568`, excepted as `NullString`).

Seen while modelling, without a property: `register` and `unregister` are meant
to count as a read of the leftmost view (`reducers.cpp:29`), but pass `Ref` to
`check_read_bytes`, which checks only for `Mod` (`driver.h:129`), so they record
nothing, and the model does the same; the base test of `strtol` is inverted
(`libhooks.cpp:4591`); `strxfrm` checks a write of its source
(`libhooks.cpp:4816`); `csi/csirt.c:196` copies a full index onto itself and
leaves the new one empty, where `csanrt.cpp:209` copies it into the new one.

## Proofs

TLC checks each property on a small instance; the theorems hold for all values
of the constants that satisfy the assumptions of the modules. Beyond the ranges
of numbers, those assumptions are that sets of bags, entries, nodes and copies
are finite, as memory is, and that names of functions and arguments do not
clash (`LibHooks`). Nothing else is assumed, except the program class where a
theorem names one.

### SPBagsProofs

* `TypeCorrect`: `Spec => []TypeOK`;
* `ContinuationFound`: `Spec => []ParentContinIsNearest`;
* `NoAccessDangles`: `Spec => []NoDanglingBag`;
* `SyncSerialises`: `Spec => OnlySyncSerialises`.

The first part's inductive invariant is `TypeOK /\ Shape /\ BagsInPlace /\
NoDanglingBag` (with `ParentContinIsNearest` beside it). `Shape` says how frames
and the program counter fit together: the first frame is no function's, a
loop's frame is on top between iterations, and the nodes of every running frame
have been made. `BagsInPlace` says that a node made for a frame's S-bag or
Iter-bag is still in it, and that no node is in a bag of a slot above `depth`;
without it `NoDanglingBag` is not inductive, because a new access is recorded
under the frame's node and must be found in the frame's bag. Each invariant has
one step per action.

The second part is about the query:

* `ParallelismIsReal`: `Spec => []NoFalseParallelism`, for every program;
* `ParallelismIsSeen`: `Spec => []NoMissedParallelism`, when loop bodies do not
  spawn (with `LoopBodySpawns` it is false, see the findings).

Two invariants tie the stack to the history: `InTree` (the frames on the stack
are a path of the invocation tree, and the paths of all frames agree with each
other) and `LoopsApart` (where loop bodies do not spawn, no task or loop starts
in a loop frame). A third, `Placed`, is about one access: the slot that owns its
bag is the youngest running frame common to the access and the strand, and the
kind of the bag tells where the access is: a P-bag, below a task or loop that its
region has not synced or in an earlier iteration; the Iter-bag, in the loop body
itself, its version being as far behind as its iteration; the S-bag, nothing
outstanding. The step lemmas are grouped by what a hook does
to the stack: a push, a pop, a change of the head, a new iteration, a mark.
Because `Placed` speaks of one access, the entries of shadow memory can be
carried through the same lemmas.

### RaceDetectorProofs

* `ShadowNeverDangles`: `DetectorSpec => []ShadowIsLive`;
* `NoFalseReports`: `DetectorSpec => []ReportsAreRaces`;
* `RacyLocationsReported`: `DetectorSpec => []RacesAreReported` in programs whose
  loop bodies neither spawn nor call, whose frames have one sync region and
  which do not reuse a location within a strand;
* `EntriesStand`: `DetectorSpec => []EntriesStandForAll` in the same programs.

`EngineOK` collects the engine's invariants, `ShadowOK` says that each valid
entry is tracked as an access of `SPBags` would be, and `EntriesRecorded` that it
stands for an access that was made. For completeness the invariant is
`CoverOK`: the one reader and the one writer that are kept `Cover` every earlier
access, that is, they are parallel to every strand, now or later, that one of
those is parallel to; an occupancy bit stands for an access that was checked and
whose entry covers the running strand. `Cover` is stated for the stack as it is,
so that each push, pop, sync and iteration can be shown to keep it.

`EntriesStandForAll` says what the pair of entries is for, at every moment and
not only when an access is checked: the reader (the writer) that is kept races
with the running strand just when some read (some write) made to the object, of
all that ever were, is parallel to it. One direction is `EntriesRecorded` with
the exactness of the engine's answer, the other is `Cover`.

One region per frame is needed. With two, let a task spawned in region 0 read a
location and then one spawned in region 1 read it: the reader kept is the first,
which is parallel to the second. A sync of region 0 makes the first serial, and a write
that follows races with the second reader unseen: TLC shows it with
`MaxRegs = 2` and three tasks. When regions overlap, being parallel is no longer
transitive in the way that keeping one reader relies on. The model lets a
program overlap its regions freely; regions that nest are a class between the
two for which nothing is proved. The other three conditions are the
disagreements listed above.

### DriverProofs

* `DriverDrivesEngine`: `DriverSpec => Spec` of `SPBags`, so all that is proved
  of the engine holds under the driver;
* `DriverTypeCorrect`: `DriverSpec => []DriverTypeOK`;
* `ActivationsKeepFrames`: `DriverSpec => []RunsOnItsFrame`;
* `SerialIsSerial`: `DriverSpec => []SerialHasNoParallel` in programs that sync
  after their loops (`SyncAfterLoop`);
* `UnseenNeverParallel`: `DriverSpec => []UnseenStaySerial`, for every program.

The driver keeps three stacks beside the frame stack, and none of them says
which of its entries belongs to which frame. The invariant reads that off the
program: `CountTo` counts how many of its first entries push a given stack.
`Standing` places every entry of the program on a slot of the frame stack, one
slot above the entry below it exactly when it pushed a frame, `Aligned` finds its
state in `parallel_execution` (states are inherited from below, and parallel in
and under a spawn), and `Recorded` its site on the call stack. Every hook either
enters or leaves one entry, or, at a sync, takes one activation back to the state
it was entered in (`StatesStep`).

An entry whose state is 0 makes the slot it runs on `Serial`. `Inherits` says
where serial slots can come from: below, or a function just entered or synced
whose frame has no P-bag. Hence `SerialTypes` (below serial code there are only
frames of functions) and, if a loop's sync comes next, `SerialQuiet` (none of
these frames has a P-bag: a spawn makes the frame's state parallel until a sync
finds no P-bag left). `Owed` closes the argument from the side of the tree: a
task or loop that has ended and was not synced is behind a P-bag of its parent.
So an access parallel to serial code would need a P-bag that is not there. The
accesses that were not recorded are under calls alone (`UnseenSerial`), a fact
about the tree that no later step can change; this holds for every program.

### StructuresProofs

Of `DisjointSet`:

* `CountsExact`, `BagsHoldRoots`, `PathsEnd`: `[]RefCountsExact`, `[]BagHoldsRoot`,
  `[]RanksIncrease`;
* `NodesImplementPartition`: `SetSpec => ImplementsPartition`.

Every operation is a function of the heap, so the lemmas are about any heap that
is `Good`: `Forest` (ranks grow towards the root), `Exact` (a count is children
plus pointers from outside) and `Tidy` (a deleted node has no parent left). The
operators that follow parents or release them in cascade are recursive
functions; that each has a value on a good heap, and what the value is, follows
from `Recursion` with the distance in rank as the measure. `SameSets` says that
compression, linking and deletion keep the set and bag of every surviving node;
`BagsMatch` that bags and roots name each other. `SetInv` is the conjunction.

Of `HyperTable`:

* `LoadIsBounded`: `TableSpec => []LoadBounded`, for every program;
* `OccupancyIsCounted`, `BucketsAreFound`: `[]OccupancyCounts`, `[]FindsEveryBucket`,
  and `TableImplementsMap`: `TableSpec => ImplementsMap`, for programs that insert
  into no hash table without an empty bucket (`~FillTables`).

Keys, hashes, capacities and the load factor (2 at least) are arbitrary. Indices
round the buffer are handled by two operators without division: `Off` is the
number of steps from one index to another, `Fwd` the index so many steps on, and
`ContinueIsNearer` says that the unsigned comparison of `continue_probe` compares two
values of `Off`, as long as indices fit `index_t`.

`Counted` is invariant for every program: capacities are `MIN_CAPACITY` doubled,
buckets know their homes, `occupancy` counts them and the load is bounded.
`Probed` needs the hypothesis: keys are stored once and `Ordered`, every bucket
that a probe meets before it reaches a key lets that probe pass, which is all
that `find` relies on. A place an insertion chooses is `Placed`; `ShiftKeepsOrder`
says that shifting from there keeps the order, and uses that some bucket is
empty, so that no shifted bucket goes past its home. It was
the attempt to prove this step without an empty bucket that showed the third
finding.

A rebuild inserts into a new array, so it has to be shown that it has room without
a hypothesis: its tombstones are at most one in `Gap` (`CreatedIs`), insertions
never make more of them (`Waste`), and with the buckets still to come under the
threshold one bucket stays empty. `Rebuilt` is the invariant of the copying loop, a
recursive function of the place in the old array, and says that what has been
copied is what is stored.

Of `FedTables`:

* `LookupsRight`: `Spec => []LookupsFindEntry`;
* `TablesInStep`: `Spec => []TablesAgree`.

`FedInv` says who holds the spin lock and how far it has come (`Exclusive`,
`Progress`), that ids lie in the tables in order, with the place of an id by
`\div` and `%` of the table size (`Layout`), that the ids of a unit hold its
entries (`Contents`), how far the object and PC tables lag behind (`Objects`,
`PcTable`), and what a look-up knows after each of its unlocked reads
(`ReaderOK`). That a step of a loader cannot spoil the last is `Kept`: entries
stay where they are, and an array that was replaced still points at the tables
it pointed at.

### ReducersProofs

For programs that register no reducer while one of the registering frame's spawns
is open (`~RegisterInContinuation`; `MCReducers_dangling` shows what happens in
the others):

* `ViewsAreExact`: `ReducersSpec => []ViewsExact`;
* `FreshFramesHaveNoViews`: `ReducersSpec => []FreshFrameHasNoViews`;
* `UpdatesInSerialOrder`: `ReducersSpec => []SerialOrder`;
* `ParallelStrandsApart`: `ReducersSpec => ParallelStrandsHaveOwnViews`.

`RInv` adds to the engine's invariants two groups of its own. `Declared` is about
registrations: a reducer belongs to a running frame, older than the frames above
it (`OwnersOK`); a bit in that frame's `InContin` is the mark of a task that was
spawned after the registration and is not synced (`Opened`), and so is the
continuation that comes next (`Continuing`); the loop bit is only ever a loop's
(`LoopBits`). `ViewsOK` says that only a frame on the stack that is in a
continuation has a table (`TablesInContin`), where the views of a reducer can be,
seen from where it was registered (`PlacedAt`), and that the allocated views are
the ones held, each once (`ViewsHeld`).

For the order, `Parts(k)` gives every slot the sequence it contributes to reducer
`k`, and `Folded` joins them from the left. `LeftToRightIs` shows that this is what the
recursive `LeftToRight` computes. Joining is associative, so changing the last
part appends (`FoldedAppend`) and moving a part onto its left neighbour, which is
what reducing does (`PartsMove`), changes nothing (`FoldedMerge`). The invariant is
that the fold is `1..updates[k]` in order (`Serial`); only an update changes it
(`SerialUpdated`).

That parallel strands have their own views rests on two more invariants. `Marks`
says that `InContin` tells the truth: a task that is outstanding under a frame, and
no longer on the stack, is marked in that frame (`OpenMarked`), except before the
`do_detach_continue` that will mark it, and so is a loop past its first iteration,
except between two of them (`IterationMarked`). Hence nothing below an unmarked frame is parallel to the
running strand (`NotParallel`). `UsersPlaced` says where in the tree the strands
are that have used a view: the users of a view in slot i's table ran under that
frame and, as long as it is their youngest common frame with the running strand,
are not parallel to it, except between a task's or loop's end and the
reduction that follows (`Ending`); the users of a leftmost view ran under the frame
that declares it, in the iteration it is in. A look-up takes the table of the
*nearest* frame in a continuation, so that all the frames above that one are
unmarked and no user of what it finds is parallel (`LookupApart`); a view moves down
only to a frame that is an ancestor of all its users (`UserMoves`).

### LocksProofs

* `LocksetExact`: `Spec => []LocksetIsHeld`;
* `NoFalseLockReports`: `Spec => []ReportsAreDataRaces`;
* `IntersectErrsOneWay`: `Spec => []IntersectOneSided`;
* `PlainRacesFound`: `Spec => []PlainRacesReported`, when a strand does not access
  a location again under other locks.

The first part is about `LockSets`: insertion, removal and the scan of
`intersect`, a recursive function of a place in each of two sorted arrays of any
length, with what has been passed of each as the invariant. `LocksOK` says that
the arrays are sorted and describe `held`. `HistoryOK` says that entries and
lockers stand for accesses that were made, and `Complete` that the entry is the
access whose strand comes last in the second order, hence parallel to the
running strand if any access of its kind is. The number of strands and the
second order are arbitrary.

### ReportsAndHooksProofs

About `RaceReports`:

* `CountsReflectPointers`: `Spec => []RefCountsReflectPointers`;
* `ContextIsShared`: `Spec => []CommonContextIsShared`;
* `RacesAreDistinct`: `Spec => []DistinctRaces`;
* `StacksPersist`: `Spec => CallStacksPersist`, the refinement of `CallStack`.

Serial numbers grow along a list (`Chained`), so lists end and what the model
computes along them is determined. `Counted` says that a node's count is the
number of its successors plus the pointers from the tail and the copies; the
lemmas on releasing a pointer show that the cascade of destructors frees exactly
the nodes it leaves unreferenced. `Free` (a freed node is on the list once) and
`Unique` (nodes alive are different activations) make comparing addresses
comparing activations although addresses are used again. `RacesInv` says that a
race is filed under its key, which is the same for equivalent races whichever
access came first.

About `LibHooks`, for programs that call neither `fputs` nor `sscanf`, the hooks
of the known disagreements (`KnownHooks`):

* `StacksBalanced`: `LibSpec => []MAAPsBalanced`;
* `AnswersAreExact`: `LibSpec => []AnswerExact`;
* `ChecksAreFilteredByTheirOwnMAAP`: `LibSpec => []ChecksUseOwnMAAP`;
* `VarArgsAreChecked`: `LibSpec => []VarArgsChecked`.

They hold for any functions, parameters, formats and depth of nesting, while the
run has formats of two directives and four nested calls. The whole table is part
of the proof: `TableSound` goes through it group by group and shows of each hook
that it pops into a variable the MAAP of the argument the variable is named for,
guards a check by the MAAP of its argument or by none, and, but for `fputs`,
pops what its call pushed.

The inductive invariant of the stacks is `StackInv`. `FramesGood` says what each
frame may pass; `DisabledGood`, that checking is turned off by frames on the
stack, in their order; `OffExact`, that a frame was entered with checking off just
if an outer one has it off, so a call and its hook see the same; `StacksExact`,
that the stacks are the concatenation of what the frames pushed. A return or a hook then takes
off the last part. An answer of `get_MAAP` also needs `NestedGood`, which says who
calls whom: at the top of the program, in a callback or in a function of a unit
without MAAPs, what lies on top (`Hides`) is not for a function that asks, and
`OuterHides` shows this by induction on the depth.

The interpreters are folds over a format. `Runs` describes one as its state after
each directive; `RunSlots` says that it has taken one MAAP for each pointer argument
so far, unless a string is null, and `RunsMake` that it has checked what the C
function has accessed so far.

Two definitions of the model were corrected by these proofs: the guards of the
cases in `printf_directive` and `scanf_directive` overlapped, which TLC resolves by
order and TLA+ does not, and the comparator of `qsort` could ask for a third
parameter.

### Recursion

Induction over data cannot be cited from the library with the provers used here,
because its theorems take an operator as a parameter. `Recursion` derives what
the proofs need in first-order form, for sets and functions: every non-empty
set of naturals has a least element, what is handed on along a measure holds
everywhere, a recursive definition whose measure decreases is a function, and a
step can be iterated from a start (`Iteration`).
The recursive operators of `DisjointSet`, `LockSets` and `RaceReports` are written
as recursive functions for that reason.

### Only model-checked

* Liveness (`UnitsInitialised` of `FedTables`, under weak fairness): out of the
  reach of these provers, as is `ENABLED`.
* The three runs that show a violation; `FindsEveryBucket`, which one of them
  violates, is proved for the programs that keep a bucket empty.

## Plan

1. (done) `SPBags`, its proofs, `RaceDetector`.
2. (done) `DisjointSet`: union by rank, path compression and reference counts,
   refining the partition that `SPBags` uses.
3. (done) `HyperTable` against an abstract map; `Reducers` on the frame stack.
4. (done) `Driver`: `parallel_execution`, skipped frames, call stack.
5. (done) `LockSets`, `Locks`: lock sets, lockers and the data-race path.
6. (done) `RaceReports` against `CallStack`; `LibHooks` with its tables;
   `FedTables` with its loader threads.
7. `ShadowLine`: lines and grain sizes, refining one access per byte.
8. Slab allocators; Cilkscale's shadow stack.
9. (done) Proofs of the engine, the detector, the driver, `DisjointSet`,
   `Locks`, `FedTables`, `RaceReports`, `Reducers`, `LibHooks` and `HyperTable`.

## Not modelled

* Printing of reports (the rest of `print_addr.cpp`) and debugging output.
* The pages, lines and grain sizes of `simple_shadow_mem.h`: a location is one
  byte with entries of its own.
* Slab and page allocators (`shadow_mem_allocator.h`): used by one thread, with
  no dependence on order; nodes are taken as allocated and freed.
* The runtime `csi/csirt.c`, which Cilksan does not link: the same tables as
  `csanrt.cpp`, single-threaded.
* Cilkscale, whose state is measured times, and Cilkiaf's counters.
* The Python scripts, and `cilksan/old`, which is not built.
* Lengths of the accesses that library hooks check, and the contents of strings.
