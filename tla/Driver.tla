------------------------------- MODULE Driver -------------------------------
(***************************************************************************)
(* The CSI hooks of driver.cpp over the SP-bags engine.  The driver keeps  *)
(* stacks of its own beside the frame stack, one entry for every program   *)
(* activation: parallel_execution says whether accesses are looked at at   *)
(* all, spbags_frame_skipped which functions run without a frame, and the  *)
(* call stack what a race report will print.  The program is the           *)
(* environment: prog is its stack of activations and pending call, spawn   *)
(* and loop sites, and every well-formed sequence of hooks is a behaviour. *)
(* Every hook runs with checking enabled; stack switches are left out.     *)
(***************************************************************************)
EXTENDS SPBags, Sequences, SequencesExt

CONSTANTS
    MaxNest,       \* bound: entries of prog
    SyncAfterLoop  \* program class: is a loop's sync the next thing it does?

ASSUME DriverAssumption == MaxNest \in Nat /\ SyncAfterLoop \in BOOLEAN

VARIABLES
    parallel_execution,    \* two entries for each activation, the top is last
    spbags_frame_skipped,  \* one entry for each function
    call_stack,            \* CALL, SPAWN and LOOP entries
    prog,                  \* the program's activations and pending sites
    unseen                 \* history: accesses that were never recorded

stacks == <<parallel_execution, spbags_frame_skipped, call_stack>>
hvars == <<vars, stacks, prog, unseen>>

\* at: a site ("call", "detach", "loop", "idetach", "loopsync") or an
\* activation ("func", "cilk", "task", "iter"); fid: history, the frame the
\* activation runs on; reg: the region a finished loop must sync.
Activations == {"func", "cilk", "task", "iter"}
Entry == [at : Activations \cup {"call", "detach", "loop", "idetach", "loopsync"},
          fid : Frames, reg : Regs]

At(at) == [at |-> at, fid |-> 0, reg |-> 0]
\* An activation entered by this step; framed: its frame was pushed by it.
Activation(at, framed) ==
    [at |-> at, fid |-> IF framed THEN frame_id + 1 ELSE head.fid, reg |-> 0]

Running == pc = "body" /\ Last(prog).at \in Activations
InSite(at) == Last(prog).at = at
Enter(e) == Len(prog) < MaxNest /\ prog' = Append(prog, e)
Leave == prog' = Front(prog)

\* is_execution_parallel(): the top of parallel_execution.
is_execution_parallel == Last(parallel_execution) = 1

\* CilkSanImpl_t::is_local_synced, asked of the head frame.
is_local_synced == head.type # "loop" /\ ~HasPbags(head)

record_call(ty) == call_stack' = Append(call_stack, ty)
record_call_return == call_stack' = Front(call_stack)

push_parallel_execution ==
    parallel_execution' =
        parallel_execution \o <<Last(parallel_execution), Last(parallel_execution)>>
pop_parallel_execution == parallel_execution' = Front(Front(parallel_execution))

(***************************************************************************)
(* Calls.                                                                  *)
(***************************************************************************)
\* __csan_before_call and __csan_after_call, around a call site.
before_call ==
    /\ Running /\ Enter(At("call"))
    /\ record_call("CALL")
    /\ UNCHANGED <<vars, parallel_execution, spbags_frame_skipped, unseen>>

after_call ==
    /\ InSite("call") /\ Len(prog) > 1 /\ Leave
    /\ record_call_return
    /\ UNCHANGED <<vars, parallel_execution, spbags_frame_skipped, unseen>>

\* A function without spawns borrows its caller's frame when the caller has
\* no task outstanding.
SkipsFrame(may_spawn) == ~may_spawn /\ is_local_synced

\* __csan_func_entry, of an instrumented callee or of main.
func_entry(may_spawn, n) ==
    /\ InSite("call")
    /\ may_spawn \/ n = 0
    /\ push_parallel_execution
    /\ spbags_frame_skipped' = Append(spbags_frame_skipped, SkipsFrame(may_spawn))
    /\ IF SkipsFrame(may_spawn) THEN pc = "body" /\ UNCHANGED vars ELSE do_enter(n)
    /\ Enter(Activation(IF may_spawn THEN "cilk" ELSE "func",
                        ~SkipsFrame(may_spawn)))
    /\ UNCHANGED <<call_stack, unseen>>

\* The decision of func_exit; mutant: the test of func_entry asked again.
LeavesIfPending == InSite("cilk") \/ ~is_local_synced
LeavesFrame == ~Last(spbags_frame_skipped)

\* __csan_func_exit.  A Cilk function ends with a sync (see SPBags).
func_exit ==
    /\ Running /\ Last(prog).at \in {"func", "cilk"}
    /\ IF LeavesFrame THEN leave_cilk_function ELSE UNCHANGED vars
    /\ spbags_frame_skipped' = Front(spbags_frame_skipped)
    /\ pop_parallel_execution
    /\ Leave
    /\ UNCHANGED <<call_stack, unseen>>

(***************************************************************************)
(* Tasks.  The program spawns from functions that may spawn, from tasks    *)
(* and, if its class allows, from loop bodies.                             *)
(***************************************************************************)
Spawning == Running /\ Last(prog).at # "func"

\* The change of peer sets that a detach notes; mutant: it does not.
PeersUnchanged == parallel_execution
PeersChanged == [parallel_execution EXCEPT ![Len(parallel_execution)] = 1]

\* __csan_detach outside a parallel loop: the parent is no longer serial.
detach ==
    /\ Spawning /\ CanPush /\ MaySpawn /\ head.num_Pbags > 0
    /\ Enter(At("detach"))
    /\ parallel_execution' = PeersChanged
    /\ record_call("SPAWN")
    /\ UNCHANGED <<vars, spbags_frame_skipped, unseen>>

\* __csan_task of a spawned task.
task(n, r) ==
    /\ InSite("detach") /\ do_task(n, r)
    /\ Enter(Activation("task", TRUE))
    /\ push_parallel_execution
    /\ UNCHANGED <<spbags_frame_skipped, call_stack, unseen>>

\* __csan_task_exit of a spawned task.
task_exit ==
    /\ InSite("task") /\ return_from_detach
    /\ Leave
    /\ pop_parallel_execution
    /\ UNCHANGED <<spbags_frame_skipped, call_stack, unseen>>

\* __csan_detach_continue, on the normal and on the unwind path.
detach_continue(is_unwind) ==
    /\ InSite("detach")
    /\ IF is_unwind THEN do_detach_unwind ELSE do_detach_continue
    /\ Leave
    /\ record_call_return
    /\ UNCHANGED <<parallel_execution, spbags_frame_skipped, unseen>>

\* What __csan_sync leaves in parallel_execution; mutant: whatever else the
\* frame has outstanding.
EntryStateRestored(synced) ==
    [parallel_execution EXCEPT
        ![Len(parallel_execution)] = parallel_execution[Len(parallel_execution) - 1]]
StateAfterSync(synced) ==
    IF synced THEN EntryStateRestored(synced) ELSE parallel_execution

\* __csan_sync, whose test is made after the region's P-bag is gone.
sync(r) ==
    /\ pc = "body" /\ do_sync(r)
    /\ \/ Spawning /\ UNCHANGED prog
       \/ InSite("loopsync") /\ r = Last(prog).reg /\ Leave
    /\ parallel_execution' =
          StateAfterSync(~is_loop_frame(depth) /\ \A q \in Regs \ {r} : ~head.Pbags[q])
    /\ UNCHANGED <<spbags_frame_skipped, call_stack, unseen>>

(***************************************************************************)
(* Parallel loops.                                                         *)
(***************************************************************************)
\* __csan_before_loop.
before_loop ==
    /\ Spawning /\ do_loop_begin
    /\ Enter(At("loop"))
    /\ record_call("LOOP")
    /\ push_parallel_execution
    /\ UNCHANGED <<spbags_frame_skipped, unseen>>

\* __csan_detach of a loop body (for_tapir_loop_body).
detach_iteration ==
    /\ InSite("loop") /\ pc \in {"newloop", "between"} /\ CanPush
    /\ pc = "between" => head.iter < MaxIters
    /\ Enter(At("idetach"))
    /\ parallel_execution' = PeersChanged
    /\ UNCHANGED <<vars, spbags_frame_skipped, call_stack, unseen>>

\* __csan_task of a loop body: handle_loop() holds, and no state is pushed.
task_iteration(n, r) ==
    /\ InSite("idetach")
    /\ \/ do_loop_iteration_first(n, r) /\ Enter(Activation("iter", TRUE))
       \/ do_loop_iteration_begin /\ Enter(Activation("iter", FALSE))
    /\ UNCHANGED <<stacks, unseen>>

\* Mutant: the exit of an iteration pops what only a task's exit may pop.
task_exit_iteration_pops ==
    /\ InSite("iter") /\ do_loop_iteration_end
    /\ Leave
    /\ pop_parallel_execution
    /\ UNCHANGED <<spbags_frame_skipped, call_stack, unseen>>

\* __csan_task_exit of a loop body.
task_exit_iteration ==
    /\ InSite("iter") /\ do_loop_iteration_end
    /\ Leave
    /\ UNCHANGED <<stacks, unseen>>

\* __csan_detach_continue of a loop body on the normal path.
detach_continue_iteration ==
    /\ InSite("idetach") /\ pc = "between" /\ Leave
    /\ UNCHANGED <<vars, stacks, unseen>>

\* __csan_after_loop, before the sync of the loop's region.
after_loop ==
    /\ InSite("loop") /\ do_loop_end
    /\ prog' = IF SyncAfterLoop
               THEN Append(Front(prog), [at |-> "loopsync", fid |-> 0,
                                         reg |-> tree[head.fid].reg])
               ELSE Front(prog)
    /\ pop_parallel_execution
    /\ record_call_return
    /\ UNCHANGED <<spbags_frame_skipped, unseen>>

(***************************************************************************)
(* Loads and stores.                                                       *)
(***************************************************************************)
\* __csan_load, __csan_store and their large forms: an access made while the
\* execution is regarded as serial reaches neither the engine nor the shadow
\* memory.
access ==
    /\ Running
    /\ IF is_execution_parallel THEN record_access /\ UNCHANGED unseen
       ELSE unseen' = unseen \cup {CurrentAccess} /\ UNCHANGED vars
    /\ UNCHANGED <<stacks, prog>>

-----------------------------------------------------------------------------
\* The first call of __csan_func_entry initialises the tool; main is entered
\* from a call site that has no hook.
DriverInit ==
    /\ Init
    /\ parallel_execution = <<0>>
    /\ spbags_frame_skipped = <<>> /\ call_stack = <<>>
    /\ prog = <<At("call")>> /\ unseen = {}

DriverNext ==
    \/ before_call \/ after_call
    \/ \E n \in SyncRegCounts, may_spawn \in BOOLEAN : func_entry(may_spawn, n)
    \/ func_exit
    \/ detach
    \/ \E n \in SyncRegCounts, r \in Regs : task(n, r)
    \/ task_exit
    \/ \E is_unwind \in BOOLEAN : detach_continue(is_unwind)
    \/ \E r \in Regs : sync(r)
    \/ before_loop \/ detach_iteration
    \/ \E n \in SyncRegCounts, r \in Regs : task_iteration(n, r)
    \/ task_exit_iteration \/ detach_continue_iteration \/ after_loop
    \/ access

DriverSpec == DriverInit /\ [][DriverNext]_hvars

-----------------------------------------------------------------------------
Functions == {"func", "cilk"}
Pushing == Functions \cup {"task", "loop"}
Sites == {"call", "detach", "loop"}
Record == [call |-> "CALL", detach |-> "SPAWN", loop |-> "LOOP"]

\* How many of the first j entries of program p are at one of the places ats.
CountTo(p, j, ats) == Cardinality({i \in 1..j : p[i].at \in ats})
Count(ats) == CountTo(prog, Len(prog), ats)

\* The driver's stacks are well typed and as long as the program's nesting
\* asks for: two entries of parallel_execution for every function, task and
\* loop, and the call stack that record_call_return asserts.
DriverTypeOK ==
    /\ parallel_execution \in Seq({0, 1})
    /\ Len(parallel_execution) = 1 + 2 * Count(Pushing)
    /\ spbags_frame_skipped \in Seq(BOOLEAN)
    /\ Len(spbags_frame_skipped) = Count(Functions)
    /\ prog \in Seq(Entry)
    /\ unseen \subseteq MemoryAccess
    /\ call_stack \in Seq({"CALL", "SPAWN", "LOOP"})
    /\ Len(call_stack) = Count(Sites) - 1
    /\ \A j \in 2..Len(prog) : prog[j].at \in Sites =>
          call_stack[CountTo(prog, j, Sites) - 1] = Record[prog[j].at]

\* Whatever an activation calls, spawns or loops over, and whichever of those
\* run without a frame, it goes on with the frame it was entered with on top
\* of frame_stack.
RunsOnItsFrame == Running => head.fid = Last(prog).fid

\* An access is looked at whenever it could race: while the execution is
\* regarded as serial, no recorded access is logically parallel to it.
SerialHasNoParallel ==
    Running /\ ~is_execution_parallel => \A a \in strands : ~LogicallyParallel(a)

\* An access that was not recorded because the execution was serial is never
\* logically parallel to anything that runs later.
UnseenStaySerial == Running => \A a \in unseen : ~LogicallyParallel(a)
=============================================================================
