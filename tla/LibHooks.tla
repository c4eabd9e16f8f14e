------------------------------ MODULE LibHooks ------------------------------
(***************************************************************************)
(* MAAPs: the values the compiler passes beside the pointer arguments of a *)
(* call, telling which of them other tasks may access at the same time.    *)
(* The caller pushes one per pointer argument on the stack MAAPs, first    *)
(* argument on top.  If the callee is instrumented, before_call pushes     *)
(* their number on MAAP_counts, the callee reads them with get_MAAP and    *)
(* after_call pops both.  If it is a library function with a hook, the     *)
(* hook pops them and uses them to filter its checks.                      *)
(***************************************************************************)
EXTENDS FormatHooks, FiniteSets

CONSTANTS Funcs,      \* instrumented functions
          Unaware,    \* those of units that are compiled without MAAPs
          Arg,        \* the names of the pointer parameters of each of them
          LibCalls,   \* the library functions the program calls
          DirSeqs,    \* the formats it passes to printf and scanf
          MaxDepth,   \* bound on nested invocations
          DeepCalls   \* the library functions called at any depth; the others at depth 0 and 1

ASSUME LibHooksAssumption ==
    /\ Unaware \subseteq Funcs /\ Funcs \cap ({"ext"} \cup DOMAIN HookTable) = {}
    /\ Arg \in Seq(STRING) /\ MaxDepth \in Nat
    /\ DeepCalls \subseteq LibCalls /\ LibCalls \subseteq DOMAIN HookTable
    /\ \A ds \in DirSeqs :
          /\ ds \in Seq(Directives(DirArgs(ds)))
          /\ "format" \notin DirArgs(ds)      \* variable arguments have names of their own
          /\ \A h \in LibCalls : \A i \in 1 .. Len(HookTable[h].checks) :
                HookTable[h].checks[i].arg \notin DirArgs(ds)

VARIABLES
    MAAPs,         \* driver.cpp: pairs of the callee's id and the value; here the value is
                   \* named by the invocation and the argument it was set for
    MAAP_counts,   \* driver.cpp
    frames,        \* the invocations, outermost first (the program's stack)
    disabled_at,   \* depth of each open __cilksan_disable_checking(); checking_disabled is its length
    answer,        \* what the last get_MAAP returned, and to whom
    hooked         \* the checks of the last hook, and the call they are for

lvars == <<MAAPs, MAAP_counts, frames, disabled_at, answer, hooked>>

\* A MAAP that tells nothing, and the one of code that is not checked.
ModRef == [id |-> "ModRef", depth |-> 0, arg |-> "any"]
NoAccess == [id |-> "NoAccess", depth |-> 0, arg |-> "any"]
Nobody == [depth |-> 0, idx |-> 0, val |-> ModRef]
NoChecks == [call |-> [name |-> "none", depth |-> 0, args |-> <<>>, dirs |-> <<>>, stored |-> 0],
             made |-> <<>>]
NArgs == Len(Arg)

\* driver.h: should_check()
should_check == disabled_at = <<>>
Depth == Len(frames)
Back(s) == s[Len(s)]
PopN(s, n) == SubSeq(s, 1, IF n > Len(s) THEN 0 ELSE Len(s) - n)
\* The k-th entry from the top, as long as there is one.
Ancestor(s, k) == IF Len(s) > k THEN s[Len(s) - k] ELSE [id |-> "outside", depth |-> 0, arg |-> "any"]

LibInit ==
    /\ MAAPs = <<>>
    /\ MAAP_counts = <<0>>        \* pushed at the first func_entry
    /\ frames = <<>>
    /\ disabled_at = <<>>
    /\ answer = Nobody
    /\ hooked = NoChecks

\* __csan_set_MAAP once per argument, last argument first.
set_MAAPs(id, args) ==
    IF should_check
    THEN MAAPs \o [i \in 1 .. Len(args) |->
                      [id |-> id, depth |-> Depth + 1, arg |-> args[Len(args) + 1 - i]]]
    ELSE MAAPs

\* Code runs in an instrumented function: the outermost one, one that was called, or a callback.
InUserCode == IF frames = <<>> THEN TRUE ELSE Back(frames).kind \in {"user", "callback"}

\* A unit passes a MAAP for every pointer argument of its calls, or for none.
Aware == IF frames = <<>> THEN TRUE ELSE Back(frames).name \notin Unaware

Forget == answer' = Nobody /\ hooked' = NoChecks

\* __csan_before_call, for a call with MAAPs of a function known to the compiler.
Push(kind, name, args, dirs) ==
    /\ Depth < MaxDepth
    /\ MAAPs' = set_MAAPs(name, args)
    /\ frames' = Append(frames, [kind |-> kind, name |-> name, args |-> args, dirs |-> dirs,
                                 off |-> ~should_check])
    /\ Forget
    /\ UNCHANGED disabled_at

before_call(args) ==
    MAAP_counts' = IF should_check THEN Append(MAAP_counts, Len(args)) ELSE MAAP_counts

PassedArgs == IF Aware THEN Arg ELSE <<>>

\* A call of an instrumented function.
CallUser(f) ==
    /\ InUserCode
    /\ Push("user", f, PassedArgs, <<>>)
    /\ before_call(PassedArgs)

\* A call of a function that is neither instrumented nor known as a library function.
CallExternal ==
    /\ InUserCode
    /\ Push("ext", "ext", PassedArgs, <<>>)
    /\ before_call(PassedArgs)

\* Code that is not instrumented calls back: its caller pushes nothing and runs no hook.
Callback(f) ==
    /\ Depth < MaxDepth
    /\ frames # <<>>
    /\ Back(frames).kind = "ext" \/ Back(frames).name = "qsort"
    /\ frames' = Append(frames, [kind |-> "callback", name |-> f, args |-> <<>>, dirs |-> <<>>,
                                 off |-> ~should_check])
    /\ Forget
    /\ UNCHANGED <<MAAPs, MAAP_counts, disabled_at>>

\* Mutant: the MAAPs on top of the stack are taken for the callee's.
GetsAnyMAAP(id, idx) ==
    IF ~should_check THEN NoAccess
    ELSE IF idx >= Back(MAAP_counts) THEN ModRef ELSE Ancestor(MAAPs, idx)

\* __csan_get_MAAP(id, idx), early in the function id.
get_MAAP(id, idx) ==
    IF ~should_check THEN NoAccess
    ELSE IF idx >= Back(MAAP_counts) THEN ModRef
    ELSE LET MAAP == Ancestor(MAAPs, idx) IN IF MAAP.id = id THEN MAAP ELSE ModRef

\* A comparator, which qsort calls, has two parameters.
AskMAAP(idx) ==
    /\ frames # <<>>
    /\ Back(frames).kind \in {"user", "callback"} /\ Aware
    /\ Back(frames).kind = "callback" /\ frames[Depth - 1].name = "qsort" => idx < 2
    /\ answer' = [depth |-> Depth, idx |-> idx, val |-> get_MAAP(Back(frames).name, idx)]
    /\ hooked' = NoChecks
    /\ UNCHANGED <<MAAPs, MAAP_counts, frames, disabled_at>>

\* __csan_after_call, with the argument count of the call site.
after_call(f) ==
    IF should_check
    THEN /\ MAAPs' = PopN(MAAPs, Len(f.args))
         /\ MAAP_counts' = PopN(MAAP_counts, 1)
    ELSE UNCHANGED <<MAAPs, MAAP_counts>>

Return ==
    /\ frames # <<>>
    /\ \A i \in 1 .. Len(disabled_at) : disabled_at[i] # Depth
    /\ IF Back(frames).kind \in {"user", "ext"} THEN after_call(Back(frames))
       ELSE Back(frames).kind = "callback" /\ UNCHANGED <<MAAPs, MAAP_counts>>
    /\ frames' = PopN(frames, 1)
    /\ Forget
    /\ UNCHANGED disabled_at

\* The program turns checking off for a scope and on again at the end of it.
disable_checking ==
    /\ InUserCode
    /\ Len(disabled_at) < 2
    /\ disabled_at' = Append(disabled_at, Depth)
    /\ Forget
    /\ UNCHANGED <<MAAPs, MAAP_counts, frames>>

enable_checking ==
    /\ InUserCode
    /\ disabled_at # <<>> /\ Back(disabled_at) = Depth
    /\ disabled_at' = PopN(disabled_at, 1)
    /\ Forget
    /\ UNCHANGED <<MAAPs, MAAP_counts, frames>>

-----------------------------------------------------------------------------
(***************************************************************************)
(* Library functions and their hooks.                                      *)
(***************************************************************************)

\* What a C library does with the variable arguments; sscanf is a scanf.
FmtOf(h) == IF h = "sscanf" THEN "scanf" ELSE HookTable[h].fmt

CallLib(h, dirs) ==
    /\ InUserCode
    /\ IF h \in DeepCalls THEN TRUE ELSE Depth <= 1
    /\ LET varargs == FlattenSeq([i \in 1 .. Len(dirs) |-> PointerArgs(FmtOf(h), dirs[i])])
       IN  Push("lib", h, IF Aware THEN HookTable[h].args \o varargs ELSE <<>>, dirs)
    /\ UNCHANGED MAAP_counts

\* The MAAP a hook holds for an argument: ModRef unless it popped one for it.
HeldMAAP(e, count, a) ==
    IF count > 0 /\ a # "ModRef" /\ \E i \in 1 .. Len(e.named) : e.named[i] = a
    THEN Ancestor(MAAPs, (CHOOSE i \in 1 .. Len(e.named) : e.named[i] = a) - 1)
    ELSE ModRef

\* How many MAAPs the hook pops.
Popped(e, count) == IF count = 0 THEN 0 ELSE IF e.all THEN count ELSE Len(e.named)

\* The checks of vprintf_common and vscanf_common, with what is left of the MAAPs.
FormatChecks(e, count, inputs, dirs) ==
    LET first == IF count = 0 THEN 0 ELSE Len(e.named)
        run == IF e.fmt = "scanf" THEN scanf_common(count - first, inputs, dirs)
               ELSE printf_common(count - first, dirs)
    IN  [i \in 1 .. Len(run.checks) |->
            [kind |-> run.checks[i].kind, arg |-> run.checks[i].arg,
             maap |-> IF run.checks[i].slot = 0 THEN ModRef
                      ELSE Ancestor(MAAPs, first + run.checks[i].slot - 1)]]

HookChecks(e, count, inputs, dirs) ==
    LET own == [i \in 1 .. Len(e.checks) |->
                   [kind |-> e.checks[i].kind, arg |-> e.checks[i].arg,
                    maap |-> HeldMAAP(e, count, e.checks[i].guard)]]
    IN  IF e.fmt = "none" THEN own ELSE own \o FormatChecks(e, count, inputs, dirs)

\* is_execution_parallel() and the outcome of the call decide which checks are made.
ChecksNow(e, parallel, ok) ==
    CASE e.when = "always" -> TRUE
      [] e.when = "parallel" -> parallel
      [] e.when = "success" -> parallel /\ ok
      [] OTHER -> FALSE

LibHook(parallel, ok, inputs) ==
    /\ frames # <<>> /\ Back(frames).kind = "lib"
    /\ LET call == Back(frames)
           e == HookTable[call.name]
           count == Len(call.args)
       IN  /\ inputs \in IF FmtOf(call.name) = "scanf" /\ ok THEN 1 .. Len(call.dirs) ELSE {0}
           /\ MAAPs' = IF should_check THEN PopN(MAAPs, Popped(e, count)) ELSE MAAPs
           /\ hooked' =
                IF should_check /\ ChecksNow(e, parallel, ok)
                THEN [call |-> [name |-> call.name, depth |-> Depth, args |-> call.args,
                                dirs |-> call.dirs, stored |-> inputs],
                      made |-> HookChecks(e, count, inputs, call.dirs)]
                ELSE NoChecks
    /\ answer' = Nobody
    /\ frames' = PopN(frames, 1)
    /\ UNCHANGED <<MAAP_counts, disabled_at>>

LibNext ==
    \/ \E f \in Funcs : CallUser(f)
    \/ CallExternal
    \/ \E f \in Funcs : Callback(f)
    \/ \E i \in 0 .. NArgs - 1 : AskMAAP(i)
    \/ Return
    \/ disable_checking
    \/ enable_checking
    \/ \E h \in LibCalls : \E ds \in IF FmtOf(h) = "none" THEN {<<>>} ELSE DirSeqs :
          CallLib(h, ds)
    \/ \E par, ok \in BOOLEAN, n \in 0 .. 2 : LibHook(par, ok, n)

LibSpec == LibInit /\ [][LibNext]_lvars

-----------------------------------------------------------------------------
ArgsOf(h) == {HookTable[h].args[i] : i \in 1 .. Len(HookTable[h].args)}
ArgNames == {Arg[i] : i \in 1 .. NArgs} \cup (UNION {ArgsOf(h) : h \in LibCalls})
            \cup (UNION {DirArgs(ds) : ds \in DirSeqs})
MAAPEntry == [id : Funcs \cup LibCalls \cup {"ext"}, depth : 1 .. MaxDepth, arg : ArgNames]

LibTypeOK ==
    /\ \A i \in 1 .. Len(MAAPs) : MAAPs[i] \in MAAPEntry
    /\ \A i \in 1 .. Len(MAAP_counts) : MAAP_counts[i] \in 0 .. NArgs
    /\ Depth <= MaxDepth
    /\ \A i \in 1 .. Len(disabled_at) : disabled_at[i] \in 0 .. Depth
    /\ \A i \in 1 .. Len(hooked.made) :
          hooked.made[i].kind \in {"read", "write", "atomic_read", "atomic_write", "nothing"}

\* What the invocation at depth d has on the two stacks while it runs.
PushedFor(d) ==
    LET f == frames[d]
    IN  IF f.off THEN <<>>
        ELSE [i \in 1 .. Len(f.args) |->
                 [id |-> f.name, depth |-> d, arg |-> f.args[Len(f.args) + 1 - i]]]
CountsFor(d) ==
    IF frames[d].off \/ frames[d].kind \notin {"user", "ext"} THEN <<>> ELSE <<Len(frames[d].args)>>

\* The stacks hold the MAAPs of the calls in progress and nothing else, in their order: every hook
\* and every after_call removes exactly what its own call pushed, whatever path it takes, so no call
\* ever finds or removes the MAAPs of another (libhooks.cpp:18 "Pop any MAAPs associated with this hook").
MAAPsBalanced ==
    /\ LibTypeOK
    /\ MAAPs = FlattenSeq([d \in 1 .. Depth |-> PushedFor(d)])
    /\ MAAP_counts = <<0>> \o FlattenSeq([d \in 1 .. Depth |-> CountsFor(d)])

\* get_MAAP gives an invocation the value its own caller set for that argument if it set one, and
\* the worst case if it did not: for the main function, for callbacks and for callers compiled
\* without MAAPs, with the values of other calls still on the stack (driver.cpp:104-133).
AnswerExact ==
    answer.depth > 0 =>
        LET f == frames[answer.depth]
        IN  answer.val = IF ~should_check THEN NoAccess
                         ELSE IF f.kind = "user" /\ answer.idx < Len(f.args) /\ ~f.off
                         THEN [id |-> f.name, depth |-> answer.depth, arg |-> Arg[answer.idx + 1]]
                         ELSE ModRef

\* A null %s leaves its MAAP to the next argument (hook_format.inc:568-582).
NullString(dirs) == \E i \in 1 .. Len(dirs) : dirs[i].null /\ dirs[i].conv \in {"s", "ls"}

\* A check of an argument is filtered by the MAAP the caller set for that very argument of that very
\* call, or by none: a MAAP of something else could hide the race (libhooks.cpp, hook_format.inc).
ChecksUseOwnMAAP ==
    ~NullString(hooked.call.dirs) =>
        \A i \in 1 .. Len(hooked.made) :
            LET c == hooked.made[i]
            IN  \/ c.maap = ModRef
                \/ c.maap.depth = hooked.call.depth /\ c.maap.arg = c.arg

\* The formats both interpreters read to their end.
Supported(dirs) == \A i \in 1 .. Len(dirs) : dirs[i].conv \notin {"m", "bad", "1$", "ls"}

\* scanf stores the conversions up to its result, and the %n among them; it skips the starred ones.
StoredBy(dirs, n) ==
    {dirs[i].arg : i \in {j \in 1 .. Len(dirs) :
        /\ ~dirs[j].star
        /\ Cardinality({k \in 1 .. j : ~dirs[k].star /\ dirs[k].conv # "n"}) <= n}}
\* printf reads its strings and stores at %n.
ReadBy(dirs) ==
    {dirs[i].arg : i \in {j \in 1 .. Len(dirs) : dirs[j].conv = "s" /\ ~dirs[j].null /\ ~dirs[j].star}}
CountsBy(dirs) == {dirs[i].arg : i \in {j \in 1 .. Len(dirs) : dirs[j].conv = "n"}}

Checked(kind) ==
    {hooked.made[i].arg : i \in {j \in 1 .. Len(hooked.made) : hooked.made[j].kind = kind}}
VarArgs == DirArgs(hooked.call.dirs)

\* The variable arguments checked are exactly those the C function accessed, each with the kind of
\* its access: "report all store ranges" of a scanf, the strings a printf read, and %n
\* (hook_format.inc:328, 524).
VarArgsChecked ==
    hooked.call.name # "none" /\ Supported(hooked.call.dirs) =>
        LET dirs == hooked.call.dirs
            scans == FmtOf(hooked.call.name) = "scanf"
        IN  /\ Checked("write") \cap VarArgs =
                   IF scans THEN StoredBy(dirs, hooked.call.stored) ELSE CountsBy(dirs)
            /\ Checked("read") \cap VarArgs = IF scans THEN {} ELSE ReadBy(dirs)
=============================================================================
