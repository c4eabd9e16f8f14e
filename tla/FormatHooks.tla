---------------------------- MODULE FormatHooks ----------------------------
(***************************************************************************)
(* The format interpreters of hook_format.inc, which the printf and scanf  *)
(* hooks run over the variable arguments of a call.  A directive is what   *)
(* the parsers make of one conversion of the format:                       *)
(*   conv   "d" (a scalar), "p", "s", "ls" (a wide string), "n", "m" (no   *)
(*          argument), "bad" (no such conversion) or "1$" (a positional    *)
(*          argument, not supported);                                      *)
(*   star   the field width or precision is itself an argument (printf),   *)
(*          or the assignment is suppressed (scanf);                       *)
(*   null   the pointer passed for it is null;                             *)
(*   arg    the name of the argument it takes.                             *)
(***************************************************************************)
EXTENDS HookTables, SequencesExt

Directives(args) ==
    [conv : {"d", "p", "s", "ls", "n", "m", "bad", "1$"}, star : BOOLEAN, null : BOOLEAN, arg : args]

\* The arguments of the directives of a format.
DirArgs(dirs) == {dirs[i].arg : i \in 1 .. Len(dirs)}

\* The pointer arguments a directive takes, for which the caller has a MAAP.
PointerArgs(fmt, d) ==
    IF \/ d.conv \in {"m", "bad", "1$"}
       \/ fmt = "printf" /\ d.conv = "d"
       \/ fmt = "scanf" /\ d.star
    THEN <<>> ELSE <<d.arg>>

\* The progress of an interpreter: the checks made and, for each MAAP popped, what it was used for.
Start == [checks |-> <<>>, used |-> 0, inputs |-> 0, over |-> FALSE]

\* CHECK_READ_RANGE and CHECK_WRITE_RANGE: the next MAAP of the call guards the check, if one is left.
CheckRange(count, st, kind, arg) ==
    IF st.used < count
    THEN [st EXCEPT !.checks = Append(@, [kind |-> kind, arg |-> arg, slot |-> st.used + 1]),
                    !.used = @ + 1]
    ELSE [st EXCEPT !.checks = Append(@, [kind |-> kind, arg |-> arg, slot |-> 0])]

\* SKIP_SCALAR_ARG: only the value of a %p has a MAAP to drop.
SkipScalarArg(count, st, conv) ==
    IF conv = "p" /\ st.used < count THEN [st EXCEPT !.used = @ + 1] ELSE st

\* A null %s prints "(null)": nothing is read and no MAAP is popped.  A wide string, or one under a
\* starred precision, is checked for zero bytes: "nothing".
printf_directive(count, st, d) ==
    IF st.over THEN st
    ELSE CASE d.conv \in {"bad", "1$"} -> [st EXCEPT !.over = TRUE]
           [] d.conv = "m" -> st
           [] d.conv = "n" -> CheckRange(count, st, "write", d.arg)
           [] d.conv \in {"s", "ls"} /\ d.null -> st
           [] d.conv = "s" /\ ~d.star /\ ~d.null -> CheckRange(count, st, "read", d.arg)
           [] d.conv \in {"s", "ls"} /\ (d.conv = "s" => d.star) /\ ~d.null ->
                  CheckRange(count, st, "nothing", d.arg)
           [] OTHER -> SkipScalarArg(count, st, d.conv)

\* Mutant: a suppressed assignment counts as an input.
StarTakesInput(count, st, d) ==
    IF st.over \/ st.inputs = 0 THEN [st EXCEPT !.over = TRUE]
    ELSE CheckRange(count, [st EXCEPT !.inputs = @ - 1], "write", d.arg)

scanf_directive(count, st, d) ==
    LET left == IF d.conv = "n" THEN st.inputs ELSE st.inputs - 1
    IN  IF st.over THEN st
        ELSE CASE d.conv = "1$" -> [st EXCEPT !.over = TRUE]
               [] d.conv # "1$" /\ d.star -> st
               [] d.conv \in {"bad", "m"} /\ ~d.star -> [st EXCEPT !.over = TRUE]
               [] OTHER -> IF left < 0 THEN [st EXCEPT !.over = TRUE]
                           ELSE CheckRange(count, [st EXCEPT !.inputs = left],
                                           IF d.conv = "ls" THEN "nothing" ELSE "write", d.arg)

\* The format string itself is read first, whatever it holds.
printf_common(count, dirs) ==
    FoldLeft(LAMBDA st, d : printf_directive(count, st, d),
             CheckRange(count, Start, "read", "format"), dirs)

scanf_common(count, n_inputs, dirs) ==
    FoldLeft(LAMBDA st, d : scanf_directive(count, st, d),
             CheckRange(count, [Start EXCEPT !.inputs = n_inputs], "read", "format"), dirs)
=============================================================================
