----------------------------- MODULE MCLibHooks -----------------------------
(* LibHooks for TLC: every library function of the table, formats of up to two conversions. *)
EXTENDS LibHooks

MCArg == <<"a1", "a2", "a3">>

D(conv, star, null, arg) == [conv |-> conv, star |-> star, null |-> null, arg |-> arg]
Convs(arg) == {D(c, FALSE, FALSE, arg) : c \in {"d", "p", "s", "ls", "n", "m", "bad", "1$"}}
              \cup {D(c, TRUE, FALSE, arg) : c \in {"s", "d"}}
MCDirSeqs == {<<>>} \cup {<<d>> : d \in Convs("v1")}
    \cup {<<d, e>> : d \in {D(c, FALSE, FALSE, "v1") : c \in {"p", "s", "ls", "n"}}
                         \cup {D("s", TRUE, FALSE, "v1"), D("s", FALSE, TRUE, "v1")},
                    e \in {D(c, FALSE, FALSE, "v2") : c \in {"s", "n"}}}

\* fputs keeps a MAAP and sscanf runs the interpreter of printf: README.md, "Known disagreements".
MCLibCalls == DOMAIN HookTable \ {"fputs", "sscanf"}
=============================================================================
