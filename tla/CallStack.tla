------------------------------ MODULE CallStack ------------------------------
(***************************************************************************)
(* What a call stack promises: the calls, spawns and loops in progress,    *)
(* and copies of it, each of which stays what it was when it was taken.    *)
(* A frame is a CallID_t; two activations of one call site differ in their *)
(* serial number.                                                          *)
(***************************************************************************)
EXTENDS Naturals, Sequences

CONSTANTS CallIDs, Holders, Serials

VARIABLES stack, snapshots

Init == stack = <<>> /\ snapshots = [h \in Holders |-> <<>>]

\* record_call and record_call_return.
Call == /\ \E id \in CallIDs, n \in Serials : stack' = Append(stack, [id |-> id, serial |-> n])
        /\ UNCHANGED snapshots
Return == /\ stack # <<>> /\ stack' = SubSeq(stack, 1, Len(stack) - 1)
          /\ UNCHANGED snapshots

\* A holder takes a copy of the stack, or drops the one it has.
Take(h) == snapshots' = [snapshots EXCEPT ![h] = stack] /\ UNCHANGED stack
Drop(h) == snapshots' = [snapshots EXCEPT ![h] = <<>>] /\ UNCHANGED stack

Next == Call \/ Return \/ \E h \in Holders : Take(h) \/ Drop(h)
Spec == Init /\ [][Next]_<<stack, snapshots>>
=============================================================================
