---------------------------- MODULE MCStructures ----------------------------
(* A model-checking instance of Cilksan's two data structures, DisjointSet *)
(* and HyperTable.  They share no state: a behaviour exercises one of them. *)
EXTENDS DisjointSet, HyperTable, TLC

\* Indices 2, 2, 3, 0 in a buffer of four and 6, 6, 7, 0 in one of eight.
WrappingHash == <<6, 6, 7, 8>>

VARIABLE subject   \* the structure this behaviour exercises

StructuresInit == SetInit /\ TableInit /\ subject \in {"sets", "table"}

StructuresNext ==
    \/ subject = "sets" /\ SetNext /\ UNCHANGED <<table, subject>>
    \/ subject = "table" /\ TableNext /\ UNCHANGED <<svars, subject>>

StructuresSpec == StructuresInit /\ [][StructuresNext]_<<svars, table, subject>>

\* Bags, entries and views are interchangeable; keys are not, they hash.
StructureSymmetry ==
    Permutations(SBags) \cup Permutations(Entries) \cup Permutations(Values)
=============================================================================
