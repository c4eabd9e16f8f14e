----------------------------- MODULE Partition -----------------------------
(***************************************************************************)
(* What the disjoint sets promise: every recorded access is in one live    *)
(* bag, and merging a bag moves its accesses, all of them, into another.   *)
(***************************************************************************)
CONSTANTS Entries, Bags, NoBag

VARIABLES
    live,    \* the bags that exist
    where    \* shadow-memory entry |-> the bag of the access in it

pvars == <<live, where>>

Create(b) == b \notin live /\ live' = live \cup {b} /\ UNCHANGED where

Merge(b, c) ==
    /\ b \in live /\ c \in live /\ b # c
    /\ live' = live \ {c}
    /\ where' = [l \in Entries |-> IF where[l] = c THEN b ELSE where[l]]

Delete(b) ==
    /\ b \in live /\ \A l \in Entries : where[l] # b
    /\ live' = live \ {b}
    /\ UNCHANGED where

Record(l, b) ==
    b \in live /\ where' = [where EXCEPT ![l] = b] /\ UNCHANGED live
Copy(l, m) == where' = [where EXCEPT ![l] = where[m]] /\ UNCHANGED live
Drop(l) == where' = [where EXCEPT ![l] = NoBag] /\ UNCHANGED live

PartitionInit == live = {} /\ where = [l \in Entries |-> NoBag]

PartitionNext ==
    \/ \E b \in Bags : Create(b) \/ Delete(b)
    \/ \E b, c \in Bags : Merge(b, c)
    \/ \E l \in Entries : Drop(l) \/ \E b \in Bags : Record(l, b)
    \/ \E l, m \in Entries : Copy(l, m)

PartitionSpec == PartitionInit /\ [][PartitionNext]_pvars
=============================================================================
