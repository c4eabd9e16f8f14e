------------------------------- MODULE MCLocks ------------------------------
(* Model-checking instances of Locks: all orders of a few strands.         *)
EXTENDS Locks
=============================================================================
