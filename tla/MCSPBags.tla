------------------------------ MODULE MCSPBags ------------------------------
(* Model-checking instances of SPBags: every program with a few frames.    *)
EXTENDS SPBags
=============================================================================
