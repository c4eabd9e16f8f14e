------------------------------ MODULE MCDriver ------------------------------
(* A model-checking instance of Driver: programs with a few activations.   *)
EXTENDS Driver
=============================================================================
