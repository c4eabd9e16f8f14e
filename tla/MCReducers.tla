----------------------------- MODULE MCReducers -----------------------------
(* Model-checking instances of Reducers: every program with a few frames    *)
(* that declares reducers and updates them.                                 *)
EXTENDS Reducers
=============================================================================
