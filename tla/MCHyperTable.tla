---------------------------- MODULE MCHyperTable ----------------------------
(* Model-checking instance of HyperTable: keys whose runs wrap at the end  *)
(* of the buffer.                                                          *)
EXTENDS HyperTable

\* Indices 2, 2, 3, 0 in a buffer of four and 6, 6, 7, 0 in one of eight.
WrappingHash == <<6, 6, 7, 8>>
=============================================================================
