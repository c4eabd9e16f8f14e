----------------------------- MODULE MCFedTables ----------------------------
(* A model-checking instance of FedTables: three units whose entries fill  *)
(* several tables, so that the index grows three times under a lookup.     *)
EXTENDS FedTables

MCNumEntries == <<3, 2, 4>>
=============================================================================
