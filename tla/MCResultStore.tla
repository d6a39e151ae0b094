--------------------------- MODULE MCResultStore ---------------------------
(* Instances of ResultStore for TLC: the constants are in the .cfg files.  *)
EXTENDS ResultStore
=============================================================================
