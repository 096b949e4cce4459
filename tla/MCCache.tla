------------------------------ MODULE MCCache ------------------------------
(* Cache, with its parameters given by the .cfg files. *)
EXTENDS Cache, TLC
============================================================================
