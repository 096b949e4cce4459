------------------------------ MODULE MCMlfqs ------------------------------
(* Mlfqs, with its parameters given by Mlfqs.cfg. *)
EXTENDS Mlfqs
=============================================================================
