----------------------------- MODULE MCProcess -----------------------------
(* Process, for TLC. *)
EXTENDS Process, TLC

(* Files are interchangeable. *)
Symmetry == Permutations(File)
============================================================================
