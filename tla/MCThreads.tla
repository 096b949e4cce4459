----------------------------- MODULE MCThreads -----------------------------
(* Threads, with its parameters given by the .cfg files. *)
EXTENDS Threads, TLC

(* The pages of threads that thread_create makes are interchangeable. *)
WorkerSymmetry == Permutations(Thread \ {Main})

(* So are the locks. *)
Symmetry == WorkerSymmetry \cup Permutations(Lock)
============================================================================
