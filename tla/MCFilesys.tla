----------------------------- MODULE MCFilesys -----------------------------
(* Filesys with a small tree of names. *)
EXTENDS Filesys

Rel(e) == [absolute |-> FALSE, entries |-> e]
Abs(e) == [absolute |-> TRUE, entries |-> e]

(* A file and a directory, a file below, both ways there and back. *)
MCPath == {Rel(<<"x">>), Rel(<<"y">>), Abs(<<"y", "x">>), Rel(<<"y", "..", "x">>),
           Rel(<<".">>), Abs(<<>>)}
=============================================================================
