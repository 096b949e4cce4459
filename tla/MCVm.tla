-------------------------------- MODULE MCVm --------------------------------
(* Instance of Vm: an executable with one data page that is half zero, a   *)
(* file of one page and a half, and a stack that may grow to two pages.    *)
EXTENDS Vm

CONSTANTS p1, p2, f1

MCExe == <<1, 2, 3>>

MCSegments ==
    << [offset |-> PGSIZE, vaddr |-> PGSIZE, filesz |-> 1, memsz |-> PGSIZE, writable |-> TRUE] >>

MCFile == f1 :> <<5, 6, 7>>
MCFileOf == p1 :> {f1} @@ p2 :> {}

(* p1 uses the second page of its mapping, p2 its data page and a page far *)
(* below its stack; p2 reads into the page just below its stack.  At       *)
(* address 8 the second page of the file would be the stack page.          *)
MCTouch == p1 :> {6} @@ p2 :> {2, 7}
MCBuffers == p1 :> {} @@ p2 :> {8}
SlotSymmetry == Permutations(Slot)

MCMapAddr == {4, 8}

=============================================================================
