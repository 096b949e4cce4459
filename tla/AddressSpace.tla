---------------------------- MODULE AddressSpace ----------------------------
(***************************************************************************)
(* The tables that describe the memory of one user process: its page       *)
(* directory (userprog/pagedir.c), its supplemental page table             *)
(* (vm/page.c), the files it has mapped (vm/mmap.c), and how the program   *)
(* headers of an executable fill them (validate_segment and load_segment   *)
(* of userprog/process.c).  Every operator maps a table to the table the   *)
(* C function leaves.  A page holds PGSIZE units and an address counts     *)
(* units, so the arithmetic of the code is kept at a small scale.          *)
(***************************************************************************)
EXTENDS Integers, Sequences, SequencesExt, FiniteSetsExt

CONSTANTS PGSIZE,   \* units in a page
          UPAGES,   \* user pages: PHYS_BASE is the first address above them
          WORD,     \* machine addresses are taken modulo WORD
          NULL,     \* the null pointer
          IN_FILE,  \* -1 and -2, the marks of a page that is not in swap
          MAPPED

ASSUME AddressSpaceAssumption ==
    /\ {PGSIZE, UPAGES} \subseteq Nat \ {0}
    /\ WORD \in Nat /\ WORD > UPAGES * PGSIZE /\ WORD % PGSIZE = 0

PHYS_BASE == UPAGES * PGSIZE
UPage == 0 .. UPAGES - 1
Offset == 0 .. PGSIZE - 1

pg_no(a) == a \div PGSIZE
pg_ofs(a) == a % PGSIZE
pg_addr(u) == u * PGSIZE
ROUND_UP(a) == ((a + PGSIZE - 1) \div PGSIZE) * PGSIZE
is_user_vaddr(a) == a < PHYS_BASE

(* Units ofs .. ofs + n - 1 of a file, read into a page, the rest zero. *)
PageOf(file, ofs, n) ==
    [i \in Offset |-> IF i < n /\ ofs + i < Len(file) THEN file[ofs + i + 1] ELSE 0]

-----------------------------------------------------------------------------
(* Page directory.  A page table entry keeps its other bits when it is     *)
(* marked not present, as PTE_P is the only bit pagedir_clear_page clears. *)

NoPte == [kpage |-> NULL, P |-> FALSE, W |-> FALSE, A |-> FALSE, D |-> FALSE]

pagedir_create == [u \in UPage |-> NoPte]

(* A page table that is missing reads as entries that are not present. *)
lookup_page(pd, u) == pd[u]

pagedir_get_page(pd, u) == IF lookup_page(pd, u).P THEN lookup_page(pd, u).kpage ELSE NULL

pagedir_set_page(pd, u, kpage, writable) ==
    [pd EXCEPT ![u] = [kpage |-> kpage, P |-> TRUE, W |-> writable, A |-> FALSE, D |-> FALSE]]

pagedir_clear_page(pd, u) == [pd EXCEPT ![u].P = FALSE]

(* Once an eviction is over, the bits left in the entry are not read any   *)
(* more: pagedir_set_page overwrites them.                                 *)
Forget(pd, u) == [pd EXCEPT ![u] = NoPte]

pagedir_is_dirty(pd, u) == lookup_page(pd, u).D
pagedir_set_dirty(pd, u, dirty) == [pd EXCEPT ![u].D = dirty]
pagedir_is_accessed(pd, u) == lookup_page(pd, u).A
pagedir_set_accessed(pd, u, accessed) == [pd EXCEPT ![u].A = accessed]

-----------------------------------------------------------------------------
(* Supplemental page table: a hash table keyed by the page, in which       *)
(* hash_insert keeps an element that is already there.  slot is the swap   *)
(* slot, IN_FILE for a page of the executable or one that was never        *)
(* evicted, MAPPED for a page of a mapped file.                            *)

supl_pt_insert(spt, u, spte) == IF u \in DOMAIN spt THEN spt ELSE (u :> spte) @@ spt
supl_pt_get_spte(spt, a) == IF pg_no(a) \in DOMAIN spt THEN spt[pg_no(a)] ELSE NULL
supl_pt_remove_spte(spt, a) == [u \in DOMAIN spt \ {pg_no(a)} |-> spt[u]]

Spte(ofs, read, writable, slot) == [ofs |-> ofs, read |-> read, writable |-> writable, slot |-> slot]

-----------------------------------------------------------------------------
(* Mapped files, in the order of the process's mmap_list.                  *)

mfd_get_file(mmap_list, id) == SelectInSeq(mmap_list, LAMBDA m : m.id = id)

mfd_create(mmap_list) == Max({2} \cup {mmap_list[i].id : i \in DOMAIN mmap_list}) + 1

(* The comparison with the end of the mapping is not strict in the code. *)
get_mapped_file_from_page_pointer(mmap_list, a) ==
    LET i == SelectInSeq(mmap_list, LAMBDA m : m.addr <= a /\ a <= m.addr + m.size)
    IN IF i = 0 THEN NULL ELSE mmap_list[i]

(* How much of a file there is from ofs to the end of the page. *)
BytesAt(filesize, ofs) == IF filesize < PGSIZE + ofs THEN filesize - ofs ELSE PGSIZE

-----------------------------------------------------------------------------
(* Program headers.                                                        *)

(* Mutant: an end below the start is not noticed. *)
validate_segment_wrap(phdr, filesize) ==
    /\ phdr.offset % PGSIZE = phdr.vaddr % PGSIZE
    /\ phdr.offset <= filesize
    /\ phdr.memsz >= phdr.filesz
    /\ phdr.memsz # 0
    /\ is_user_vaddr(phdr.vaddr)
    /\ is_user_vaddr((phdr.vaddr + phdr.memsz) % WORD)
    /\ phdr.vaddr >= PGSIZE

validate_segment(phdr, filesize) ==
    /\ phdr.offset % PGSIZE = phdr.vaddr % PGSIZE
    /\ phdr.offset <= filesize
    /\ phdr.memsz >= phdr.filesz
    /\ phdr.memsz # 0
    /\ is_user_vaddr(phdr.vaddr)
    /\ is_user_vaddr((phdr.vaddr + phdr.memsz) % WORD)
    /\ (phdr.vaddr + phdr.memsz) % WORD >= phdr.vaddr
    /\ phdr.vaddr >= PGSIZE

(* The loop of load_segment: page k takes the k-th page of the read bytes. *)
load_segment(spt, ofs, upage, read_bytes, zero_bytes, writable) ==
    LET Insert(t, k) ==
            supl_pt_insert(t, upage + k,
                           Spte(ofs + (k * PGSIZE),
                                Min({PGSIZE, Max({0, read_bytes - (k * PGSIZE)})}),
                                writable, IN_FILE))
    IN FoldLeft(Insert, spt, [k \in 1 .. ((read_bytes + zero_bytes) \div PGSIZE) |-> k - 1])

(* The PT_LOAD case of load: what is read from the file and what is zero. *)
LoadSegment(spt, phdr) ==
    LET page_offset == pg_ofs(phdr.vaddr)
        read_bytes == IF phdr.filesz > 0 THEN page_offset + phdr.filesz ELSE 0
        zero_bytes == ROUND_UP(page_offset + phdr.memsz) - read_bytes
    IN load_segment(spt, phdr.offset - pg_ofs(phdr.offset), pg_no(phdr.vaddr),
                    read_bytes, zero_bytes, phdr.writable)

=============================================================================
