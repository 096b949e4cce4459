--------------------------------- MODULE Vm ---------------------------------
(***************************************************************************)
(* Demand paging: page faults (userprog/exception.c), lazy loading and     *)
(* stack growth (userprog/process.c), the frame table and its eviction     *)
(* (vm/frame.c), swap (vm/swap.c), mapped files (vm/mmap.c) and the        *)
(* pinning of system call buffers.  Each process has at most one kernel    *)
(* path of several steps open; user accesses of other processes come       *)
(* between the steps.  A failed assertion or a jump through a null         *)
(* pointer sets panic, and nothing happens after it.                       *)
(***************************************************************************)
EXTENDS AddressSpace

CONSTANTS Proc,
          FRAMES,          \* pages of the user pool
          Slot,            \* the slots of the swap device, a page each
          MAX_STACK_SIZE,
          PUSH, PUSHA,     \* how far below esp PUSH and PUSHA write
          Data,            \* values a program stores
          Exe,             \* the units of the executable all processes run
          Segments,        \* its PT_LOAD headers
          File,            \* the initial units of each file a process maps
          FileOf,          \* the files each process maps
          Touch,           \* the addresses each process uses
          Buffers, BUFFER, \* where each process has a buffer, and its size
          MapAddr,         \* the addresses files are mapped at
          Serial           \* page faults, unmappings and exits do not overlap

VARIABLES proc, ft, mem, swap, files, panic

vars == <<proc, ft, mem, swap, files, panic>>

KPage == 0 .. FRAMES - 1
TAIL == FRAMES    \* list_end (&frame_table)
ZeroPage == [i \in Offset |-> 0]
FreedPage == [i \in Offset |-> -1]    \* palloc_free_page overwrites the page
NoFrame == [upage |-> NULL, process |-> NULL, pinned |-> FALSE]

ASSUME VmAssumption ==
    /\ {FRAMES, PUSH, PUSHA, BUFFER} \subseteq Nat \ {0}
    /\ PUSHA <= PGSIZE /\ PUSH <= PUSHA
    /\ MAX_STACK_SIZE > PGSIZE
    /\ Serial \in BOOLEAN
    /\ 0 \notin Data
    /\ \A p \in Proc : FileOf[p] \subseteq DOMAIN File
    /\ \A p, q \in Proc : p # q => FileOf[p] \cap FileOf[q] = {}

(* The address space of a process, and where its kernel path stands: step, *)
(* the page and frame it works on, the slot the page was in, the stack     *)
(* pages it still has to add, the step it goes back to, the mapping it     *)
(* removes, and the buffer of its system call.                             *)
NewProcess ==
    [step |-> "new", pd |-> pagedir_create, spt |-> << >>, mmap_list |-> << >>,
     last_stack_page |-> PHYS_BASE, grows |-> 0, lock |-> NULL,
     page |-> 0, kpage |-> NULL, slot |-> IN_FILE, grow |-> 0, ret |-> "user", id |-> 0,
     buffer |-> {}, unpinned |-> << >>]

Init ==
    /\ proc = [p \in Proc |-> NewProcess]
    /\ ft = [list |-> << >>, cursor |-> NULL, frame |-> [k \in KPage |-> NoFrame]]
    /\ mem = [k \in KPage |-> FreedPage]
    /\ swap = << >>
    /\ files = File
    /\ panic = FALSE

PANIC == panic' = TRUE /\ UNCHANGED <<proc, ft, mem, swap, files>>

(* The steps during which a process uses the tables of the others. *)
Busy == {"alloc", "clear", "save", "install", "load", "unmap", "destroy"}
Quiet(p) == Serial => \A q \in Proc \ {p} : proc[q].step \notin Busy

Running(p) == ~panic /\ proc[p].step = "user"

-----------------------------------------------------------------------------
(* What the kernel paths start with.                                       *)

(* A path that needs a frame for page u, whose contents are in slot. *)
Alloc(pr, u, slot, grow, ret) ==
    [pr EXCEPT !.step = "alloc", !.page = u, !.slot = slot, !.grow = grow, !.ret = ret]

(* thread_exit: munmap_all first, then pagedir_destroy. *)
Exit(pr) ==
    IF pr.mmap_list = << >> THEN [pr EXCEPT !.step = "destroy"]
    ELSE [pr EXCEPT !.step = "unmap", !.id = pr.mmap_list[1].id,
                    !.page = pg_no(pr.mmap_list[1].addr), !.ret = "destroy"]

stack_growth(pr, n) ==
    IF (pr.grows + n) * PGSIZE >= MAX_STACK_SIZE THEN Exit(pr)
    ELSE Alloc(pr, pg_no(pr.last_stack_page) - 1, IN_FILE, n, "user")

(* C division truncates: esp may be above the last stack page. *)
is_stack_page_fault(pr, fault_addr, esp) ==
    IF \/ esp - fault_addr \in {PUSH, PUSHA}
       \/ fault_addr >= esp /\ fault_addr < pr.last_stack_page
    THEN (IF esp <= pr.last_stack_page THEN (pr.last_stack_page - esp) \div PGSIZE
          ELSE -((esp - pr.last_stack_page) \div PGSIZE)) + 1
    ELSE 0

(* Under the lock of the process, unless the page is mapped. *)
load_page_lazy(pr, u, ret) ==
    IF pr.spt[u].slot = MAPPED
    THEN IF get_mapped_file_from_page_pointer(pr.mmap_list, pg_addr(u)) = NULL
         THEN Exit(pr)
         ELSE Alloc(pr, u, MAPPED, 0, ret)
    ELSE Alloc([pr EXCEPT !.spt[u].slot = IN_FILE], u, pr.spt[u].slot, 0, ret)

(* The lock load_page_lazy takes for a page that is not mapped. *)
CanLoad(p, u) == proc[p].spt[u].slot = MAPPED \/ proc[p].lock = NULL

-----------------------------------------------------------------------------
(* User programs.                                                          *)

load(p) ==
    /\ ~panic /\ proc[p].step = "new" /\ Quiet(p)
    /\ LET valid == \A i \in DOMAIN Segments : validate_segment(Segments[i], Len(Exe))
           spt == FoldLeft(LoadSegment, << >>, Segments)
           pr == proc[p]
       IN proc' = [proc EXCEPT ![p] = IF valid THEN stack_growth([pr EXCEPT !.spt = spt], 1)
                                      ELSE Exit(pr)]
    /\ UNCHANGED <<ft, mem, swap, files, panic>>

(* The processor sets the accessed and dirty bits. *)
Fetch(p, a) ==
    /\ Running(p) /\ proc[p].pd[pg_no(a)].P
    /\ proc' = [proc EXCEPT ![p].pd = pagedir_set_accessed(@, pg_no(a), TRUE)]
    /\ UNCHANGED <<ft, mem, swap, files, panic>>

Store(p, a, v) ==
    LET pte == proc[p].pd[pg_no(a)]
    IN /\ Running(p) /\ pte.P /\ pte.W
       /\ proc' = [proc EXCEPT ![p].pd[pg_no(a)] = [pte EXCEPT !.A = TRUE, !.D = TRUE]]
       /\ mem' = [mem EXCEPT ![pte.kpage][pg_ofs(a)] = v]
       /\ UNCHANGED <<ft, swap, files, panic>>

page_fault(p, a, esp) ==
    LET u == pg_no(a)  pr == proc[p]
        missing == is_stack_page_fault(pr, a, esp)
    IN /\ Running(p) /\ Quiet(p) /\ ~pr.pd[u].P
       /\ u \in DOMAIN pr.spt => CanLoad(p, u)
       /\ proc' = [proc EXCEPT ![p] = IF u \in DOMAIN pr.spt THEN load_page_lazy(pr, u, "user")
                                      ELSE IF missing > 0 THEN stack_growth(pr, missing)
                                      ELSE Exit(pr)]
       /\ UNCHANGED <<ft, mem, swap, files, panic>>

(* A store to a page that is present and read-only, or the exit call. *)
thread_exit(p) ==
    /\ Running(p) /\ Quiet(p)
    /\ proc' = [proc EXCEPT ![p] = Exit(@)]
    /\ UNCHANGED <<ft, mem, swap, files, panic>>

-----------------------------------------------------------------------------
(* Frames.                                                                 *)

user_pool == KPage \ Range(ft.list)

ft_insert_frame(k) == [ft EXCEPT !.list = Append(@, k), !.frame[k] = [NoFrame EXCEPT !.pinned = TRUE]]

(* palloc_get_page found a page: it enters the frame table pinned. *)
AllocFree(p) ==
    LET k == Min(user_pool)
    IN /\ ~panic /\ proc[p].step = "alloc" /\ user_pool # {}
       /\ ft' = ft_insert_frame(k)
       /\ proc' = [proc EXCEPT ![p].step = "install", ![p].kpage = k]
       /\ UNCHANGED <<mem, swap, files, panic>>

Accessed(k) == pagedir_is_accessed(proc[ft.frame[k].process].pd, ft.frame[k].upage)

(* Not pinned, and the lock of its process can be had. *)
Victim(k) == ~ft.frame[k].pinned /\ proc[ft.frame[k].process].lock = NULL

(* The frames from the one after the cursor, once round the table. *)
FromCursor ==
    LET i == IF ft.cursor = NULL THEN 0 ELSE SelectInSeq(ft.list, LAMBDA k : k = ft.cursor)
    IN SubSeq(ft.list, i + 1, Len(ft.list)) \o SubSeq(ft.list, 1, i)

(* ft_get_lru_frame under ft_lock: the first victim that was not accessed, *)
(* or after a whole round, which clears every accessed bit, the first one. *)
(* The frames passed over lose their accessed bit.  Without a victim the   *)
(* loop does not end.  A cursor at the tail fails list_next's assertion.   *)
ft_get_lru_frame(p) ==
    LET first == SelectInSeq(FromCursor, LAMBDA k : Victim(k) /\ ~Accessed(k))
        second == SelectInSeq(FromCursor, Victim)
        i == IF first # 0 THEN first ELSE second
        passed == IF first # 0 THEN {FromCursor[j] : j \in 1 .. first - 1} ELSE Range(ft.list)
        k == FromCursor[i]
        owner == ft.frame[k].process
        Clear(q, u) == \E j \in passed : ft.frame[j].process = q /\ ft.frame[j].upage = u
    IN /\ ~panic /\ proc[p].step = "alloc" /\ user_pool = {}
       /\ IF ft.cursor = TAIL THEN PANIC
          ELSE /\ i # 0
               /\ ft' = [ft EXCEPT !.cursor = k, !.frame[k].pinned = TRUE]
               /\ proc' = [q \in Proc |->
                     LET pd == [u \in UPage |-> IF Clear(q, u) THEN [proc[q].pd[u] EXCEPT !.A = FALSE]
                                                ELSE proc[q].pd[u]]
                         lock == IF q = owner THEN p ELSE proc[q].lock
                     IN IF q = p THEN [proc[q] EXCEPT !.pd = pd, !.lock = lock, !.step = "clear", !.kpage = k]
                        ELSE [proc[q] EXCEPT !.pd = pd, !.lock = lock]]
               /\ UNCHANGED <<mem, swap, files, panic>>

(* ft_evict_frame first marks the page not present in its owner's table. *)
ClearVictim(p) ==
    LET f == ft.frame[proc[p].kpage]
    IN /\ ~panic /\ proc[p].step = "clear"
       /\ proc' = [proc EXCEPT ![f.process].pd = pagedir_clear_page(@, f.upage), ![p].step = "save"]
       /\ UNCHANGED <<ft, mem, swap, files, panic>>

(* bitmap_scan_and_flip takes a free slot: which one does not matter, so   *)
(* any; -1 without one is the mark of a page that is not in swap.  swap    *)
(* holds the slots in use; what a free slot holds is not kept.             *)
swap_out == IF DOMAIN swap = Slot THEN {IN_FILE} ELSE Slot \ DOMAIN swap

save_page_mm(m, u, k) ==
    LET ofs == pg_addr(u) - m.addr
    IN [files EXCEPT ![m.file] = [i \in DOMAIN @ |->
          IF i > ofs /\ i <= ofs + BytesAt(m.size, ofs) THEN mem[k][i - ofs - 1] ELSE @[i]]]

(* Whether a page that is not mapped goes to swap. *)
ToSwap(spte, dirty) == dirty \/ spte.read = 0

(* The rest of ft_evict_frame, and ft_alloc_frame up to the release of the *)
(* owner's lock, which ignores what ft_evict_frame returns.                *)
SaveVictim(p) ==
    LET k == proc[p].kpage  f == ft.frame[k]  pr == proc[f.process]
        dirty == pagedir_is_dirty(pr.pd, f.upage)
        spte == pr.spt[f.upage]
        m == get_mapped_file_from_page_pointer(pr.mmap_list, pg_addr(f.upage))
        Done(slot) == proc' = [proc EXCEPT ![f.process].lock = NULL, ![f.process].spt[f.upage].slot = slot,
                                           ![f.process].pd = Forget(@, f.upage), ![p].step = "install"]
    IN /\ ~panic /\ proc[p].step = "save"
       /\ IF f.upage \notin DOMAIN pr.spt THEN PANIC
          ELSE IF spte.slot = MAPPED /\ dirty /\ m = NULL THEN PANIC
          ELSE
          \/ /\ spte.slot = MAPPED
             /\ files' = IF dirty THEN save_page_mm(m, f.upage, k) ELSE files
             /\ Done(MAPPED)
             /\ UNCHANGED <<ft, mem, swap, panic>>
          \/ /\ spte.slot # MAPPED /\ ToSwap(spte, dirty)
             /\ \E s \in swap_out :
                   /\ swap' = IF s = IN_FILE THEN swap ELSE (s :> mem[k]) @@ swap
                   /\ Done(s)
             /\ UNCHANGED <<ft, mem, files, panic>>
          \/ /\ spte.slot # MAPPED /\ ~ToSwap(spte, dirty)
             /\ Done(spte.slot)
             /\ UNCHANGED <<ft, mem, swap, files, panic>>

Unpinned(p, u) == [upage |-> u, process |-> p, pinned |-> FALSE]

(* The rest of ft_alloc_frame.  It unpins the frame before the caller has  *)
(* read the page; a page that is already mapped makes the callers panic.   *)
Install(p) ==
    LET pr == proc[p]
        writable == pr.grow > 0 \/ pr.slot = MAPPED \/ pr.spt[pr.page].writable
    IN /\ ~panic /\ pr.step = "install"
       /\ IF pagedir_get_page(pr.pd, pr.page) # NULL THEN PANIC
          ELSE /\ ft' = [ft EXCEPT !.frame[pr.kpage] = Unpinned(p, pr.page)]
               /\ mem' = IF pr.slot = MAPPED THEN [mem EXCEPT ![pr.kpage] = ZeroPage] ELSE mem
               /\ proc' = [proc EXCEPT ![p].pd = pagedir_set_page(@, pr.page, pr.kpage, writable),
                                       ![p].step = "load"]
               /\ UNCHANGED <<swap, files, panic>>

-----------------------------------------------------------------------------
(* Contents.                                                               *)

(* What a page holds whose table entry is spte and that has no frame. *)
Contents(pr, u, spte) ==
    IF spte.slot \in Slot THEN swap[spte.slot]
    ELSE IF spte.slot = MAPPED
    THEN LET m == get_mapped_file_from_page_pointer(pr.mmap_list, pg_addr(u))
             ofs == pg_addr(u) - m.addr
         IN IF m = NULL THEN ZeroPage ELSE PageOf(files[m.file], ofs, BytesAt(m.size, ofs))
    ELSE PageOf(Exe, spte.ofs, spte.read)

(* The page is read, then the slot is free again. *)
swap_in(slot) == Restrict(swap, DOMAIN swap \ {slot})

(* Mutant: a page read back from swap is taken for clean. *)
SwappedIn_clean(pd, u) == pd

(* The slot is gone, so the page has to be written again. *)
SwappedIn(pd, u) == pagedir_set_dirty(pd, u, TRUE)

(* After the stack has grown by the page that was loaded. *)
Grown(pr) ==
    LET more == [pr EXCEPT !.last_stack_page = pg_addr(pr.page), !.grows = @ + 1,
                           !.spt = supl_pt_insert(@, pr.page, Spte(0, 0, TRUE, IN_FILE))]
    IN IF pr.grow > 1 THEN [more EXCEPT !.step = "alloc", !.page = @ - 1, !.grow = @ - 1]
       ELSE [more EXCEPT !.step = "user", !.grow = 0]

(* load_page and load_page_mm after ft_alloc_frame: the page is filled and *)
(* the frame is asserted to be still this page's.                          *)
FinishLoad(p) ==
    LET pr == proc[p]  u == pr.page
        page == IF pr.grow > 0 THEN ZeroPage
                ELSE Contents(pr, u, [pr.spt[u] EXCEPT !.slot = pr.slot])
        pd == IF pr.slot \in Slot THEN SwappedIn(pr.pd, u) ELSE pr.pd
        next == IF pr.grow > 0 THEN Grown(pr) ELSE [pr EXCEPT !.step = pr.ret]
        f == ft.frame[pr.kpage]
    IN /\ ~panic /\ pr.step = "load"
       /\ mem' = [mem EXCEPT ![pr.kpage] = page]
       /\ swap' = swap_in(pr.slot)
       /\ proc' = [proc EXCEPT ![p] = [next EXCEPT !.pd = pd, !.kpage = NULL, !.slot = IN_FILE,
                                             !.page = IF next.step = "alloc" THEN @ ELSE 0,
                                             !.ret = IF next.step = "alloc" THEN @ ELSE "user"]]
       /\ panic' = (f.upage # u \/ f.process # p)
       /\ UNCHANGED <<ft, files>>

-----------------------------------------------------------------------------
(* Mapped files.                                                           *)

(* The loop of syscall_mmap over n pages from u, with its rollback. *)
InsertMapped(spt, u, n) ==
    LET Undo(t, k) == supl_pt_remove_spte(t, pg_addr(u + k))
        Insert(t, k) == supl_pt_insert(t, u + k, Spte(0, 0, TRUE, MAPPED))
        pages == [k \in 1 .. n |-> k - 1]
        conflict == SelectInSeq(pages, LAMBDA k : u + k \in DOMAIN spt)
        done == IF conflict = 0 THEN n ELSE conflict - 1
        spt1 == FoldLeft(Insert, spt, SubSeq(pages, 1, done))
    IN IF conflict = 0 THEN spt1 ELSE FoldLeft(Undo, spt1, SubSeq(pages, 1, done))

(* Only a process that has not mapped the file yet: two mappings of one    *)
(* file do not see each other's stores.                                    *)
syscall_mmap(p, f, a) ==
    LET pr == proc[p]
        size == Len(files[f])
        n == ROUND_UP(size) \div PGSIZE
        ok == \A k \in 0 .. n - 1 : pg_no(a) + k \notin DOMAIN pr.spt
        m == [id |-> mfd_create(pr.mmap_list), file |-> f, addr |-> a, size |-> size]
    IN /\ Running(p) /\ pg_ofs(a) = 0 /\ a # 0
       /\ \A i \in DOMAIN pr.mmap_list : pr.mmap_list[i].file # f
       /\ proc' = [proc EXCEPT ![p].spt = InsertMapped(@, pg_no(a), n),
                               ![p].mmap_list = IF ok THEN Append(@, m) ELSE @]
       /\ UNCHANGED <<ft, mem, swap, files, panic>>

syscall_munmap(p, id) ==
    LET i == mfd_get_file(proc[p].mmap_list, id)
    IN /\ Running(p) /\ Quiet(p) /\ i # 0
       /\ proc' = [proc EXCEPT ![p].step = "unmap", ![p].id = id, ![p].ret = "user",
                               ![p].page = pg_no(proc[p].mmap_list[i].addr)]
       /\ UNCHANGED <<ft, mem, swap, files, panic>>

(* Mutant: the cursor stays on a frame that leaves the table. *)
ft_remove_frame_stale(k) == [ft EXCEPT !.list = Remove(@, k), !.frame[k] = NoFrame]

(* The cursor moves on when its frame leaves the table. *)
ft_remove_frame(k) ==
    LET i == SelectInSeq(ft.list, LAMBDA j : j = k)
        next == IF i = Len(ft.list) THEN TAIL ELSE ft.list[i + 1]
    IN [list |-> Remove(ft.list, k), frame |-> [ft.frame EXCEPT ![k] = NoFrame],
        cursor |-> IF ft.cursor = k THEN next ELSE ft.cursor]

(* ft_evict_frame of a page that is unmapped. *)
UnmapSave(p, m, u, k) ==
    IF pagedir_is_dirty(proc[p].pd, u) THEN save_page_mm(m, u, k) ELSE files

(* mummap_wrapped, one page of the mapping at a time. *)
UnmapPage(p) ==
    LET pr == proc[p]  u == pr.page
        m == pr.mmap_list[mfd_get_file(pr.mmap_list, pr.id)]
        k == pagedir_get_page(pr.pd, u)
        rest == [pr EXCEPT !.spt = supl_pt_remove_spte(@, pg_addr(u)), !.page = u + 1]
    IN /\ ~panic /\ pr.step = "unmap" /\ pg_addr(u) < m.addr + m.size
       /\ IF k = NULL
          THEN /\ proc' = [proc EXCEPT ![p] = rest]
               /\ UNCHANGED <<ft, mem, files>>
          ELSE /\ ~ft.frame[k].pinned /\ pr.lock = NULL
               /\ proc' = [proc EXCEPT ![p] = [rest EXCEPT !.pd = Forget(@, u)]]
               /\ files' = UnmapSave(p, m, u, k)
               /\ ft' = ft_remove_frame(k)
               /\ mem' = [mem EXCEPT ![k] = FreedPage]
       /\ UNCHANGED <<swap, panic>>

(* mf_remove_file under the lock; munmap_all goes on with the next one. *)
UnmapDone(p) ==
    LET pr == proc[p]
        i == mfd_get_file(pr.mmap_list, pr.id)
        m == pr.mmap_list[i]
        rest == [pr EXCEPT !.mmap_list = RemoveAt(@, i), !.id = 0, !.ret = "user", !.page = 0]
    IN /\ ~panic /\ pr.step = "unmap" /\ pg_addr(pr.page) >= m.addr + m.size /\ pr.lock = NULL
       /\ proc' = [proc EXCEPT ![p] = IF pr.ret = "destroy" THEN Exit(rest) ELSE [rest EXCEPT !.step = "user"]]
       /\ UNCHANGED <<ft, mem, swap, files, panic>>

Present(pr) == {u \in UPage : pr.pd[u].P}

(* pagedir_destroy frees the pages in the order of the page tables; it     *)
(* waits for a frame that is pinned.  Swap slots are not given back.       *)
DestroyPage(p) ==
    LET u == Min(Present(proc[p]))  k == proc[p].pd[u].kpage
    IN /\ ~panic /\ proc[p].step = "destroy" /\ Present(proc[p]) # {}
       /\ ~ft.frame[k].pinned
       /\ proc' = [proc EXCEPT ![p].pd = Forget(@, u)]
       /\ ft' = ft_remove_frame(k)
       /\ mem' = [mem EXCEPT ![k] = FreedPage]
       /\ UNCHANGED <<swap, files, panic>>

DestroyDone(p) ==
    /\ ~panic /\ proc[p].step = "destroy" /\ Present(proc[p]) = {}
    /\ proc' = [proc EXCEPT ![p] = [NewProcess EXCEPT !.step = "exited"]]
    /\ UNCHANGED <<ft, mem, swap, files, panic>>

-----------------------------------------------------------------------------
(* System calls that use a buffer.                                         *)

(* The buffer was checked: its pages belong to the process and it may      *)
(* write them.                                                             *)
syscall_read(p, a, size) ==
    LET pages == {pg_no(b) : b \in a .. a + size - 1}
    IN /\ Running(p)
       /\ \A u \in pages : u \in DOMAIN proc[p].spt /\ proc[p].spt[u].writable
       /\ proc' = [proc EXCEPT ![p].step = "pin", ![p].buffer = a .. a + size - 1,
                               ![p].unpinned = SetToSortSeq(pages, <)]
       /\ UNCHANGED <<ft, mem, swap, files, panic>>

(* The loop of preload_and_pin_pages: a page that is not there is loaded,  *)
(* and the loop comes back to it; a pinned one is tried again.             *)
PreloadPage(p) ==
    LET pr == proc[p]  u == Head(pr.unpinned)
    IN /\ ~panic /\ pr.step = "pin" /\ pr.unpinned # << >>
       /\ ~pr.pd[u].P /\ Quiet(p) /\ CanLoad(p, u)
       /\ proc' = [proc EXCEPT ![p] = load_page_lazy(pr, u, "pin")]
       /\ UNCHANGED <<ft, mem, swap, files, panic>>

PinPage(p) ==
    LET pr == proc[p]  k == pr.pd[Head(pr.unpinned)].kpage
    IN /\ ~panic /\ pr.step = "pin" /\ pr.unpinned # << >>
       /\ pr.pd[Head(pr.unpinned)].P /\ ~ft.frame[k].pinned
       /\ ft' = [ft EXCEPT !.frame[k].pinned = TRUE]
       /\ proc' = [proc EXCEPT ![p].unpinned = Tail(@)]
       /\ UNCHANGED <<mem, swap, files, panic>>

(* file_read into the buffer with file_sys_lock held, then                 *)
(* ft_unpin_frames.  A page fault here would take the lock again.          *)
FileRead(p, v) ==
    LET pr == proc[p]
        pages == {pg_no(b) : b \in pr.buffer}
        kpages == {pr.pd[u].kpage : u \in pages}
        Filled(k) == [i \in Offset |->
            IF \E b \in pr.buffer : pr.pd[pg_no(b)].kpage = k /\ pg_ofs(b) = i THEN v ELSE mem[k][i]]
    IN /\ ~panic /\ pr.step = "pin" /\ pr.unpinned = << >>
       /\ IF \E u \in pages : ~pr.pd[u].P THEN PANIC
          ELSE /\ mem' = [k \in KPage |-> IF k \in kpages THEN Filled(k) ELSE mem[k]]
               /\ ft' = [ft EXCEPT !.frame = [k \in KPage |->
                            IF k \in kpages THEN [@[k] EXCEPT !.pinned = FALSE] ELSE @[k]]]
               /\ proc' = [proc EXCEPT ![p].step = "user", ![p].buffer = {},
                             ![p].pd = [u \in UPage |-> IF u \in pages THEN [@[u] EXCEPT !.A = TRUE, !.D = TRUE]
                                                        ELSE @[u]]]
               /\ UNCHANGED <<swap, files, panic>>

-----------------------------------------------------------------------------
KernelStep(p) ==
    \/ AllocFree(p) \/ ft_get_lru_frame(p) \/ ClearVictim(p) \/ SaveVictim(p)
    \/ Install(p) \/ FinishLoad(p) \/ UnmapPage(p) \/ UnmapDone(p)
    \/ DestroyPage(p) \/ DestroyDone(p) \/ PreloadPage(p) \/ PinPage(p)
    \/ \E v \in Data : FileRead(p, v)

UserStep(p) ==
    \/ load(p) \/ thread_exit(p)
    \/ \E a \in Touch[p] :
          \/ Fetch(p, a)
          \/ \E v \in Data : Store(p, a, v)
          \/ \E esp \in {a, a + PUSH, a + PUSHA} : page_fault(p, a, esp)
    \/ \E a \in Buffers[p] : syscall_read(p, a, BUFFER)
    \/ \E f \in FileOf[p], a \in MapAddr : syscall_mmap(p, f, a)
    \/ \E i \in DOMAIN proc[p].mmap_list : syscall_munmap(p, proc[p].mmap_list[i].id)

Next == \E p \in Proc : KernelStep(p) \/ UserStep(p)

Spec == Init /\ [][Next]_vars

-----------------------------------------------------------------------------
(* Properties.                                                             *)

Loading(p, u) == proc[p].step \in Busy \ {"unmap", "destroy"} /\ proc[p].grow = 0 /\ proc[p].page = u

SavedFrom(p, u) ==
    {k \in KPage : /\ ft.frame[k].process = p /\ ft.frame[k].upage = u
                  /\ \E q \in Proc : proc[q].step = "save" /\ proc[q].kpage = k}

(* What process p finds in page u: its frame, or the place the page will   *)
(* be read from.  A mapped page counts as far as its file reaches.         *)
Image(p, u) ==
    LET pr == proc[p]
        page == IF Loading(p, u) THEN Contents(pr, u, [pr.spt[u] EXCEPT !.slot = pr.slot])
                ELSE IF pr.pd[u].P THEN mem[pr.pd[u].kpage]
                ELSE IF SavedFrom(p, u) # {} THEN mem[CHOOSE k \in SavedFrom(p, u) : TRUE]
                ELSE Contents(pr, u, pr.spt[u])
        m == get_mapped_file_from_page_pointer(pr.mmap_list, pg_addr(u))
    IN IF pr.spt[u].slot = MAPPED /\ m # NULL
       THEN [i \in 0 .. BytesAt(m.size, pg_addr(u) - m.addr) - 1 |-> page[i]]
       ELSE page

(* Paging is invisible (ft_evict_frame, swap_in, load_page): the contents  *)
(* of a page of a live process change only when that process stores into   *)
(* it or has a file read into it, whatever is evicted, swapped and loaded  *)
(* in between.                                                             *)
ImageKept ==
    [][\A p \in Proc : \A u \in DOMAIN proc[p].spt :
          (/\ proc[p].step # "destroy" /\ u \in DOMAIN proc'[p].spt
           /\ Image(p, u)' # Image(p, u)) =>
             /\ proc[p].step \in {"user", "pin"} /\ proc'[p].step = "user"
             /\ proc[p].pd[u].P /\ proc[p].pd[u].W /\ proc'[p].pd[u].D]_vars

(* mummap_wrapped: when a page leaves a mapping, by munmap or at exit, the *)
(* file holds what the process had in the page, even if it was evicted.    *)
UnmapSaves ==
    [][\A p \in Proc : \A u \in DOMAIN proc[p].spt :
          (proc[p].step = "unmap" /\ u \notin DOMAIN proc'[p].spt) =>
             LET m == proc[p].mmap_list[mfd_get_file(proc[p].mmap_list, proc[p].id)]
                 ofs == pg_addr(u) - m.addr
             IN \A i \in DOMAIN Image(p, u) : files'[m.file][ofs + i + 1] = Image(p, u)[i]]_vars

(* Nothing a process stored is lost: paging does not change its pages, and *)
(* what it had in a mapping is in the file when the mapping ends.          *)
ContentsKept == ImageKept /\ UnmapSaves

(* The frame table is the inverse of the page tables: a page that is       *)
(* present has the frame that names it, an unpinned frame is mapped by the *)
(* process it names, and the cursor never points at a freed frame.         *)
FramesAgree ==
    /\ \A p \in Proc : \A u \in Present(proc[p]) :
          LET k == proc[p].pd[u].kpage
          IN k \in Range(ft.list) /\ ft.frame[k].process = p /\ ft.frame[k].upage = u
    /\ \A k \in Range(ft.list) : ~ft.frame[k].pinned =>
          LET pte == proc[ft.frame[k].process].pd[ft.frame[k].upage]
          IN pte.P /\ pte.kpage = k
    /\ ft.cursor \in Range(ft.list) \cup {NULL, TAIL}

SlotRefs ==
    {<<p, u>> \in Proc \X UPage : u \in DOMAIN proc[p].spt /\ proc[p].spt[u].slot \in Slot}

(* swap_out, swap_in and the spte agree: a slot belongs to one page, no    *)
(* page's slot is free, and while no process has ended no slot is lost.    *)
SlotsOwned ==
    LET loading == {p \in Proc : proc[p].slot \in Slot}
        owned == {proc[r[1]].spt[r[2]].slot : r \in SlotRefs} \cup {proc[p].slot : p \in loading}
    IN /\ Cardinality(owned) = Cardinality(SlotRefs) + Cardinality(loading)
       /\ owned \subseteq DOMAIN swap
       /\ (\A p \in Proc : proc[p].step \notin {"destroy", "exited"}) => owned = DOMAIN swap

(* preload_and_pin_pages: the pages a system call has pinned stay present  *)
(* until it unpins them, so that file_read, which holds file_sys_lock,     *)
(* does not fault.                                                         *)
PinnedStay ==
    \A p \in Proc : \A b \in proc[p].buffer :
        (\A i \in DOMAIN proc[p].unpinned : proc[p].unpinned[i] # pg_no(b)) =>
            /\ proc[p].pd[pg_no(b)].P
            /\ ft.frame[proc[p].pd[pg_no(b)].kpage].pinned

(* syscall_mmap and its rollback: every page marked as mapped lies in a    *)
(* mapping of the process, and mappings do not overlap.                    *)
MappedBacked ==
    \A p \in Proc : \A u \in DOMAIN proc[p].spt : proc[p].spt[u].slot = MAPPED =>
        LET in == {i \in DOMAIN proc[p].mmap_list :
                     /\ proc[p].mmap_list[i].addr <= pg_addr(u)
                     /\ pg_addr(u) < proc[p].mmap_list[i].addr + proc[p].mmap_list[i].size}
        IN Cardinality(in) = 1

Phdr == [offset : 0 .. Len(Exe) + 1, vaddr : 0 .. WORD - 1, filesz : 0 .. Len(Exe) + 1,
         memsz : 0 .. WORD - 1, writable : {TRUE}]

(* validate_segment and load_segment, for every program header: an         *)
(* accepted segment stays inside the user pages above page 0 and each      *)
(* address of it holds the unit of the file it should, or zero.            *)
LoadMeetsElf ==
    (\A p \in Proc : proc[p].step = "new") =>
    \A ph \in Phdr : validate_segment(ph, Len(Exe)) =>
        LET spt == LoadSegment(<< >>, ph)
        IN /\ DOMAIN spt = pg_no(ph.vaddr) .. pg_no(ph.vaddr + ph.memsz - 1)
           /\ DOMAIN spt \subseteq UPage \ {0}
           /\ \A a \in ph.vaddr .. ph.vaddr + ph.memsz - 1 :
                 LET spte == spt[pg_no(a)]
                     i == a - ph.vaddr
                 IN PageOf(Exe, spte.ofs, spte.read)[pg_ofs(a)] =
                    IF i < ph.filesz /\ ph.offset + i < Len(Exe) THEN Exe[ph.offset + i + 1] ELSE 0

(* stack_growth: the stack is one run of pages below PHYS_BASE, each with  *)
(* its table entry, and stays below MAX_STACK_SIZE.                        *)
StackBounded ==
    \A p \in Proc :
        LET pr == proc[p]
        IN /\ pr.last_stack_page = PHYS_BASE - (pr.grows * PGSIZE)
           /\ pr.grows * PGSIZE < MAX_STACK_SIZE
           /\ \A u \in pg_no(pr.last_stack_page) .. UPAGES - 1 : u \in DOMAIN pr.spt

(* ft_get_lru_frame loops with ft_lock held until it finds a victim: while *)
(* a process needs one, some frame is neither pinned nor locked.           *)
VictimExists ==
    (user_pool = {} /\ \E p \in Proc : proc[p].step = "alloc") => \E k \in KPage : Victim(k)

(* The tables of the memory manager agree with each other after every step *)
(* of every process: frames with page directories, slots with pages, pins  *)
(* with the calls that made them, mappings and stacks with the             *)
(* supplemental page tables, and the eviction finds a victim.              *)
TablesAgree ==
    /\ FramesAgree /\ SlotsOwned /\ PinnedStay /\ MappedBacked /\ StackBounded
    /\ VictimExists

(* load_page and load_page_mm assert, after they have filled it, that the   *)
(* frame is still the one of the page that was asked for.                  *)
LoadKeepsFrame ==
    \A p \in Proc : proc[p].step = "load" =>
        ft.frame[proc[p].kpage].upage = proc[p].page /\ ft.frame[proc[p].kpage].process = p

=============================================================================
