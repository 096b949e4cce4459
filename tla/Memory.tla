------------------------------- MODULE Memory -------------------------------
(***************************************************************************)
(* The page allocator (threads/palloc.c) and malloc (threads/malloc.c):    *)
(* two pools of pages, and on the kernel pool arenas of equal blocks, one  *)
(* free list per block size.                                               *)
(*                                                                         *)
(* An address is a number; page p starts at p * PGSIZE.  Calls exclude     *)
(* each other by the locks of the pools and descriptors.                   *)
(***************************************************************************)
EXTENDS Integers, Sequences
LOCAL INSTANCE FiniteSets
LOCAL INSTANCE FiniteSetsExt

CONSTANTS
  NULL,
  PGSIZE,
  ARENA,            \* sizeof (struct arena)
  MIN_BLOCK,        \* the smallest block size
  RAM_PAGES,        \* the pages after the first megabyte, from page 1
  user_page_limit,
  BITMAP_PAGES,     \* the pages a pool's bitmap takes
  Sizes,            \* the sizes requested
  MaxLive           \* bound: blocks in use

VARIABLES
  used,        \* the used_map of both pools: the pages in use
  arena,       \* the arena header of each page, or NULL
  free_list,   \* the free blocks of each descriptor
  live         \* history: the blocks in use and the sizes asked for

vars == <<used, arena, free_list, live>>
-----------------------------------------------------------------------------
(* Pages.                                                                  *)

DIV_ROUND_UP(x, step) == (x + step - 1) \div step

(* palloc_init: at most user_page_limit pages, and at most half, for users. *)
user_pages == Min({RAM_PAGES \div 2, user_page_limit})
kernel_pages == RAM_PAGES - user_pages

(* init_pool: the bitmap takes the first pages of the pool. *)
init_pool(base, page_cnt) == (base + BITMAP_PAGES)..(base + page_cnt - 1)

kernel_pool == init_pool(1, kernel_pages)
user_pool == init_pool(1 + kernel_pages, user_pages)

(* The first group of cnt free pages of a pool: bitmap_scan_and_flip. *)
palloc_get_multiple(pool, cnt) ==
  LET fits == {p \in pool : p..(p + cnt - 1) \subseteq pool \ used}
  IN  IF cnt = 0 \/ fits = {} THEN NULL ELSE Min(fits)
-----------------------------------------------------------------------------
(* Blocks.                                                                 *)

(* malloc_init: block sizes double while two blocks fit in a page. *)
BlockSizes == {s \in {MIN_BLOCK * 2 ^ i : i \in 0..9} : s < PGSIZE \div 2}
blocks_per_arena(d) == (PGSIZE - ARENA) \div d

pg_no(a) == a \div PGSIZE
block_to_arena(b) == pg_no(b)

arena_to_block(p, d, idx) == p * PGSIZE + ARENA + idx * d

ArenaBlocks(p, d) == [i \in 1..blocks_per_arena(d) |-> arena_to_block(p, d, i - 1)]

(* The smallest descriptor that satisfies a request, or NULL. *)
desc(size) ==
  LET fit == {d \in BlockSizes : d >= size} IN IF fit = {} THEN NULL ELSE Min(fit)

(* Mutant: a big block's header is not counted. *)
big_pages_tight(size) == DIV_ROUND_UP(size, PGSIZE)

big_pages(size) == DIV_ROUND_UP(size + ARENA, PGSIZE)

heap == [used |-> used, arena |-> arena, free_list |-> free_list, live |-> live]

(* malloc of a size no descriptor satisfies. *)
MallocBig(h, size) ==
  LET n == big_pages(size)
      p == palloc_get_multiple(kernel_pool, n)
      b == p * PGSIZE + ARENA
  IN  IF p = NULL THEN [ret |-> NULL, h |-> h]
      ELSE [ret |-> b,
            h |-> [h EXCEPT !.used = @ \cup (p..(p + n - 1)),
                            !.arena[p] = [desc |-> NULL, free_cnt |-> n],
                            !.live = @ \cup {[block |-> b, size |-> size]}]]

(* Getting a block from a free list that is not empty. *)
Pop(h, d, size) ==
  LET b == Head(h.free_list[d])
  IN  [ret |-> b,
       h |-> [h EXCEPT !.free_list[d] = Tail(@),
                       !.arena[block_to_arena(b)].free_cnt = @ - 1,
                       !.live = @ \cup {[block |-> b, size |-> size]}]]

NewArena(h, p, d) ==
  [h EXCEPT !.used = @ \cup {p},
            !.arena[p] = [desc |-> d, free_cnt |-> blocks_per_arena(d)],
            !.free_list[d] = @ \o ArenaBlocks(p, d)]

malloc(h, size) ==
  LET d == desc(size)
      p == palloc_get_multiple(kernel_pool, 1)
  IN  IF size = 0 THEN [ret |-> NULL, h |-> h]
      ELSE IF d = NULL THEN MallocBig(h, size)
      ELSE IF h.free_list[d] # <<>> THEN Pop(h, d, size)
      ELSE IF p = NULL THEN [ret |-> NULL, h |-> h]
      ELSE Pop(NewArena(h, p, d), d, size)

(* Whether free gives the page of an arena back. *)
unused(free_cnt, d) == free_cnt >= blocks_per_arena(d)

free(h, b) ==
  LET p == block_to_arena(b)
      a == h.arena[p]
      h1 == [h EXCEPT !.live = {x \in @ : x.block # b}]
      h2 == [h1 EXCEPT !.free_list[a.desc] = <<b>> \o @, !.arena[p].free_cnt = @ + 1]
  IN  IF a.desc = NULL
      THEN [h1 EXCEPT !.used = @ \ (p..(p + a.free_cnt - 1)), !.arena[p] = NULL]
      ELSE IF ~unused(a.free_cnt + 1, a.desc) THEN h2
      ELSE [h2 EXCEPT !.free_list[a.desc] = SelectSeq(@, LAMBDA x : block_to_arena(x) # p),
                      !.used = @ \ {p}, !.arena[p] = NULL]

(* The bytes a block has room for. *)
block_size(b) ==
  LET a == arena[block_to_arena(b)]
  IN  IF a.desc # NULL THEN a.desc ELSE PGSIZE * a.free_cnt - (b % PGSIZE)

(* realloc always moves: it gets a new block before it frees the old one. *)
realloc(h, b, size) ==
  LET m == malloc(h, size)
  IN  IF size = 0 THEN free(h, b) ELSE IF m.ret = NULL THEN h ELSE free(m.h, b)
-----------------------------------------------------------------------------
Init ==
  /\ used = {}
  /\ arena = [p \in kernel_pool \cup user_pool |-> NULL]
  /\ free_list = [d \in BlockSizes |-> <<>>]
  /\ live = {}

Become(h) ==
  used' = h.used /\ arena' = h.arena /\ free_list' = h.free_list /\ live' = h.live

Malloc(size) == Cardinality(live) < MaxLive /\ Become(malloc(heap, size).h)
Free(b) == Become(free(heap, b))
Realloc(b, size) == Become(realloc(heap, b, size))

(* A frame of the user pool is taken or given back. *)
GetUserPage ==
  /\ palloc_get_multiple(user_pool, 1) # NULL
  /\ used' = used \cup {palloc_get_multiple(user_pool, 1)}
  /\ UNCHANGED <<arena, free_list, live>>
palloc_free_page(p) ==
  /\ p \in used /\ p \in user_pool
  /\ used' = used \ {p}
  /\ UNCHANGED <<arena, free_list, live>>

Next ==
  \/ \E size \in Sizes : Malloc(size)
  \/ \E x \in live : Free(x.block)
  \/ \E x \in live, size \in Sizes \cup {0} : Realloc(x.block, size)
  \/ GetUserPage
  \/ \E p \in user_pool : palloc_free_page(p)
-----------------------------------------------------------------------------
Bytes(b, n) == b..(b + n - 1)
Header(p) == Bytes(p * PGSIZE, ARENA)

(* A block in use has the bytes that were asked for, inside pages that are *)
(* in use and that no header or other block overlaps.                      *)
BlocksDisjoint ==
  \A x \in live :
    LET room == Bytes(x.block, block_size(x.block))
    IN  /\ x.size <= block_size(x.block)
        /\ \A a \in room : pg_no(a) \in used \cap kernel_pool
        /\ \A p \in kernel_pool : arena[p] # NULL => room \cap Header(p) = {}
        /\ \A y \in live : y # x => room \cap Bytes(y.block, y.size) = {}

(* An arena's blocks are each in use or on the free list, once, and        *)
(* free_cnt counts the free ones.                                          *)
ArenasExact ==
  \A p \in kernel_pool : arena[p] # NULL /\ arena[p].desc # NULL =>
    LET d == arena[p].desc
        all == {ArenaBlocks(p, d)[i] : i \in 1..blocks_per_arena(d)}
        spare == {i \in DOMAIN free_list[d] : free_list[d][i] \in all}
    IN  /\ Cardinality(spare) = arena[p].free_cnt
        /\ all = {free_list[d][i] : i \in spare} \cup ({x.block : x \in live} \cap all)
        /\ \A i \in spare : free_list[d][i] \notin {x.block : x \in live}

(* A page of the kernel pool is in use only if a block in use lies in it:  *)
(* free gives back every page it can.                                      *)
NoPageLeaks ==
  used \cap kernel_pool = UNION {pg_no(x.block)..pg_no(x.block + block_size(x.block) - 1) : x \in live}
=============================================================================
