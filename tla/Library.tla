------------------------------ MODULE Library ------------------------------
(***************************************************************************)
(* The kernel's library: the containers of lib/kernel (lists, hash tables, *)
(* bitmaps), the page allocator and malloc, and the functions of lib on    *)
(* strings, paths, arrays, long integers, random numbers, formatted text   *)
(* and archive headers.                                                    *)
(*                                                                         *)
(* The parts share no state.  A behaviour exercises one part: it is any    *)
(* sequence of calls on the part's data, or, for the pure functions, one   *)
(* call after another with any of the part's inputs.                       *)
(***************************************************************************)
EXTENDS Integers, Sequences

CONSTANTS
  List, Elem, HashElem,  \* lists, and the elements of lists and hash tables
  NULL,
  key, hash,             \* an element's rank and its hash value
  MIN_BUCKETS, BEST_ELEMS_PER_BUCKET,
  ELEM_BITS, bit_cnt,
  W, R, Bits, NAME_MAX, NAME_SIZE, ULONG_MAX, INT_MAX,
  PGSIZE, ARENA, MIN_BLOCK, RAM_PAGES, user_page_limit, BITMAP_PAGES, Sizes, MaxLive,
  Inputs                 \* the inputs of each part made of pure functions

VARIABLES part, input, heap, op, h, found, b, saved, used, arena, free_list, live

memory == <<used, arena, free_list, live>>
containers == <<heap, op, h, found, b, saved, memory>>
vars == <<part, input, containers>>

(* Elements that compare equal have equal hash values. *)
ASSUME HashAssumption ==
  \A x, y \in HashElem : key[x] = key[y] => hash[x] = hash[y]

Lists   == INSTANCE Links
Hashes  == INSTANCE HashTable WITH Elem <- HashElem, ret <- found
Bitmaps == INSTANCE Bitmap
Mallocs == INSTANCE Memory
Strings == INSTANCE CString
Numbers == INSTANCE Stdlib
Prints  == INSTANCE Printf
Headers == INSTANCE Ustar

Init ==
  /\ part \in {"list", "hash", "bitmap", "memory"} \cup DOMAIN Inputs
  /\ input = NULL
  /\ Lists!Init
  /\ Hashes!Init
  /\ Bitmaps!Init
  /\ Mallocs!Init
  /\ part # "bitmap" => b = [i \in DOMAIN b |-> 0]

ListCall ==
  part = "list" /\ Lists!Next /\ UNCHANGED <<part, input, h, found, b, saved, memory>>
HashCall ==
  part = "hash" /\ Hashes!Next /\ UNCHANGED <<part, input, heap, op, b, saved, memory>>
BitmapCall ==
  part = "bitmap" /\ Bitmaps!Next /\ UNCHANGED <<part, input, heap, op, h, found, memory>>
MemoryCall ==
  part = "memory" /\ Mallocs!Next /\ UNCHANGED <<part, input, heap, op, h, found, b, saved>>

Call ==
  /\ part \in DOMAIN Inputs
  /\ input = NULL
  /\ \E i \in Inputs[part] : input' = i
  /\ UNCHANGED <<part, containers>>
Return ==
  /\ input # NULL
  /\ input' = NULL
  /\ UNCHANGED <<part, containers>>

Next == ListCall \/ HashCall \/ BitmapCall \/ MemoryCall \/ Call \/ Return

Spec == Init /\ [][Next]_vars

Calls(p) == part = p /\ input # NULL
-----------------------------------------------------------------------------
(* list.c implements the sequences by which the other modules model lists: *)
(* each operation on the links does to the sequence that following next    *)
(* visits what its name says, and nothing to other lists.  Every list can  *)
(* be walked both ways, whatever insertions, splices, merges and reversals *)
(* were done to it; the assertions of list_sort hold from every state, and *)
(* list_max and list_min return the first of the extreme elements.         *)
ListImplements ==
  Lists!ListImplements /\ [](Lists!Linked /\ Lists!SortAndScan)

(* hash.c behaves as a map: whatever the sequence of insertions,           *)
(* replacements and deletions, with or without memory for new buckets, an  *)
(* element is found exactly while it is in the set, elem_cnt counts the    *)
(* elements, and a loop over hash_next visits each of them exactly once,   *)
(* whichever buckets are empty.                                            *)
MapImplements == Hashes!MapImplements /\ []Hashes!VisitsEachOnce

(* bitmap.c implements a sequence of bits with its words, across word      *)
(* boundaries and in the partly used last word, and a scan finds the first *)
(* group of bits that is large enough and fails only if there is none.     *)
BitmapImplements == Bitmaps!BitmapImplements /\ []Bitmaps!ScanFindsFirst

(* A block from malloc or realloc has the bytes that were asked for, and   *)
(* no arena header, other block or free page overlaps it; each block of an *)
(* arena is in use or on its free list, never both; free gives back every  *)
(* page without a block in use, and malloc takes no page it does not use,  *)
(* even when it fails.                                                     *)
HeapSound ==
  Mallocs!BlocksDisjoint /\ Mallocs!ArenasExact /\ Mallocs!NoPageLeaks

(* The pure functions of the library meet their reference definitions.     *)
(* strtok_r yields the words between the delimiters; memmove copies        *)
(* overlapping blocks as if through a third one; strlcpy and strlcat stay  *)
(* within size bytes; searches and comparisons agree with their            *)
(* definitions on texts; path_next_entry and path_split_last cut a path at *)
(* the same entries.  sort orders an array without losing an element and   *)
(* binary_search finds what is there; the division of long integers made   *)
(* of shorter ones is exact and its division instruction never traps; the  *)
(* generator's array stays a permutation.  The digits printf prints are    *)
(* the argument's, in a field as wide as its width asks for or its text    *)
(* needs, and snprintf leaves the longest prefix that fits and returns the *)
(* whole length.  An archive header reads back as its file, under a name   *)
(* that stays below the directory of extraction, and no header with one    *)
(* byte changed is taken for a different file.                             *)
FunctionsMeetReference ==
  /\ Calls("string") =>
       /\ Strings!TokensAreWords(input)
       /\ Strings!MovesBytes(input)
       /\ Strings!CopiesBounded(input)
       /\ Strings!SearchesAgree(input)
       /\ Strings!SplitsPath(input, NAME_MAX)
  /\ Calls("array") => Numbers!SortsArray(input)
  /\ Calls("divisor") => Numbers!DividesLongs(input)
  /\ Calls("seed") => Numbers!Permutes(input)
  /\ Calls("conversion") =>
       /\ Prints!FieldAligned(input)
       /\ Prints!ReadsBack(input)
       /\ Prints!TruncatesExactly(input)
  /\ Calls("file") =>
       /\ Headers!HeaderRoundTrip(input)
       /\ Headers!CorruptionDetected(input)
=============================================================================
