-------------------------------- MODULE Bits --------------------------------
(***************************************************************************)
(* The kernel's bitmaps (lib/kernel/bitmap.c) as arrays of Booleans: the   *)
(* functions from 0..n-1 to BOOLEAN.  The free map, the swap table and the *)
(* page pools are modelled with these operators; Bitmap shows that the     *)
(* code, which packs the bits into words, implements them.                 *)
(***************************************************************************)
EXTENDS Integers, FiniteSets

BITMAP_ERROR == -1

bitmap_size(b) == Cardinality(DOMAIN b)

bitmap_set_multiple(b, start, cnt, value) ==
  [i \in DOMAIN b |-> IF i \in start..(start + cnt - 1) THEN value ELSE b[i]]

bitmap_contains(b, start, cnt, value) ==
  \E i \in start..(start + cnt - 1) : b[i] = value

bitmap_all(b, start, cnt) == ~bitmap_contains(b, start, cnt, FALSE)

(* The index of the first group of cnt bits, at or after start, that are   *)
(* all equal to value.                                                     *)
bitmap_scan(b, start, cnt, value) ==
  LET groups == {i \in start..(bitmap_size(b) - cnt) :
                   ~bitmap_contains(b, i, cnt, ~value)}
  IN  IF groups = {} THEN BITMAP_ERROR
      ELSE CHOOSE i \in groups : \A j \in groups : i <= j

bitmap_flipped(b, start, cnt, value) ==
  LET idx == bitmap_scan(b, start, cnt, value)
  IN  IF idx = BITMAP_ERROR THEN b ELSE bitmap_set_multiple(b, idx, cnt, ~value)
=============================================================================
