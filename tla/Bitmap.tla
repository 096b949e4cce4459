------------------------------- MODULE Bitmap -------------------------------
(***************************************************************************)
(* lib/kernel/bitmap.c as it is written: bit_cnt bits packed into words    *)
(* (elem_type) of ELEM_BITS bits, 32 in the code, set and tested with      *)
(* masks.  The bits of the last word that belong to no index are whatever  *)
(* the memory held.                                                        *)
(***************************************************************************)
EXTENDS Integers
LOCAL INSTANCE Bitwise

CONSTANTS ELEM_BITS, bit_cnt
VARIABLES b,        \* the words
          saved    \* the words in the bitmap's file

vars == <<b, saved>>

BITMAP_ERROR == -1

elem_idx(i) == i \div ELEM_BITS
bit_mask(i) == 2 ^ (i % ELEM_BITS)
elem_cnt == (bit_cnt + ELEM_BITS - 1) \div ELEM_BITS
Word == 0..(2 ^ ELEM_BITS - 1)
complement(w) == 2 ^ ELEM_BITS - 1 - w

last_mask ==
  LET last_bits == bit_cnt % ELEM_BITS
  IN  IF last_bits # 0 THEN 2 ^ last_bits - 1 ELSE 2 ^ ELEM_BITS - 1

bitmap_mark(m, i) == [m EXCEPT ![elem_idx(i)] = @ | bit_mask(i)]
bitmap_reset(m, i) == [m EXCEPT ![elem_idx(i)] = @ & complement(bit_mask(i))]
bitmap_flip_word(m, i) == [m EXCEPT ![elem_idx(i)] = complement(@)]   \* without the mask
bitmap_flip(m, i) == [m EXCEPT ![elem_idx(i)] = @ ^^ bit_mask(i)]
bitmap_test(m, i) == (m[elem_idx(i)] & bit_mask(i)) # 0
bitmap_set(m, i, v) == IF v THEN bitmap_mark(m, i) ELSE bitmap_reset(m, i)

RECURSIVE bitmap_set_multiple(_, _, _, _)
bitmap_set_multiple(m, start, cnt, v) ==
  IF cnt = 0 THEN m
  ELSE bitmap_set_multiple(bitmap_set(m, start, v), start + 1, cnt - 1, v)

bitmap_set_all(m, v) == bitmap_set_multiple(m, 0, bit_cnt, v)

bitmap_contains(m, start, cnt, v) ==
  \E i \in start..(start + cnt - 1) : bitmap_test(m, i) = v

RECURSIVE scan_from(_, _, _, _)
scan_from(m, i, cnt, v) ==
  IF i > bit_cnt - cnt THEN BITMAP_ERROR
  ELSE IF ~bitmap_contains(m, i, cnt, ~v) THEN i
  ELSE scan_from(m, i + 1, cnt, v)

bitmap_scan(m, start, cnt, v) ==
  IF cnt <= bit_cnt THEN scan_from(m, start, cnt, v) ELSE BITMAP_ERROR
-----------------------------------------------------------------------------
(* bitmap_create: the memory of the words is not cleared, only the bits.   *)
(* The file is written before it is read.                                  *)
Init ==
  /\ b \in {bitmap_set_all(m, FALSE) : m \in [0..(elem_cnt - 1) -> Word]}
  /\ saved = b

Set(i, v) == b' = bitmap_set(b, i, v) /\ UNCHANGED saved

Flip(i) == b' = bitmap_flip(b, i) /\ UNCHANGED saved

SetMultiple(start, cnt, v) ==
  /\ start + cnt <= bit_cnt
  /\ b' = bitmap_set_multiple(b, start, cnt, v)
  /\ UNCHANGED saved

(* bitmap_scan_and_flip. *)
ScanAndFlip(start, cnt, v) ==
  LET idx == bitmap_scan(b, start, cnt, v)
  IN  /\ b' = IF idx = BITMAP_ERROR THEN b
              ELSE bitmap_set_multiple(b, idx, cnt, ~v)
      /\ UNCHANGED saved

Write == saved' = b /\ UNCHANGED b

Read ==
  /\ b' = [saved EXCEPT ![elem_cnt - 1] = @ & last_mask]
  /\ UNCHANGED saved

Next ==
  \/ \E i \in 0..(bit_cnt - 1) : Flip(i) \/ \E v \in BOOLEAN : Set(i, v)
  \/ \E s, c \in 0..bit_cnt, v \in BOOLEAN : SetMultiple(s, c, v)
  \/ \E s \in 0..bit_cnt, c \in 0..(bit_cnt + 1), v \in BOOLEAN :
       ScanAndFlip(s, c, v)
  \/ Write \/ Read

Spec == Init /\ [][Next]_vars
-----------------------------------------------------------------------------
Unpacked(m) == [i \in 0..(bit_cnt - 1) |-> bitmap_test(m, i)]

BitsImpl == INSTANCE BitsSpec WITH bits <- Unpacked(b), file <- Unpacked(saved)

(* The packed words implement an array of bits: no operation on one bit or *)
(* group of bits disturbs another, across word boundaries and whatever the *)
(* unused bits of the last word hold.                                      *)
BitmapImplements == BitsImpl!Spec

(* A scan finds the first group of bits that is large enough, wherever it  *)
(* starts and ends, and fails only if there is none.                       *)
ScanFindsFirst ==
  \A s \in 0..bit_cnt, c \in 0..(bit_cnt + 1), v \in BOOLEAN :
    bitmap_scan(b, s, c, v) = BitsImpl!bitmap_scan(Unpacked(b), s, c, v)
=============================================================================
