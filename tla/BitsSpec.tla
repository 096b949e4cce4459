------------------------------ MODULE BitsSpec ------------------------------
(***************************************************************************)
(* What lib/kernel/bitmap.c promises, in terms of the operators of Bits.   *)
(***************************************************************************)
EXTENDS Bits

CONSTANT bit_cnt
VARIABLES bits, file

Index == 0..(bit_cnt - 1)

Init == bits = [i \in Index |-> FALSE] /\ file = bits

Set(i, v) == bits' = [bits EXCEPT ![i] = v] /\ UNCHANGED file

SetMultiple(start, cnt, v) ==
  bits' = bitmap_set_multiple(bits, start, cnt, v) /\ UNCHANGED file

ScanAndFlip(start, cnt, v) ==
  /\ bits' = bitmap_flipped(bits, start, cnt, v)
  /\ UNCHANGED file

Write == file' = bits /\ UNCHANGED bits
Read  == bits' = file /\ UNCHANGED file

Next ==
  \/ \E i \in Index, v \in BOOLEAN : Set(i, v)
  \/ \E s, c \in 0..bit_cnt, v \in BOOLEAN :
       s + c <= bit_cnt /\ SetMultiple(s, c, v)
  \/ \E s \in 0..bit_cnt, c \in 0..(bit_cnt + 1), v \in BOOLEAN :
       ScanAndFlip(s, c, v)
  \/ Write \/ Read

Spec == Init /\ [][Next]_<<bits, file>>
=============================================================================
