----------------------------- MODULE HashTable -----------------------------
(***************************************************************************)
(* lib/kernel/hash.c: an array of buckets, each a list, whose number       *)
(* follows the number of elements.                                         *)
(*                                                                         *)
(* The code's constants 4 (fewest buckets) and BEST_ELEMS_PER_BUCKET are   *)
(* parameters, so that a table of few elements grows and shrinks.  The     *)
(* caller's hash and less functions are given by a number per element:     *)
(* "hash", and "key", which less compares; equal keys have equal hashes.   *)
(***************************************************************************)
EXTENDS Integers, Sequences
LOCAL INSTANCE SequencesExt
LOCAL INSTANCE FiniteSets
LOCAL INSTANCE Bitwise

CONSTANTS Elem, hash, key, MIN_BUCKETS, BEST_ELEMS_PER_BUCKET, NULL
VARIABLES h,        \* the struct hash: elem_cnt and buckets
          ret       \* what the last call returned

vars == <<h, ret>>

Buckets(n) == [i \in 0..(n - 1) |-> <<>>]
bucket_cnt(t) == Cardinality(DOMAIN t.buckets)
hash_init == [elem_cnt |-> 0, buckets |-> Buckets(MIN_BUCKETS)]

find_bucket(n, e) == hash[e] & (n - 1)

(* find_elem: the first element of the bucket that is neither less nor     *)
(* greater.                                                                *)
find_elem(t, e) ==
  LET b == SelectSeq(t.buckets[find_bucket(bucket_cnt(t), e)],
                     LAMBDA x : ~(key[x] < key[e]) /\ ~(key[e] < key[x]))
  IN  IF b = <<>> THEN NULL ELSE Head(b)

insert_elem(t, e) ==
  [elem_cnt |-> t.elem_cnt + 1,
   buckets  |-> [t.buckets EXCEPT ![find_bucket(bucket_cnt(t), e)] =
                   <<e>> \o @]]

remove_elem(t, e) ==
  [elem_cnt |-> t.elem_cnt - 1,
   buckets  |-> [i \in DOMAIN t.buckets |->
                   SelectSeq(t.buckets[i], LAMBDA x : x # e)]]

turn_off_least_1bit(x) == x & (x - 1)
is_power_of_2(x) == x # 0 /\ turn_off_least_1bit(x) = 0

RECURSIVE round_to_power(_)
round_to_power(n) ==
  IF is_power_of_2(n) THEN n ELSE round_to_power(turn_off_least_1bit(n))

best_bucket_cnt(cnt) ==
  LET n == cnt \div BEST_ELEMS_PER_BUCKET
  IN  round_to_power(IF n < MIN_BUCKETS THEN MIN_BUCKETS ELSE n)

InOrder(t) ==
  FoldLeft(LAMBDA s, i : s \o t.buckets[i - 1], <<>>,
           [i \in 1..bucket_cnt(t) |-> i])

(* Moving the elements with their bucket number of the old table. *)
move_stale(t, n) ==
  [t EXCEPT !.buckets =
     [i \in 0..(n - 1) |->
        IF i \in DOMAIN t.buckets THEN t.buckets[i] ELSE <<>>]]

(* The last loop of rehash: every element, front to back, is pushed to the *)
(* front of its bucket among n.                                            *)
move_all(t, n) ==
  [t EXCEPT !.buckets =
     FoldLeft(LAMBDA b, e : [b EXCEPT ![find_bucket(n, e)] = <<e>> \o @],
              Buckets(n), InOrder(t))]

(* rehash: the tables it can leave; it gives up when malloc fails. *)
rehash(t) ==
  LET n == best_bucket_cnt(t.elem_cnt)
  IN  IF n = bucket_cnt(t) THEN {t} ELSE {t, move_all(t, n)}

hash_insert(t, e) ==
  rehash(IF find_elem(t, e) = NULL THEN insert_elem(t, e) ELSE t)

hash_replace(t, e) ==
  rehash(insert_elem(IF find_elem(t, e) = NULL THEN t
                     ELSE remove_elem(t, find_elem(t, e)), e))

hash_delete(t, e) ==
  IF find_elem(t, e) = NULL THEN {t}
  ELSE rehash(remove_elem(t, find_elem(t, e)))

hash_clear(t) ==
  [elem_cnt |-> 0, buckets |-> Buckets(bucket_cnt(t))]

(* hash_next, from position i of bucket b (0 before the first element):    *)
(* the next position, over empty buckets, or NULL.                         *)
RECURSIVE hash_next(_, _, _)
hash_next(t, b, i) ==
  IF i < Len(t.buckets[b]) THEN <<b, i + 1>>
  ELSE IF b + 1 >= bucket_cnt(t) THEN NULL
  ELSE hash_next(t, b + 1, 0)

(* What a loop over hash_first and hash_next visits from a position on. *)
RECURSIVE Iterate(_, _)
Iterate(t, at) ==
  IF at = NULL THEN <<>>
  ELSE <<t.buckets[at[1]][at[2]]>> \o Iterate(t, hash_next(t, at[1], at[2]))
-----------------------------------------------------------------------------
Init == h = hash_init /\ ret = NULL

Elements(t) == ToSet(InOrder(t))

(* A caller inserts an element that is not in the table already. *)
Insert(e) == /\ e \notin Elements(h)
             /\ h' \in hash_insert(h, e)
             /\ ret' = find_elem(h, e)
Replace(e) == /\ e \notin Elements(h)
              /\ h' \in hash_replace(h, e)
              /\ ret' = find_elem(h, e)
Find(e) == UNCHANGED h /\ ret' = find_elem(h, e)
Delete(e) == h' \in hash_delete(h, e) /\ ret' = find_elem(h, e)
Clear == h' = hash_clear(h) /\ ret' = NULL

Next == \/ \E e \in Elem : Insert(e) \/ Replace(e) \/ Find(e) \/ Delete(e)
        \/ Clear

Spec == Init /\ [][Next]_vars
-----------------------------------------------------------------------------
(* The table behaves as a map: whatever the sequence of insertions,        *)
(* replacements and deletions, with or without memory for new buckets, an  *)
(* element is found exactly while it is in the set.                        *)
Map == INSTANCE MapSpec WITH set <- Elements(h)
MapImplements == Map!Spec

(* elem_cnt counts the elements, and a loop over hash_first and hash_next  *)
(* visits each of them exactly once, whichever buckets are empty.          *)
VisitsEachOnce ==
  LET seen == Iterate(h, hash_next(h, 0, 0))
  IN  /\ ToSet(seen) = Elements(h)
      /\ Len(seen) = Cardinality(Elements(h))
      /\ h.elem_cnt = Cardinality(Elements(h))
=============================================================================
