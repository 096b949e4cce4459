------------------------------ MODULE ListSpec ------------------------------
(***************************************************************************)
(* What lib/kernel/list.c promises: lists are disjoint sequences of        *)
(* elements and an operation changes them as the operator of KList with    *)
(* the same name does.  The other modules of the project model every list  *)
(* of the kernel by these operators; Links shows that the pointer code     *)
(* implements them.                                                        *)
(***************************************************************************)
EXTENDS KList

CONSTANTS List, Elem, key
VARIABLES seq,      \* seq[l]: the elements of list l, front first
          op        \* the operation last done, and on which list

vars == <<seq, op>>

Free == Elem \ UNION {Range(seq[l]) : l \in List}

Init == seq = [l \in List |-> <<>>] /\ op = <<"none">>

AddFront(l, e) ==
  /\ op' = <<"list_push_front", l>>
  /\ seq' = [seq EXCEPT ![l] = <<e>> \o @]

AddBack(l, e) ==
  /\ op' = <<"list_push_back", l>>
  /\ seq' = [seq EXCEPT ![l] = Append(@, e)]

Insert(l, e) ==
  /\ op' = <<"list_insert", l>>
  /\ \E k \in 1..Len(seq[l]) : seq' = [seq EXCEPT ![l] = InsertAt(@, k, e)]

PopFront(l) ==
  /\ op' = <<"list_pop_front", l>>
  /\ seq[l] # <<>>
  /\ seq' = [seq EXCEPT ![l] = Tail(@)]

PopBack(l) ==
  /\ op' = <<"list_pop_back", l>>
  /\ seq[l] # <<>>
  /\ seq' = [seq EXCEPT ![l] = SubSeq(@, 1, Len(@) - 1)]

Delete(l) ==
  /\ op' = <<"list_remove", l>>
  /\ \E e \in Range(seq[l]) : seq' = [seq EXCEPT ![l] = Remove(@, e)]

(* Positions i to j - 1 of list m move before position k of list l. *)
Splice(l, m) ==
  /\ op' = <<"list_splice", l>>
  /\ \E i, j \in 1..(Len(seq[m]) + 1), k \in 1..(Len(seq[l]) + 1) :
      LET part == SubSeq(seq[m], i, j - 1)
          rest == SubSeq(seq[m], 1, i - 1) \o SubSeq(seq[m], j, Len(seq[m]))
          into == IF l # m THEN seq[l] ELSE rest
      IN  /\ i < j /\ k <= Len(into) + 1
          /\ seq' = [seq EXCEPT ![m] = rest,
                       ![l] = SubSeq(into, 1, k - 1) \o part
                                \o SubSeq(into, k, Len(into))]

Reverse(l) ==
  /\ op' = <<"list_reverse", l>>
  /\ seq' = [seq EXCEPT ![l] = [i \in DOMAIN @ |-> @[Len(@) + 1 - i]]]

Sort(l) ==
  /\ op' = <<"list_sort", l>>
  /\ \E q \in ListSort(seq[l], key) : seq' = [seq EXCEPT ![l] = q]

InsertOrdered(l, e) ==
  /\ op' = <<"list_insert_ordered", l>>
  /\ \E k \in 1..(Len(seq[l]) + 1) :
       /\ IsInsertPoint(seq[l], k, e, key)
       /\ seq' = [seq EXCEPT ![l] = InsertAt(@, k, e)]

(* list_unique drops from l the elements equal to the one before them, and *)
(* appends them to d.                                                      *)
Unique(l, d) ==
  LET repeats == {i \in DOMAIN seq[l] :
                    i > 1 /\ key[seq[l][i]] = key[seq[l][i - 1]]}
      pick(S) == SelectSeq(seq[l], LAMBDA e : \E i \in S : seq[l][i] = e)
  IN  /\ l # d
      /\ op' = <<"list_unique", l>>
      /\ seq' = [seq EXCEPT ![l] = pick(DOMAIN seq[l] \ repeats),
                            ![d] = @ \o pick(repeats)]

Next ==
  \/ \E l \in List, e \in Free :
       AddFront(l, e) \/ AddBack(l, e) \/ Insert(l, e) \/ InsertOrdered(l, e)
  \/ \E l \in List : PopFront(l) \/ PopBack(l) \/ Delete(l) \/ Reverse(l) \/ Sort(l)
  \/ \E l, m \in List : Splice(l, m) \/ Unique(l, m)

Spec == Init /\ [][Next]_vars
=============================================================================
