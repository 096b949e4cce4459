------------------------------- MODULE KList -------------------------------
(***************************************************************************)
(* The kernel's intrusive lists (lib/kernel/list.c), as sequences.         *)
(*                                                                         *)
(* A list is the sequence of its interior elements, front first.  The      *)
(* element of a thread is the thread itself.  A comparison function of the *)
(* code that compares one field of two elements is given here by that      *)
(* field, as a function "key" from elements to numbers.                    *)
(*                                                                         *)
(* list_sort and list_insert_ordered are given by what they guarantee      *)
(* rather than by how they loop: ListSort(s, key) is the set of results,   *)
(* which has exactly one member, so that an action picks it with \E.       *)
(***************************************************************************)
EXTENDS Integers, Sequences, Functions

(* list_push_back. *)
PushBack(s, e) == Append(s, e)

(* list_remove, of an element e that may or may not be in list s: the      *)
(* code unlinks the element from whatever list holds it, so an action      *)
(* applies this to every list the element can be in.                       *)
Remove(s, e) ==
  IF e \notin Range(s) THEN s
  ELSE LET k == CHOOSE k \in DOMAIN s : s[k] = e
       IN  [i \in 1..(Len(s) - 1) |-> IF i < k THEN s[i] ELSE s[i + 1]]

(* list_insert before position k. *)
InsertAt(s, k, e) ==
  [i \in 1..(Len(s) + 1) |-> IF i < k THEN s[i]
                             ELSE IF i = k THEN e ELSE s[i - 1]]

(* The position list_insert_ordered inserts at: before the first element   *)
(* that is strictly greater, hence after every equal one.                  *)
IsInsertPoint(s, k, e, key) ==
  /\ k \in 1..(Len(s) + 1)
  /\ \A i \in 1..(k - 1) : key[s[i]] <= key[e]
  /\ k <= Len(s) => key[e] < key[s[k]]

(* list_sort with priority_great: decreasing keys, a stable permutation    *)
(* (inplace_merge moves an element forward only past strictly lower ones). *)
ListSort(s, key) ==
  {q \in [1..Len(s) -> Range(s)] :
     /\ IsInjective(q)
     /\ Range(q) = Range(s)
     /\ \A i, j \in DOMAIN q : i < j => key[q[i]] >= key[q[j]]
     /\ \A i, j \in DOMAIN s : i < j /\ key[s[i]] = key[s[j]] =>
          \A a, b \in DOMAIN q : q[a] = s[i] /\ q[b] = s[j] => a < b}
============================================================================
