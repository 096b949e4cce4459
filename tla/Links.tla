------------------------------- MODULE Links -------------------------------
(***************************************************************************)
(* lib/kernel/list.c as it is written: doubly linked lists with a head and *)
(* a tail sentinel, on a heap of prev and next pointers.                   *)
(*                                                                         *)
(* An operation of the code is an operator from a heap to a heap; its      *)
(* loops are recursive operators.  An element that is in no list keeps     *)
(* whatever pointers it had, as in the code.                               *)
(***************************************************************************)
EXTENDS Integers, Sequences
LOCAL INSTANCE SequencesExt

CONSTANTS
  List,             \* the lists
  Elem,             \* the list elements
  key               \* what the comparison function compares, per element

VARIABLES heap,     \* heap.prev, heap.next: [Node -> Node \cup {NIL}]
          op        \* the operation last done, and on which list

vars == <<heap, op>>

NIL == <<"null">>
head(l) == <<"head", l>>
tail(l) == <<"tail", l>>
Node == Elem \cup {head(l) : l \in List} \cup {tail(l) : l \in List}

is_head(h, n) == h.prev[n] = NIL /\ h.next[n] # NIL
is_interior(h, n) == h.prev[n] # NIL /\ h.next[n] # NIL
is_tail(h, n) == h.prev[n] # NIL /\ h.next[n] = NIL

(* list_init of every list; the elements start in none. *)
ListInit ==
  [prev |-> [n \in Node |-> IF \E l \in List : n = tail(l)
                            THEN head(n[2]) ELSE NIL],
   next |-> [n \in Node |-> IF \E l \in List : n = head(l)
                            THEN tail(n[2]) ELSE NIL]]

list_begin(h, l) == h.next[head(l)]
list_end(h, l) == tail(l)
list_rbegin(h, l) == h.prev[tail(l)]
list_empty(h, l) == list_begin(h, l) = list_end(h, l)

(* The nodes from n, following next, up to the node "last" (excluded). *)
RECURSIVE Walk(_, _, _)
Walk(h, n, last) ==
  IF n = last THEN <<>> ELSE <<n>> \o Walk(h, h.next[n], last)

Contents(h, l) == Walk(h, list_begin(h, l), list_end(h, l))
InList(h, e) == \E l \in List : \E i \in DOMAIN Contents(h, l) :
                  Contents(h, l)[i] = e

list_size(h, l) == Len(Contents(h, l))

list_insert(h, before, e) ==
  [prev |-> [h.prev EXCEPT ![e] = h.prev[before], ![before] = e],
   next |-> [h.next EXCEPT ![e] = before, ![h.prev[before]] = e]]

(* The code leaves the pointers of the element as they are.  They are      *)
(* never read again before an insertion sets them: they count as null.     *)
list_remove(h, e) ==
  [prev |-> [h.prev EXCEPT ![h.next[e]] = h.prev[e], ![e] = NIL],
   next |-> [h.next EXCEPT ![h.prev[e]] = h.next[e], ![e] = NIL]]

list_splice(h, before, first, last) ==
  IF first = last THEN h
  ELSE LET end == h.prev[last]
           cut == [prev |-> [h.prev EXCEPT ![h.next[end]] = h.prev[first]],
                   next |-> [h.next EXCEPT ![h.prev[first]] = h.next[end]]]
       IN  [prev |-> [cut.prev EXCEPT ![first] = cut.prev[before],
                                      ![before] = end],
            next |-> [cut.next EXCEPT ![end] = before,
                                      ![cut.prev[before]] = first]]

list_push_front(h, l, e) == list_insert(h, list_begin(h, l), e)
list_push_back(h, l, e) == list_insert(h, list_end(h, l), e)
list_pop_front(h, l) == list_remove(h, list_begin(h, l))
list_pop_back(h, l) == list_remove(h, list_rbegin(h, l))

(* list_reverse: swaps the two pointers of every element, then those of    *)
(* the sentinels, then the outer pointers of the first and the last.       *)
list_reverse(h, l) ==
  IF list_empty(h, l) THEN h
  ELSE LET in == {Contents(h, l)[i] : i \in DOMAIN Contents(h, l)}
           f  == list_rbegin(h, l)      \* the new first element
           b  == list_begin(h, l)       \* the new last element
           p  == [n \in Node |-> IF n \in in THEN h.next[n] ELSE h.prev[n]]
           x  == [n \in Node |-> IF n \in in THEN h.prev[n] ELSE h.next[n]]
           x1 == [x EXCEPT ![head(l)] = f]
           p1 == [p EXCEPT ![tail(l)] = b]
       IN  [prev |-> [p1 EXCEPT ![f] = x1[b]],
            next |-> [x1 EXCEPT ![b] = p1[f]]]

(* priority_great: list_sort's comparison in the kernel. *)
less(a, b) == key[a] > key[b]

RECURSIVE is_sorted(_, _, _)
is_sorted(h, a, b) ==
  \/ a = b
  \/ h.next[a] = b
  \/ ~less(h.next[a], a) /\ is_sorted(h, h.next[a], b)

RECURSIVE find_end_of_run(_, _, _)
find_end_of_run(h, a, b) ==
  LET n == h.next[a]
  IN  IF n # b /\ ~less(n, h.prev[n]) THEN find_end_of_run(h, n, b) ELSE n

RECURSIVE inplace_merge(_, _, _, _)
inplace_merge(h, a0, a1b0, b1) ==
  IF a0 = a1b0 \/ a1b0 = b1 THEN h
  ELSE IF ~less(a1b0, a0) THEN inplace_merge(h, h.next[a0], a1b0, b1)
  ELSE LET n == h.next[a1b0]
       IN  inplace_merge(list_splice(h, a0, h.prev[n], n), a0, n, b1)

(* One pass of list_sort from a0 on, that has output cnt runs so far.  A   *)
(* failed assertion of inplace_merge is recorded in ok.                    *)
RECURSIVE sort_pass(_, _, _, _, _)
sort_pass(h, a0, end, cnt, ok) ==
  IF a0 = end THEN [heap |-> h, runs |-> cnt, ok |-> ok]
  ELSE LET a1b0 == find_end_of_run(h, a0, end)
           b1   == find_end_of_run(h, a1b0, end)
       IN  IF a1b0 = end THEN [heap |-> h, runs |-> cnt + 1, ok |-> ok]
           ELSE sort_pass(inplace_merge(h, a0, a1b0, b1), b1, end, cnt + 1,
                          ok /\ is_sorted(h, a0, a1b0)
                             /\ is_sorted(h, a1b0, b1))

(* The sort that stops after its first pass. *)
list_sort_once(h, l) ==
  LET p == sort_pass(h, list_begin(h, l), list_end(h, l), 0, TRUE)
  IN  [heap |-> p.heap, ok |-> p.ok]

RECURSIVE list_sort(_, _)
list_sort(h, l) ==
  LET p == sort_pass(h, list_begin(h, l), list_end(h, l), 0, TRUE)
  IN  IF p.runs > 1 /\ p.ok THEN list_sort(p.heap, l)
      ELSE [heap |-> p.heap,
            ok |-> p.ok /\ is_sorted(p.heap, list_begin(p.heap, l),
                                     list_end(p.heap, l))]

(* The comparison of sleep_list: by increasing key. *)
wakes_before(a, b) == key[a] < key[b]

RECURSIVE insert_point(_, _, _, _)
insert_point(h, l, n, e) ==
  IF n = list_end(h, l) \/ wakes_before(e, n) THEN n
  ELSE insert_point(h, l, h.next[n], e)

list_insert_ordered(h, l, e) ==
  list_insert(h, insert_point(h, l, list_begin(h, l), e), e)

RECURSIVE unique_from(_, _, _, _)
unique_from(h, l, d, e) ==
  LET n == h.next[e]
  IN  IF n = list_end(h, l) THEN h
      ELSE IF ~less(e, n) /\ ~less(n, e)
           THEN unique_from(list_push_back(list_remove(h, n), d, n), l, d, e)
           ELSE unique_from(h, l, d, n)

list_unique(h, l, d) ==
  IF list_empty(h, l) THEN h ELSE unique_from(h, l, d, list_begin(h, l))

(* list_max and list_min go through the elements after the first; of an    *)
(* empty list list_begin is the tail.                                      *)
list_max(h, l) ==
  IF list_empty(h, l) THEN list_begin(h, l)
  ELSE FoldLeft(LAMBDA max, e : IF wakes_before(max, e) THEN e ELSE max,
                list_begin(h, l), Tail(Contents(h, l)))

list_min(h, l) ==
  IF list_empty(h, l) THEN list_begin(h, l)
  ELSE FoldLeft(LAMBDA min, e : IF wakes_before(e, min) THEN e ELSE min,
                list_begin(h, l), Tail(Contents(h, l)))
-----------------------------------------------------------------------------
(* Callers insert elements that are in no list, remove elements that are   *)
(* in one, and pop from lists that are not empty.                          *)
Init == heap = ListInit /\ op = <<"none">>

Insert(l, e) ==
  /\ ~InList(heap, e)
  /\ \/ /\ heap' = list_push_front(heap, l, e)
        /\ op' = <<"list_push_front", l>>
     \/ /\ heap' = list_push_back(heap, l, e)
        /\ op' = <<"list_push_back", l>>
     \/ /\ \E i \in 1..list_size(heap, l) :
             heap' = list_insert(heap, Contents(heap, l)[i], e)
        /\ op' = <<"list_insert", l>>
     \/ /\ heap' = list_insert_ordered(heap, l, e)
        /\ op' = <<"list_insert_ordered", l>>

Delete(l) ==
  /\ ~list_empty(heap, l)
  /\ \/ heap' = list_pop_front(heap, l) /\ op' = <<"list_pop_front", l>>
     \/ heap' = list_pop_back(heap, l) /\ op' = <<"list_pop_back", l>>
     \/ /\ \E i \in 1..list_size(heap, l) :
             heap' = list_remove(heap, Contents(heap, l)[i])
        /\ op' = <<"list_remove", l>>

(* A stretch of list m moves before a node outside it, of the same list or *)
(* of another.                                                             *)
Splice(l, m) ==
  LET s == Contents(heap, m) \o <<tail(m)>>
      t == Contents(heap, l) \o <<tail(l)>>
  IN  \E i, j \in DOMAIN s, k \in DOMAIN t :
        /\ i < j
        /\ l = m => k < i \/ k >= j
        /\ heap' = list_splice(heap, t[k], s[i], s[j])
        /\ op' = <<"list_splice", l>>

Reorder(l) ==
  \/ heap' = list_reverse(heap, l) /\ op' = <<"list_reverse", l>>
  \/ heap' = list_sort(heap, l).heap /\ op' = <<"list_sort", l>>

Unique(l, d) ==
  /\ l # d
  /\ heap' = list_unique(heap, l, d)
  /\ op' = <<"list_unique", l>>

Next ==
  \/ \E l \in List, e \in Elem : Insert(l, e)
  \/ \E l \in List : Delete(l) \/ Reorder(l)
  \/ \E l, m \in List : Splice(l, m) \/ Unique(l, m)

Spec == Init /\ [][Next]_vars
-----------------------------------------------------------------------------
(* Refinement: the sequences of ListSpec are what following next visits.   *)
L == INSTANCE ListSpec WITH seq <- [l \in List |-> Contents(heap, l)]
ListImplements == L!Spec

(* Every list can be walked both ways: prev is the inverse of next between *)
(* its sentinels, whatever insertions, splices, merges and reversals       *)
(* happened to it.                                                         *)
Linked ==
  \A l \in List :
    LET s == <<head(l)>> \o Contents(heap, l) \o <<tail(l)>>
    IN  /\ \A i \in 1..(Len(s) - 1) : heap.prev[s[i + 1]] = s[i]
        /\ is_head(heap, s[1]) /\ is_tail(heap, s[Len(s)])
        /\ \A i \in 2..(Len(s) - 1) : is_interior(heap, s[i])

(* The assertions of list_sort hold from every state, and list_max and     *)
(* list_min return the first of the extreme elements, or the tail.         *)
SortAndScan ==
  \A l \in List :
    LET s == Contents(heap, l)
        first(P(_)) == LET S == {i \in DOMAIN s : P(key[s[i]])}
                       IN  s[CHOOSE i \in S : \A j \in S : i <= j]
    IN  /\ list_sort(heap, l).ok
        /\ s # <<>> =>
             /\ list_max(heap, l) =
                  first(LAMBDA k : \A i \in DOMAIN s : key[s[i]] <= k)
             /\ list_min(heap, l) =
                  first(LAMBDA k : \A i \in DOMAIN s : key[s[i]] >= k)
        /\ s = <<>> => list_max(heap, l) = tail(l)
=============================================================================
