------------------------------ MODULE MapSpec ------------------------------
(***************************************************************************)
(* What lib/kernel/hash.c promises: a set with at most one element per     *)
(* key; each operation returns the element that was there for the key.     *)
(***************************************************************************)
CONSTANTS Elem, key, NULL
VARIABLES set, ret

Matching(e) == {x \in set : key[x] = key[e]}
Old(e) == IF Matching(e) = {} THEN NULL ELSE CHOOSE x \in Matching(e) : TRUE

Init == set = {} /\ ret = NULL

Insert(e) == /\ set' = IF Matching(e) = {} THEN set \cup {e} ELSE set
             /\ ret' = Old(e)
Replace(e) == set' = (set \ Matching(e)) \cup {e} /\ ret' = Old(e)
Find(e) == UNCHANGED set /\ ret' = Old(e)
Delete(e) == set' = set \ Matching(e) /\ ret' = Old(e)
Clear == set' = {} /\ ret' = NULL

Next == \/ \E e \in Elem : Insert(e) \/ Replace(e) \/ Find(e) \/ Delete(e)
        \/ Clear

Spec == Init /\ [][Next]_<<set, ret>>
=============================================================================
