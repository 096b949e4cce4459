-------------------------------- MODULE Sync --------------------------------
(***************************************************************************)
(* What threads/synch.c promises its callers: a lock is held by at most    *)
(* one thread, and a semaphore is a counter that never goes below zero.    *)
(* There is no scheduler here, no waiting list and no priority.            *)
(***************************************************************************)
EXTENDS Integers

CONSTANTS Thread, Lock, Sema

VARIABLES
  held,    \* the locks each thread holds
  value    \* the value of each semaphore

vars == <<held, value>>

Init ==
  /\ held = [t \in Thread |-> {}]
  /\ value = [s \in Sema |-> 0]

Acquire(t, l) ==
  /\ \A u \in Thread : l \notin held[u]
  /\ held' = [held EXCEPT ![t] = @ \cup {l}]
  /\ UNCHANGED value

Release(t, l) ==
  /\ l \in held[t]
  /\ held' = [held EXCEPT ![t] = @ \ {l}]
  /\ UNCHANGED value

Down(s) ==
  /\ value[s] > 0
  /\ value' = [value EXCEPT ![s] = @ - 1]
  /\ UNCHANGED held

Up(s) ==
  /\ value' = [value EXCEPT ![s] = @ + 1]
  /\ UNCHANGED held

Next ==
  \/ \E t \in Thread, l \in Lock : Acquire(t, l) \/ Release(t, l)
  \/ \E s \in Sema : Down(s) \/ Up(s)

Spec == Init /\ [][Next]_vars

=============================================================================
