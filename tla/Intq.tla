-------------------------------- MODULE Intq --------------------------------
(***************************************************************************)
(* The interrupt queues of devices/intq.c: a ring of bytes shared by       *)
(* threads and an interrupt handler.  A thread that finds the queue empty  *)
(* (or full) sleeps under the queue's lock, so that one thread at a time   *)
(* is registered in not_empty (or not_full).                               *)
(*                                                                         *)
(* Everything here runs with interrupts off.  An operator returns the      *)
(* queue after the call; Waiter tells whom the call wakes.                 *)
(***************************************************************************)
EXTENDS Integers, Sequences

CONSTANTS INTQ_BUFSIZE, NULL

ASSUME IntqAssumption == INTQ_BUFSIZE \in Nat /\ INTQ_BUFSIZE > 1

Position == 0..(INTQ_BUFSIZE - 1)

(* struct intq, as intq_init leaves it; lock is the holder of the lock.    *)
(* The queues are static, so that the ring holds zeros.                    *)
intq_init ==
  [lock |-> NULL, not_full |-> NULL, not_empty |-> NULL, head |-> 0, tail |-> 0,
   buf |-> [i \in Position |-> 0]]

next(pos) == (pos + 1) % INTQ_BUFSIZE

intq_empty(q) == q.head = q.tail

intq_full(q) == next(q.head) = q.tail

(* The byte intq_getc returns, and the queue it leaves: signal resets the  *)
(* thread that waits for room, which the caller finds in q.not_full.       *)
First(q) == q.buf[q.tail]

intq_getc(q) == [q EXCEPT !.tail = next(@), !.not_full = NULL]

intq_putc(q, byte) ==
  [q EXCEPT !.buf[q.head] = byte, !.head = next(@), !.not_empty = NULL]

(* The loop body of intq_getc and intq_putc, up to thread_block: t waits   *)
(* for the lock, or takes it and registers in waiter, one of "not_empty"   *)
(* and "not_full".  wait asserts that the queue still is in the state the  *)
(* loop saw before lock_acquire.                                           *)
wait(q, t, waiter) ==
  IF q.lock # NULL THEN [q |-> q, pc |-> "lock", ok |-> TRUE]
  ELSE [q  |-> [q EXCEPT !.lock = t, ![waiter] = t],
        pc |-> "blocked",
        ok |-> IF waiter = "not_empty" THEN intq_empty(q) ELSE intq_full(q)]

(* lock_release, when t comes back from wait. *)
Resume(q, t) == IF q.lock = t THEN [q EXCEPT !.lock = NULL] ELSE q

(* The bytes in the queue, oldest first. *)
Length(q) == IF q.head >= q.tail THEN q.head - q.tail ELSE q.head + INTQ_BUFSIZE - q.tail

(* The position i places after the tail. *)
Place(q, i) == IF q.tail + i < INTQ_BUFSIZE THEN q.tail + i ELSE q.tail + i - INTQ_BUFSIZE

Contents(q) == [i \in 1..Length(q) |-> q.buf[Place(q, i - 1)]]
=============================================================================
