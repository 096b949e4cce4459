-------------------------------- MODULE Mlfqs --------------------------------
(***************************************************************************)
(* The multi-level feedback queue scheduler of threads/thread.c, run when  *)
(* thread_mlfqs is set: the priority of a thread is computed from the CPU  *)
(* time it used lately, in the fixed-point numbers of                      *)
(* lib/kernel/fixed_point.c, by the timer interrupt of devices/timer.c.    *)
(*                                                                         *)
(* f is the conversion constant of fixed-point numbers (2^14 in the code), *)
(* LOAD_WINDOW the length in seconds of the load average (60), and         *)
(* PRI_PERIOD the ticks between recomputations of a priority (4).          *)
(* Only the remainder of ticks by TIMER_FREQ decides anything, so ticks    *)
(* counts modulo TIMER_FREQ.  Idle is current while no thread is ready.    *)
(***************************************************************************)
EXTENDS Integers, Sequences, FiniteSets, KList

CONSTANTS Thread, Main, Idle, Nice, PRI_MAX, TIMER_FREQ, TIME_SLICE, f, LOAD_WINDOW, PRI_PERIOD,
          NiceMax        \* no thread asks for a nice value above this

ASSUME MlfqsAssumption ==
  /\ IsFiniteSet(Thread) /\ Main \in Thread /\ Idle \notin Thread
  /\ Nice \subseteq Int /\ NiceMax \in Nat /\ \A n \in Nice : n <= NiceMax
  /\ PRI_MAX \in Nat
  /\ f \in Nat \ {0} /\ TIMER_FREQ \in Nat \ {0} /\ LOAD_WINDOW \in Nat \ {0}

VARIABLES th,            \* the struct thread of each thread
          ready_list,    \* the threads ready at each priority
          current,       \* the running thread
          load_avg, ticks, thread_ticks

vars == <<th, ready_list, current, load_avg, ticks, thread_ticks>>

(* C's division rounds towards zero. *)
Quot(x, y) == IF x >= 0 THEN x \div y ELSE -((-x) \div y)

fp_from_int(n) == n * f
fp_to_int_rn(x) == IF x >= 0 THEN Quot(x + f \div 2, f) ELSE Quot(x - f \div 2, f)
fp_mult(x, y) == Quot(x * y, f)
fp_div(x, y) == Quot(x * f, y)
fp_int_add(x, n) == x + fp_from_int(n)
fp_int_mult(x, n) == x * n
fp_int_div(x, n) == Quot(x, n)
-----------------------------------------------------------------------------
Free == [status |-> "free", nice |-> 0, recent_cpu |-> 0, priority |-> 0]

thread_get_ready_threads == Cardinality({t \in Thread : th[t].status \in {"running", "ready"}})

(* recomputed_load_avg that is not divided. *)
recomputed_load_avg_raw ==
  fp_int_add(fp_int_mult(load_avg, LOAD_WINDOW - 1), thread_get_ready_threads)

recomputed_load_avg ==
  fp_int_div(fp_int_add(fp_int_mult(load_avg, LOAD_WINDOW - 1), thread_get_ready_threads),
             LOAD_WINDOW)

(* The decay of recent_cpu once a second, for the load average l. *)
decayed(r, l) ==
  fp_int_add(fp_mult(fp_div(fp_int_mult(l, 2), fp_int_add(fp_int_mult(l, 2), 1)),
                     r.recent_cpu), r.nice)

(* The priority a thread deserves. *)
new_priority(r) ==
  LET p == PRI_MAX - fp_to_int_rn(fp_int_div(r.recent_cpu, 4)) - r.nice * 2
  IN  IF p < 0 THEN 0 ELSE IF p > PRI_MAX THEN PRI_MAX ELSE p

(* thread_recompute_priority(t, 0) for every thread of all_list: a thread  *)
(* that is ready moves to the end of the list of its new priority.         *)
recompute_all(threads, l) ==
  [t \in Thread |->
     IF threads[t].status = "free" THEN threads[t]
     ELSE LET r == [threads[t] EXCEPT !.recent_cpu = decayed(threads[t], l)]
          IN  [r EXCEPT !.priority = new_priority(r)]]

requeue(lists, threads, t) ==
  LET out == [p \in DOMAIN lists |-> Remove(lists[p], t)]
  IN  IF threads[t].status # "ready" THEN lists
      ELSE [out EXCEPT ![threads[t].priority] = PushBack(@, t)]

(* requeue_all that leaves a thread where it waits. *)
requeue_none(lists, threads, order) == lists

requeue_all(lists, threads, order) ==
  LET after[k \in 0..Len(order)] ==
        IF k = 0 THEN lists ELSE requeue(after[k - 1], threads, order[k])
  IN  after[Len(order)]

(* next_thread_to_run that scans the lists upwards. *)
next_thread_to_run_low(lists) ==
  LET ready == {p \in DOMAIN lists : lists[p] # <<>>}
  IN  IF ready = {} THEN Idle ELSE Head(lists[CHOOSE p \in ready : \A q \in ready : p <= q])

next_thread_to_run(lists) ==
  LET ready == {p \in DOMAIN lists : lists[p] # <<>>}
  IN  IF ready = {} THEN Idle ELSE Head(lists[CHOOSE p \in ready : \A q \in ready : p >= q])

(* schedule(), from the threads and lists its caller leaves: the next      *)
(* thread comes off its list and starts a new time slice.                  *)
schedule(threads, lists) ==
  LET next == next_thread_to_run(lists)
  IN  /\ current' = next
      /\ ready_list' = [p \in DOMAIN lists |-> Remove(lists[p], next)]
      /\ th' = IF next = Idle THEN threads
               ELSE [threads EXCEPT ![next].status = "running"]
      /\ thread_ticks' = 0

yield(threads, lists) ==
  IF current = Idle THEN schedule(threads, lists)
  ELSE schedule([threads EXCEPT ![current].status = "ready"],
                [lists EXCEPT ![threads[current].priority] = PushBack(@, current)])
-----------------------------------------------------------------------------
Init ==
  LET main == [Free EXCEPT !.status = "running"]
  IN  /\ th = [t \in Thread |-> IF t = Main
                 THEN [main EXCEPT !.priority = new_priority(main)] ELSE Free]
      /\ ready_list = [p \in 0..PRI_MAX |-> <<>>]
      /\ current = Main
      /\ load_avg = fp_from_int(0)
      /\ ticks = 0
      /\ thread_ticks = 0

(* thread_create: the new thread inherits recent_cpu and nice. *)
Create(t) ==
  /\ current # Idle
  /\ th[t].status = "free"
  /\ LET r == [th[current] EXCEPT !.status = "ready"]
         p == new_priority(r)
     IN  /\ th' = [th EXCEPT ![t] = [r EXCEPT !.priority = p]]
         /\ ready_list' = [ready_list EXCEPT ![p] = PushBack(@, t)]
  /\ UNCHANGED <<current, load_avg, ticks, thread_ticks>>

thread_set_nice(n) ==
  /\ current # Idle
  /\ th' = [th EXCEPT ![current].nice = n]
  /\ UNCHANGED <<ready_list, current, load_avg, ticks, thread_ticks>>

thread_block ==
  /\ current # Idle
  /\ schedule([th EXCEPT ![current].status = "blocked"], ready_list)
  /\ UNCHANGED <<load_avg, ticks>>

(* thread_unblock, from an interrupt or another thread: under this         *)
(* scheduler it never preempts.                                            *)
thread_unblock(t) ==
  /\ th[t].status = "blocked"
  /\ th' = [th EXCEPT ![t].status = "ready"]
  /\ ready_list' = [ready_list EXCEPT ![th[t].priority] = PushBack(@, t)]
  /\ UNCHANGED <<current, load_avg, ticks, thread_ticks>>

thread_exit ==
  /\ current # Idle
  /\ schedule([th EXCEPT ![current] = Free], ready_list)
  /\ UNCHANGED <<load_avg, ticks>>

(* all_list, in some order. *)
all_list ==
  LET alive == {t \in Thread : th[t].status # "free"}
  IN  CHOOSE s \in [1..Cardinality(alive) -> alive] : IsInjective(s) /\ Range(s) = alive

(* timer_interrupt, and the yield on return that ends a time slice. *)
timer_interrupt ==
  LET tick == (ticks + 1) % TIMER_FREQ
      used == IF current = Idle THEN th
              ELSE [th EXCEPT ![current].recent_cpu = fp_int_add(@, 1)]
      load == IF tick = 0 THEN recomputed_load_avg ELSE load_avg
      threads == IF tick = 0 THEN recompute_all(used, load)
                 ELSE IF tick % PRI_PERIOD = 0 /\ current # Idle
                 THEN [used EXCEPT ![current].priority = new_priority(used[current])]
                 ELSE used
      lists == IF tick = 0 THEN requeue_all(ready_list, threads, all_list) ELSE ready_list
  IN  /\ ticks' = tick
      /\ load_avg' = load
      /\ IF thread_ticks + 1 >= TIME_SLICE THEN yield(threads, lists)
         ELSE /\ th' = threads
              /\ ready_list' = lists
              /\ thread_ticks' = thread_ticks + 1
              /\ UNCHANGED current

Next == \/ \E t \in Thread : Create(t) \/ thread_unblock(t)
        \/ \E n \in Nice : thread_set_nice(n)
        \/ thread_block
        \/ thread_exit
        \/ timer_interrupt

(* The timer chip keeps interrupting.  (timer_interrupt is always enabled  *)
(* and alone advances ticks.)                                              *)
TimerTicks == ticks' = (ticks + 1) % TIMER_FREQ
Spec == Init /\ [][Next]_vars /\ WF_ticks(TimerTicks)
-----------------------------------------------------------------------------
(* A thread is on a ready list exactly when it is ready, once, and on the  *)
(* list of its present priority: the priorities that the timer interrupt   *)
(* recomputes never leave a thread behind on the list of an older one.     *)
ReadyQueues ==
  \A t \in Thread : \A p \in 0..PRI_MAX :
    Cardinality({i \in DOMAIN ready_list[p] : ready_list[p][i] = t})
      = IF th[t].status = "ready" /\ th[t].priority = p THEN 1 ELSE 0

(* The load average never exceeds the number of threads, and the decay of  *)
(* recent_cpu outweighs what a second adds to it: neither value grows      *)
(* without bound, however long the system runs.                            *)
UsageBounded ==
  LET n == Cardinality(Thread)
  IN  /\ load_avg \in 0..fp_from_int(n)
      /\ \A t \in Thread :
           th[t].recent_cpu <= fp_from_int((2 * n + 1) * (TIMER_FREQ + NiceMax) + TIMER_FREQ)

(* No thread that wants the CPU starves while all threads are equally nice:*)
(* again and again it runs, or stops being ready, or some nice differs.    *)
NoStarvation ==
  \A t \in Thread :
    []<>(\/ current = t
         \/ th[t].status \notin {"ready", "running"}
         \/ \E u \in Thread : th[u].nice # th[t].nice)
=============================================================================
