------------------------------ MODULE Threads ------------------------------
(***************************************************************************)
(* The kernel's thread core: the priority scheduler (threads/thread.c),    *)
(* locks with priority donation and semaphores (threads/synch.c), and the  *)
(* sleep list with the timer interrupt (devices/timer.c), as built without *)
(* the -mlfqs option.                                                      *)
(*                                                                         *)
(* There is one CPU.  A section of code that runs with interrupts off is   *)
(* one action, up to the point where it gives the CPU away; schedule() is  *)
(* the last thing such an action does.  Between two actions interrupts are *)
(* on, unless the running thread has just come back inside a wait loop     *)
(* (IntrOn).  Threads are arbitrary clients: a thread whose pc is "run"    *)
(* may call any operation whose documented precondition it meets.          *)
(***************************************************************************)
EXTENDS Integers, Sequences, FiniteSets, KList

CONSTANTS
  Thread,       \* the thread pages, other than the idle thread's
  Main,         \* initial_thread
  Idle,         \* idle_thread
  Lock,         \* the struct locks
  Sema,         \* the struct semaphores
  IrqSema,      \* the semaphores an interrupt handler ups
  NULL,
  PRI_MAX,
  PRI_DEFAULT,
  TIME_SLICE,   \* ticks a thread runs before it is preempted
  CreatePri,    \* priorities passed to thread_create
  SetPri,       \* priorities passed to thread_set_priority
  SleepTicks,   \* arguments of timer_sleep
  MaxTicks,     \* bound: the clock saturates here
  MaxValue,     \* bound: a semaphore's value
  MaxHeld       \* locks a thread holds at a time (a client's discipline)

Pri == 0..PRI_MAX

Threads == Thread \cup {Idle}

ASSUME ConstantsAssumption ==
  /\ PRI_MAX \in Nat /\ PRI_DEFAULT \in Pri
  /\ CreatePri \subseteq Pri /\ SetPri \subseteq Pri
  /\ TIME_SLICE \in Nat \ {0}
  /\ SleepTicks \subseteq Nat \ {0}
  /\ MaxTicks \in Nat /\ MaxValue \in Nat /\ MaxHeld \in Nat
  /\ Main \in Thread /\ Idle \notin Thread
  /\ NULL \notin Thread \cup Lock \cup Sema \cup Pri
  /\ Lock \cap Sema = {} /\ Lock \cap Pri = {} /\ Sema \cap Pri = {}
  /\ IrqSema \subseteq Sema
  /\ IsFiniteSet(Thread) /\ IsFiniteSet(Lock)

VARIABLES
  context,           \* "thread", "timer" (inside timer_interrupt) or "panic"
  cur,               \* the running thread
  status,            \* struct thread, status; "FREE" if the page is free
  priority,          \* struct thread, priority
  current_priority,  \* struct thread, current_priority
  ready_list,        \* the ready lists, one per priority
  thread_ticks,      \* ticks since the last thread switch
  pc,                \* where a thread is in the operation it called
  arg,               \* the operation's argument
  holder,            \* struct lock, holder
  bounty,            \* struct lock, bounty
  lock_waiters,      \* struct lock, waiters
  owned_locks,       \* struct thread, owned_locks
  value,             \* struct semaphore, value
  sema_waiters,      \* struct semaphore, waiters
  sleep_list,        \* the sleeping threads
  wakeup_time,       \* struct thread, wakeup_time
  ticks              \* timer ticks since boot

cpuVars == <<context, cur, status, ready_list, thread_ticks>>
priVars == <<priority, current_priority>>
pcVars == <<pc, arg>>
lockVars == <<holder, bounty, lock_waiters, owned_locks>>
semaVars == <<value, sema_waiters>>
sleepVars == <<sleep_list, wakeup_time, ticks>>
vars == <<cpuVars, priVars, pcVars, lockVars, semaVars, sleepVars>>

(* The state thread_start() leaves: the initial thread runs, the idle      *)
(* thread has run once and blocked, every other page is free.              *)
Init ==
  /\ context = "thread"
  /\ cur = Main
  /\ status = [t \in Threads |-> IF t = Main THEN "RUNNING"
                                 ELSE IF t = Idle THEN "BLOCKED" ELSE "FREE"]
  /\ priority = [t \in Threads |-> IF t = Idle THEN 0 ELSE PRI_DEFAULT]
  /\ current_priority = priority
  /\ ready_list = [p \in Pri |-> <<>>]
  /\ thread_ticks = 0
  /\ pc = [t \in Threads |-> IF t = Idle THEN "halt" ELSE "run"]
  /\ arg = [t \in Threads |-> NULL]
  /\ holder = [l \in Lock |-> NULL]
  /\ bounty = [l \in Lock |-> 0]
  /\ lock_waiters = [l \in Lock |-> <<>>]
  /\ owned_locks = [t \in Threads |-> {}]
  /\ value = [s \in Sema |-> 0]
  /\ sema_waiters = [s \in Sema |-> <<>>]
  /\ sleep_list = <<>>
  /\ wakeup_time = [t \in Threads |-> 0]
  /\ ticks = 0
----------------------------------------------------------------------------
(* Scheduling.                                                             *)

(* switch_threads and thread_schedule_tail: n runs, with a new time slice. *)
SwitchTo(n, rl, st) ==
  /\ cur' = n
  /\ ready_list' = rl
  /\ status' = [st EXCEPT ![n] = "RUNNING"]
  /\ thread_ticks' = 0

(* schedule with next_thread_to_run: the front of the highest nonempty     *)
(* ready list, or the idle thread if all are empty.                        *)
schedule(rl, st) ==
  \/ /\ \A p \in Pri : rl[p] = <<>>
     /\ SwitchTo(Idle, rl, st)
  \/ \E p \in Pri :
       /\ rl[p] # <<>>
       /\ \A q \in Pri : q > p => rl[q] = <<>>
       /\ SwitchTo(Head(rl[p]), [rl EXCEPT ![p] = Tail(@)], st)

(* The running thread keeps the CPU. *)
KeepCpu(rl, st) ==
  /\ ready_list' = rl
  /\ status' = st
  /\ UNCHANGED <<cur, thread_ticks>>

(* Mutant: the yielding thread goes to the front of its ready list. *)
thread_yield_front(rl, st, cp) ==
  schedule(IF cur = Idle THEN rl
           ELSE [rl EXCEPT ![cp[cur]] = <<cur>> \o @],
           [st EXCEPT ![cur] = "READY"])

(* thread_yield: the idle thread is not put on a ready list. *)
thread_yield(rl, st, cp) ==
  schedule(IF cur = Idle THEN rl
           ELSE [rl EXCEPT ![cp[cur]] = PushBack(@, cur)],
           [st EXCEPT ![cur] = "READY"])

(* thread_unblock's test: t outranks the running thread. *)
Preempts(t, cp) == cp[t] > cp[cur] /\ cur # Idle

(* thread_unblock: t becomes ready; if it outranks the running thread,     *)
(* thread_yield is called, whose assertion fails in an interrupt handler.  *)
thread_unblock(t, rl, st, cp, in_intr) ==
  LET rl1 == [rl EXCEPT ![cp[t]] = PushBack(@, t)]
      st1 == [st EXCEPT ![t] = "READY"]
  IN  \/ /\ ~Preempts(t, cp)
         /\ KeepCpu(rl1, st1)
         /\ UNCHANGED context
      \/ /\ Preempts(t, cp) /\ ~in_intr
         /\ thread_yield(rl1, st1, cp)
         /\ UNCHANGED context
      \/ /\ Preempts(t, cp) /\ in_intr
         /\ KeepCpu(rl1, st1)
         /\ context' = "panic"

(* The running thread is about to call an operation. *)
Calls == context = "thread" /\ cur # Idle /\ pc[cur] = "run"

(* The running thread is inside operation op on x. *)
Resumes(op, x) ==
  context = "thread" /\ cur # Idle /\ pc[cur] = op /\ arg[cur] = x

Goto(op, x) == pc' = [pc EXCEPT ![cur] = op] /\ arg' = [arg EXCEPT ![cur] = x]

Return == Goto("run", NULL)
----------------------------------------------------------------------------
(* Operations of thread.c.                                                 *)

(* A call of thread_yield. *)
Yield ==
  /\ Calls
  /\ thread_yield(ready_list, status, current_priority)
  /\ UNCHANGED <<context, priVars, pcVars, lockVars, semaVars, sleepVars>>

(* thread_create: init_thread on a free page, then thread_unblock, here    *)
(* called with interrupts on: the new thread is ready ...  (The lock that  *)
(* allocate_tid takes and releases before that is one of Lock.)            *)
thread_create(t, p) ==
  /\ Calls
  /\ status[t] = "FREE"
  /\ priority' = [priority EXCEPT ![t] = p]
  /\ current_priority' = [current_priority EXCEPT ![t] = p]
  /\ wakeup_time' = [wakeup_time EXCEPT ![t] = 0]
  /\ KeepCpu([ready_list EXCEPT ![p] = PushBack(@, t)],
             [status EXCEPT ![t] = "READY"])
  /\ Goto("thread_create", t)
  /\ UNCHANGED <<context, lockVars, semaVars, sleep_list, ticks>>

(* ... and then the test that may yield reads its current_priority, which  *)
(* can be anything once the thread has exited and its page is free.        *)
CreatePreempts(t) ==
  /\ Resumes("thread_create", t)
  /\ Return
  /\ \/ /\ status[t] = "FREE" \/ current_priority[t] <= current_priority[cur]
        /\ UNCHANGED cpuVars
     \/ /\ status[t] = "FREE" \/ current_priority[t] > current_priority[cur]
        /\ thread_yield(ready_list, status, current_priority)
        /\ UNCHANGED context
  /\ UNCHANGED <<priVars, lockVars, semaVars, sleepVars>>

(* thread_exit: the next thread frees the page, but not the initial one's. *)
thread_exit ==
  /\ Calls
  /\ owned_locks[cur] = {}
  /\ schedule(ready_list,
       [status EXCEPT ![cur] = IF cur = Main THEN "DYING" ELSE "FREE"])
  /\ UNCHANGED <<context, priVars, pcVars, lockVars, semaVars, sleepVars>>

(* thread_set_priority runs with interrupts on: first the test ...         *)
thread_set_priority(p) ==
  /\ Calls
  /\ priority' = [priority EXCEPT ![cur] = p]
  /\ IF current_priority[cur] = priority[cur]
     THEN Goto("set_priority", p)
     ELSE UNCHANGED pcVars
  /\ UNCHANGED <<cpuVars, current_priority, lockVars, semaVars, sleepVars>>

(* Mutant: the thread keeps the CPU. *)
SetCurrentPriority_keeps ==
  /\ context = "thread" /\ cur # Idle /\ pc[cur] = "set_priority"
  /\ current_priority' = [current_priority EXCEPT ![cur] = arg[cur]]
  /\ Return
  /\ UNCHANGED <<cpuVars, priority, lockVars, semaVars, sleepVars>>

(* ... and then, perhaps after a preemption, the assignment and the yield. *)
SetCurrentPriority ==
  /\ context = "thread" /\ cur # Idle /\ pc[cur] = "set_priority"
  /\ current_priority' = [current_priority EXCEPT ![cur] = arg[cur]]
  /\ Return
  /\ thread_yield(ready_list, status, current_priority')
  /\ UNCHANGED <<context, priority, lockVars, semaVars, sleepVars>>

(* The loop of the idle thread, once an interrupt has ended its hlt.       *)
idle ==
  /\ context = "thread" /\ cur = Idle /\ pc[Idle] = "loop"
  /\ pc' = [pc EXCEPT ![Idle] = "halt"]
  /\ schedule(ready_list, [status EXCEPT ![Idle] = "BLOCKED"])
  /\ UNCHANGED <<context, priVars, arg, lockVars, semaVars, sleepVars>>
----------------------------------------------------------------------------
(* Locks.                                                                  *)

(* Mutant: takes the lock without looking at its holder. *)
TakeLock_unchecked(l) ==
  /\ holder' = [holder EXCEPT ![l] = cur]
  /\ owned_locks' = [owned_locks EXCEPT ![cur] = @ \cup {l}]

(* A free lock becomes the running thread's. *)
TakeLock(l) ==
  /\ holder[l] = NULL
  /\ holder' = [holder EXCEPT ![l] = cur]
  /\ owned_locks' = [owned_locks EXCEPT ![cur] = @ \cup {l}]

(* lock_acquire's test for a donation. *)
Donates(l) == current_priority[holder[l]] < current_priority[cur]

(* Mutant: a ready thread stays on the list of its old priority. *)
Relinks_blocked(t) == status[t] = "BLOCKED"

(* thread_on_priority_change moves a thread in one of these states. *)
Relinks(t) == status[t] \in {"READY", "BLOCKED"}

(* The body of lock_acquire's loop: donate, join the waiters, block.       *)
(* thread_promote with thread_on_priority_change takes a ready or blocked  *)
(* holder off whatever list it is on and puts it on the ready list of its  *)
(* new priority; that priority is the running thread's, so the             *)
(* thread_unblock in it does not preempt.                                  *)
WaitForLock(l) ==
  LET h == holder[l]
      p == current_priority[cur]
      moved == Donates(l) /\ Relinks(h)
      Unlinked(q) == IF moved THEN Remove(q, h) ELSE q
      rl == [r \in Pri |-> IF moved /\ r = p
                           THEN PushBack(Unlinked(ready_list[r]), h)
                           ELSE Unlinked(ready_list[r])]
      st == IF moved THEN [status EXCEPT ![h] = "READY"] ELSE status
  IN  /\ h # NULL
      /\ bounty' = IF Donates(l) THEN [bounty EXCEPT ![l] = p] ELSE bounty
      /\ current_priority' = IF Donates(l)
                             THEN [current_priority EXCEPT ![h] = p]
                             ELSE current_priority
      /\ lock_waiters' = [m \in Lock |-> IF m = l
                            THEN PushBack(Unlinked(lock_waiters[m]), cur)
                            ELSE Unlinked(lock_waiters[m])]
      /\ sema_waiters' = [s \in Sema |-> Unlinked(sema_waiters[s])]
      /\ sleep_list' = Unlinked(sleep_list)
      /\ schedule(rl, [st EXCEPT ![cur] = "BLOCKED"])

lock_acquire(l) ==
  /\ \/ /\ Calls
        /\ l \notin owned_locks[cur]
        /\ Cardinality(owned_locks[cur]) < MaxHeld
     \/ Resumes("lock_acquire", l)
  /\ \/ /\ TakeLock(l)
        /\ Return
        /\ UNCHANGED <<cpuVars, priVars, bounty, lock_waiters, semaVars,
                       sleepVars>>
     \/ /\ WaitForLock(l)
        /\ Goto("lock_acquire", l)
        /\ UNCHANGED <<context, priority, holder, owned_locks, value,
                       wakeup_time, ticks>>

lock_try_acquire(l) ==
  /\ Calls
  /\ l \notin owned_locks[cur]
  /\ Cardinality(owned_locks[cur]) < MaxHeld
  /\ TakeLock(l)
  /\ UNCHANGED <<cpuVars, priVars, pcVars, bounty, lock_waiters, semaVars,
                 sleepVars>>

(* thread_demote: the base priority or the highest bounty still held. *)
IsDemoted(n, locks) ==
  /\ n \in {priority[cur]} \cup {bounty[m] : m \in locks}
  /\ priority[cur] <= n
  /\ \A m \in locks : bounty[m] <= n

(* Mutant: the waiters are left where they are. *)
WakeLockWaiter_none(l) == UNCHANGED <<cpuVars, lock_waiters>>

(* Mutant: the waiters are not sorted first. *)
WakeLockWaiter_fifo(l) ==
  \/ /\ lock_waiters[l] = <<>>
     /\ UNCHANGED <<cpuVars, lock_waiters>>
  \/ /\ lock_waiters[l] # <<>>
     /\ lock_waiters' = [lock_waiters EXCEPT ![l] = Tail(@)]
     /\ thread_unblock(Head(lock_waiters[l]), ready_list, status,
                       current_priority', FALSE)

(* lock_release wakes the first waiter of the highest priority. *)
WakeLockWaiter(l) ==
  \/ /\ lock_waiters[l] = <<>>
     /\ UNCHANGED <<cpuVars, lock_waiters>>
  \/ /\ lock_waiters[l] # <<>>
     /\ \E q \in ListSort(lock_waiters[l], current_priority) :
          /\ lock_waiters' = [lock_waiters EXCEPT ![l] = Tail(q)]
          /\ thread_unblock(Head(q), ready_list, status, current_priority',
                            FALSE)

(* Mutant: the bounty of the last holder stays. *)
ClearedBounty_kept(l) == bounty

(* Nothing is offered for a lock that is released. *)
ClearedBounty(l) == [bounty EXCEPT ![l] = 0]

lock_release(l) ==
  LET rest == owned_locks[cur] \ {l}
  IN  /\ Calls
      /\ l \in owned_locks[cur]
      /\ holder' = [holder EXCEPT ![l] = NULL]
      /\ owned_locks' = [owned_locks EXCEPT ![cur] = rest]
      /\ bounty' = ClearedBounty(l)
      /\ \E n \in Pri :
           /\ IF current_priority[cur] = bounty[l]
              THEN IsDemoted(n, rest)
              ELSE n = current_priority[cur]
           /\ current_priority' = [current_priority EXCEPT ![cur] = n]
      /\ WakeLockWaiter(l)
      /\ UNCHANGED <<priority, pcVars, semaVars, sleepVars>>
----------------------------------------------------------------------------
(* Semaphores.                                                             *)

sema_down(s) ==
  /\ Calls \/ Resumes("sema_down", s)
  /\ \/ /\ value[s] > 0
        /\ value' = [value EXCEPT ![s] = @ - 1]
        /\ Return
        /\ UNCHANGED <<cpuVars, sema_waiters>>
     \/ /\ value[s] = 0
        /\ sema_waiters' = [sema_waiters EXCEPT ![s] = PushBack(@, cur)]
        /\ Goto("sema_down", s)
        /\ schedule(ready_list, [status EXCEPT ![cur] = "BLOCKED"])
        /\ UNCHANGED <<context, value>>
  /\ UNCHANGED <<priVars, lockVars, sleepVars>>

sema_try_down(s) ==
  /\ Calls
  /\ value[s] > 0
  /\ value' = [value EXCEPT ![s] = @ - 1]
  /\ UNCHANGED <<cpuVars, priVars, pcVars, lockVars, sema_waiters, sleepVars>>

(* Mutant: only an up from zero wakes a thread. *)
SemaWakes_zero(s) == sema_waiters[s] # <<>> /\ value[s] = 0

(* sema_up's test for a thread to wake. *)
SemaWakes(s) == sema_waiters[s] # <<>>

(* The body of sema_up, in a thread or in an interrupt handler. *)
Up(s, in_intr) ==
  /\ value[s] < MaxValue
  /\ value' = [value EXCEPT ![s] = @ + 1]
  /\ \/ /\ ~SemaWakes(s)
        /\ UNCHANGED <<cpuVars, sema_waiters>>
     \/ /\ SemaWakes(s)
        /\ \E q \in ListSort(sema_waiters[s], current_priority) :
             /\ sema_waiters' = [sema_waiters EXCEPT ![s] = Tail(q)]
             /\ thread_unblock(Head(q), ready_list, status,
                               current_priority, in_intr)
  /\ UNCHANGED <<priVars, arg, lockVars, sleepVars>>

sema_up(s) ==
  /\ Calls
  /\ Up(s, FALSE)
  /\ UNCHANGED pc
----------------------------------------------------------------------------
(* Sleeping, and interrupts.                                               *)

(* timer_sleep with thread_sleep: there is no loop around thread_block.    *)
timer_sleep(n) ==
  LET wt == [wakeup_time EXCEPT ![cur] = ticks + n]
  IN  /\ Calls
      /\ ticks + n <= MaxTicks
      /\ wakeup_time' = wt
      /\ \E k \in 1..(Len(sleep_list) + 1) :
           /\ IsInsertPoint(sleep_list, k, cur, wt)
           /\ sleep_list' = InsertAt(sleep_list, k, cur)
      /\ Goto("timer_sleep", NULL)
      /\ schedule(ready_list, [status EXCEPT ![cur] = "BLOCKED"])
      /\ UNCHANGED <<context, priVars, lockVars, semaVars, ticks>>

WakeUp ==
  /\ Resumes("timer_sleep", NULL)
  /\ Return
  /\ UNCHANGED <<cpuVars, priVars, lockVars, semaVars, sleepVars>>

(* The running code can be interrupted. *)
IntrOn ==
  /\ context = "thread"
  /\ cur = Idle \/ pc[cur] \in {"run", "thread_create", "set_priority"}

(* An interrupt returns: the idle thread's hlt is over. *)
EndHlt == pc' = IF cur = Idle THEN [pc EXCEPT ![Idle] = "loop"] ELSE pc

(* A device's handler ups a semaphore (as devices/ide.c does). *)
device_interrupt(s) ==
  /\ IntrOn
  /\ Up(s, TRUE)
  /\ EndHlt

(* timer_interrupt: the clock advances ...                                 *)
timer_interrupt ==
  /\ IntrOn
  /\ ticks' = IF ticks < MaxTicks THEN ticks + 1 ELSE ticks
  /\ context' = "timer"
  /\ UNCHANGED <<cur, status, ready_list, thread_ticks, priVars, pcVars,
                 lockVars, semaVars, sleep_list, wakeup_time>>

(* Mutant: a thread wakes one tick late. *)
SleeperDue_late == sleep_list # <<>> /\ wakeup_time[Head(sleep_list)] < ticks

(* The loop test of handle_sleeping_threads. *)
SleeperDue == sleep_list # <<>> /\ wakeup_time[Head(sleep_list)] <= ticks

(* ... each thread at the front of the sleep list that is due is woken ... *)
handle_sleeping_threads ==
  /\ context = "timer"
  /\ SleeperDue
  /\ sleep_list' = Tail(sleep_list)
  /\ thread_unblock(Head(sleep_list), ready_list, status, current_priority,
                    TRUE)
  /\ UNCHANGED <<priVars, pcVars, lockVars, semaVars, wakeup_time, ticks>>

(* ... and thread_tick may have the handler yield as it returns.           *)
thread_tick ==
  /\ context = "timer"
  /\ ~SleeperDue
  /\ context' = "thread"
  /\ EndHlt
  /\ IF thread_ticks + 1 >= TIME_SLICE
     THEN thread_yield(ready_list, status, current_priority)
     ELSE /\ thread_ticks' = thread_ticks + 1
          /\ UNCHANGED <<cur, status, ready_list>>
  /\ UNCHANGED <<priVars, arg, lockVars, semaVars, sleepVars>>

(* After a failed assertion the machine stays where it is. *)
Halted == context = "panic" /\ UNCHANGED vars
----------------------------------------------------------------------------
Next ==
  \/ Yield
  \/ \E t \in Thread, p \in CreatePri : thread_create(t, p)
  \/ \E t \in Thread : CreatePreempts(t)
  \/ thread_exit
  \/ \E p \in SetPri : thread_set_priority(p)
  \/ SetCurrentPriority
  \/ idle
  \/ \E l \in Lock : \/ lock_acquire(l)
                     \/ lock_try_acquire(l)
                     \/ lock_release(l)
  \/ \E s \in Sema : \/ sema_down(s)
                     \/ sema_try_down(s)
                     \/ sema_up(s)
  \/ \E n \in SleepTicks : timer_sleep(n)
  \/ WakeUp
  \/ \E s \in IrqSema : device_interrupt(s)
  \/ timer_interrupt
  \/ handle_sleeping_threads
  \/ thread_tick
  \/ Halted

Spec == Init /\ [][Next]_vars
----------------------------------------------------------------------------
(* Invariants.                                                             *)

Contexts == {"thread", "timer", "panic"}

States == {"RUNNING", "READY", "BLOCKED", "DYING", "FREE"}

Ops == {"run", "lock_acquire", "sema_down", "timer_sleep", "thread_create",
        "set_priority"}

(* The type of the state, and what an operation's argument may be: a       *)
(* thread waiting in lock_acquire waits for a lock, and so on.             *)
TypeOK ==
  /\ context \in Contexts
  /\ cur \in Threads
  /\ status \in [Threads -> States]
  /\ priority \in [Threads -> Pri]
  /\ current_priority \in [Threads -> Pri]
  /\ ready_list \in [Pri -> Seq(Thread)]
  /\ thread_ticks \in Nat
  /\ pc \in [Threads -> Ops \cup {"halt", "loop"}]
  /\ arg \in [Threads -> Lock \cup Sema \cup Thread \cup Pri \cup {NULL}]
  /\ holder \in [Lock -> Thread \cup {NULL}]
  /\ bounty \in [Lock -> Pri]
  /\ lock_waiters \in [Lock -> Seq(Thread)]
  /\ owned_locks \in [Threads -> SUBSET Lock]
  /\ value \in [Sema -> Nat]
  /\ sema_waiters \in [Sema -> Seq(Thread)]
  /\ sleep_list \in Seq(Thread)
  /\ wakeup_time \in [Threads -> Nat]
  /\ ticks \in Nat
  /\ \A t \in Thread :
       /\ pc[t] \in Ops
       /\ pc[t] \in {"run", "timer_sleep"} => arg[t] = NULL
       /\ pc[t] = "lock_acquire" => arg[t] \in Lock
       /\ pc[t] = "sema_down" => arg[t] \in Sema
       /\ pc[t] = "set_priority" => arg[t] \in Pri
       /\ pc[t] = "thread_create" => arg[t] \in Thread

(* List q holds the threads T, each once. *)
Lists(q, T) == IsInjective(q) /\ Range(q) = T

ReadyListed(rl, st, cp) ==
  \A p \in Pri : Lists(rl[p], {t \in Thread : st[t] = "READY" /\ cp[t] = p})

WaitOps == {"lock_acquire", "sema_down", "timer_sleep"}

Blocked(op, x) ==
  {t \in Thread : status[t] = "BLOCKED" /\ pc[t] = op /\ arg[t] = x}

(* The one list element of a thread (thread.h, "It can be used these two   *)
(* ways only because they are mutually exclusive") is in exactly the list  *)
(* its state calls for: a ready thread in the ready list of its current    *)
(* priority, a blocked one in the waiters of what it waits for, any other  *)
(* in none, and nowhere twice.  So thread_unblock's assertion that its     *)
(* argument is blocked holds wherever it is called, and thread_current's   *)
(* that the thread on the CPU is running.                                  *)
ElemInOneList ==
  /\ ReadyListed(ready_list, status, current_priority)
  /\ \A l \in Lock : Lists(lock_waiters[l], Blocked("lock_acquire", l))
  /\ \A s \in Sema : Lists(sema_waiters[s], Blocked("sema_down", s))
  /\ Lists(sleep_list, Blocked("timer_sleep", NULL))
  /\ \A t \in Thread : status[t] = "BLOCKED" => pc[t] \in WaitOps
  /\ \A t \in Threads : status[t] = "RUNNING" <=> t = cur

(* A lock's holder and the holder's owned_locks agree, so no lock is held  *)
(* twice; a thread that is gone holds none, and no thread waits for a lock *)
(* it holds (lock_acquire's assertion).                                    *)
HolderOwns ==
  /\ \A l \in Lock, t \in Thread : holder[l] = t <=> l \in owned_locks[t]
  /\ \A t \in Thread :
       /\ status[t] \in {"FREE", "DYING"} => owned_locks[t] = {}
       /\ pc[t] = "lock_acquire" => arg[t] \notin owned_locks[t]

(* Threads that are about to try again in operation op on x. *)
Retrying(op, x) ==
  {t \in Thread : /\ status[t] \in {"READY", "RUNNING"}
                  /\ pc[t] = op /\ arg[t] = x}

(* No wake-up of lock_release is lost: when a lock with waiters is free,   *)
(* some thread that is not blocked is on its way to take it.               *)
NoLostLockWakeup ==
  \A l \in Lock : holder[l] = NULL /\ lock_waiters[l] # <<>> =>
    Retrying("lock_acquire", l) # {}

(* No wake-up of sema_up is lost: while threads wait on a semaphore, every *)
(* unit of its value has a woken thread coming for it.                     *)
NoLostSemaWakeup ==
  \A s \in Sema : sema_waiters[s] # <<>> =>
    value[s] <= Cardinality(Retrying("sema_down", s))

(* The scheduler runs a thread of the highest priority (next_thread_to_run *)
(* with the yields of thread_unblock and thread_set_priority); inside      *)
(* thread_create, the test for the new thread is still to come.            *)
RunningIsHighest ==
  context = "thread" /\ cur # Idle /\ pc[cur] # "thread_create" =>
    \A t \in Thread : status[t] = "READY" =>
      current_priority[t] <= current_priority[cur]

(* A holder keeps the priority donated to it until it releases the lock    *)
(* (tests/threads/priority-donate-lower.c): it never runs below a bounty   *)
(* it still owes.                                                          *)
DonationKept ==
  \A l \in Lock : holder[l] # NULL => current_priority[holder[l]] >= bounty[l]

(* No priority inversion: lock_acquire's donation keeps a lock's holder at *)
(* or above every thread that waits for the lock.                          *)
HolderOutranksWaiters ==
  \A l \in Lock : holder[l] # NULL =>
    \A w \in Range(lock_waiters[l]) :
      current_priority[w] <= current_priority[holder[l]]

(* Thread t has come back from timer_sleep's thread_block before its time. *)
WokenEarly(t) ==
  /\ pc[t] = "timer_sleep" /\ status[t] # "BLOCKED"
  /\ wakeup_time[t] > ticks

(* handle_sleeping_threads wakes every thread at its tick: none is asleep  *)
(* past its time, and one that sleeps while it holds no lock (for which    *)
(* thread_donate_priority could unblock it) is not woken early.            *)
SleepersOnTime ==
  /\ context = "thread" => \A t \in Range(sleep_list) : wakeup_time[t] > ticks
  /\ \A t \in Thread : owned_locks[t] = {} => ~WokenEarly(t)

----------------------------------------------------------------------------
(* Fairness and liveness.                                                  *)

(* The machine: a pending timer interrupt is delivered as soon as          *)
(* interrupts are on (so it is strongly fair), and code that is past the   *)
(* point where the client called it runs to its end.  Nothing is assumed   *)
(* of the clients: a thread may compute, or hold a lock, forever.          *)
Fairness ==
  /\ SF_vars(timer_interrupt)
  /\ WF_vars(handle_sleeping_threads)
  /\ WF_vars(thread_tick)
  /\ WF_vars(idle)
  /\ WF_vars(WakeUp)
  /\ WF_vars(SetCurrentPriority)
  /\ WF_vars(\E t \in Thread : CreatePreempts(t))
  /\ WF_vars(\E l \in Lock : lock_acquire(l) /\ ~Calls)
  /\ WF_vars(\E s \in Sema : sema_down(s) /\ ~Calls)

LiveSpec == Spec /\ Fairness

(* Thread t is ready, and none that could run outranks it. *)
ReadyFirst(t) ==
  /\ status[t] = "READY" /\ context # "panic"
  /\ \A u \in Thread : status[u] \in {"READY", "RUNNING"} =>
       current_priority[u] <= current_priority[t]

(* Round robin among threads of one priority: a thread that is ready, and  *)
(* that none outranks, does not wait for the CPU forever, whatever the     *)
(* threads ahead of it do (thread_tick's preemption and the order of the   *)
(* ready lists).                                                           *)
ReadyRuns == \A t \in Thread : ~<>[]ReadyFirst(t)

(* A sleeping thread is woken, although no other thread may run. *)
SleeperReturns ==
  \A t \in Thread : t \in Range(sleep_list) ~>
    status[t] # "BLOCKED" \/ context = "panic"

(* The kernel makes progress whatever its clients do: no ready thread that *)
(* none outranks starves (thread_tick, thread_yield), and every sleeper    *)
(* comes back (handle_sleeping_threads).                                   *)
ThreadsProgress == ReadyRuns /\ SleeperReturns

(* What locks and semaphores promise, whatever the scheduler does. *)
S == INSTANCE Sync WITH held <- [t \in Thread |-> owned_locks[t]]

Implements == S!Spec
============================================================================
