-------------------------- MODULE ThreadsWakeups ---------------------------
(***************************************************************************)
(* What a step of Threads can do to a thread that waits, and from that: no *)
(* wake-up of lock_release is lost, and sleepers wake on time.             *)
(***************************************************************************)
EXTENDS ThreadsInv

----------------------------------------------------------------------------
(* Ordered lists.                                                          *)

(* The keys of list q do not decrease. *)
Ascending(q, key) ==
  \A i, j \in 1..Len(q) : i < j => key[q[i]] <= key[q[j]]

(* list_pop_front of an ordered list takes one of the least.               *)
LEMMA AscendingTail ==
  ASSUME NEW E, NEW s \in Seq(E), s # <<>>, NEW key \in [E -> Nat],
         Ascending(s, key)
  PROVE  /\ Ascending(Tail(s), key)
         /\ \A x \in Range(s) : key[Head(s)] <= key[x]
<1>1. /\ Head(s) = s[1] /\ Len(s) \in Nat /\ Len(s) > 0
      /\ Len(Tail(s)) = Len(s) - 1
      /\ \A i \in 1..(Len(s) - 1) : Tail(s)[i] = s[i + 1]
      /\ DOMAIN s = 1..Len(s) /\ \A i \in 1..Len(s) : s[i] \in E
  OBVIOUS
<1>2. Ascending(Tail(s), key)
  BY <1>1 DEF Ascending
<1>3. ASSUME NEW x \in Range(s)  PROVE key[Head(s)] <= key[x]
  <2>1. PICK i \in 1..Len(s) : x = s[i]
    BY <1>1 DEF Range
  <2>2. CASE i = 1
    BY <1>1, <2>1, <2>2
  <2>3. CASE i > 1
    BY <1>1, <2>1, <2>3 DEF Ascending
  <2>. QED  BY <2>2, <2>3
<1>. QED  BY <1>2, <1>3

(* list_remove keeps the order.                                            *)
LEMMA AscendingRemove ==
  ASSUME NEW E, NEW s \in Seq(E), NEW key, Ascending(s, key), NEW e
  PROVE  Ascending(Remove(s, e), key)
<1>1. CASE e \notin Range(s)
  BY <1>1 DEF Remove
<1>2. CASE e \in Range(s)
  <2>. DEFINE k == CHOOSE k \in DOMAIN s : s[k] = e
              r == [i \in 1..(Len(s) - 1) |-> IF i < k THEN s[i] ELSE s[i + 1]]
  <2>1. k \in DOMAIN s
    BY <1>2 DEF Range
  <2>2. Remove(s, e) = r
    BY <1>2 DEF Remove
  <2>. HIDE DEF k
  <2>3. DOMAIN s = 1..Len(s) /\ Len(s) \in Nat /\ \A i \in 1..Len(s) : s[i] \in E
    OBVIOUS
  <2>4. r \in Seq(E) /\ Len(r) = Len(s) - 1
    BY <2>1, <2>3
  <2>5. Ascending(r, key)
    BY <2>1, <2>3, <2>4 DEF Ascending
  <2>. QED  BY <2>2, <2>5
<1>. QED  BY <1>1, <1>2

(* list_insert_ordered keeps the order.                                    *)
LEMMA AscendingInsert ==
  ASSUME NEW E, NEW s \in Seq(E), NEW key \in [E -> Nat], Ascending(s, key),
         NEW e \in E, NEW k, IsInsertPoint(s, k, e, key)
  PROVE  Ascending(InsertAt(s, k, e), key)
<1>. DEFINE r == InsertAt(s, k, e)
<1>1. /\ DOMAIN s = 1..Len(s) /\ Len(s) \in Nat /\ k \in 1..(Len(s) + 1)
      /\ \A i \in 1..Len(s) : s[i] \in E /\ key[s[i]] \in Nat
      /\ key[e] \in Nat
  BY DEF IsInsertPoint
<1>2. /\ r \in Seq(E) /\ Len(r) = Len(s) + 1
      /\ \A i \in 1..(k - 1) : r[i] = s[i]
      /\ r[k] = e
      /\ \A i \in (k + 1)..(Len(s) + 1) : r[i] = s[i - 1]
  BY <1>1 DEF InsertAt
<1>3. /\ \A i \in 1..(k - 1) : key[s[i]] <= key[e]
      /\ \A i \in k..Len(s) : key[e] <= key[s[i]]
  <2>1. \A i \in 1..(k - 1) : key[s[i]] <= key[e]
    BY DEF IsInsertPoint
  <2>2. ASSUME NEW i \in k..Len(s)  PROVE key[e] <= key[s[i]]
    <3>1. k <= Len(s) /\ key[e] < key[s[k]]
      BY <1>1, <2>2 DEF IsInsertPoint
    <3>2. key[s[k]] <= key[s[i]]
      <4>1. CASE i = k
        BY <1>1, <3>1, <4>1
      <4>2. CASE i > k
        BY <1>1, <3>1, <4>2 DEF Ascending
      <4>. QED  BY <1>1, <4>1, <4>2
    <3>. QED  BY <1>1, <3>1, <3>2
  <2>. QED  BY <2>1, <2>2
<1>. HIDE DEF r
<1>4. ASSUME NEW i \in 1..(Len(s) + 1), NEW j \in 1..(Len(s) + 1), i < j
      PROVE  key[r[i]] <= key[r[j]]
  <2>1. CASE j < k
    <3>1. r[i] = s[i] /\ r[j] = s[j] /\ i \in 1..Len(s) /\ j \in 1..Len(s)
      BY <1>1, <1>2, <1>4, <2>1
    <3>. QED  BY <1>4, <3>1 DEF Ascending
  <2>2. CASE j = k
    BY <1>1, <1>2, <1>3, <1>4, <2>2
  <2>3. CASE j > k /\ i < k /\ i = j - 1
    BY <1>1, <1>2, <1>4, <2>3
  <2>3a. CASE j > k /\ i < k /\ i # j - 1
    <3>1. /\ r[i] = s[i] /\ r[j] = s[j - 1] /\ i < j - 1
          /\ i \in 1..Len(s) /\ j - 1 \in 1..Len(s)
      BY <1>1, <1>2, <1>4, <2>3a
    <3>. QED  BY <3>1 DEF Ascending
  <2>4. CASE j > k /\ i = k
    BY <1>1, <1>2, <1>3, <1>4, <2>4
  <2>5. CASE i > k
    <3>1. /\ r[i] = s[i - 1] /\ r[j] = s[j - 1] /\ i - 1 < j - 1
          /\ i - 1 \in 1..Len(s) /\ j - 1 \in 1..Len(s)
      BY <1>1, <1>2, <1>4, <2>5
    <3>. QED  BY Zenon, <3>1 DEF Ascending
  <2>. QED  BY <1>1, <1>4, <2>1, <2>2, <2>3, <2>3a, <2>4, <2>5
<1>. QED  BY <1>1, <1>2, <1>4 DEF r, Ascending

(* The order depends on the keys of the list's elements only.              *)
LEMMA AscendingSame ==
  ASSUME NEW E, NEW s \in Seq(E), NEW key, NEW key1, Ascending(s, key),
         \A x \in Range(s) : key1[x] = key[x]
  PROVE  Ascending(s, key1)
<1>1. \A i \in 1..Len(s) : s[i] \in Range(s)
  BY DEF Range
<1>. QED  BY <1>1 DEF Ascending

----------------------------------------------------------------------------
(* What a step does to a thread.                                           *)

Awake == {"READY", "RUNNING"}

(* Thread t neither starts nor stops waiting, and does not end. *)
StatusKept(t) ==
  /\ status'[t] = "BLOCKED" <=> status[t] = "BLOCKED"
  /\ status[t] \in Awake => status'[t] \in Awake

(* Thread t stays in a loop that it is in and enters none; only a new      *)
(* thread's clock, and only its own or a new one's priority, is set.       *)
QuietThread(t) ==
  /\ status'[t] = "BLOCKED" <=> status[t] = "BLOCKED"
  /\ pc[t] \in {"lock_acquire", "sema_down"} =>
       /\ status[t] \in Awake => status'[t] \in Awake
       /\ pc'[t] = pc[t] /\ arg'[t] = arg[t]
  /\ pc'[t] \in WaitOps => pc'[t] = pc[t]
  /\ \/ wakeup_time'[t] = wakeup_time[t]
     \/ status[t] = "FREE" /\ wakeup_time'[t] = 0
  /\ \/ current_priority'[t] = current_priority[t]
     \/ status[t] = "FREE" \/ pc[t] = "set_priority"

(* The clock moves when a timer interrupt starts, and the interrupt ends   *)
(* when no sleeper is due.                                                 *)
QuietClock ==
  \/ /\ ticks' = ticks
     /\ context' = "thread" => context = "thread" \/ ~SleeperDue
  \/ ticks' >= ticks /\ context' # "thread"

(* A step that makes nobody wait and wakes nobody. *)
Quiet ==
  /\ UNCHANGED <<lockVars, semaVars, sleep_list>>
  /\ \A t \in Thread : QuietThread(t)
  /\ QuietClock

(* The running thread waits in lock_acquire, ... *)
WaitsForLock(l) ==
  /\ cur \in Thread
  /\ pc[cur] \in {"run", "lock_acquire"}
  /\ pc[cur] = "lock_acquire" => arg[cur] = l
  /\ Cardinality(owned_locks[cur]) < MaxHeld \/ pc[cur] = "lock_acquire"
  /\ l \notin owned_locks[cur]
  /\ WaitForLock(l) /\ Goto("lock_acquire", l)
  /\ UNCHANGED <<context, priority, holder, owned_locks, value, wakeup_time,
                 ticks>>

(* ... or takes the lock.                                                  *)
TakesLock(l) ==
  /\ context = "thread" /\ cur \in Thread
  /\ pc[cur] \in {"run", "lock_acquire"}
  /\ pc[cur] = "lock_acquire" => arg[cur] = l
  /\ Cardinality(owned_locks[cur]) < MaxHeld \/ pc[cur] = "lock_acquire"
  /\ TakeLock(l)
  /\ \A t \in Thread : t # cur => pc'[t] = pc[t] /\ arg'[t] = arg[t]
  /\ pc'[cur] = "run"
  /\ UNCHANGED <<cpuVars, priVars, bounty, lock_waiters, semaVars, sleepVars>>

(* sema_up by a thread or an interrupt.                                    *)
Ups(s) ==
  /\ \E b \in BOOLEAN : Up(s, b)
  /\ \A t \in Thread : pc'[t] = pc[t]
  /\ context = "thread"

(* A scheduling step that leaves the states as they are but for READY and  *)
(* RUNNING.                                                                *)
LEMMA SettledKept ==
  ASSUME IInv, NEW st, NEW cp, Settled(st, cp), NEW t \in Thread,
         st[t] = status[t]
  PROVE  StatusKept(t)
<1>1. /\ status[t] \in States /\ status'[t] \in States
      /\ \A x \in {"BLOCKED", "DYING", "FREE"} : status'[t] = x <=> st[t] = x
  BY Zenon DEF IInv, CpuInv, ReadyQueue, Settled, Threads
<1>. QED  BY <1>1 DEF StatusKept, States, Awake

(* thread_yield.                                                           *)
LEMMA YieldKept ==
  ASSUME IInv, NEW cp, ReadyQueue(ready_list, status, cp),
         thread_yield(ready_list, status, cp)
  PROVE  \A t \in Thread : StatusKept(t)
<1>1. Settled(status, cp)
  BY YieldSettles DEF IInv, CpuInv
<1>. QED  BY Zenon, <1>1, SettledKept

(* A step in which every thread keeps its state or is kept by a yield, and *)
(* only the running thread, at no wait, moves.                             *)
LEMMA QuietStep ==
  ASSUME IInv, UNCHANGED <<lockVars, semaVars, sleep_list, wakeup_time>>, QuietClock,
         \A t \in Thread : StatusKept(t),
         \A t \in Thread : \/ pc'[t] = pc[t] /\ arg'[t] = arg[t]
                           \/ /\ pc[t] \notin {"lock_acquire", "sema_down"}
                              /\ pc'[t] \notin WaitOps,
         \A t \in Thread : \/ current_priority'[t] = current_priority[t]
                           \/ pc[t] = "set_priority"
  PROVE  Quiet
<1>1. UNCHANGED <<lockVars, semaVars, sleep_list>> /\ UNCHANGED wakeup_time
  OBVIOUS
<1>2. ASSUME NEW t \in Thread  PROVE QuietThread(t)
  BY <1>1 DEF QuietThread, StatusKept
<1>. QED  BY Zenon, <1>1, <1>2 DEF Quiet

(* lock_acquire and lock_try_acquire wait for the lock or take it.         *)
LEMMA AcquireKinds ==
  ASSUME IInv, NEW l \in Lock, lock_acquire(l) \/ lock_try_acquire(l)
  PROVE  WaitsForLock(l) \/ TakesLock(l)
<1>1. CASE lock_acquire(l)
  <2>1. /\ context = "thread" /\ cur # Idle
        /\ \/ /\ pc[cur] = "run" /\ l \notin owned_locks[cur]
              /\ Cardinality(owned_locks[cur]) < MaxHeld
           \/ pc[cur] = "lock_acquire" /\ arg[cur] = l
    BY Zenon, <1>1 DEF lock_acquire, Calls, Resumes
  <2>2. cur \in Thread
    BY <2>1, Running
  <2>3. l \notin owned_locks[cur]
    BY <2>1, <2>2 DEF IInv, HolderOwns
  <2>4. CASE /\ TakeLock(l) /\ Return
             /\ UNCHANGED <<cpuVars, priVars, bounty, lock_waiters, semaVars,
                            sleepVars>>
    <3>1. /\ \A t \in Thread : t # cur => pc'[t] = pc[t] /\ arg'[t] = arg[t]
          /\ pc'[cur] = "run"
      BY <2>2, <2>4 DEF Return, Goto, IInv, DataType, Threads
    <3>. QED  BY Zenon, <2>1, <2>2, <2>4, <3>1 DEF TakesLock
  <2>5. CASE /\ WaitForLock(l) /\ Goto("lock_acquire", l)
             /\ UNCHANGED <<context, priority, holder, owned_locks, value,
                            wakeup_time, ticks>>
    BY Zenon, <2>1, <2>2, <2>3, <2>5 DEF WaitsForLock
  <2>. QED  BY Zenon, <1>1, <2>4, <2>5 DEF lock_acquire
<1>2. CASE lock_try_acquire(l)
  <2>1. cur \in Thread
    BY <1>2, Running DEF lock_try_acquire, Calls
  <2>. QED  BY Zenon, <1>2, <2>1 DEF lock_try_acquire, Calls, TakesLock, pcVars
<1>. QED  BY <1>1, <1>2

(* Every step is quiet, or one of the operations of synch.c and timer.c    *)
(* that wake or wait.                                                      *)
LEMMA StepKinds ==
  ASSUME IInv, [Next]_vars
  PROVE  \/ Quiet
         \/ \E l \in Lock : WaitsForLock(l) \/ TakesLock(l) \/ lock_release(l)
         \/ \E s \in Sema : sema_down(s) \/ sema_try_down(s) \/ Ups(s)
         \/ \E n \in SleepTicks : timer_sleep(n)
         \/ handle_sleeping_threads
<1>0. /\ status \in [Threads -> States] /\ cur \in Threads /\ Idle \notin Thread
      /\ pc \in [Threads -> Ops \cup {"halt", "loop"}]
      /\ arg \in [Threads -> Lock \cup Sema \cup Thread \cup Pri \cup {NULL}]
      /\ current_priority \in [Threads -> Pri]
      /\ wakeup_time \in [Threads -> Nat] /\ ticks \in Nat
      /\ Thread \subseteq Threads
      /\ ReadyQueue(ready_list, status, current_priority)
  BY Zenon, ConstantsAssumption DEF IInv, CpuInv, ReadyQueue, DataType, Threads
<1>k. (\A t \in Thread : status'[t] = status[t]) => \A t \in Thread : StatusKept(t)
  BY Zenon DEF StatusKept
<1>g. ASSUME NEW op, NEW x, Goto(op, x), op \notin WaitOps, 
             pc[cur] \notin {"lock_acquire", "sema_down"}
      PROVE  \A t \in Thread : \/ pc'[t] = pc[t] /\ arg'[t] = arg[t]
                               \/ /\ pc[t] \notin {"lock_acquire", "sema_down"}
                                  /\ pc'[t] \notin WaitOps
  BY <1>0, <1>g DEF Goto
<1>1. CASE UNCHANGED vars \/ Halted
  <2>1. UNCHANGED <<cpuVars, priVars, pcVars, lockVars, semaVars, sleepVars>>
    BY Zenon, <1>1 DEF Halted, vars
  <2>2. QuietClock
    BY <2>1 DEF QuietClock, sleepVars, cpuVars
  <2>. QED  BY Zenon, <1>k, <2>1, <2>2, QuietStep
            DEF cpuVars, priVars, pcVars, sleepVars
<1>2. CASE Yield
  <2>1. /\ thread_yield(ready_list, status, current_priority)
        /\ UNCHANGED <<context, priVars, pcVars, lockVars, semaVars, sleepVars>>
    BY Zenon, <1>2 DEF Yield
  <2>2. QuietClock
    BY <2>1 DEF QuietClock, sleepVars
  <2>3. \A t \in Thread : StatusKept(t)
    BY Zenon, <1>0, <2>1, YieldKept
  <2>. QED  BY Zenon, <2>1, <2>2, <2>3, QuietStep DEF priVars, pcVars, sleepVars
<1>3. ASSUME NEW t \in Thread, NEW p \in CreatePri, thread_create(t, p)
      PROVE  Quiet
  <2>1. /\ status[t] = "FREE" /\ pc[cur] = "run"
        /\ current_priority' = [current_priority EXCEPT ![t] = p]
        /\ wakeup_time' = [wakeup_time EXCEPT ![t] = 0]
        /\ status' = [status EXCEPT ![t] = "READY"]
        /\ Goto("thread_create", t)
        /\ UNCHANGED <<context, lockVars, semaVars, sleep_list, ticks>>
    BY Zenon, <1>3 DEF thread_create, Calls, KeepCpu
  <2>2. QuietClock
    BY <2>1 DEF QuietClock
  <2>3. ASSUME NEW u \in Thread  PROVE QuietThread(u)
    <3>1. CASE u = t
      BY <1>0, <2>1, <3>1 DEF QuietThread, Goto, Awake, WaitOps
    <3>2. CASE u # t
      <4>1. /\ status'[u] = status[u] /\ wakeup_time'[u] = wakeup_time[u]
            /\ current_priority'[u] = current_priority[u]
        BY <1>0, <2>1, <3>2
      <4>2. \/ pc'[u] = pc[u] /\ arg'[u] = arg[u]
            \/ pc[u] = "run" /\ pc'[u] = "thread_create"
        BY <1>0, <2>1 DEF Goto
      <4>. QED  BY <4>1, <4>2 DEF QuietThread, WaitOps
    <3>. QED  BY <3>1, <3>2
  <2>. QED  BY Zenon, <2>1, <2>2, <2>3 DEF Quiet
<1>4. ASSUME NEW t \in Thread, CreatePreempts(t)  PROVE Quiet
  <2>1. /\ pc[cur] = "thread_create" /\ Goto("run", NULL)
        /\ UNCHANGED <<context, priVars, lockVars, semaVars, sleepVars>>
        /\ UNCHANGED status \/ thread_yield(ready_list, status, current_priority)
    BY Zenon, <1>4 DEF CreatePreempts, Resumes, Return, cpuVars
  <2>2. QuietClock
    BY <2>1 DEF QuietClock, sleepVars
  <2>3. \A u \in Thread : StatusKept(u)
    BY Zenon, <1>0, <1>k, <2>1, YieldKept
  <2>4. "run" \notin WaitOps /\ pc[cur] \notin {"lock_acquire", "sema_down"}
    BY <2>1 DEF WaitOps
  <2>. QED  BY Zenon, <1>g, <2>1, <2>2, <2>3, <2>4, QuietStep DEF priVars, sleepVars
<1>5. CASE thread_exit
  <2>. DEFINE x == IF cur = Main THEN "DYING" ELSE "FREE"
              st == [status EXCEPT ![cur] = x]
  <2>0. cur \in Thread /\ status[cur] = "RUNNING" /\ pc[cur] = "run"
    BY <1>5, Running DEF thread_exit, Calls
  <2>1. /\ schedule(ready_list, st)
        /\ UNCHANGED <<context, priVars, pcVars, lockVars, semaVars, sleepVars>>
    BY Zenon, <1>5 DEF thread_exit
  <2>2. x \in States /\ x \notin {"READY", "RUNNING", "BLOCKED"}
    BY DEF States
  <2>. HIDE DEF x
  <2>3. /\ ReadyQueue(ready_list, st, current_priority)
        /\ \A u \in Threads : st[u] # "RUNNING"
    <3>1. ReadyQueue(ready_list, st, current_priority)
      BY Zenon, <1>0, <2>0, <2>2, Restate
    <3>. QED  BY <1>0, <2>0, <2>2, <3>1 DEF IInv, CpuInv
  <2>4. Settled(st, current_priority)
    BY Zenon, <2>1, <2>3, ScheduleSettles
  <2>5. st[cur] # "BLOCKED" /\ \A u \in Thread : u # cur => st[u] = status[u]
    BY <1>0, <2>0, <2>2
  <2>. HIDE DEF st
  <2>6. \A u \in Thread : u # cur => StatusKept(u)
    BY Zenon, <2>4, <2>5, SettledKept
  <2>7. status'[cur] # "BLOCKED"
    BY Zenon, <2>0, <2>4, <2>5 DEF Settled
  <2>8. QuietClock
    BY <2>1 DEF QuietClock, sleepVars
  <2>9. ASSUME NEW u \in Thread  PROVE QuietThread(u)
    <3>0. /\ pc'[u] = pc[u] /\ arg'[u] = arg[u] /\ wakeup_time'[u] = wakeup_time[u]
          /\ current_priority'[u] = current_priority[u]
      BY Zenon, <2>1 DEF pcVars, priVars, sleepVars
    <3>1. CASE u = cur
      BY <2>0, <2>7, <3>0, <3>1 DEF QuietThread
    <3>2. CASE u # cur
      BY <2>6, <3>0, <3>2 DEF QuietThread, StatusKept
    <3>. QED  BY <3>1, <3>2
  <2>. QED  BY Zenon, <2>1, <2>8, <2>9 DEF Quiet, sleepVars
<1>6. ASSUME NEW p \in SetPri, thread_set_priority(p)  PROVE Quiet
  <2>1. /\ pc[cur] = "run"
        /\ UNCHANGED <<cpuVars, current_priority, lockVars, semaVars, sleepVars>>
        /\ UNCHANGED pcVars \/ Goto("set_priority", p)
    BY Zenon, <1>6 DEF thread_set_priority, Calls
  <2>2. QuietClock
    BY <2>1 DEF QuietClock, cpuVars, sleepVars
  <2>3. "set_priority" \notin WaitOps /\ pc[cur] \notin {"lock_acquire", "sema_down"}
    BY <2>1 DEF WaitOps
  <2>4. \A t \in Thread : StatusKept(t)
    BY Zenon, <1>k, <2>1 DEF cpuVars
  <2>. QED  BY Zenon, <1>g, <2>1, <2>2, <2>3, <2>4, QuietStep DEF pcVars, sleepVars
<1>7. CASE SetCurrentPriority
  <2>0. cur \in Thread /\ arg[cur] \in Pri /\ pc[cur] = "set_priority"
    BY Zenon, <1>7, Running DEF SetCurrentPriority, IInv, ArgInv
  <2>. DEFINE cp == [current_priority EXCEPT ![cur] = arg[cur]]
  <2>1. /\ current_priority' = cp /\ Goto("run", NULL)
        /\ thread_yield(ready_list, status, cp)
        /\ UNCHANGED <<context, priority, lockVars, semaVars, sleepVars>>
    BY Zenon, <1>7 DEF SetCurrentPriority, Return
  <2>2. QuietClock
    BY <2>1 DEF QuietClock, sleepVars
  <2>3. \A u \in Thread : StatusKept(u)
    <3>1. ReadyQueue(ready_list, status, cp)
      BY Zenon, <2>0, RunningPriority
    <3>. QED  BY Zenon, <2>1, <3>1, YieldKept
  <2>4. "run" \notin WaitOps /\ pc[cur] \notin {"lock_acquire", "sema_down"}
    BY <2>0 DEF WaitOps
  <2>5. \A t \in Thread : \/ current_priority'[t] = current_priority[t]
                          \/ pc[t] = "set_priority"
    BY Zenon, <1>0, <2>0, <2>1
  <2>. QED  BY Zenon, <1>g, <2>1, <2>2, <2>3, <2>4, <2>5, QuietStep DEF sleepVars
<1>8. CASE idle
  <2>. DEFINE st == [status EXCEPT ![Idle] = "BLOCKED"]
  <2>1. /\ schedule(ready_list, st) /\ cur = Idle
        /\ pc' = [pc EXCEPT ![Idle] = "halt"]
        /\ UNCHANGED <<context, priVars, arg, lockVars, semaVars, sleepVars>>
    BY Zenon, <1>8 DEF idle
  <2>2. /\ ReadyQueue(ready_list, st, current_priority)
        /\ \A u \in Threads : st[u] # "RUNNING"
        /\ \A u \in Thread : st[u] = status[u]
    <3>1. ReadyQueue(ready_list, st, current_priority)
      BY Zenon, <1>0, <2>1, Restate DEF States
    <3>. QED  BY <1>0, <2>1, <3>1 DEF IInv, CpuInv
  <2>3. Settled(st, current_priority)
    BY Zenon, <2>1, <2>2, ScheduleSettles
  <2>4. \A u \in Thread : StatusKept(u)
    BY Zenon, <2>2, <2>3, SettledKept
  <2>5. QuietClock
    BY <2>1 DEF QuietClock, sleepVars
  <2>6. \A t \in Thread : pc'[t] = pc[t]
    BY Zenon, <1>0, <2>1
  <2>. QED  BY Zenon, <2>1, <2>4, <2>5, <2>6, QuietStep DEF priVars, sleepVars
<1>9. ASSUME NEW l \in Lock, lock_acquire(l) \/ lock_try_acquire(l)
      PROVE  WaitsForLock(l) \/ TakesLock(l)
  BY Zenon, <1>9, AcquireKinds
<1>11. ASSUME NEW s \in Sema, sema_up(s)  PROVE Ups(s)
  BY Zenon, <1>11 DEF sema_up, Ups, Calls
<1>12. ASSUME NEW s \in IrqSema, device_interrupt(s)
       PROVE  s \in Sema /\ Ups(s)
  BY Zenon, <1>12, EndHltPc, ConstantsAssumption DEF device_interrupt, Ups, IntrOn
<1>13. CASE WakeUp
  <2>1. /\ pc[cur] = "timer_sleep" /\ Goto("run", NULL)
        /\ UNCHANGED <<cpuVars, priVars, lockVars, semaVars, sleepVars>>
    BY Zenon, <1>13 DEF WakeUp, Resumes, Return
  <2>2. QuietClock
    BY <2>1 DEF QuietClock, cpuVars, sleepVars
  <2>3. "run" \notin WaitOps /\ pc[cur] \notin {"lock_acquire", "sema_down"}
    BY <2>1 DEF WaitOps
  <2>4. \A t \in Thread : StatusKept(t)
    BY Zenon, <1>k, <2>1 DEF cpuVars
  <2>. QED  BY Zenon, <1>g, <2>1, <2>2, <2>3, <2>4, QuietStep DEF priVars, sleepVars
<1>14. CASE timer_interrupt
  <2>1. /\ context' = "timer"
        /\ ticks' = IF ticks < MaxTicks THEN ticks + 1 ELSE ticks
        /\ UNCHANGED <<status, priVars, pcVars, lockVars, semaVars, sleep_list,
                       wakeup_time>>
    BY Zenon, <1>14 DEF timer_interrupt
  <2>2. QuietClock
    BY <1>0, <2>1 DEF QuietClock
  <2>3. \A t \in Thread : StatusKept(t)
    BY Zenon, <1>k, <2>1
  <2>. QED  BY Zenon, <2>1, <2>2, <2>3, QuietStep DEF priVars, pcVars
<1>15. CASE thread_tick
  <2>1. /\ ~SleeperDue /\ EndHlt
        /\ UNCHANGED status \/ thread_yield(ready_list, status, current_priority)
        /\ UNCHANGED <<priVars, arg, lockVars, semaVars, sleepVars>>
    BY Zenon, <1>15 DEF thread_tick
  <2>2. QuietClock
    BY <2>1 DEF QuietClock, sleepVars
  <2>3. \A t \in Thread : StatusKept(t)
    BY Zenon, <1>0, <1>k, <2>1, YieldKept
  <2>4. \A t \in Thread : pc'[t] = pc[t]
    BY Zenon, <2>1, EndHltPc
  <2>. QED  BY Zenon, <2>1, <2>2, <2>3, <2>4, QuietStep DEF priVars, sleepVars
<1>. QED
  BY Zenon, <1>1, <1>2, <1>3, <1>4, <1>5, <1>6, <1>7, <1>8, <1>9, <1>11,
     <1>12, <1>13, <1>14, <1>15 DEF Next
----------------------------------------------------------------------------
(* What the operations that wake or wait do to the threads.                *)

(* lock_release wakes the first of the sorted waiters, if any.             *)
LEMMA ReleaseEffect ==
  ASSUME IInv, NEW l \in Lock, lock_release(l)
  PROVE  \/ lock_waiters[l] = <<>> /\ UNCHANGED <<cpuVars, pcVars, lock_waiters>>
         \/ \E q \in ListSort(lock_waiters[l], current_priority) :
              /\ q \in Seq(Thread) /\ q # <<>>
              /\ Head(q) \in Blocked("lock_acquire", l)
              /\ Range(q) = Blocked("lock_acquire", l)
              /\ lock_waiters' = [lock_waiters EXCEPT ![l] = Tail(q)]
              /\ thread_unblock(Head(q), ready_list, status, current_priority',
                                FALSE)
              /\ Wakes(Head(q))
<1>0. cur \in Thread
  BY Running DEF lock_release, Calls
<1>1. PICK n \in Pri : current_priority' = [current_priority EXCEPT ![cur] = n]
  BY Zenon DEF lock_release
<1>2. ReadyQueue(ready_list, status, current_priority')
  BY Zenon, <1>0, <1>1, RunningPriority
<1>3. WakeLockWaiter(l) /\ UNCHANGED pcVars
  BY Zenon DEF lock_release
<1>4. ASSUME lock_waiters[l] # <<>>,
             NEW q \in ListSort(lock_waiters[l], current_priority),
             thread_unblock(Head(q), ready_list, status, current_priority', FALSE)
      PROVE  /\ q \in Seq(Thread) /\ q # <<>>
             /\ Head(q) \in Blocked("lock_acquire", l)
             /\ Range(q) = Blocked("lock_acquire", l)
             /\ Wakes(Head(q))
  <2>1. /\ lock_waiters[l] \in Seq(Thread)
        /\ Lists(lock_waiters[l], Blocked("lock_acquire", l))
    BY Zenon DEF IInv, WaitInv
  <2>2. /\ q \in Seq(Thread) /\ q # <<>> /\ Lists(q, Blocked("lock_acquire", l))
        /\ Head(q) \in Thread /\ Head(q) \in Blocked("lock_acquire", l)
        /\ status[Head(q)] = "BLOCKED"
    BY <1>4, <2>1, SortedWaiter
  <2>3. Wakes(Head(q))
    BY Zenon, <1>2, <1>3, <1>4, <2>2, UnblockWakes DEF pcVars
  <2>. QED  BY Zenon, <2>2, <2>3 DEF Lists
<1>. QED  BY Zenon, <1>3, <1>4 DEF WakeLockWaiter

(* sema_down takes a unit, or waits.                                       *)
LEMMA DownEffect ==
  ASSUME IInv, NEW s \in Sema, sema_down(s)
  PROVE  /\ cur \in Thread /\ pc[cur] \in {"run", "sema_down"}
         /\ pc[cur] = "sema_down" => arg[cur] = s
         /\ UNCHANGED <<context, priVars, lockVars, sleepVars>>
         /\ \/ /\ value[s] > 0 /\ value' = [value EXCEPT ![s] = @ - 1]
               /\ Goto("run", NULL)
               /\ UNCHANGED <<cpuVars, sema_waiters>>
            \/ /\ value[s] = 0 /\ value' = value
               /\ sema_waiters' = [sema_waiters EXCEPT ![s] = PushBack(@, cur)]
               /\ Blocks("sema_down", s, {})
<1>1. /\ cur # Idle /\ pc[cur] \in {"run", "sema_down"}
      /\ pc[cur] = "sema_down" => arg[cur] = s
      /\ UNCHANGED <<context, priVars, lockVars, sleepVars>>
  BY Zenon DEF sema_down, Calls, Resumes, cpuVars
<1>2. /\ cur \in Thread /\ cur \in Threads
  BY <1>1, Running
<1>3. CASE /\ Goto("sema_down", s)
           /\ schedule(ready_list, [status EXCEPT ![cur] = "BLOCKED"])
  <2>1. Blocks("sema_down", s, {})
    BY Zenon, <1>1, <1>2, <1>3, ScheduleBlocks DEF IInv, CpuInv, priVars
  <2>. QED  BY Zenon, <1>1, <1>2, <1>3, <2>1 DEF sema_down, Return
<1>. QED  BY Zenon, <1>1, <1>2, <1>3 DEF sema_down, Return

(* sema_up wakes one of the waiters, if any.                               *)
LEMMA UpEffect ==
  ASSUME IInv, NEW s \in Sema, Ups(s)
  PROVE  /\ value' = [value EXCEPT ![s] = @ + 1]
         /\ UNCHANGED <<priVars, lockVars, sleepVars>>
         /\ \/ /\ sema_waiters[s] = <<>> /\ UNCHANGED <<cpuVars, arg, sema_waiters>>
               /\ \A t \in Thread : pc'[t] = pc[t]
            \/ /\ sema_waiters[s] # <<>>
               /\ \E q \in ListSort(sema_waiters[s], current_priority) :
                     sema_waiters' = [sema_waiters EXCEPT ![s] = Tail(q)]
               /\ \E w \in Blocked("sema_down", s) : Wakes(w)
<1>1. PICK b \in BOOLEAN : Up(s, b)
  BY Zenon DEF Ups
<1>2. \A t \in Thread : pc'[t] = pc[t]
  BY Zenon DEF Ups
<1>3. ASSUME SemaWakes(s), NEW q \in ListSort(sema_waiters[s], current_priority),
             thread_unblock(Head(q), ready_list, status, current_priority, b),
             UNCHANGED <<arg, current_priority>>
      PROVE  Head(q) \in Blocked("sema_down", s) /\ Wakes(Head(q))
  <2>1. /\ sema_waiters[s] \in Seq(Thread) /\ sema_waiters[s] # <<>>
        /\ Lists(sema_waiters[s], Blocked("sema_down", s))
    BY Zenon, <1>3 DEF IInv, WaitInv, SemaWakes
  <2>2. /\ Head(q) \in Thread /\ Head(q) \in Blocked("sema_down", s)
        /\ status[Head(q)] = "BLOCKED"
    BY <1>3, <2>1, SortedWaiter
  <2>3. Wakes(Head(q))
    BY Zenon, <1>2, <1>3, <2>2, UnblockWakes DEF IInv, CpuInv
  <2>. QED  BY Zenon, <2>2, <2>3
<1>4. /\ value' = [value EXCEPT ![s] = @ + 1]
      /\ UNCHANGED <<priVars, arg, lockVars, sleepVars>>
      /\ \/ /\ sema_waiters[s] = <<>> /\ UNCHANGED <<cpuVars, sema_waiters>>
         \/ /\ SemaWakes(s)
            /\ \E q \in ListSort(sema_waiters[s], current_priority) :
                 /\ sema_waiters' = [sema_waiters EXCEPT ![s] = Tail(q)]
                 /\ thread_unblock(Head(q), ready_list, status,
                                   current_priority, b)
  BY Zenon, <1>1 DEF Up, SemaWakes
<1>5. UNCHANGED current_priority
  BY Zenon, <1>4 DEF priVars
<1>. QED  BY Zenon, <1>2, <1>3, <1>4, <1>5 DEF SemaWakes

(* timer_sleep waits.                                                      *)
LEMMA SleepEffect ==
  ASSUME IInv, NEW n \in SleepTicks, timer_sleep(n)
  PROVE  /\ cur \in Thread /\ pc[cur] = "run" /\ status[cur] = "RUNNING"
         /\ Blocks("timer_sleep", NULL, {})
<1>1. cur # Idle /\ pc[cur] = "run"
  BY Zenon DEF timer_sleep, Calls
<1>2. cur \in Thread /\ status[cur] = "RUNNING"
  BY <1>1, Running
<1>3. /\ Goto("timer_sleep", NULL) /\ UNCHANGED priVars
      /\ schedule(ready_list, [status EXCEPT ![cur] = "BLOCKED"])
  BY Zenon DEF timer_sleep
<1>4. Blocks("timer_sleep", NULL, {})
  BY ZenonT(30), <1>2, <1>3, ScheduleBlocks DEF IInv, CpuInv, priVars
<1>. QED  BY <1>1, <1>2, <1>4

(* handle_sleeping_threads wakes the first sleeper.                        *)
LEMMA HandleEffect ==
  ASSUME IInv, handle_sleeping_threads
  PROVE  /\ Head(sleep_list) \in Blocked("timer_sleep", NULL)
         /\ Wakes(Head(sleep_list))
<1>1. /\ sleep_list \in Seq(Thread) /\ sleep_list # <<>>
      /\ Lists(sleep_list, Blocked("timer_sleep", NULL))
  BY Zenon DEF handle_sleeping_threads, SleeperDue, IInv, WaitInv
<1>2. Head(sleep_list) \in Thread /\ Head(sleep_list) \in Range(sleep_list)
  BY <1>1, PopFrontList DEF Lists
<1>3. Head(sleep_list) \in Blocked("timer_sleep", NULL)
  BY <1>1, <1>2 DEF Lists
<1>4. /\ thread_unblock(Head(sleep_list), ready_list, status, current_priority,
                        TRUE)
      /\ UNCHANGED <<pc, arg, current_priority>>
  BY Zenon DEF handle_sleeping_threads, priVars, pcVars
<1>5. ReadyQueue(ready_list, status, current_priority)
  BY Zenon DEF IInv, CpuInv
<1>6. Wakes(Head(sleep_list))
  BY Zenon, <1>2, <1>3, <1>4, <1>5, UnblockWakes DEF Blocked
<1>. QED  BY <1>3, <1>6

(* Thread t, if it is on its way to try again, stays so. *)
Stays(t) ==
  status[t] \in Awake /\ pc[t] \in {"lock_acquire", "sema_down"} =>
    status'[t] \in Awake /\ pc'[t] = pc[t] /\ arg'[t] = arg[t]

(* A woken thread is awake, and nobody else stops trying.                  *)
LEMMA WakesStays ==
  ASSUME IInv, IInv', NEW w \in Thread, Wakes(w), status[w] = "BLOCKED"
  PROVE  status'[w] \in Awake /\ \A t \in Thread : Stays(t)
<1>1. \A t \in Thread : status[t] \in States /\ status'[t] \in States
  BY Zenon DEF IInv, CpuInv, ReadyQueue, Threads
<1>2. \A t \in Thread : status[t] \in Awake \/ t = w => status'[t] \in Awake
  BY <1>1 DEF Wakes, Awake, States
<1>. QED  BY Zenon, <1>2 DEF Wakes, Stays

(* When the running thread waits, nobody else stops trying.                *)
LEMMA BlocksStays ==
  ASSUME IInv, IInv', NEW op, NEW x, NEW W, Blocks(op, x, W)
  PROVE  \A t \in Thread : t # cur => Stays(t)
<1>1. \A t \in Thread : status[t] \in States /\ status'[t] \in States
  BY Zenon DEF IInv, CpuInv, ReadyQueue, Threads
<1>2. \A t \in Thread : status[t] \in Awake /\ t # cur => status'[t] \in Awake
  BY <1>1 DEF Blocks, Awake, States
<1>. QED  BY Zenon, <1>2 DEF Blocks, Stays

(* A thread stops trying only in a step of its own loop.                   *)
LEMMA OthersStay ==
  ASSUME IInv, IInv', [Next]_vars
  PROVE  /\ \A t \in Thread : t # cur => Stays(t)
         /\ \/ \A t \in Thread : Stays(t)
            \/ \E l \in Lock : WaitsForLock(l) \/ TakesLock(l)
            \/ \E s \in Sema : sema_down(s)
<1>0. ASSUME NEW t \in Thread, status'[t] = status[t], pc'[t] = pc[t],
             arg'[t] = arg[t]
      PROVE  Stays(t)
  BY Zenon, <1>0 DEF Stays
<1>1. CASE Quiet
  BY Zenon, <1>1 DEF Quiet, QuietThread, Stays
<1>2. ASSUME NEW l \in Lock, WaitsForLock(l)
      PROVE  \A t \in Thread : t # cur => Stays(t)
  BY Zenon, <1>2, WaitForLockBlocks, BlocksStays DEF WaitsForLock
<1>3. ASSUME NEW l \in Lock, TakesLock(l)
      PROVE  \A t \in Thread : t # cur => Stays(t)
  BY Zenon, <1>0, <1>3 DEF TakesLock, cpuVars
<1>4. ASSUME NEW l \in Lock, lock_release(l)  PROVE \A t \in Thread : Stays(t)
  <2>1. CASE UNCHANGED <<cpuVars, pcVars>>
    BY Zenon, <1>0, <2>1 DEF cpuVars, pcVars
  <2>2. ASSUME NEW w \in Blocked("lock_acquire", l), Wakes(w)
        PROVE  \A t \in Thread : Stays(t)
    BY Zenon, <2>2, WakesStays DEF Blocked
  <2>. QED  BY Zenon, <1>4, <2>1, <2>2, ReleaseEffect
<1>5. ASSUME NEW s \in Sema, sema_down(s)
      PROVE  \A t \in Thread : t # cur => Stays(t)
  <2>1. CASE Blocks("sema_down", s, {})
    BY Zenon, <2>1, BlocksStays
  <2>2. CASE Goto("run", NULL) /\ UNCHANGED cpuVars
    BY <1>0, <2>2 DEF Goto, cpuVars, IInv, DataType, Threads
  <2>. QED  BY Zenon, <1>5, <2>1, <2>2, DownEffect
<1>6. ASSUME NEW s \in Sema, sema_try_down(s)  PROVE \A t \in Thread : Stays(t)
  BY Zenon, <1>0, <1>6 DEF sema_try_down, cpuVars, pcVars
<1>7. ASSUME NEW s \in Sema, Ups(s)  PROVE \A t \in Thread : Stays(t)
  <2>1. CASE /\ UNCHANGED <<cpuVars, arg, sema_waiters>>
             /\ \A t \in Thread : pc'[t] = pc[t]
    BY Zenon, <1>0, <2>1 DEF cpuVars
  <2>2. ASSUME NEW w \in Blocked("sema_down", s), Wakes(w)
        PROVE  \A t \in Thread : Stays(t)
    BY Zenon, <2>2, WakesStays DEF Blocked
  <2>. QED  BY Zenon, <1>7, <2>1, <2>2, UpEffect
<1>8. ASSUME NEW n \in SleepTicks, timer_sleep(n)  PROVE \A t \in Thread : Stays(t)
  <2>1. Stays(cur)
    BY Zenon, <1>8, SleepEffect DEF Stays
  <2>. QED  BY Zenon, <1>8, <2>1, SleepEffect, BlocksStays
<1>9. CASE handle_sleeping_threads
  BY Zenon, <1>9, HandleEffect, WakesStays DEF Blocked
<1>. QED  BY Zenon, <1>1, <1>2, <1>3, <1>4, <1>5, <1>6, <1>7, <1>8, <1>9, StepKinds
----------------------------------------------------------------------------
(* Wake-ups of locks.                                                      *)

(* Someone comes for lock l. *)
LEMMA LockRetried ==
  ASSUME NEW l \in Lock
  PROVE  Retrying("lock_acquire", l) # {} <=>
           \E t \in Thread : /\ status[t] \in Awake
                             /\ pc[t] = "lock_acquire" /\ arg[t] = l
BY Zenon DEF Retrying, Awake

(* No step loses a wake-up of a lock.                                      *)
LEMMA NextLockWakeup ==
  ASSUME IInv, IInv', NoLostLockWakeup, [Next]_vars
  PROVE  NoLostLockWakeup'
<1>. SUFFICES ASSUME NEW m \in Lock, holder'[m] = NULL, lock_waiters'[m] # <<>>
              PROVE  \E t \in Thread : /\ status'[t] \in Awake
                                       /\ pc'[t] = "lock_acquire" /\ arg'[t] = m
  BY Zenon DEF NoLostLockWakeup, Retrying, Awake
<1>0. holder[m] = NULL /\ lock_waiters[m] # <<>> =>
        \E t \in Thread : /\ status[t] \in Awake
                          /\ pc[t] = "lock_acquire" /\ arg[t] = m
  BY Zenon, LockRetried DEF NoLostLockWakeup
<1>1. CASE holder[m] = NULL /\ lock_waiters[m] # <<>>
  <2>1. PICK t \in Thread : /\ status[t] \in Awake
                            /\ pc[t] = "lock_acquire" /\ arg[t] = m
    BY Zenon, <1>0, <1>1
  <2>2. CASE Stays(t)
    BY Zenon, <2>1, <2>2 DEF Stays
  <2>3. CASE ~Stays(t)
    <3>1. /\ t = cur
          /\ \/ \E l \in Lock : WaitsForLock(l) \/ TakesLock(l)
             \/ \E s \in Sema : sema_down(s)
      BY Zenon, <2>3, OthersStay
    <3>2. ASSUME NEW l \in Lock, WaitsForLock(l)  PROVE FALSE
      BY Zenon, <1>1, <2>1, <3>1, <3>2 DEF WaitsForLock, WaitForLock
    <3>3. ASSUME NEW l \in Lock, TakesLock(l)  PROVE FALSE
      <4>1. l = m /\ holder' = [holder EXCEPT ![l] = cur] /\ cur \in Thread
        BY Zenon, <2>1, <3>1, <3>3 DEF TakesLock, TakeLock
      <4>. QED  BY <4>1, ConstantsAssumption DEF IInv, DataType
    <3>4. ASSUME NEW s \in Sema, sema_down(s)  PROVE FALSE
      <4>1. pc[cur] \in {"run", "sema_down"}
        BY Zenon, <3>4, DownEffect
      <4>. QED  BY <2>1, <3>1, <4>1
    <3>. QED  BY Zenon, <3>1, <3>2, <3>3, <3>4
  <2>. QED  BY <2>2, <2>3
<1>2. CASE ~(holder[m] = NULL /\ lock_waiters[m] # <<>>)
  <2>1. ASSUME UNCHANGED <<holder, lock_waiters>>  PROVE FALSE
    BY Zenon, <1>2, <2>1
  <2>2. ~Quiet
    BY Zenon, <2>1 DEF Quiet, lockVars
  <2>3. ASSUME NEW l \in Lock, WaitsForLock(l)  PROVE FALSE
    <3>1. /\ holder' = holder /\ holder[l] # NULL
          /\ m # l => lock_waiters'[m] \in {lock_waiters[m],
                                            Remove(lock_waiters[m], holder[l])}
      BY Zenon, <2>3 DEF WaitsForLock, WaitForLock
    <3>2. m # l /\ lock_waiters[m] = <<>>
      BY Zenon, <1>2, <3>1
    <3>3. Remove(<<>>, holder[l]) = <<>>
      BY DEF Remove, Range
    <3>. QED  BY Zenon, <3>1, <3>2, <3>3
  <2>4. ASSUME NEW l \in Lock, TakesLock(l)  PROVE FALSE
    <3>1. /\ holder[l] = NULL /\ holder' = [holder EXCEPT ![l] = cur]
          /\ lock_waiters' = lock_waiters
      BY Zenon, <2>4 DEF TakesLock, TakeLock
    <3>2. m # l => holder'[m] = holder[m]
      BY <3>1 DEF IInv, DataType
    <3>. QED  BY Zenon, <1>2, <3>1, <3>2
  <2>5. ASSUME NEW l \in Lock, lock_release(l)
        PROVE  \E t \in Thread : /\ status'[t] \in Awake
                                 /\ pc'[t] = "lock_acquire" /\ arg'[t] = m
    <3>1. holder' = [holder EXCEPT ![l] = NULL]
      BY Zenon, <2>5 DEF lock_release
    <3>2. m # l => holder'[m] = holder[m]
      BY <3>1 DEF IInv, DataType
    <3>3. lock_waiters \in [Lock -> Seq(Thread)]
      BY Zenon DEF IInv, WaitInv
    <3>4. CASE lock_waiters[l] = <<>> /\ UNCHANGED <<cpuVars, pcVars, lock_waiters>>
      BY Zenon, <1>2, <3>2, <3>4
    <3>5. ASSUME NEW q, Head(q) \in Blocked("lock_acquire", l), Wakes(Head(q)),
                 lock_waiters' = [lock_waiters EXCEPT ![l] = Tail(q)]
          PROVE  \E t \in Thread : /\ status'[t] \in Awake
                                   /\ pc'[t] = "lock_acquire" /\ arg'[t] = m
      <4>1. m # l => lock_waiters'[m] = lock_waiters[m]
        BY Zenon, <3>3, <3>5
      <4>2. m = l
        BY Zenon, <1>2, <3>2, <4>1
      <4>3. Head(q) \in Thread /\ status'[Head(q)] \in Awake
        BY Zenon, <3>5, WakesStays DEF Blocked
      <4>. QED  BY Zenon, <3>5, <4>2, <4>3 DEF Wakes, Blocked
    <3>. QED  BY Zenon, <2>5, <3>4, <3>5, ReleaseEffect
  <2>6. ASSUME NEW s \in Sema, sema_down(s) \/ sema_try_down(s) \/ Ups(s)
        PROVE  FALSE
    BY Zenon, <2>1, <2>6 DEF sema_down, sema_try_down, Ups, Up, lockVars
  <2>7. ASSUME NEW n \in SleepTicks, timer_sleep(n)  PROVE FALSE
    BY Zenon, <2>1, <2>7 DEF timer_sleep, lockVars
  <2>8. CASE handle_sleeping_threads
    BY Zenon, <2>1, <2>8 DEF handle_sleeping_threads, lockVars
  <2>. QED  BY Zenon, <2>2, <2>3, <2>4, <2>5, <2>6, <2>7, <2>8, StepKinds
<1>. QED  BY <1>1, <1>2

(* No wake-up of lock_release is ever lost, for any number of threads and  *)
(* locks: a free lock that threads wait for has a woken thread coming.     *)
THEOREM WakeupsKept == Spec => []NoLostLockWakeup
<1>1. Init => NoLostLockWakeup
  BY DEF Init, NoLostLockWakeup
<1>2. IInv /\ IInv' /\ NoLostLockWakeup /\ [Next]_vars => NoLostLockWakeup'
  BY NextLockWakeup
<1>. QED  BY <1>1, <1>2, SpecIInv, PTL DEF Spec

----------------------------------------------------------------------------
(* Sleepers.                                                               *)

(* The sleep list is ordered by wakeup_time, so that the loop of           *)
(* handle_sleeping_threads stops at the first thread that is not due.      *)
SleepInv == Ascending(sleep_list, wakeup_time) /\ SleepersOnTime

(* Thread t, if a donation cannot wake it, is not woken early. *)
OnTime(t) == owned_locks[t] = {} => ~WokenEarly(t)

(* A thread that does not start to be awake in timer_sleep.                *)
LEMMA OnTimeKept ==
  ASSUME IInv, IInv', NEW t \in Thread, OnTime(t),
         owned_locks'[t] = {} /\ pc'[t] = "timer_sleep" /\ status'[t] # "BLOCKED" =>
           /\ owned_locks[t] = {}
           /\ pc[t] = "timer_sleep" /\ status[t] # "BLOCKED"
           /\ wakeup_time'[t] = wakeup_time[t] \/ wakeup_time'[t] = 0
           /\ ticks' >= ticks
  PROVE  OnTime(t)'
<1>1. /\ ticks \in Nat /\ ticks' \in Nat
      /\ wakeup_time[t] \in Nat /\ wakeup_time'[t] \in Nat
  BY Zenon DEF IInv, DataType, Threads
<1>. QED  BY <1>1 DEF OnTime, WokenEarly

(* No step disturbs SleepInv.                                              *)
LEMMA NextSleep ==
  ASSUME IInv, IInv', SleepInv, [Next]_vars
  PROVE  SleepInv'
<1>0. /\ sleep_list \in Seq(Thread) /\ IsInjective(sleep_list)
      /\ Range(sleep_list) = Blocked("timer_sleep", NULL)
      /\ Range(sleep_list) \subseteq Thread
      /\ wakeup_time \in [Threads -> Nat] /\ ticks \in Nat /\ Thread \subseteq Threads
      /\ sleep_list \in Seq(Threads)
  <2>1. /\ sleep_list \in Seq(Thread) /\ IsInjective(sleep_list)
        /\ Range(sleep_list) = Blocked("timer_sleep", NULL)
        /\ wakeup_time \in [Threads -> Nat] /\ ticks \in Nat
    BY Zenon DEF IInv, WaitInv, DataType, Lists
  <2>2. Range(sleep_list) \subseteq Thread
    BY Zenon, <2>1 DEF Blocked
  <2>3. Thread \subseteq Threads
    BY Zenon DEF Threads
  <2>. QED  BY <2>1, <2>2, <2>3
<1>1. /\ Ascending(sleep_list, wakeup_time)
      /\ context = "thread" => \A t \in Range(sleep_list) : wakeup_time[t] > ticks
      /\ \A t \in Thread : OnTime(t)
  BY Zenon DEF SleepInv, SleepersOnTime, OnTime
<1>2. ASSUME /\ Ascending(sleep_list', wakeup_time')
             /\ context' = "thread" =>
                  \A t \in Range(sleep_list') : wakeup_time'[t] > ticks'
             /\ \A t \in Thread : OnTime(t)'
      PROVE  SleepInv'
  BY Zenon, <1>2 DEF SleepInv, SleepersOnTime, OnTime, WokenEarly
<1>p. ASSUME UNCHANGED <<sleep_list, wakeup_time, ticks>>,
             context' = "thread" => context = "thread",
             \A t \in Thread :
               owned_locks'[t] = {} /\ pc'[t] = "timer_sleep" /\ status'[t] # "BLOCKED"
               => /\ owned_locks[t] = {}
                  /\ pc[t] = "timer_sleep" /\ status[t] # "BLOCKED"
      PROVE  SleepInv'
  <2>1. ticks' >= ticks
    BY <1>0, <1>p
  <2>2. \A t \in Thread : OnTime(t)'
    BY Zenon, <1>1, <1>p, <2>1, OnTimeKept
  <2>. QED  BY Zenon, <1>1, <1>2, <1>p, <2>2
<1>3. CASE Quiet
  <2>1. sleep_list' = sleep_list /\ QuietClock /\ \A t \in Thread : QuietThread(t)
    BY Zenon, <1>3 DEF Quiet
  <2>2. \A t \in Range(sleep_list) : wakeup_time'[t] = wakeup_time[t]
    BY <1>0, <2>1 DEF Blocked, QuietThread
  <2>3. Ascending(sleep_list', wakeup_time')
    BY <1>0, <1>1, <2>1, <2>2, AscendingSame
  <2>4. ASSUME context' = "thread", NEW t \in Range(sleep_list')
        PROVE  wakeup_time'[t] > ticks'
    <3>1. /\ ticks' = ticks /\ t \in Range(sleep_list)
          /\ wakeup_time'[t] = wakeup_time[t]
          /\ context = "thread" \/ ~SleeperDue
      BY Zenon, <2>1, <2>2, <2>4 DEF QuietClock
    <3>2. CASE context = "thread"
      BY Zenon, <1>1, <3>1, <3>2
    <3>3. CASE ~SleeperDue
      <4>1. sleep_list # <<>> /\ Head(sleep_list) \in Range(sleep_list)
        <5>1. sleep_list \in Seq(Threads) /\ t \in Range(sleep_list)
          BY Zenon, <1>0, <3>1
        <5>. QED  BY ONLY <5>1 DEF Range
      <4>2. ~(wakeup_time[Head(sleep_list)] <= ticks)
        BY Zenon, <3>3, <4>1 DEF SleeperDue
      <4>3. wakeup_time[Head(sleep_list)] <= wakeup_time[t]
        BY <1>0, <1>1, <3>1, <4>1, AscendingTail
      <4>4. wakeup_time[t] \in Nat /\ wakeup_time[Head(sleep_list)] \in Nat
        BY <1>0, <3>1, <4>1
      <4>. QED  BY <1>0, <3>1, <4>2, <4>3, <4>4
    <3>. QED  BY <3>1, <3>2, <3>3
  <2>5. ticks' >= ticks
    BY <1>0, <2>1 DEF QuietClock
  <2>6. owned_locks' = owned_locks
    BY Zenon, <1>3 DEF Quiet, lockVars
  <2>7. ASSUME NEW t \in Thread  PROVE OnTime(t)'
    <3>1. /\ status'[t] = "BLOCKED" <=> status[t] = "BLOCKED"
          /\ pc'[t] = "timer_sleep" => pc[t] = "timer_sleep"
          /\ wakeup_time'[t] = wakeup_time[t] \/ wakeup_time'[t] = 0
      BY <2>1 DEF QuietThread, WaitOps
    <3>. QED  BY Zenon, <1>1, <2>5, <2>6, <3>1, OnTimeKept
  <2>. QED  BY Zenon, <1>2, <2>3, <2>4, <2>7
<1>4. ASSUME NEW l \in Lock, WaitsForLock(l)  PROVE SleepInv'
  <2>. DEFINE h == holder[l]
  <2>1. /\ cur \in Thread /\ UNCHANGED <<context, owned_locks, wakeup_time, ticks>>
        /\ l \notin owned_locks[cur] /\ WaitForLock(l) /\ Goto("lock_acquire", l)
    BY Zenon, <1>4 DEF WaitsForLock
  <2>2. /\ h \in Thread
        /\ Blocks("lock_acquire", l, IF Donates(l) THEN {h} ELSE {})
    BY Zenon, <2>1, WaitForLockBlocks
  <2>3. owned_locks[h] # {}
    BY Zenon, <2>2 DEF IInv, HolderOwns
  <2>4. sleep_list' \in {sleep_list, Remove(sleep_list, h)}
    BY Zenon, <2>1 DEF WaitForLock
  <2>5. Ascending(sleep_list', wakeup_time')
    BY <1>0, <1>1, <2>1, <2>4, AscendingRemove
  <2>6. Range(sleep_list') \subseteq Range(sleep_list)
    <3>1. Range(Remove(sleep_list, h)) = Range(sleep_list) \ {h}
      BY Zenon, <1>0, RemoveList
    <3>. QED  BY Zenon, <2>4, <3>1
  <2>7. ticks' >= ticks
    BY <1>0, <2>1
  <2>8. ASSUME NEW t \in Thread  PROVE OnTime(t)'
    <3>1. CASE t = cur
      <4>1. pc'[t] # "timer_sleep"
        BY <2>2, <3>1 DEF Blocks
      <4>. QED  BY Zenon, <4>1 DEF OnTime, WokenEarly
    <3>2. CASE t # cur
      <4>1. /\ pc'[t] = pc[t]
            /\ status'[t] # "BLOCKED" => status[t] # "BLOCKED" \/ t = h
        BY Zenon, <2>2, <3>2 DEF Blocks
      <4>. QED  BY Zenon, <1>1, <2>1, <2>3, <2>7, <4>1, OnTimeKept
    <3>. QED  BY <3>1, <3>2
  <2>. QED  BY Zenon, <1>1, <1>2, <2>1, <2>5, <2>6, <2>8
<1>5. ASSUME NEW l \in Lock, TakesLock(l)  PROVE SleepInv'
  <2>1. /\ UNCHANGED <<context, status, sleep_list, wakeup_time, ticks>>
        /\ pc'[cur] = "run" /\ \A t \in Thread : t # cur => pc'[t] = pc[t]
        /\ owned_locks' = [owned_locks EXCEPT ![cur] = @ \cup {l}]
    BY Zenon, <1>5 DEF TakesLock, TakeLock, cpuVars, sleepVars
  <2>2. \A t \in Thread : t # cur => owned_locks'[t] = owned_locks[t]
    BY Zenon, <1>0, <2>1 DEF IInv, DataType
  <2>3. "run" # "timer_sleep"
    OBVIOUS
  <2>. QED  BY Zenon, <1>p, <2>1, <2>2, <2>3
<1>6. ASSUME NEW l \in Lock, lock_release(l)  PROVE SleepInv'
  <2>1. /\ UNCHANGED <<pcVars, sleep_list, wakeup_time, ticks>> /\ pc[cur] = "run"
        /\ context = "thread" /\ cur \in Threads
        /\ owned_locks' = [owned_locks EXCEPT ![cur] = @ \ {l}]
    BY Zenon, <1>6 DEF lock_release, Calls, sleepVars, IInv, CpuInv
  <2>2. \A t \in Thread : t # cur => owned_locks'[t] = owned_locks[t]
    BY Zenon, <1>0, <2>1 DEF IInv, DataType
  <2>3. "run" # "timer_sleep" /\ "lock_acquire" # "timer_sleep"
    OBVIOUS
  <2>4. \A t \in Thread : pc[t] = "timer_sleep" /\ status'[t] # "BLOCKED" =>
                             status[t] # "BLOCKED"
    <3>1. CASE UNCHANGED cpuVars
      BY Zenon, <3>1 DEF cpuVars
    <3>2. ASSUME NEW w \in Blocked("lock_acquire", l), Wakes(w)
          PROVE  \A t \in Thread : pc[t] = "timer_sleep" /\ status'[t] # "BLOCKED" =>
                                      status[t] # "BLOCKED"
      BY Zenon, <2>3, <3>2 DEF Blocked, Wakes
    <3>. QED  BY Zenon, <1>6, <3>1, <3>2, ReleaseEffect
  <2>. QED  BY Zenon, <1>p, <2>1, <2>2, <2>3, <2>4 DEF pcVars
<1>7. ASSUME NEW s \in Sema, sema_down(s)  PROVE SleepInv'
  <2>1. UNCHANGED <<context, owned_locks, sleep_list, wakeup_time, ticks>>
    BY Zenon, <1>7, DownEffect DEF sleepVars, lockVars
  <2>2. "run" # "timer_sleep" /\ "sema_down" # "timer_sleep"
    OBVIOUS
  <2>3. \A t \in Thread : pc'[t] = "timer_sleep" /\ status'[t] # "BLOCKED" =>
                             pc[t] = "timer_sleep" /\ status[t] # "BLOCKED"
    <3>1. CASE Goto("run", NULL) /\ UNCHANGED cpuVars
      BY Zenon, <2>2, <3>1 DEF cpuVars, Goto, IInv, DataType, Threads
    <3>2. CASE Blocks("sema_down", s, {})
      BY <2>2, <3>2 DEF Blocks
    <3>. QED  BY Zenon, <1>7, <3>1, <3>2, DownEffect
  <2>. QED  BY Zenon, <1>p, <2>1, <2>3
<1>8. ASSUME NEW s \in Sema, sema_try_down(s)  PROVE SleepInv'
  BY Zenon, <1>p, <1>8 DEF sema_try_down, cpuVars, pcVars, sleepVars, lockVars
<1>9. ASSUME NEW s \in Sema, Ups(s)  PROVE SleepInv'
  <2>1. UNCHANGED <<owned_locks, sleep_list, wakeup_time, ticks>> /\ context = "thread"
    BY Zenon, <1>9, UpEffect DEF sleepVars, lockVars, Ups
  <2>2. "sema_down" # "timer_sleep"
    OBVIOUS
  <2>3. \A t \in Thread : pc'[t] = "timer_sleep" /\ status'[t] # "BLOCKED" =>
                             pc[t] = "timer_sleep" /\ status[t] # "BLOCKED"
    <3>1. CASE UNCHANGED cpuVars /\ \A t \in Thread : pc'[t] = pc[t]
      BY Zenon, <3>1 DEF cpuVars
    <3>2. ASSUME NEW w \in Blocked("sema_down", s), Wakes(w)
          PROVE  \A t \in Thread : pc'[t] = "timer_sleep" /\ status'[t] # "BLOCKED" =>
                                      pc[t] = "timer_sleep" /\ status[t] # "BLOCKED"
      BY Zenon, <2>2, <3>2 DEF Blocked, Wakes
    <3>. QED  BY Zenon, <1>9, <3>1, <3>2, UpEffect
  <2>. QED  BY Zenon, <1>p, <2>1, <2>3
<1>10. ASSUME NEW n \in SleepTicks, timer_sleep(n)  PROVE SleepInv'
  <2>. DEFINE wt == [wakeup_time EXCEPT ![cur] = ticks + n]
  <2>1. /\ wakeup_time' = wt /\ UNCHANGED <<context, owned_locks, ticks>>
        /\ context = "thread"
        /\ \E k : /\ IsInsertPoint(sleep_list, k, cur, wt)
                  /\ sleep_list' = InsertAt(sleep_list, k, cur)
    BY Zenon, <1>10 DEF timer_sleep, Calls, lockVars
  <2>2. /\ cur \in Thread /\ status[cur] = "RUNNING"
        /\ Blocks("timer_sleep", NULL, {})
    BY Zenon, <1>10, SleepEffect
  <2>3. cur \notin Range(sleep_list)
    BY <1>0, <2>2 DEF Blocked
  <2>4. n \in Nat \ {0} /\ ticks + n \in Nat /\ ticks + n > ticks
    BY <1>0, ConstantsAssumption
  <2>5. wt \in [Threads -> Nat] /\ wt[cur] = ticks + n
    BY <1>0, <2>2, <2>4
  <2>6. \A t \in Threads : t # cur => wt[t] = wakeup_time[t]
    BY Zenon, <1>0
  <2>7. \A t \in Range(sleep_list) : wt[t] = wakeup_time[t]
    BY Zenon, <1>0, <2>3, <2>6
  <2>. HIDE DEF wt
  <2>8. Ascending(sleep_list, wt)
    BY <1>0, <1>1, <2>7, AscendingSame
  <2>9. PICK k : /\ IsInsertPoint(sleep_list, k, cur, wt)
                 /\ sleep_list' = InsertAt(sleep_list, k, cur)
    BY Zenon, <2>1
  <2>10. Ascending(sleep_list', wt)
    BY Zenon, <1>0, <2>2, <2>5, <2>8, <2>9, AscendingInsert
  <2>11. Range(sleep_list') = Range(sleep_list) \cup {cur}
    <3>1. k \in 1..(Len(sleep_list) + 1)
      BY Zenon, <2>9 DEF IsInsertPoint
    <3>. QED  BY <1>0, <2>2, <2>3, <2>9, <3>1, InsertList
  <2>12. \A t \in Range(sleep_list') : wt[t] > ticks
    BY Zenon, <1>1, <2>1, <2>4, <2>5, <2>7, <2>11
  <2>13. ticks' >= ticks
    BY <1>0, <2>1
  <2>14. ASSUME NEW t \in Thread  PROVE OnTime(t)'
    <3>1. CASE t = cur
      <4>1. status'[t] = "BLOCKED"
        BY Zenon, <2>2, <3>1 DEF Blocks
      <4>. QED  BY Zenon, <4>1 DEF OnTime, WokenEarly
    <3>2. CASE t # cur
      <4>1. pc'[t] = pc[t] /\ (status'[t] # "BLOCKED" => status[t] # "BLOCKED")
        BY <2>2, <3>2 DEF Blocks
      <4>2. wakeup_time'[t] = wakeup_time[t]
        BY Zenon, <1>0, <2>1, <2>6, <3>2
      <4>. QED  BY Zenon, <1>1, <2>1, <2>13, <4>1, <4>2, OnTimeKept
    <3>. QED  BY <3>1, <3>2
  <2>. QED  BY Zenon, <1>2, <2>1, <2>10, <2>12, <2>14
<1>11. CASE handle_sleeping_threads
  <2>. DEFINE w == Head(sleep_list)
  <2>1. /\ sleep_list # <<>> /\ sleep_list' = Tail(sleep_list)
        /\ wakeup_time[w] <= ticks
        /\ context = "timer" /\ context' \in {context, "panic"}
        /\ UNCHANGED <<pc, owned_locks, wakeup_time, ticks>>
    BY Zenon, <1>11
    DEF handle_sleeping_threads, SleeperDue, thread_unblock, pcVars, lockVars
  <2>2. w \in Thread /\ Wakes(w)
    BY Zenon, <1>11, HandleEffect DEF Blocked
  <2>3. Ascending(sleep_list', wakeup_time')
    BY <1>0, <1>1, <2>1, AscendingTail
  <2>4. context' # "thread"
    BY <2>1
  <2>5. ticks' >= ticks
    BY <1>0, <2>1
  <2>6. ASSUME NEW t \in Thread  PROVE OnTime(t)'
    <3>1. CASE t = w
      <4>1. wakeup_time'[t] = wakeup_time[w] /\ ticks' = ticks
        BY Zenon, <2>1, <3>1
      <4>2. ~(wakeup_time'[t] > ticks')
        BY <1>0, <2>1, <2>2, <4>1
      <4>. QED  BY Zenon, <4>2 DEF OnTime, WokenEarly
    <3>2. CASE t # w
      BY Zenon, <1>1, <2>1, <2>2, <2>5, <3>2, OnTimeKept DEF Wakes
    <3>. QED  BY <3>1, <3>2
  <2>. QED  BY Zenon, <1>2, <2>3, <2>4, <2>6
<1>. QED
  BY Zenon, <1>3, <1>4, <1>5, <1>6, <1>7, <1>8, <1>9, <1>10, <1>11, StepKinds

(* handle_sleeping_threads wakes every sleeper at its tick, for any number *)
(* of sleepers, any clock and any interrupts: none is asleep past its time *)
(* once the interrupt is over, and none that holds no lock is up early.    *)
THEOREM Sleepers == Spec => []SleepersOnTime
<1>1. Init => SleepInv
  BY DEF Init, SleepInv, SleepersOnTime, Ascending, WokenEarly, Range, Threads
<1>2. IInv /\ IInv' /\ SleepInv /\ [Next]_vars => SleepInv'
  BY NextSleep
<1>3. SleepInv => SleepersOnTime
  BY DEF SleepInv
<1>. QED  BY <1>1, <1>2, <1>3, SpecIInv, PTL DEF Spec
============================================================================
