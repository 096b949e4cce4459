------------------------- MODULE ThreadsPriority --------------------------
(***************************************************************************)
(* The running thread is one of the highest priority, a donation is kept,  *)
(* no wake-up of sema_up is lost and, for threads that hold one lock at a  *)
(* time, no holder of a lock runs below one that waits for it.             *)
(***************************************************************************)
EXTENDS ThreadsWakeups, FiniteSetTheorems

----------------------------------------------------------------------------
(* Priorities.                                                             *)

(* No ready thread outranks the next one to run. *)
NextIsHighest(cp) ==
  \A t \in Thread : status'[t] = "READY" => cp[t] <= cp[cur']

(* next_thread_to_run takes the front of the highest list.                 *)
LEMMA ScheduleHighest ==
  ASSUME NEW rl, NEW st, NEW cp, ReadyQueue(rl, st, cp), schedule(rl, st)
  PROVE  NextIsHighest(cp)
<1>1. /\ rl \in [Pri -> Seq(Thread)] /\ st \in [Threads -> States]
      /\ cp \in [Threads -> Pri] /\ Thread \subseteq Threads
      /\ \A p \in Pri :
           Range(rl[p]) = {t \in Thread : st[t] = "READY" /\ cp[t] = p}
  BY Zenon DEF ReadyQueue, ReadyListed, Lists, Threads
<1>2. \A p \in Pri : p \in Int
  BY ConstantsAssumption DEF Pri
<1>3. ASSUME NEW t \in Thread, st[t] = "READY"
      PROVE  cp[t] \in Pri /\ rl[cp[t]] # <<>>
  <2>1. cp[t] \in Pri /\ t \in Range(rl[cp[t]])
    BY Zenon, <1>1, <1>3
  <2>2. Range(<<>>) = {}
    BY DEF Range
  <2>. QED  BY Zenon, <2>1, <2>2
<1>4. ASSUME NEW n, n \in Threads, NEW rl1, SwitchTo(n, rl1, st)
      PROVE  \A t \in Thread : status'[t] = "READY" => st[t] = "READY"
  BY <1>1, <1>4 DEF SwitchTo
<1>5. CASE (\A p \in Pri : rl[p] = <<>>) /\ SwitchTo(Idle, rl, st)
  BY Zenon, <1>3, <1>4, <1>5 DEF NextIsHighest, Threads
<1>6. ASSUME NEW p \in Pri, rl[p] # <<>>, \A q \in Pri : q > p => rl[q] = <<>>,
             SwitchTo(Head(rl[p]), [rl EXCEPT ![p] = Tail(@)], st)
      PROVE  NextIsHighest(cp)
  <2>1. Head(rl[p]) \in Range(rl[p])
    BY <1>1, <1>6 DEF Range
  <2>2. Head(rl[p]) \in Threads /\ cp[Head(rl[p])] = p /\ cur' = Head(rl[p])
    BY Zenon, <1>1, <1>6, <2>1 DEF SwitchTo
  <2>3. ASSUME NEW t \in Thread, status'[t] = "READY"  PROVE cp[t] <= cp[cur']
    <3>1. cp[t] \in Pri /\ ~(cp[t] > p)
      BY Zenon, <1>3, <1>4, <1>6, <2>2, <2>3
    <3>. QED  BY <1>2, <2>2, <3>1
  <2>. QED  BY Zenon, <2>3 DEF NextIsHighest
<1>. QED  BY Zenon, <1>5, <1>6 DEF schedule

(* thread_yield.                                                           *)
LEMMA YieldHighest ==
  ASSUME NEW rl, NEW st, NEW cp, ReadyQueue(rl, st, cp), cur \in Threads,
         st[cur] = "RUNNING", thread_yield(rl, st, cp)
  PROVE  NextIsHighest(cp)
<1>. DEFINE st1 == [st EXCEPT ![cur] = "READY"]
<1>1. CASE cur = Idle
  <2>1. /\ \A t \in Thread : st1[t] = st[t]
        /\ st1 \in [Threads -> States]
    BY <1>1, ConstantsAssumption DEF ReadyQueue, Threads, States
  <2>2. ReadyQueue(rl, st1, cp)
    BY Zenon, <2>1 DEF ReadyQueue, ReadyListed
  <2>3. schedule(rl, st1)
    BY Zenon, <1>1 DEF thread_yield
  <2>. QED  BY Zenon, <2>2, <2>3, ScheduleHighest
<1>2. CASE cur # Idle
  <2>1. cur \in Thread /\ st[cur] # "READY"
    BY <1>2 DEF Threads
  <2>2. ReadyQueue([rl EXCEPT ![cp[cur]] = PushBack(@, cur)], st1, cp)
    BY <2>1, Enqueue
  <2>3. schedule([rl EXCEPT ![cp[cur]] = PushBack(@, cur)], st1)
    BY Zenon, <1>2 DEF thread_yield
  <2>. QED  BY Zenon, <2>2, <2>3, ScheduleHighest
<1>. QED  BY <1>1, <1>2

(* thread_unblock: if the machine does not stop, w runs next if it is one  *)
(* of the highest, or the running thread is not below w and goes on.       *)
LEMMA UnblockHighest ==
  ASSUME NEW cp, ReadyQueue(ready_list, status, cp), CpuInv,
         NEW w \in Thread, status[w] = "BLOCKED", NEW b,
         thread_unblock(w, ready_list, status, cp, b)
  PROVE  \/ context' = "panic"
         \/ NextIsHighest(cp)
         \/ /\ cur' = cur /\ (cur = Idle \/ cp[w] <= cp[cur])
            /\ \A t \in Thread : status'[t] = "READY" => status[t] = "READY" \/ t = w
<1>. DEFINE rl1 == [ready_list EXCEPT ![cp[w]] = PushBack(@, w)]
            st1 == [status EXCEPT ![w] = "READY"]
<1>1. ReadyQueue(rl1, st1, cp)
  BY Enqueue
<1>2. /\ cur \in Threads /\ status \in [Threads -> States]
      /\ status[cur] = "RUNNING" /\ Thread \subseteq Threads
  BY Zenon DEF CpuInv, ReadyQueue, Threads
<1>3. st1[cur] = "RUNNING"
  BY <1>2
<1>4. \A t \in Thread : st1[t] = "READY" => status[t] = "READY" \/ t = w
  BY Zenon, <1>2
<1>5. cp[w] \in Int /\ cp[cur] \in Int
  BY <1>2, ConstantsAssumption DEF ReadyQueue, Pri
<1>. HIDE DEF rl1, st1
<1>6. \/ context' = "panic"
      \/ thread_yield(rl1, st1, cp)
      \/ KeepCpu(rl1, st1) /\ ~Preempts(w, cp)
  BY Zenon DEF thread_unblock, rl1, st1
<1>7. ASSUME ~Preempts(w, cp)  PROVE cur = Idle \/ cp[w] <= cp[cur]
  BY <1>5, <1>7 DEF Preempts
<1>. QED  BY Zenon, <1>1, <1>2, <1>3, <1>4, <1>6, <1>7, YieldHighest DEF KeepCpu

(* list_sort with priority_great puts one of the highest first.            *)
LEMMA SortHighest ==
  ASSUME NEW s \in Seq(Thread), s # <<>>, NEW key, key \in [Threads -> Pri],
         NEW q \in ListSort(s, key)
  PROVE  \A w \in Range(q) : key[w] <= key[Head(q)]
<1>1. /\ q \in [1..Len(s) -> Range(s)]
      /\ \A i, j \in DOMAIN q : i < j => key[q[i]] >= key[q[j]]
  BY DEF ListSort
<1>2. Len(s) \in Nat /\ Len(s) > 0 /\ Range(s) \subseteq Threads
  BY DEF Range, Threads
<1>3. /\ q \in Seq(Threads) /\ Head(q) = q[1] /\ DOMAIN q = 1..Len(s)
      /\ 1 \in DOMAIN q
  BY <1>1, <1>2
<1>4. \A i \in DOMAIN q : key[q[i]] \in Int
  BY <1>1, <1>2, ConstantsAssumption DEF Pri
<1>5. ASSUME NEW w \in Range(q)  PROVE key[w] <= key[Head(q)]
  <2>1. PICK i \in DOMAIN q : w = q[i]
    BY DEF Range
  <2>. QED  BY <1>1, <1>2, <1>3, <1>4, <2>1
<1>. QED  BY <1>5

(* Thread w is waiting for lock l, or is about to try again, and accounts  *)
(* for the bounty on it. *)
Backs(w, l) ==
  /\ pc[w] = "lock_acquire" /\ arg[w] = l
  /\ \/ status[w] = "BLOCKED" /\ current_priority[w] >= bounty[l]
     \/ status[w] \in Awake /\ current_priority[w] > bounty[l]

(* Only a lock that is held carries a bounty, and only as long as a thread *)
(* of at least that priority has not got the lock.                         *)
Backed ==
  \A l \in Lock : bounty[l] # 0 =>
    holder[l] # NULL /\ \E w \in Thread : Backs(w, l)

(* Thread w is not touched while it waits. *)
Undisturbed(w) ==
  /\ status[w] = "BLOCKED" =>
       status'[w] = "BLOCKED" /\ pc'[w] = pc[w] /\ arg'[w] = arg[w]
  /\ Stays(w)
  /\ current_priority'[w] = current_priority[w]

(* Such a thread still backs the bounty.                                   *)
LEMMA StillBacked ==
  ASSUME NEW w \in Thread, NEW l, Backs(w, l), Undisturbed(w),
         bounty'[l] = bounty[l]
  PROVE  Backs(w, l)'
<1>1. /\ pc[w] = "lock_acquire" /\ arg[w] = l
      /\ pc[w] \in {"lock_acquire", "sema_down"}
  BY DEF Backs
<1>2. pc'[w] = pc[w] /\ arg'[w] = arg[w]
  BY Zenon, <1>1 DEF Backs, Undisturbed, Stays
<1>. QED  BY Zenon, <1>1, <1>2 DEF Backs, Undisturbed, Stays

(* A thread that waits for a lock keeps backing the other bounties, and    *)
(* backs the one on the lock.                                              *)
LEMMA WaitsBacked ==
  ASSUME IInv, IInv', Backed, NEW l \in Lock, WaitsForLock(l), [Next]_vars,
         NEW m \in Lock, bounty'[m] # 0
  PROVE  \E w \in Thread : Backs(w, m)'
<1>. DEFINE h == holder[l]
            p == current_priority[cur]
<1>1. /\ cur \in Thread /\ l \notin owned_locks[cur]
      /\ WaitForLock(l) /\ Goto("lock_acquire", l)
      /\ pc[cur] = "lock_acquire" => arg[cur] = l
  BY Zenon DEF WaitsForLock
<1>2. /\ h \in Thread /\ h # cur /\ status[h] \in {"READY", "BLOCKED"}
      /\ Blocks("lock_acquire", l, IF Donates(l) THEN {h} ELSE {})
  BY Zenon, <1>1, WaitForLockBlocks
<1>3. /\ current_priority \in [Threads -> Pri] /\ bounty \in [Lock -> Pri]
      /\ Thread \subseteq Threads /\ \A r \in Pri : r \in Int
      /\ status[cur] = "RUNNING" /\ status'[h] \in States
  <2>1. \A r \in Pri : r \in Int
    BY ConstantsAssumption DEF Pri
  <2>2. /\ Thread \subseteq Threads /\ current_priority \in [Threads -> Pri]
        /\ bounty \in [Lock -> Pri]
    BY Zenon DEF IInv, CpuInv, ReadyQueue, DataType, Threads
  <2>3. status[cur] = "RUNNING" /\ status'[h] \in States
    BY Zenon, <1>1, <1>2, <2>2 DEF IInv, CpuInv, ReadyQueue
  <2>. QED  BY <2>1, <2>2, <2>3
<1>4. p \in Pri /\ current_priority[h] \in Pri
  BY Zenon, <1>1, <1>2, <1>3
<1>5. /\ status'[cur] = "BLOCKED" /\ pc'[cur] = "lock_acquire" /\ arg'[cur] = l
      /\ \A w \in Thread : w # cur => pc'[w] = pc[w] /\ arg'[w] = arg[w] /\ Stays(w)
      /\ \A w \in Thread : status[w] = "BLOCKED" /\ (w # h \/ ~Donates(l)) =>
           status'[w] = "BLOCKED"
  <2>1. \A w \in Thread : w # cur => Stays(w)
    BY Zenon, OthersStay
  <2>. QED  BY Zenon, <1>1, <1>2, <2>1 DEF Blocks
<1>6. /\ bounty' = IF Donates(l) THEN [bounty EXCEPT ![l] = p] ELSE bounty
      /\ current_priority' = IF Donates(l) THEN [current_priority EXCEPT ![h] = p]
                             ELSE current_priority
  BY Zenon, <1>1 DEF WaitForLock
<1>7. CASE Donates(l) /\ m = l
  <2>1. bounty'[m] = p /\ current_priority'[cur] = p
    BY <1>1, <1>2, <1>3, <1>6, <1>7
  <2>2. current_priority'[cur] >= bounty'[m]
    BY <1>3, <1>4, <2>1
  <2>. QED  BY Zenon, <1>1, <1>5, <1>7, <2>2 DEF Backs
<1>8. CASE ~(Donates(l) /\ m = l)
  <2>1. bounty'[m] = bounty[m]
    BY Zenon, <1>3, <1>6, <1>8
  <2>2. PICK w \in Thread : Backs(w, m)
    BY Zenon, <2>1 DEF Backed
  <2>3. /\ pc[w] = "lock_acquire" /\ arg[w] = m
        /\ current_priority[w] \in Int /\ bounty[m] \in Int
    BY <1>3, <2>2 DEF Backs
  <2>4. CASE w = cur
    <3>1. m = l /\ ~Donates(l)
      BY Zenon, <1>1, <1>8, <2>3, <2>4
    <3>2. current_priority'[w] = current_priority[w]
      BY Zenon, <1>6, <3>1
    <3>3. current_priority[w] > bounty[m]
      BY <1>3, <2>2, <2>4 DEF Backs
    <3>4. current_priority'[w] >= bounty'[m]
      BY <2>1, <2>3, <3>2, <3>3
    <3>. QED  BY Zenon, <1>5, <2>4, <3>1, <3>4 DEF Backs
  <2>5. CASE w # cur /\ w = h /\ Donates(l)
    <3>1. current_priority'[w] = p /\ current_priority[w] < p
      BY <1>2, <1>3, <1>6, <2>5 DEF Donates
    <3>2. current_priority[w] >= bounty[m]
      BY <2>2, <2>3 DEF Backs
    <3>3. current_priority'[w] > bounty'[m]
      BY <1>3, <1>4, <2>1, <2>3, <3>1, <3>2
    <3>4. status'[w] \in Awake
      BY <1>2, <1>3, <2>5 DEF Blocks, Awake, States
    <3>. QED  BY Zenon, <1>5, <2>3, <2>5, <3>3, <3>4 DEF Backs
  <2>6. CASE w # cur /\ ~(w = h /\ Donates(l))
    <3>1. current_priority'[w] = current_priority[w]
      BY Zenon, <1>3, <1>6, <2>6
    <3>2. Undisturbed(w)
      BY Zenon, <1>5, <2>6, <3>1 DEF Undisturbed
    <3>. QED  BY Zenon, <2>1, <2>2, <3>2, StillBacked
  <2>. QED  BY Zenon, <2>4, <2>5, <2>6
<1>. QED  BY Zenon, <1>7, <1>8

(* No step leaves a bounty that nobody backs.                              *)
LEMMA NextBacked ==
  ASSUME IInv, IInv', Backed, [Next]_vars
  PROVE  Backed'
<1>. SUFFICES ASSUME NEW m \in Lock, bounty'[m] # 0
              PROVE  holder'[m] # NULL /\ \E w \in Thread : Backs(w, m)'
  BY Zenon DEF Backed
<1>0. \A w \in Thread : w # cur => Stays(w)
  BY Zenon, OthersStay
<1>1. ASSUME bounty'[m] = bounty[m], holder'[m] = holder[m],
             \A w \in Thread : Backs(w, m) => Undisturbed(w)
      PROVE  holder'[m] # NULL /\ \E w \in Thread : Backs(w, m)'
  BY Zenon, <1>1, StillBacked DEF Backed
<1>2. \A w \in Thread : Backs(w, m) =>
        /\ pc[w] = "lock_acquire" /\ arg[w] = m /\ status[w] # "FREE"
        /\ pc[w] # "set_priority" /\ pc[w] \in {"lock_acquire", "sema_down"}
        /\ pc[w] # "run" /\ pc[w] # "sema_down" /\ pc[w] # "timer_sleep"
  BY DEF Backs, Awake
<1>3. CASE Quiet
  <2>1. bounty' = bounty /\ holder' = holder
    BY Zenon, <1>3 DEF Quiet, lockVars
  <2>2. \A w \in Thread : Backs(w, m) => Undisturbed(w)
    BY Zenon, <1>2, <1>3 DEF Quiet, QuietThread, Undisturbed, Stays
  <2>. QED  BY Zenon, <1>1, <2>1, <2>2
<1>4. ASSUME NEW l \in Lock, WaitsForLock(l)
      PROVE  holder'[m] # NULL /\ \E w \in Thread : Backs(w, m)'
  <2>1. /\ holder' = holder /\ holder[l] # NULL
        /\ m # l => bounty'[m] = bounty[m]
    BY Zenon, <1>4 DEF WaitsForLock, WaitForLock, IInv, DataType
  <2>2. holder'[m] # NULL
    BY Zenon, <2>1 DEF Backed
  <2>. QED  BY Zenon, <1>4, <2>2, WaitsBacked
<1>5. ASSUME NEW l \in Lock, TakesLock(l)
      PROVE  holder'[m] # NULL /\ \E w \in Thread : Backs(w, m)'
  <2>1. /\ holder[l] = NULL /\ holder' = [holder EXCEPT ![l] = cur]
        /\ UNCHANGED <<bounty, status, current_priority>>
        /\ pc[cur] = "lock_acquire" => arg[cur] = l
    BY Zenon, <1>5 DEF TakesLock, TakeLock, cpuVars, priVars
  <2>2. m # l /\ holder'[m] = holder[m]
    BY Zenon, <2>1 DEF Backed, IInv, DataType
  <2>3. \A w \in Thread : Backs(w, m) => w # cur
    BY Zenon, <1>2, <2>1, <2>2
  <2>4. \A w \in Thread : Backs(w, m) => Undisturbed(w)
    BY Zenon, <1>0, <1>5, <2>1, <2>3 DEF TakesLock, Undisturbed
  <2>. QED  BY Zenon, <1>1, <2>1, <2>2, <2>4
<1>6. ASSUME NEW l \in Lock, lock_release(l)
      PROVE  holder'[m] # NULL /\ \E w \in Thread : Backs(w, m)'
  <2>1. /\ pc[cur] = "run" /\ UNCHANGED pcVars
        /\ holder' = [holder EXCEPT ![l] = NULL]
        /\ bounty' = [bounty EXCEPT ![l] = 0]
        /\ \E n \in Pri : current_priority' = [current_priority EXCEPT ![cur] = n]
    BY Zenon, <1>6 DEF lock_release, Calls, ClearedBounty
  <2>2. m # l /\ holder'[m] = holder[m] /\ bounty'[m] = bounty[m]
    BY Zenon, <2>1 DEF IInv, DataType
  <2>3. ASSUME NEW w \in Thread, Backs(w, m)  PROVE Undisturbed(w)
    <3>1. w # cur /\ w \notin Blocked("lock_acquire", l)
      BY Zenon, <1>2, <2>1, <2>2, <2>3 DEF Blocked
    <3>2. current_priority'[w] = current_priority[w]
      BY Zenon, <2>1, <3>1 DEF IInv, CpuInv, ReadyQueue, Threads
    <3>3. status[w] = "BLOCKED" => status'[w] = "BLOCKED"
      BY Zenon, <1>6, <3>1, ReleaseEffect DEF Wakes, cpuVars
    <3>. QED  BY Zenon, <1>0, <2>1, <3>1, <3>2, <3>3 DEF Undisturbed, pcVars
  <2>. QED  BY Zenon, <1>1, <2>2, <2>3
<1>7. ASSUME UNCHANGED <<bounty, holder, current_priority>>,
             \A w \in Thread : Backs(w, m) =>
               /\ status[w] = "BLOCKED" => status'[w] = "BLOCKED" /\ pc'[w] = pc[w]
                                           /\ arg'[w] = arg[w]
               /\ Stays(w)
      PROVE  holder'[m] # NULL /\ \E w \in Thread : Backs(w, m)'
  BY Zenon, <1>1, <1>7 DEF Undisturbed
<1>8. ASSUME NEW s \in Sema, sema_down(s)
      PROVE  holder'[m] # NULL /\ \E w \in Thread : Backs(w, m)'
  <2>1. /\ UNCHANGED <<bounty, holder, current_priority>>
        /\ pc[cur] \in {"run", "sema_down"} /\ cur \in Threads
    BY Zenon, <1>8, DownEffect DEF lockVars, priVars, Threads
  <2>2. \A w \in Thread : Backs(w, m) => w # cur
    BY Zenon, <1>2, <2>1
  <2>3. \A w \in Thread : status[w] = "BLOCKED" /\ w # cur =>
           status'[w] = "BLOCKED" /\ pc'[w] = pc[w] /\ arg'[w] = arg[w]
    <3>1. CASE Goto("run", NULL) /\ UNCHANGED cpuVars
      BY Zenon, <3>1 DEF cpuVars, Goto, IInv, DataType, Threads
    <3>2. CASE Blocks("sema_down", s, {})
      <4>1. \A w : w \notin {}
        OBVIOUS
      <4>. QED  BY Zenon, <3>2, <4>1 DEF Blocks
    <3>. QED  BY Zenon, <1>8, <3>1, <3>2, DownEffect
  <2>. QED  BY Zenon, <1>0, <1>7, <2>1, <2>2, <2>3
<1>9. ASSUME NEW s \in Sema, sema_try_down(s)
      PROVE  holder'[m] # NULL /\ \E w \in Thread : Backs(w, m)'
  BY Zenon, <1>7, <1>9
  DEF sema_try_down, cpuVars, pcVars, priVars, lockVars, Stays
<1>w. ASSUME NEW v \in Thread, Wakes(v), status[v] = "BLOCKED",
             pc[v] # "lock_acquire", UNCHANGED <<bounty, holder, current_priority>>
      PROVE  holder'[m] # NULL /\ \E w \in Thread : Backs(w, m)'
  <2>1. \A t \in Thread : Stays(t)
    BY Zenon, <1>w, WakesStays
  <2>. QED  BY Zenon, <1>2, <1>7, <1>w, <2>1 DEF Wakes
<1>10. ASSUME NEW s \in Sema, Ups(s)
      PROVE  holder'[m] # NULL /\ \E w \in Thread : Backs(w, m)'
  <2>1. UNCHANGED <<bounty, holder, current_priority>>
    BY Zenon, <1>10, UpEffect DEF lockVars, priVars
  <2>2. CASE UNCHANGED <<cpuVars, arg>> /\ \A t \in Thread : pc'[t] = pc[t]
    BY Zenon, <1>7, <2>1, <2>2 DEF cpuVars, Stays
  <2>3. ASSUME NEW v \in Blocked("sema_down", s), Wakes(v)
        PROVE  holder'[m] # NULL /\ \E w \in Thread : Backs(w, m)'
    <3>1. v \in Thread /\ status[v] = "BLOCKED" /\ pc[v] # "lock_acquire"
      BY DEF Blocked
    <3>. QED  BY Zenon, <1>w, <2>1, <2>3, <3>1
  <2>. QED  BY Zenon, <1>10, <2>2, <2>3, UpEffect
<1>11. ASSUME NEW n \in SleepTicks, timer_sleep(n)
      PROVE  holder'[m] # NULL /\ \E w \in Thread : Backs(w, m)'
  <2>1. /\ UNCHANGED <<bounty, holder, current_priority>>
        /\ pc[cur] = "run" /\ Blocks("timer_sleep", NULL, {})
    BY Zenon, <1>11, SleepEffect DEF timer_sleep, lockVars, priVars
  <2>2. \A w \in Thread : Backs(w, m) => w # cur
    BY Zenon, <1>2, <2>1
  <2>3. \A w \in Thread : status[w] = "BLOCKED" /\ w # cur =>
           status'[w] = "BLOCKED" /\ pc'[w] = pc[w] /\ arg'[w] = arg[w]
    <3>1. \A w : w \notin {}
      OBVIOUS
    <3>. QED  BY Zenon, <2>1, <3>1 DEF Blocks
  <2>. QED  BY Zenon, <1>0, <1>7, <2>1, <2>2, <2>3
<1>12. CASE handle_sleeping_threads
  <2>1. UNCHANGED <<bounty, holder, current_priority>>
    BY Zenon, <1>12 DEF handle_sleeping_threads, lockVars, priVars
  <2>2. Head(sleep_list) \in Blocked("timer_sleep", NULL) /\ Wakes(Head(sleep_list))
    BY Zenon, <1>12, HandleEffect
  <2>3. /\ Head(sleep_list) \in Thread /\ status[Head(sleep_list)] = "BLOCKED"
        /\ pc[Head(sleep_list)] # "lock_acquire"
    BY <2>2 DEF Blocked
  <2>. QED  BY Zenon, <1>w, <2>1, <2>2, <2>3
<1>. QED
  BY Zenon, <1>3, <1>4, <1>5, <1>6, <1>8, <1>9, <1>10, <1>11, <1>12, StepKinds

(* Unless the machine has stopped, no ready thread outranks the running    *)
(* one, but perhaps the one that it is creating.                           *)
TopRuns ==
  context # "panic" /\ cur # Idle =>
    \A t \in Thread : status[t] = "READY" =>
      \/ pc[cur] = "thread_create" /\ arg[cur] = t
      \/ current_priority[t] <= current_priority[cur]

(* The running thread gives the CPU away, in a state that is not ready.    *)
LEMMA GivesHighest ==
  ASSUME NEW rl, NEW st, NEW cp, ReadyQueue(rl, st, cp), NEW t \in Threads,
         st[t] = "RUNNING", NEW x \in {"BLOCKED", "DYING", "FREE"},
         schedule(rl, [st EXCEPT ![t] = x])
  PROVE  NextIsHighest(cp)
<1>1. x \in States /\ x # "READY" /\ st[t] # "READY"
  BY DEF States
<1>2. ReadyQueue(rl, [st EXCEPT ![t] = x], cp)
  BY Zenon, <1>1, Restate
<1>. QED  BY Zenon, <1>2, ScheduleHighest

(* The same in lock_acquire, after a donation.                             *)
LEMMA WaitHighest ==
  ASSUME IInv, NEW l \in Lock, WaitsForLock(l)
  PROVE  NextIsHighest(current_priority')
<1>. DEFINE h == holder[l]
            p == current_priority[cur]
            cp == [current_priority EXCEPT ![h] = p]
            st == [status EXCEPT ![h] = "READY"]
            rl == [r \in Pri |-> IF r = p
                                 THEN PushBack(Remove(ready_list[r], h), h)
                                 ELSE Remove(ready_list[r], h)]
<1>1. /\ cur \in Thread /\ l \notin owned_locks[cur]
      /\ WaitForLock(l) /\ Goto("lock_acquire", l)
  BY Zenon DEF WaitsForLock
<1>2. /\ h \in Thread /\ h # cur /\ status[h] \in {"READY", "BLOCKED"}
      /\ Relinks(h)
  BY Zenon, <1>1, WaitForLockBlocks DEF Relinks
<1>3. /\ cur \in Threads /\ status[cur] = "RUNNING" /\ p \in Pri
      /\ ReadyQueue(ready_list, status, current_priority)
      /\ "BLOCKED" \in {"BLOCKED", "DYING", "FREE"}
  BY <1>1 DEF IInv, CpuInv, ReadyQueue, Threads
<1>4. CASE Donates(l)
  <2>1. current_priority' = cp /\ schedule(rl, [st EXCEPT ![cur] = "BLOCKED"])
    BY <1>1, <1>2, <1>4 DEF WaitForLock
  <2>2. ReadyQueue(rl, st, cp)
    BY ZenonT(30), <1>2, <1>3, Relink
  <2>3. st[cur] = "RUNNING"
    BY Zenon, <1>2, <1>3 DEF ReadyQueue
  <2>. HIDE DEF rl, st, cp
  <2>. QED  BY Zenon, <1>3, <2>1, <2>2, <2>3, GivesHighest
<1>5. CASE ~Donates(l)
  <2>1. /\ current_priority' = current_priority
        /\ schedule([r \in Pri |-> ready_list[r]],
                    [status EXCEPT ![cur] = "BLOCKED"])
    BY Zenon, <1>1, <1>5 DEF WaitForLock
  <2>2. [r \in Pri |-> ready_list[r]] = ready_list
    BY Zenon, <1>3 DEF ReadyQueue
  <2>. QED  BY Zenon, <1>3, <2>1, <2>2, GivesHighest
<1>. QED  BY <1>4, <1>5

(* A demotion in lock_release never leaves the running thread below a      *)
(* ready one: the waiter that is woken preempts it.                        *)
LEMMA ReleaseTop ==
  ASSUME IInv, TopRuns, Backed, NEW l \in Lock, lock_release(l)
  PROVE  TopRuns'
<1>0. /\ cur \in Thread /\ cur \in Threads /\ pc[cur] = "run" /\ cur # Idle
      /\ context = "thread" /\ UNCHANGED pcVars /\ Thread \subseteq Threads
      /\ current_priority \in [Threads -> Pri] /\ bounty \in [Lock -> Pri]
      /\ status[cur] = "RUNNING"
  <2>1. cur # Idle /\ pc[cur] = "run" /\ context = "thread" /\ UNCHANGED pcVars
    BY Zenon DEF lock_release, Calls
  <2>2. cur \in Thread /\ cur \in Threads /\ status[cur] = "RUNNING"
    BY Zenon, <2>1, Running
  <2>. QED  BY Zenon, <2>1, <2>2 DEF IInv, CpuInv, ReadyQueue, DataType, Threads
<1>1. PICK n \in Pri :
        /\ current_priority' = [current_priority EXCEPT ![cur] = n]
        /\ current_priority[cur] # bounty[l] => n = current_priority[cur]
  BY Zenon DEF lock_release
<1>2. ReadyQueue(ready_list, status, current_priority')
  BY Zenon, <1>0, <1>1, RunningPriority
<1>3. /\ \A r \in Pri : r \in Int /\ r >= 0
      /\ \A t \in Threads : current_priority[t] \in Int
      /\ n \in Int /\ bounty[l] \in Int
  <2>1. \A r \in Pri : r \in Int /\ r >= 0
    BY ConstantsAssumption DEF Pri
  <2>. QED  BY Zenon, <1>0, <2>1
<1>4. /\ current_priority'[cur] = n
      /\ \A t \in Thread : t # cur => current_priority'[t] = current_priority[t]
  BY Zenon, <1>0, <1>1
<1>5. \A t \in Thread : status[t] = "READY" =>
        current_priority[t] <= current_priority[cur] /\ t # cur
  <2>1. "run" # "thread_create" /\ "thread" # "panic" /\ "READY" # "RUNNING"
    OBVIOUS
  <2>. QED  BY Zenon, <1>0, <2>1 DEF TopRuns
<1>6. \/ current_priority[cur] <= n
      \/ \E w \in Blocked("lock_acquire", l) :
           current_priority[w] >= current_priority[cur]
  <2>1. CASE current_priority[cur] # bounty[l] \/ bounty[l] = 0
    BY <1>0, <1>1, <1>3, <2>1
  <2>2. CASE current_priority[cur] = bounty[l] /\ bounty[l] # 0
    <3>1. PICK w \in Thread : Backs(w, l)
      BY Zenon, <2>2 DEF Backed
    <3>2. CASE status[w] = "BLOCKED"
      BY Zenon, <2>2, <3>1, <3>2 DEF Backs, Blocked, Awake
    <3>3. CASE status[w] = "READY"
      <4>1. current_priority[w] > bounty[l] /\ current_priority[w] \in Int
        BY <1>0, <1>3, <3>1, <3>3 DEF Backs
      <4>2. current_priority[w] <= current_priority[cur]
        BY Zenon, <1>5, <3>3
      <4>. QED  BY <1>3, <2>2, <4>1, <4>2
    <3>4. status[w] # "RUNNING"
      <4>1. pc[w] # "run"
        BY <3>1 DEF Backs
      <4>. QED  BY Zenon, <1>0, <4>1 DEF IInv, CpuInv
    <3>. QED  BY <3>1, <3>2, <3>3, <3>4 DEF Backs, Awake
  <2>. QED  BY <2>1, <2>2
<1>7. ASSUME cur' = cur, current_priority[cur] <= n,
             \A t \in Thread : status'[t] = "READY" =>
               status[t] = "READY" \/ (t # cur /\ current_priority[t] <= n)
      PROVE  TopRuns'
  <2>1. ASSUME NEW t \in Thread, status'[t] = "READY"
        PROVE  current_priority'[t] <= n
    <3>1. t # cur /\ (current_priority[t] <= current_priority[cur]
                        \/ current_priority[t] <= n)
      BY Zenon, <1>5, <1>7, <2>1
    <3>. QED  BY <1>0, <1>3, <1>4, <1>7, <3>1
  <2>. QED  BY Zenon, <1>4, <1>7, <2>1 DEF TopRuns
<1>8. CASE lock_waiters[l] = <<>> /\ UNCHANGED cpuVars
  <2>1. Blocked("lock_acquire", l) = {}
    <3>1. Range(<<>>) = {}
      BY DEF Range
    <3>. QED  BY Zenon, <1>8, <3>1 DEF IInv, WaitInv, Lists
  <2>2. current_priority[cur] <= n
    BY Zenon, <1>6, <2>1
  <2>. QED  BY Zenon, <1>7, <1>8, <2>2 DEF cpuVars
<1>9. ASSUME NEW q \in ListSort(lock_waiters[l], current_priority),
             Head(q) \in Blocked("lock_acquire", l),
             Range(q) = Blocked("lock_acquire", l),
             thread_unblock(Head(q), ready_list, status, current_priority', FALSE)
      PROVE  TopRuns'
  <2>. DEFINE v == Head(q)
  <2>1. v \in Thread /\ status[v] = "BLOCKED" /\ v # cur
    BY <1>0, <1>9 DEF Blocked
  <2>2. current_priority'[v] = current_priority[v] /\ current_priority[v] \in Int
    BY Zenon, <1>0, <1>3, <1>4, <2>1
  <2>3. \A w \in Blocked("lock_acquire", l) : current_priority[w] <= current_priority[v]
    <3>1. lock_waiters[l] \in Seq(Thread) /\ lock_waiters[l] # <<>>
      <4>1. Range(<<>>) = {}
        BY DEF Range
      <4>. QED  BY Zenon, <1>9, <4>1 DEF IInv, WaitInv, Lists
    <3>. QED  BY Zenon, <1>0, <1>9, <3>1, SortHighest
  <2>4. \/ context' = "panic"
        \/ NextIsHighest(current_priority')
        \/ /\ cur' = cur /\ current_priority'[v] <= current_priority'[cur]
           /\ \A t \in Thread : status'[t] = "READY" => status[t] = "READY" \/ t = v
    BY Zenon, <1>0, <1>2, <1>9, <2>1, UnblockHighest DEF IInv
  <2>. HIDE DEF v
  <2>5. CASE context' = "panic" \/ NextIsHighest(current_priority')
    BY Zenon, <2>5 DEF TopRuns, NextIsHighest
  <2>6. CASE /\ cur' = cur /\ current_priority'[v] <= current_priority'[cur]
             /\ \A t \in Thread : status'[t] = "READY" => status[t] = "READY" \/ t = v
    <3>1. current_priority[v] <= n
      BY Zenon, <1>4, <2>2, <2>6
    <3>2. current_priority[cur] <= n
      <4>1. ASSUME NEW w \in Blocked("lock_acquire", l),
                   current_priority[w] >= current_priority[cur]
            PROVE  current_priority[cur] <= n
        <5>1. current_priority[w] <= current_priority[v] /\ w \in Threads
          BY Zenon, <1>0, <2>3 DEF Blocked
        <5>. QED  BY <1>0, <1>3, <2>2, <3>1, <4>1, <5>1
      <4>. QED  BY Zenon, <1>6, <4>1
    <3>. QED  BY Zenon, <1>7, <2>1, <2>6, <3>1, <3>2
  <2>. QED  BY Zenon, <2>4, <2>5, <2>6
<1>. QED  BY Zenon, <1>8, <1>9, ReleaseEffect

(* No step leaves the CPU to a thread that a ready one outranks.           *)
LEMMA NextTop ==
  ASSUME IInv, TopRuns, Backed, [Next]_vars
  PROVE  TopRuns'
<1>0. /\ cur \in Threads /\ Thread \subseteq Threads /\ Idle \in Threads
      /\ Idle \notin Thread /\ pc \in [Threads -> Ops \cup {"halt", "loop"}]
      /\ current_priority \in [Threads -> Pri] /\ status[cur] = "RUNNING"
      /\ status \in [Threads -> States]
      /\ cur # Idle => cur \in Thread
      /\ arg \in [Threads -> Lock \cup Sema \cup Thread \cup Pri \cup {NULL}]
      /\ ReadyQueue(ready_list, status, current_priority) /\ CpuInv
  BY Zenon, ConstantsAssumption DEF IInv, CpuInv, ReadyQueue, DataType, Threads
<1>1. NextIsHighest(current_priority') \/ context' = "panic" => TopRuns'
  BY Zenon DEF NextIsHighest, TopRuns
<1>2. ASSUME context # "panic", cur' = cur, UNCHANGED current_priority,
             \A t \in Thread : status'[t] = "READY" =>
               status[t] = "READY" \/ current_priority[t] <= current_priority[cur],
             cur # Idle /\ pc[cur] = "thread_create" =>
               pc'[cur] = pc[cur] /\ arg'[cur] = arg[cur]
      PROVE  TopRuns'
  BY Zenon, <1>2 DEF TopRuns
<1>3. ASSUME context = "thread", UNCHANGED <<cpuVars, current_priority>>,
             cur # Idle => pc[cur] # "thread_create"
      PROVE  TopRuns'
  <2>1. context # "panic"
    BY <1>3
  <2>. QED  BY Zenon, <1>2, <1>3, <2>1 DEF cpuVars
<1>4. ASSUME thread_yield(ready_list, status, current_priority),
             UNCHANGED current_priority
      PROVE  TopRuns'
  BY Zenon, <1>0, <1>1, <1>4, YieldHighest
<1>5. ASSUME NEW x \in {"BLOCKED", "DYING", "FREE"}, UNCHANGED current_priority,
             schedule(ready_list, [status EXCEPT ![cur] = x])
      PROVE  TopRuns'
  BY Zenon, <1>0, <1>1, <1>5, GivesHighest
<1>6. ASSUME NEW w \in Thread, status[w] = "BLOCKED", NEW b, context # "panic",
             thread_unblock(w, ready_list, status, current_priority, b),
             UNCHANGED <<current_priority, arg>>,
             cur # Idle => pc'[cur] = pc[cur]
      PROVE  TopRuns'
  <2>1. CASE cur = Idle /\ cur' = cur
    BY Zenon, <2>1 DEF TopRuns
  <2>2. CASE /\ cur # Idle /\ cur' = cur
             /\ current_priority[w] <= current_priority[cur]
             /\ \A t \in Thread : status'[t] = "READY" => status[t] = "READY" \/ t = w
    BY Zenon, <1>2, <1>6, <2>2
  <2>. QED  BY Zenon, <1>0, <1>1, <1>6, <2>1, <2>2, UnblockHighest
<1>7. CASE UNCHANGED vars \/ Halted
  <2>1. UNCHANGED vars
    BY Zenon, <1>7 DEF Halted
  <2>. QED  BY Zenon, <2>1 DEF TopRuns, vars, cpuVars, priVars, pcVars
<1>8. CASE Yield
  BY Zenon, <1>4, <1>8 DEF Yield, priVars
<1>9. ASSUME NEW t \in Thread, NEW p \in CreatePri, thread_create(t, p)
      PROVE  TopRuns'
  <2>1. /\ context = "thread" /\ cur \in Thread /\ pc[cur] = "run"
        /\ current_priority' = [current_priority EXCEPT ![t] = p]
        /\ cur' = cur /\ status' = [status EXCEPT ![t] = "READY"]
        /\ status[t] = "FREE" /\ pc'[cur] = "thread_create" /\ arg'[cur] = t
        /\ cur # Idle
    BY Zenon, <1>0, <1>9 DEF thread_create, Calls, KeepCpu, Goto
  <2>2. t # cur /\ pc[cur] # "thread_create" /\ context # "panic"
    BY <1>0, <2>1
  <2>3. \A u \in Threads : u # t =>
          current_priority'[u] = current_priority[u] /\ status'[u] = status[u]
    BY <1>0, <2>1
  <2>. QED  BY Zenon, <1>0, <2>1, <2>2, <2>3 DEF TopRuns
<1>10. ASSUME NEW t \in Thread, CreatePreempts(t)  PROVE TopRuns'
  <2>1. /\ context = "thread" /\ cur # Idle /\ arg[cur] = t
        /\ UNCHANGED current_priority
    BY Zenon, <1>10 DEF CreatePreempts, Resumes, priVars
  <2>2. CASE /\ status[t] = "FREE" \/ current_priority[t] <= current_priority[cur]
             /\ UNCHANGED cpuVars
    <3>1. \A u \in Thread : status[u] = "READY" =>
            current_priority[u] <= current_priority[cur]
      <4>1. context # "panic" /\ "FREE" # "READY"
        BY <2>1
      <4>. QED  BY Zenon, <2>1, <2>2, <4>1 DEF TopRuns
    <3>. QED  BY Zenon, <2>1, <2>2, <3>1 DEF TopRuns, cpuVars
  <2>. QED  BY Zenon, <1>4, <1>10, <2>1, <2>2 DEF CreatePreempts
<1>11. CASE thread_exit
  <2>1. (IF cur = Main THEN "DYING" ELSE "FREE") \in {"BLOCKED", "DYING", "FREE"}
    OBVIOUS
  <2>. QED  BY Zenon, <1>5, <1>11, <2>1 DEF thread_exit, priVars
<1>12. ASSUME NEW p \in SetPri, thread_set_priority(p)  PROVE TopRuns'
  <2>1. pc[cur] # "thread_create"
    BY <1>12 DEF thread_set_priority, Calls
  <2>. QED  BY Zenon, <1>3, <1>12, <2>1 DEF thread_set_priority, Calls
<1>13. CASE SetCurrentPriority
  <2>0. cur \in Thread /\ pc[cur] = "set_priority"
    BY Zenon, <1>0, <1>13 DEF SetCurrentPriority
  <2>1. /\ cur \in Thread /\ arg[cur] \in Pri
        /\ current_priority' = [current_priority EXCEPT ![cur] = arg[cur]]
        /\ thread_yield(ready_list, status, current_priority')
    BY Zenon, <1>13, <2>0 DEF SetCurrentPriority, IInv, ArgInv
  <2>2. ReadyQueue(ready_list, status, current_priority')
    BY Zenon, <2>1, RunningPriority
  <2>. QED  BY Zenon, <1>0, <1>1, <2>1, <2>2, YieldHighest
<1>14. CASE idle
  BY Zenon, <1>5, <1>14 DEF idle, priVars
<1>15. ASSUME NEW l \in Lock, lock_acquire(l) \/ lock_try_acquire(l)  PROVE TopRuns'
  <2>1. WaitsForLock(l) \/ TakesLock(l)
    BY Zenon, <1>15, AcquireKinds
  <2>2. CASE WaitsForLock(l)
    BY Zenon, <1>1, <2>2, WaitHighest
  <2>3. CASE TakesLock(l)
    <3>1. pc[cur] # "thread_create"
      BY <2>3 DEF TakesLock
    <3>. QED  BY Zenon, <1>3, <2>3, <3>1 DEF TakesLock, priVars
  <2>. QED  BY Zenon, <2>1, <2>2, <2>3
<1>16. ASSUME NEW l \in Lock, lock_release(l)  PROVE TopRuns'
  BY Zenon, <1>16, ReleaseTop
<1>17. ASSUME NEW s \in Sema, sema_down(s)  PROVE TopRuns'
  <2>1. context = "thread" /\ UNCHANGED current_priority /\ pc[cur] # "thread_create"
    BY <1>17 DEF sema_down, Calls, Resumes, priVars
  <2>. QED  BY Zenon, <1>3, <1>5, <1>17, <2>1 DEF sema_down
<1>18. ASSUME NEW s \in Sema, sema_try_down(s)  PROVE TopRuns'
  <2>1. pc[cur] # "thread_create"
    BY <1>18 DEF sema_try_down, Calls
  <2>. QED  BY Zenon, <1>3, <1>18, <2>1 DEF sema_try_down, Calls, priVars
<1>19. ASSUME NEW s \in Sema, NEW b, Up(s, b), context = "thread",
              cur # Idle => pc'[cur] = pc[cur]
       PROVE  TopRuns'
  <2>1. context # "panic" /\ UNCHANGED <<current_priority, arg>>
    BY <1>19 DEF Up, priVars
  <2>2. CASE UNCHANGED cpuVars
    BY Zenon, <1>2, <1>19, <2>1, <2>2 DEF cpuVars
  <2>3. ASSUME sema_waiters[s] # <<>>,
               NEW q \in ListSort(sema_waiters[s], current_priority),
               thread_unblock(Head(q), ready_list, status, current_priority, b)
        PROVE  TopRuns'
    <3>1. /\ sema_waiters[s] \in Seq(Thread)
          /\ Lists(sema_waiters[s], Blocked("sema_down", s))
      BY Zenon DEF IInv, WaitInv
    <3>2. Head(q) \in Thread /\ status[Head(q)] = "BLOCKED"
      BY Zenon, <2>3, <3>1, SortedWaiter
    <3>. QED  BY Zenon, <1>6, <1>19, <2>1, <2>3, <3>2
  <2>. QED  BY Zenon, <1>19, <2>2, <2>3 DEF Up, SemaWakes
<1>20. ASSUME NEW s \in Sema, sema_up(s)  PROVE TopRuns'
  BY Zenon, <1>19, <1>20 DEF sema_up, Calls
<1>21. ASSUME NEW s \in IrqSema, device_interrupt(s)  PROVE TopRuns'
  <2>1. s \in Sema
    BY Zenon, ConstantsAssumption
  <2>. QED  BY Zenon, <1>19, <1>21, <2>1 DEF device_interrupt, IntrOn, EndHlt
<1>22. ASSUME NEW n \in SleepTicks, timer_sleep(n)  PROVE TopRuns'
  BY Zenon, <1>5, <1>22 DEF timer_sleep, priVars
<1>23. CASE WakeUp
  <2>1. pc[cur] # "thread_create"
    BY <1>23 DEF WakeUp, Resumes
  <2>. QED  BY Zenon, <1>3, <1>23, <2>1 DEF WakeUp, Resumes, priVars
<1>24. CASE timer_interrupt
  <2>1. context # "panic"
    BY <1>24 DEF timer_interrupt, IntrOn
  <2>. QED  BY Zenon, <1>2, <1>24, <2>1 DEF timer_interrupt, priVars, pcVars
<1>25. CASE handle_sleeping_threads
  <2>1. Head(sleep_list) \in Thread /\ status[Head(sleep_list)] = "BLOCKED"
    BY Zenon, <1>25, HandleEffect DEF Blocked
  <2>2. context # "panic"
    BY <1>25 DEF handle_sleeping_threads
  <2>. QED  BY Zenon, <1>6, <1>25, <2>1, <2>2
            DEF handle_sleeping_threads, priVars, pcVars
<1>26. CASE thread_tick
  <2>1. context # "panic" /\ UNCHANGED <<current_priority, arg>>
    BY <1>26 DEF thread_tick, priVars
  <2>2. CASE UNCHANGED <<cur, status, ready_list>>
    BY Zenon, <1>2, <1>26, <2>1, <2>2 DEF thread_tick, EndHlt
  <2>. QED  BY Zenon, <1>4, <1>26, <2>1, <2>2 DEF thread_tick
<1>. QED
  BY Zenon, <1>7, <1>8, <1>9, <1>10, <1>11, <1>12, <1>13, <1>14, <1>15, <1>16,
     <1>17, <1>18, <1>20, <1>21, <1>22, <1>23, <1>24, <1>25, <1>26 DEF Next

(* The scheduler always runs a thread of the highest priority, for any     *)
(* clients: next_thread_to_run, the preemption in thread_unblock, and the  *)
(* waking of the highest waiter by lock_release make up for every donation *)
(* and every demotion.                                                     *)
THEOREM HighestRuns == Spec => []RunningIsHighest
<1>1. Init => TopRuns /\ Backed
  <2>1. "RUNNING" # "READY" /\ "BLOCKED" # "READY" /\ "FREE" # "READY"
    OBVIOUS
  <2>2. ASSUME Init  PROVE TopRuns
    BY Zenon, <2>1, <2>2 DEF Init, TopRuns, Threads
  <2>3. ASSUME Init  PROVE Backed
    BY Zenon, <2>3 DEF Init, Backed
  <2>. QED  BY <2>2, <2>3
<1>2. IInv /\ IInv' /\ TopRuns /\ Backed /\ [Next]_vars => TopRuns' /\ Backed'
  BY Zenon, NextTop, NextBacked
<1>3. TopRuns => RunningIsHighest
  <2>1. "thread" # "panic"
    OBVIOUS
  <2>. QED  BY Zenon, <2>1 DEF TopRuns, RunningIsHighest
<1>. QED  BY <1>1, <1>2, <1>3, SpecIInv, PTL DEF Spec

----------------------------------------------------------------------------
(* Donations.                                                              *)

(* No thread is inside thread_set_priority. *)
NoneSets == \A t \in Thread : pc[t] # "set_priority"

(* No thread enters it if none calls it.                                   *)
LEMMA NextNoneSets ==
  ASSUME SetPri = {}, IInv, NoneSets, [Next]_vars
  PROVE  NoneSets'
<1>0. pc \in [Threads -> Ops \cup {"halt", "loop"}] /\ Thread \subseteq Threads
  BY Zenon DEF IInv, DataType, Threads
<1>1. ASSUME NEW op, op # "set_priority", NEW x, Goto(op, x)
      PROVE  NoneSets'
  BY Zenon, <1>0, <1>1 DEF NoneSets, Goto
<1>2. ASSUME \A t \in Thread : pc'[t] = pc[t]  PROVE NoneSets'
  BY Zenon, <1>2 DEF NoneSets
<1>3. "run" # "set_priority" /\ "thread_create" # "set_priority"
      /\ "lock_acquire" # "set_priority" /\ "sema_down" # "set_priority"
      /\ "timer_sleep" # "set_priority" /\ "halt" # "set_priority"
  OBVIOUS
<1>4. CASE UNCHANGED pc
  BY Zenon, <1>2, <1>4
<1>5. \A p \in SetPri : FALSE
  OBVIOUS
<1>6. CASE Yield \/ thread_exit \/ timer_interrupt \/ handle_sleeping_threads
           \/ Halted \/ UNCHANGED vars
  BY Zenon, <1>4, <1>6 DEF Yield, thread_exit, timer_interrupt,
     handle_sleeping_threads, Halted, vars, pcVars
<1>7. CASE idle
  BY Zenon, <1>0, <1>3, <1>7 DEF idle, NoneSets
<1>8. CASE WakeUp \/ SetCurrentPriority \/ \E t \in Thread : CreatePreempts(t)
  BY Zenon, <1>1, <1>3, <1>8 DEF WakeUp, SetCurrentPriority, CreatePreempts, Return
<1>9. CASE thread_tick \/ \E s \in IrqSema : device_interrupt(s)
  BY Zenon, <1>2, <1>9, EndHltPc DEF thread_tick, device_interrupt
<1>10. ASSUME NEW t \in Thread, NEW p \in CreatePri, thread_create(t, p)
       PROVE  NoneSets'
  BY Zenon, <1>1, <1>3, <1>10 DEF thread_create
<1>11. ASSUME NEW l \in Lock, lock_acquire(l) \/ lock_try_acquire(l) \/ lock_release(l)
       PROVE  NoneSets'
  BY Zenon, <1>1, <1>3, <1>4, <1>11
  DEF lock_acquire, lock_try_acquire, lock_release, Return, pcVars
<1>12. ASSUME NEW s \in Sema, sema_down(s) \/ sema_try_down(s) \/ sema_up(s)
       PROVE  NoneSets'
  BY Zenon, <1>1, <1>3, <1>4, <1>12
  DEF sema_down, sema_try_down, sema_up, Return, pcVars
<1>13. ASSUME NEW n \in SleepTicks, timer_sleep(n)  PROVE NoneSets'
  BY Zenon, <1>1, <1>3, <1>13 DEF timer_sleep
<1>. QED
  BY Zenon, <1>5, <1>6, <1>7, <1>8, <1>9, <1>10, <1>11, <1>12, <1>13 DEF Next

(* thread_demote leaves the running thread at no less than a bounty of a   *)
(* lock that it still holds.                                               *)
LEMMA ReleaseDonation ==
  ASSUME IInv, DonationKept, NEW l \in Lock, lock_release(l),
         NEW m \in Lock, holder'[m] # NULL
  PROVE  current_priority'[holder'[m]] >= bounty'[m]
<1>. DEFINE rest == owned_locks[cur] \ {l}
<1>0. /\ cur \in Thread /\ Thread \subseteq Threads
      /\ holder' = [holder EXCEPT ![l] = NULL]
      /\ bounty' = [bounty EXCEPT ![l] = 0]
      /\ holder \in [Lock -> Thread \cup {NULL}] /\ bounty \in [Lock -> Pri]
      /\ current_priority \in [Threads -> Pri]
  <2>1. /\ cur # Idle /\ holder' = [holder EXCEPT ![l] = NULL]
        /\ bounty' = [bounty EXCEPT ![l] = 0]
    BY Zenon DEF lock_release, Calls, ClearedBounty
  <2>2. cur \in Thread
    BY Zenon, <2>1, Running
  <2>. QED  BY Zenon, <2>1, <2>2 DEF IInv, CpuInv, ReadyQueue, DataType, Threads
<1>1. PICK n \in Pri :
        /\ IF current_priority[cur] = bounty[l]
           THEN IsDemoted(n, rest) ELSE n = current_priority[cur]
        /\ current_priority' = [current_priority EXCEPT ![cur] = n]
  BY Zenon DEF lock_release
<1>2. /\ m # l /\ holder'[m] = holder[m] /\ bounty'[m] = bounty[m]
      /\ holder[m] \in Thread /\ current_priority[holder[m]] >= bounty[m]
  BY Zenon, <1>0 DEF DonationKept
<1>3. CASE holder[m] # cur
  <2>1. current_priority'[holder[m]] = current_priority[holder[m]]
    BY Zenon, <1>0, <1>1, <1>2, <1>3
  <2>. QED  BY Zenon, <1>2, <2>1
<1>4. CASE holder[m] = cur
  <2>1. m \in rest
    BY Zenon, <1>0, <1>2, <1>4 DEF IInv, HolderOwns
  <2>2. current_priority'[cur] = n
    BY Zenon, <1>0, <1>1
  <2>3. CASE current_priority[cur] = bounty[l]
    <3>1. bounty[m] <= n
      BY Zenon, <1>1, <2>1, <2>3 DEF IsDemoted
    <3>2. bounty[m] \in Int /\ n \in Int
      BY <1>0, ConstantsAssumption DEF Pri
    <3>. QED  BY <1>2, <1>4, <2>2, <3>1, <3>2
  <2>4. CASE current_priority[cur] # bounty[l]
    BY Zenon, <1>1, <1>2, <1>4, <2>2, <2>4
  <2>. QED  BY Zenon, <2>3, <2>4
<1>. QED  BY Zenon, <1>3, <1>4

(* DonationKept is kept by every step if no base priority changes.         *)
LEMMA NextDonation ==
  ASSUME IInv, IInv', Backed, NoneSets, DonationKept, [Next]_vars
  PROVE  DonationKept'
<1>. SUFFICES ASSUME NEW m \in Lock, holder'[m] # NULL
              PROVE  current_priority'[holder'[m]] >= bounty'[m]
  BY Zenon DEF DonationKept
<1>0. /\ Thread \subseteq Threads /\ NULL \notin Thread
      /\ holder \in [Lock -> Thread \cup {NULL}] /\ bounty \in [Lock -> Pri]
      /\ current_priority \in [Threads -> Pri]
      /\ \A r \in Pri : r \in Int /\ r >= 0
  <2>1. \A r \in Pri : r \in Int /\ r >= 0
    BY ConstantsAssumption DEF Pri
  <2>2. NULL \notin Thread
    BY Zenon, ConstantsAssumption
  <2>. QED  BY Zenon, <2>1, <2>2 DEF IInv, CpuInv, ReadyQueue, DataType, Threads
<1>1. ASSUME UNCHANGED <<holder, bounty, current_priority>>
      PROVE  current_priority'[holder'[m]] >= bounty'[m]
  BY Zenon, <1>1 DEF DonationKept
<1>2. CASE Quiet
  <2>0. holder' = holder /\ bounty' = bounty
    BY Zenon, <1>2 DEF Quiet, lockVars
  <2>a. holder[m] \in Thread
    BY <1>0, <2>0
  <2>b. HolderOwns
    BY Zenon DEF IInv
  <2>1. holder[m] \in Thread /\ m \in owned_locks[holder[m]]
    BY Zenon, <2>a, <2>b DEF HolderOwns
  <2>2. status[holder[m]] # "FREE" /\ pc[holder[m]] # "set_priority"
    BY Zenon, <2>1 DEF NoneSets, IInv, HolderOwns
  <2>3. current_priority'[holder[m]] = current_priority[holder[m]]
    BY Zenon, <1>2, <2>1, <2>2 DEF Quiet, QuietThread
  <2>. QED  BY Zenon, <2>0, <2>3 DEF DonationKept
<1>3. ASSUME NEW l \in Lock, WaitsForLock(l)
      PROVE  current_priority'[holder'[m]] >= bounty'[m]
  <2>. DEFINE h == holder[l]
              p == current_priority[cur]
  <2>1. /\ holder' = holder /\ cur \in Thread /\ h # NULL
        /\ bounty' = IF Donates(l) THEN [bounty EXCEPT ![l] = p] ELSE bounty
        /\ current_priority' = IF Donates(l) THEN [current_priority EXCEPT ![h] = p]
                               ELSE current_priority
    BY Zenon, <1>3 DEF WaitsForLock, WaitForLock
  <2>2. CASE ~Donates(l)
    BY Zenon, <1>1, <2>1, <2>2
  <2>3. CASE Donates(l)
    <3>1. /\ current_priority[holder[m]] >= bounty[m] /\ holder[m] \in Threads
          /\ h \in Threads /\ p \in Pri /\ current_priority[h] < p
      BY Zenon, <1>0, <2>1, <2>3 DEF DonationKept, Donates
    <3>2. CASE holder[m] = h
      BY <1>0, <2>1, <2>3, <3>1, <3>2
    <3>3. CASE holder[m] # h
      BY <1>0, <2>1, <2>3, <3>1, <3>3
    <3>. QED  BY Zenon, <3>2, <3>3
  <2>. QED  BY Zenon, <2>2, <2>3
<1>4. ASSUME NEW l \in Lock, TakesLock(l)
      PROVE  current_priority'[holder'[m]] >= bounty'[m]
  <2>1. /\ holder[l] = NULL /\ holder' = [holder EXCEPT ![l] = cur]
        /\ UNCHANGED <<bounty, current_priority>> /\ cur \in Thread
    BY Zenon, <1>4 DEF TakesLock, TakeLock, priVars
  <2>2. CASE m = l
    <3>1. bounty[m] = 0 /\ holder'[m] = cur
      BY Zenon, <1>0, <2>1, <2>2 DEF Backed
    <3>. QED  BY Zenon, <1>0, <2>1, <3>1
  <2>3. CASE m # l
    BY Zenon, <1>0, <2>1, <2>3 DEF DonationKept
  <2>. QED  BY Zenon, <2>2, <2>3
<1>5. ASSUME NEW l \in Lock, lock_release(l)
      PROVE  current_priority'[holder'[m]] >= bounty'[m]
  BY Zenon, <1>5, ReleaseDonation
<1>6. ASSUME NEW s \in Sema, sema_down(s) \/ sema_try_down(s) \/ Ups(s)
      PROVE  current_priority'[holder'[m]] >= bounty'[m]
  BY Zenon, <1>1, <1>6, DownEffect, UpEffect DEF sema_try_down, lockVars, priVars
<1>7. CASE handle_sleeping_threads \/ \E n \in SleepTicks : timer_sleep(n)
  BY Zenon, <1>1, <1>7 DEF handle_sleeping_threads, timer_sleep, lockVars, priVars
<1>. QED  BY Zenon, <1>2, <1>3, <1>4, <1>5, <1>6, <1>7, StepKinds

(* As long as no thread calls thread_set_priority, a holder runs at or     *)
(* above every donation made for a lock it holds, however many locks it    *)
(* holds and in whatever order it releases them (thread_demote).           *)
THEOREM DonationsKept ==
  ASSUME SetPri = {}
  PROVE  Spec => []DonationKept
<1>1. Init => Backed /\ NoneSets /\ DonationKept
  <2>1. "run" # "set_priority" /\ "halt" # "set_priority"
    OBVIOUS
  <2>. QED  BY Zenon, <2>1 DEF Init, Backed, NoneSets, DonationKept, Threads
<1>2. /\ IInv /\ IInv' /\ Backed /\ NoneSets /\ DonationKept /\ [Next]_vars
      => Backed' /\ NoneSets' /\ DonationKept'
  BY Zenon, NextBacked, NextNoneSets, NextDonation
<1>. QED  BY <1>1, <1>2, SpecIInv, PTL DEF Spec

----------------------------------------------------------------------------
(* Priority inversion, for threads that hold one lock at a time.           *)

(* A thread holds at most one lock, and none while it waits for one. *)
OneLock ==
  \A t \in Thread :
    /\ pc[t] = "lock_acquire" => owned_locks[t] = {}
    /\ \A l, m \in owned_locks[t] : l = m

(* Thread r stands for the waiters of lock l: it holds the lock or, if the *)
(* lock is free, was woken to take it. *)
Guards(r, l) ==
  IF holder[l] = NULL
  THEN status[r] \in Awake /\ pc[r] = "lock_acquire" /\ arg[r] = l
  ELSE r = holder[l]

(* Every waiter is outranked by one that stands for it. *)
Covered ==
  \A l \in Lock : \A w \in Blocked("lock_acquire", l) :
    \E r \in Thread : Guards(r, l) /\ current_priority[w] <= current_priority[r]

(* A thread that is about to wait for a lock or to take it holds none.     *)
LEMMA HoldsNone ==
  ASSUME MaxHeld <= 1, IInv, OneLock, NEW l \in Lock, WaitsForLock(l) \/ TakesLock(l)
  PROVE  owned_locks[cur] = {}
<1>1. /\ cur \in Thread
      /\ Cardinality(owned_locks[cur]) < MaxHeld \/ pc[cur] = "lock_acquire"
  BY Zenon DEF WaitsForLock, TakesLock
<1>2. CASE pc[cur] = "lock_acquire"
  BY Zenon, <1>1, <1>2 DEF OneLock
<1>3. CASE Cardinality(owned_locks[cur]) < MaxHeld
  <2>1. owned_locks[cur] \in SUBSET Lock /\ IsFiniteSet(Lock) /\ MaxHeld \in Nat
    <3>1. owned_locks \in [Threads -> SUBSET Lock] /\ cur \in Threads
      BY Zenon, <1>1 DEF IInv, DataType, Threads
    <3>. QED  BY Zenon, <3>1, ConstantsAssumption
  <2>2. IsFiniteSet(owned_locks[cur])
    BY Zenon, <2>1, FS_Subset
  <2>3. Cardinality(owned_locks[cur]) \in Nat
    BY Zenon, <2>2, FS_CardinalityType
  <2>4. Cardinality(owned_locks[cur]) = 0
    BY <1>3, <2>1, <2>3
  <2>. QED  BY Zenon, <2>2, <2>4, FS_EmptySet
<1>. QED  BY Zenon, <1>1, <1>2, <1>3

(* Who waits in lock_acquire after a step waited before, unless the step   *)
(* was its own.                                                            *)
LEMMA WaitersCome ==
  ASSUME IInv, [Next]_vars, NEW m \in Lock, NEW w \in Thread,
         pc'[w] = "lock_acquire", arg'[w] = m, status'[w] = "BLOCKED"
  PROVE  w \in Blocked("lock_acquire", m) \/ (w = cur /\ WaitsForLock(m))
<1>0. ASSUME pc'[w] = pc[w], arg'[w] = arg[w], status[w] = "BLOCKED"
      PROVE  w \in Blocked("lock_acquire", m)
  BY Zenon, <1>0 DEF Blocked
<1>1. CASE Quiet
  <2>1. pc'[w] \in WaitOps /\ "lock_acquire" \in {"lock_acquire", "sema_down"}
    BY DEF WaitOps
  <2>. QED  BY Zenon, <1>0, <1>1, <2>1 DEF Quiet, QuietThread
<1>b. ASSUME NEW op, NEW x, NEW W, Blocks(op, x, W), w # cur
      PROVE  w \in Blocked("lock_acquire", m)
  BY Zenon, <1>0, <1>b DEF Blocks
<1>2. ASSUME NEW l \in Lock, WaitsForLock(l)
      PROVE  w \in Blocked("lock_acquire", m) \/ (w = cur /\ WaitsForLock(m))
  <2>1. Blocks("lock_acquire", l, IF Donates(l) THEN {holder[l]} ELSE {})
    BY Zenon, <1>2, WaitForLockBlocks DEF WaitsForLock
  <2>2. CASE w = cur
    BY Zenon, <1>2, <2>1, <2>2 DEF Blocks
  <2>. QED  BY Zenon, <1>b, <2>1, <2>2
<1>3. ASSUME NEW l \in Lock, TakesLock(l)  PROVE w \in Blocked("lock_acquire", m)
  <2>1. w # cur
    BY <1>3 DEF TakesLock
  <2>. QED  BY Zenon, <1>0, <1>3, <2>1 DEF TakesLock, cpuVars
<1>w. ASSUME NEW v \in Thread, Wakes(v)  PROVE w \in Blocked("lock_acquire", m)
  BY Zenon, <1>0, <1>w DEF Wakes
<1>u. ASSUME UNCHANGED <<cpuVars, arg>>, \A t \in Thread : pc'[t] = pc[t]
      PROVE  w \in Blocked("lock_acquire", m)
  BY Zenon, <1>0, <1>u DEF cpuVars
<1>4. ASSUME NEW l \in Lock, lock_release(l)  PROVE w \in Blocked("lock_acquire", m)
  BY Zenon, <1>4, <1>u, <1>w, ReleaseEffect DEF Blocked, pcVars
<1>5. ASSUME NEW s \in Sema, sema_down(s)  PROVE w \in Blocked("lock_acquire", m)
  <2>1. CASE Goto("run", NULL) /\ UNCHANGED cpuVars
    <3>1. w # cur
      BY <2>1 DEF Goto, IInv, DataType, CpuInv, ReadyQueue, Threads
    <3>. QED  BY Zenon, <1>0, <2>1, <3>1 DEF Goto, cpuVars, IInv, DataType, Threads
  <2>2. CASE Blocks("sema_down", s, {})
    <3>1. w # cur
      BY <2>2 DEF Blocks
    <3>. QED  BY Zenon, <1>b, <2>2, <3>1
  <2>. QED  BY Zenon, <1>5, <2>1, <2>2, DownEffect
<1>6. ASSUME NEW s \in Sema, sema_try_down(s)  PROVE w \in Blocked("lock_acquire", m)
  BY Zenon, <1>6, <1>u DEF sema_try_down, pcVars
<1>7. ASSUME NEW s \in Sema, Ups(s)  PROVE w \in Blocked("lock_acquire", m)
  BY Zenon, <1>7, <1>u, <1>w, UpEffect DEF Blocked
<1>8. ASSUME NEW n \in SleepTicks, timer_sleep(n)
      PROVE  w \in Blocked("lock_acquire", m)
  <2>1. Blocks("timer_sleep", NULL, {})
    BY Zenon, <1>8, SleepEffect
  <2>2. w # cur
    BY <2>1 DEF Blocks
  <2>. QED  BY Zenon, <1>b, <2>1, <2>2
<1>9. CASE handle_sleeping_threads
  BY Zenon, <1>9, <1>w, HandleEffect DEF Blocked
<1>. QED  BY Zenon, <1>1, <1>2, <1>3, <1>4, <1>5, <1>6, <1>7, <1>8, <1>9, StepKinds

(* What a step does to the holder of lock m and to priorities: only a      *)
(* release lowers one, that of the releaser, and only a holder's rises.    *)
LEMMA HoldersAndPriorities ==
  ASSUME IInv, NoneSets, [Next]_vars, NEW m \in Lock
  PROVE  /\ \/ holder'[m] = holder[m]
            \/ holder[m] = NULL /\ holder'[m] = cur /\ TakesLock(m)
            \/ holder'[m] = NULL /\ lock_release(m)
         /\ \A t \in Thread : status[t] # "FREE" =>
              \/ current_priority'[t] = current_priority[t]
              \/ /\ current_priority'[t] > current_priority[t]
                 /\ \E l \in Lock : holder[l] = t
              \/ t = cur /\ pc[t] = "run" /\ \E l \in Lock : lock_release(l)
<1>0. holder \in [Lock -> Thread \cup {NULL}] /\ Thread \subseteq Threads
      /\ current_priority \in [Threads -> Pri]
  BY Zenon DEF IInv, CpuInv, ReadyQueue, DataType, Threads
<1>1. CASE Quiet
  BY Zenon, <1>1 DEF Quiet, QuietThread, lockVars, NoneSets
<1>2. ASSUME NEW l \in Lock, WaitsForLock(l)
      PROVE  /\ holder' = holder
             /\ \A t \in Thread : \/ current_priority'[t] = current_priority[t]
                                  \/ /\ current_priority'[t] > current_priority[t]
                                     /\ holder[l] = t
  <2>1. /\ holder' = holder
        /\ current_priority' = IF Donates(l)
             THEN [current_priority EXCEPT ![holder[l]] = current_priority[cur]]
             ELSE current_priority
    BY Zenon, <1>2 DEF WaitsForLock, WaitForLock
  <2>2. \A t \in Thread : t # holder[l] => current_priority'[t] = current_priority[t]
    BY Zenon, <1>0, <2>1
  <2>3. CASE Donates(l) /\ holder[l] \in Thread
    <3>1. current_priority'[holder[l]] = current_priority[cur]
      BY Zenon, <1>0, <2>1, <2>3
    <3>2. /\ current_priority[holder[l]] < current_priority[cur]
          /\ current_priority[holder[l]] \in Pri
      BY Zenon, <1>0, <2>3 DEF Donates
    <3>3. current_priority'[holder[l]] > current_priority[holder[l]]
      BY <3>1, <3>2
    <3>. QED  BY Zenon, <2>1, <2>2, <3>3
  <2>. QED  BY Zenon, <2>1, <2>2, <2>3
<1>3. ASSUME NEW l \in Lock, TakesLock(l)
      PROVE  /\ \/ holder'[m] = holder[m]
                \/ holder[m] = NULL /\ holder'[m] = cur /\ TakesLock(m)
             /\ UNCHANGED current_priority
  <2>1. /\ holder[l] = NULL /\ holder' = [holder EXCEPT ![l] = cur]
        /\ UNCHANGED current_priority
    BY Zenon, <1>3 DEF TakesLock, TakeLock, priVars
  <2>. QED  BY Zenon, <1>0, <1>3, <2>1
<1>4. ASSUME NEW l \in Lock, lock_release(l)
      PROVE  /\ \/ holder'[m] = holder[m]
                \/ holder'[m] = NULL /\ lock_release(m)
             /\ pc[cur] = "run"
             /\ \A t \in Thread : t # cur =>
                  current_priority'[t] = current_priority[t]
  <2>1. /\ holder' = [holder EXCEPT ![l] = NULL] /\ pc[cur] = "run"
        /\ \E n \in Pri : current_priority' = [current_priority EXCEPT ![cur] = n]
    BY Zenon, <1>4 DEF lock_release, Calls
  <2>. QED  BY Zenon, <1>0, <1>4, <2>1
<1>5. ASSUME NEW s \in Sema, sema_down(s) \/ sema_try_down(s) \/ Ups(s)
      PROVE  UNCHANGED <<holder, current_priority>>
  BY Zenon, <1>5, DownEffect, UpEffect DEF sema_try_down, lockVars, priVars
<1>6. CASE handle_sleeping_threads \/ \E n \in SleepTicks : timer_sleep(n)
  BY Zenon, <1>6 DEF handle_sleeping_threads, timer_sleep, lockVars, priVars
<1>. QED  BY Zenon, <1>1, <1>2, <1>3, <1>4, <1>5, <1>6, StepKinds

(* A thread goes on to hold one lock at most.                              *)
LEMMA NextOneLock ==
  ASSUME MaxHeld <= 1, IInv, OneLock, [Next]_vars
  PROVE  OneLock'
<1>0. owned_locks \in [Threads -> SUBSET Lock] /\ Thread \subseteq Threads
  BY Zenon DEF IInv, DataType, Threads
<1>1. ASSUME \A t \in Thread : owned_locks'[t] \subseteq owned_locks[t],
             \A t \in Thread : pc'[t] = "lock_acquire" => pc[t] = "lock_acquire"
      PROVE  OneLock'
  BY Zenon, <1>1 DEF OneLock
<1>2. CASE Quiet
  <2>1. "lock_acquire" \in WaitOps
    BY DEF WaitOps
  <2>. QED  BY Zenon, <1>1, <1>2, <2>1 DEF Quiet, QuietThread, lockVars
<1>3. ASSUME NEW l \in Lock, WaitsForLock(l)  PROVE OneLock'
  <2>1. /\ owned_locks[cur] = {} /\ owned_locks' = owned_locks
        /\ \A t \in Thread : t # cur => pc'[t] = pc[t]
    BY Zenon, <1>3, HoldsNone, WaitForLockBlocks DEF WaitsForLock, Blocks
  <2>. QED  BY Zenon, <2>1 DEF OneLock
<1>4. ASSUME NEW l \in Lock, TakesLock(l)  PROVE OneLock'
  <2>1. /\ owned_locks[cur] = {}
        /\ owned_locks' = [owned_locks EXCEPT ![cur] = @ \cup {l}]
        /\ \A t \in Thread : t # cur => pc'[t] = pc[t]
        /\ pc'[cur] = "run" /\ "run" # "lock_acquire"
    BY Zenon, <1>4, HoldsNone DEF TakesLock, TakeLock
  <2>2. \A t \in Thread : owned_locks'[t] = IF t = cur THEN {l} ELSE owned_locks[t]
    BY <1>0, <2>1
  <2>3. ASSUME NEW t \in Thread
        PROVE  /\ pc'[t] = "lock_acquire" => owned_locks'[t] = {}
               /\ \A k, m \in owned_locks'[t] : k = m
    <3>1. CASE t = cur
      BY <2>1, <2>2, <3>1
    <3>2. CASE t # cur
      BY ZenonT(40), <2>1, <2>2, <3>2 DEF OneLock
    <3>. QED  BY Zenon, <3>1, <3>2
  <2>. QED  BY Zenon, <2>3 DEF OneLock
<1>5. ASSUME NEW l \in Lock, lock_release(l)  PROVE OneLock'
  <2>1. /\ owned_locks' = [owned_locks EXCEPT ![cur] = owned_locks[cur] \ {l}]
        /\ pc' = pc
    BY Zenon, <1>5 DEF lock_release, pcVars
  <2>2. \A t \in Thread : owned_locks'[t] \subseteq owned_locks[t]
    BY Zenon, <1>0, <2>1
  <2>. QED  BY Zenon, <1>1, <2>1, <2>2
<1>6. ASSUME UNCHANGED owned_locks, pc'[cur] # "lock_acquire",
             \A t \in Thread : t # cur => pc'[t] = pc[t]
      PROVE  OneLock'
  BY Zenon, <1>6 DEF OneLock
<1>7. ASSUME NEW s \in Sema, sema_down(s)  PROVE OneLock'
  <2>1. /\ UNCHANGED owned_locks /\ cur \in Thread
        /\ Goto("run", NULL) \/ Blocks("sema_down", s, {})
    BY ZenonT(40), <1>7, DownEffect DEF lockVars
  <2>2. /\ pc'[cur] # "lock_acquire"
        /\ \A t \in Thread : t # cur => pc'[t] = pc[t]
    BY <2>1 DEF Goto, Blocks, IInv, DataType, Threads
  <2>. QED  BY Zenon, <1>6, <2>1, <2>2
<1>8. ASSUME NEW s \in Sema, sema_try_down(s) \/ Ups(s)  PROVE OneLock'
  BY Zenon, <1>8, UpEffect DEF OneLock, sema_try_down, Ups, lockVars, pcVars
<1>9. ASSUME NEW n \in SleepTicks, timer_sleep(n)  PROVE OneLock'
  <2>1. UNCHANGED owned_locks /\ Blocks("timer_sleep", NULL, {})
    BY Zenon, <1>9, SleepEffect DEF timer_sleep, lockVars
  <2>2. pc'[cur] # "lock_acquire"
    BY <2>1 DEF Blocks
  <2>. QED  BY Zenon, <1>6, <2>1, <2>2 DEF Blocks
<1>10. CASE handle_sleeping_threads
  BY Zenon, <1>10 DEF OneLock, handle_sleeping_threads, lockVars, pcVars
<1>. QED
  BY Zenon, <1>2, <1>3, <1>4, <1>5, <1>7, <1>8, <1>9, <1>10, StepKinds

(* No step leaves a waiter above whoever stands for it.                    *)
LEMMA NextCovered ==
  ASSUME IInv, IInv', TopRuns, NoneSets, OneLock, Covered, [Next]_vars
  PROVE  Covered'
<1>. SUFFICES ASSUME NEW m \in Lock, NEW w \in Thread, pc'[w] = "lock_acquire",
                     arg'[w] = m, status'[w] = "BLOCKED"
              PROVE  \E r \in Thread : /\ Guards(r, m)'
                                       /\ current_priority'[w] <= current_priority'[r]
  BY Zenon DEF Covered, Blocked
<1>0. /\ holder \in [Lock -> Thread \cup {NULL}] /\ NULL \notin Thread
      /\ Thread \subseteq Threads
      /\ \A t \in Thread : current_priority[t] \in Int /\ current_priority'[t] \in Int
  <2>1. \A r \in Pri : r \in Int
    BY ConstantsAssumption DEF Pri
  <2>2. NULL \notin Thread
    BY Zenon, ConstantsAssumption
  <2>. QED  BY Zenon, <2>1, <2>2 DEF IInv, CpuInv, ReadyQueue, DataType, Threads
<1>1. CASE w = cur /\ WaitsForLock(m)
  <2>. DEFINE h == holder[m]
  <2>1. h \in Thread /\ h # cur
    BY Zenon, <1>1, WaitForLockBlocks DEF WaitsForLock
  <2>2. /\ holder' = holder /\ h # NULL
        /\ current_priority' = IF Donates(m)
             THEN [current_priority EXCEPT ![h] = current_priority[cur]]
             ELSE current_priority
    BY Zenon, <1>1 DEF WaitsForLock, WaitForLock
  <2>3. current_priority \in [Threads -> Pri]
    BY Zenon DEF IInv, CpuInv, ReadyQueue
  <2>4. current_priority'[cur] <= current_priority'[h]
    BY <1>0, <1>1, <2>1, <2>2, <2>3 DEF Donates
  <2>. QED  BY Zenon, <1>1, <2>1, <2>2, <2>4 DEF Guards
<1>2. CASE w \in Blocked("lock_acquire", m)
  <2>1. /\ status[w] = "BLOCKED" /\ pc[w] = "lock_acquire" /\ w # cur
        /\ status[w] # "FREE"
    BY <1>2 DEF Blocked, IInv, CpuInv
  <2>2. \A t \in Thread : pc[t] = "lock_acquire" => \A l \in Lock : holder[l] # t
    <3>1. \A x : x \notin {}
      OBVIOUS
    <3>. QED  BY Zenon, <3>1 DEF OneLock, IInv, HolderOwns
  <2>3. current_priority'[w] = current_priority[w]
    BY Zenon, <2>1, <2>2, HoldersAndPriorities
  <2>4. PICK r \in Thread : Guards(r, m) /\ current_priority[w] <= current_priority[r]
    BY Zenon, <1>2 DEF Covered
  <2>5. CASE TakesLock(m)
    <3>1. /\ holder[m] = NULL /\ holder'[m] = cur /\ cur \in Thread
          /\ UNCHANGED current_priority /\ context = "thread"
          /\ pc[cur] \in {"run", "lock_acquire"}
      BY Zenon, <1>0, <2>5 DEF TakesLock, TakeLock, priVars
    <3>2. status[r] = "READY" \/ r = cur
      <4>1. status[r] \in Awake
        BY Zenon, <2>4, <3>1 DEF Guards
      <4>2. status[r] = "RUNNING" => r = cur
        BY Zenon DEF IInv, CpuInv, Threads
      <4>. QED  BY Zenon, <4>1, <4>2 DEF Awake
    <3>3. current_priority[r] <= current_priority[cur]
      <4>1. context # "panic" /\ pc[cur] # "thread_create" /\ cur # Idle
        BY Zenon, <3>1, ConstantsAssumption
      <4>2. CASE r = cur
        BY <1>0, <4>2
      <4>. QED  BY Zenon, <3>2, <4>1, <4>2 DEF TopRuns
    <3>4. current_priority[w] <= current_priority[cur]
      BY <1>0, <2>4, <3>1, <3>3
    <3>. QED  BY Zenon, <1>0, <3>1, <3>4 DEF Guards
  <2>6. CASE lock_release(m)
    <3>1. /\ holder'[m] = NULL /\ cur \in Thread /\ pc[cur] = "run"
          /\ \A t \in Thread : t # cur => current_priority'[t] = current_priority[t]
      <4>1. /\ holder' = [holder EXCEPT ![m] = NULL] /\ pc[cur] = "run" /\ cur # Idle
            /\ \E n \in Pri : current_priority' = [current_priority EXCEPT ![cur] = n]
        BY Zenon, <2>6 DEF lock_release, Calls
      <4>. QED  BY Zenon, <1>0, <4>1, Running DEF IInv, CpuInv, ReadyQueue
    <3>2. lock_waiters[m] # <<>>
      <4>1. w \in Range(lock_waiters[m])
        BY Zenon, <1>2 DEF IInv, WaitInv, Lists
      <4>. QED  BY <4>1 DEF Range
    <3>3. PICK q \in ListSort(lock_waiters[m], current_priority) :
            /\ Head(q) \in Blocked("lock_acquire", m)
            /\ Range(q) = Blocked("lock_acquire", m) /\ Wakes(Head(q))
      BY Zenon, <2>6, <3>2, ReleaseEffect
    <3>. DEFINE v == Head(q)
    <3>4. current_priority[w] <= current_priority[v]
      <4>1. lock_waiters[m] \in Seq(Thread) /\ current_priority \in [Threads -> Pri]
        BY Zenon DEF IInv, WaitInv, CpuInv, ReadyQueue
      <4>. QED  BY Zenon, <1>2, <3>2, <3>3, <4>1, SortHighest
    <3>5. /\ v \in Thread /\ status'[v] \in Awake /\ pc'[v] = "lock_acquire"
          /\ arg'[v] = m
      BY Zenon, <3>3, WakesStays DEF Blocked, Wakes
    <3>. HIDE DEF v
    <3>6. v # cur /\ current_priority'[v] = current_priority[v]
      <4>1. pc[v] = "lock_acquire"
        BY Zenon, <3>3 DEF Blocked, v
      <4>. QED  BY <3>1, <3>5, <4>1
    <3>. QED  BY Zenon, <2>3, <3>1, <3>4, <3>5, <3>6 DEF Guards
  <2>7. CASE ~TakesLock(m) /\ ~lock_release(m)
    <3>1. holder'[m] = holder[m]
      BY Zenon, <2>7, HoldersAndPriorities
    <3>2. CASE holder[m] = NULL
      <4>1. status[r] \in Awake /\ pc[r] = "lock_acquire" /\ arg[r] = m
        BY Zenon, <2>4, <3>2 DEF Guards
      <4>2. Stays(r)
        <5>1. ASSUME NEW l \in Lock, WaitsForLock(l), r = cur  PROVE FALSE
          BY Zenon, <3>2, <4>1, <5>1 DEF WaitsForLock, WaitForLock
        <5>2. ASSUME NEW l \in Lock, TakesLock(l), r = cur  PROVE FALSE
          BY Zenon, <2>7, <4>1, <5>2 DEF TakesLock
        <5>3. ASSUME NEW s \in Sema, sema_down(s), r = cur  PROVE FALSE
          <6>1. pc[cur] \in {"run", "sema_down"}
            BY Zenon, <5>3, DownEffect
          <6>. QED  BY <4>1, <5>3, <6>1
        <5>. QED  BY Zenon, <5>1, <5>2, <5>3, OthersStay
      <4>3. /\ status'[r] \in Awake /\ pc'[r] = "lock_acquire" /\ arg'[r] = m
            /\ pc[r] # "run" /\ status[r] # "FREE"
        BY <4>1, <4>2 DEF Stays, Awake
      <4>4. current_priority'[r] = current_priority[r]
        BY Zenon, <2>2, <4>1, <4>3, HoldersAndPriorities
      <4>. QED  BY Zenon, <2>3, <2>4, <3>1, <3>2, <4>3, <4>4 DEF Guards
    <3>3. CASE holder[m] # NULL
      <4>1. r = holder[m] /\ status[r] # "FREE" /\ m \in owned_locks[r]
        <5>1. r = holder[m] /\ m \in owned_locks[r]
          BY Zenon, <2>4, <3>3 DEF Guards, IInv, HolderOwns
        <5>. QED  BY <5>1 DEF IInv, HolderOwns
      <4>2. ASSUME NEW l \in Lock, lock_release(l), r = cur  PROVE FALSE
        BY Zenon, <2>7, <4>1, <4>2 DEF OneLock, lock_release
      <4>3. \/ current_priority'[r] = current_priority[r]
            \/ current_priority'[r] > current_priority[r]
        BY Zenon, <4>1, <4>2, HoldersAndPriorities
      <4>4. current_priority'[w] <= current_priority'[r]
        BY <1>0, <2>3, <2>4, <4>3
      <4>. QED  BY Zenon, <3>1, <3>3, <4>1, <4>4 DEF Guards
    <3>. QED  BY Zenon, <3>2, <3>3
  <2>. QED  BY Zenon, <2>5, <2>6, <2>7
<1>. QED  BY Zenon, <1>1, <1>2, WaitersCome

(* For threads that hold one lock at a time and do not change their        *)
(* priority, there is no inversion: a lock's holder runs at or above every *)
(* thread that waits for the lock.  For threads that nest locks it is      *)
(* false (lock_acquire records a bounty only above the holder's priority). *)
THEOREM NoInversion ==
  ASSUME SetPri = {}, MaxHeld <= 1
  PROVE  Spec => []HolderOutranksWaiters
<1>1. Init => NoneSets /\ OneLock /\ Covered /\ TopRuns /\ Backed
  <2>1. /\ "run" # "lock_acquire" /\ "FREE" # "READY" /\ "RUNNING" # "READY"
        /\ "run" # "set_priority" /\ "halt" # "set_priority" /\ \A x : x \notin {}
    OBVIOUS
  <2>. QED
    BY ZenonT(40), <2>1, ConstantsAssumption
    DEF Init, NoneSets, OneLock, Covered, Blocked, TopRuns, Backed, Threads
<1>2. /\ IInv /\ IInv' /\ TopRuns /\ Backed /\ NoneSets /\ OneLock /\ Covered
      /\ [Next]_vars
      => TopRuns' /\ Backed' /\ NoneSets' /\ OneLock' /\ Covered'
  BY Zenon, NextTop, NextBacked, NextNoneSets, NextOneLock, NextCovered
<1>3. IInv /\ Covered => HolderOutranksWaiters
  <2>. SUFFICES ASSUME IInv, Covered, NEW l \in Lock, holder[l] # NULL,
                       NEW w \in Range(lock_waiters[l])
                PROVE  current_priority[w] <= current_priority[holder[l]]
    BY Zenon DEF HolderOutranksWaiters
  <2>1. w \in Blocked("lock_acquire", l)
    BY Zenon DEF IInv, WaitInv, Lists
  <2>. QED  BY Zenon, <2>1 DEF Covered, Guards
<1>. QED  BY <1>1, <1>2, <1>3, SpecIInv, PTL DEF Spec

----------------------------------------------------------------------------
(* Wake-ups of semaphores.                                                 *)

(* The threads coming for a semaphore are finitely many.                   *)
LEMMA FiniteRetry ==
  ASSUME NEW s
  PROVE  /\ IsFiniteSet(Retrying("sema_down", s))
         /\ IsFiniteSet(Retrying("sema_down", s)')
<1>1. IsFiniteSet(Thread)
  BY ConstantsAssumption
<1>2. /\ Retrying("sema_down", s) \in SUBSET Thread
      /\ Retrying("sema_down", s)' \in SUBSET Thread
  BY Zenon DEF Retrying
<1>. QED  BY Zenon, <1>1, <1>2, FS_Subset

(* No step loses a wake-up of a semaphore.                                 *)
LEMMA NextSemaWakeup ==
  ASSUME IInv, IInv', NoLostSemaWakeup, [Next]_vars
  PROVE  NoLostSemaWakeup'
<1>. SUFFICES ASSUME NEW s \in Sema, sema_waiters'[s] # <<>>
              PROVE  value'[s] <= Cardinality(Retrying("sema_down", s)')
  BY Zenon DEF NoLostSemaWakeup
<1>. DEFINE R == Retrying("sema_down", s)
<1>0. PICK R1 : R1 = Retrying("sema_down", s)'
  OBVIOUS
<1>1. /\ IsFiniteSet(R) /\ IsFiniteSet(R1)
      /\ Cardinality(R) \in Nat /\ Cardinality(R1) \in Nat
      /\ value[s] \in Nat /\ value \in [Sema -> Nat]
      /\ sema_waiters \in [Sema -> Seq(Thread)]
  <2>1. IsFiniteSet(R) /\ IsFiniteSet(R1)
    BY Zenon, <1>0, FiniteRetry
  <2>2. Cardinality(R) \in Nat /\ Cardinality(R1) \in Nat
    BY Zenon, <2>1, FS_CardinalityType
  <2>. QED  BY Zenon, <2>1, <2>2 DEF IInv, DataType, WaitInv
<1>2. \A t \in R : Stays(t) => t \in R1
  BY <1>0 DEF Stays, Retrying, Awake
<1>3. R \subseteq Thread
  BY Zenon DEF Retrying
<1>4. sema_waiters[s] # <<>> => value[s] <= Cardinality(R)
  BY Zenon DEF NoLostSemaWakeup
<1>. HIDE DEF R
<1>5. ASSUME sema_down(s)  PROVE value'[s] <= Cardinality(R1)
  <2>1. CASE value[s] = 0 /\ value' = value
    BY <1>1, <2>1
  <2>2. CASE /\ value[s] > 0 /\ value' = [value EXCEPT ![s] = @ - 1]
             /\ UNCHANGED <<cpuVars, sema_waiters>>
    <3>1. value[s] <= Cardinality(R) /\ value'[s] = value[s] - 1
      BY <1>1, <1>4, <2>2
    <3>2. R \ {cur} \in SUBSET R1
      BY Zenon, <1>2, <1>3, OthersStay
    <3>3. Cardinality(R \ {cur}) <= Cardinality(R1)
      BY <1>1, <3>2, FS_Subset
    <3>4. /\ Cardinality(R \ {cur}) \in {Cardinality(R), Cardinality(R) - 1}
      BY Zenon, <1>1, FS_RemoveElement
    <3>. QED  BY <1>1, <3>1, <3>3, <3>4
  <2>. QED  BY Zenon, <1>5, <2>1, <2>2, DownEffect
<1>6. ASSUME ~sema_down(s)  PROVE value'[s] <= Cardinality(R1)
  <2>1. R \in SUBSET R1
    <3>. SUFFICES ASSUME NEW t \in R  PROVE Stays(t)
      BY Zenon, <1>2
    <3>1. t \in Thread /\ pc[t] = "sema_down" /\ arg[t] = s
      BY Zenon DEF R, Retrying
    <3>2. ASSUME NEW l \in Lock, WaitsForLock(l) \/ TakesLock(l)  PROVE t # cur
      <4>1. pc[cur] \in {"run", "lock_acquire"}
        BY Zenon, <3>2 DEF WaitsForLock, TakesLock
      <4>. QED  BY <3>1, <4>1
    <3>3. ASSUME NEW r \in Sema, sema_down(r)  PROVE t # cur
      BY Zenon, <1>6, <3>1, <3>3, DownEffect
    <3>. QED  BY Zenon, <3>1, <3>2, <3>3, OthersStay
  <2>2. Cardinality(R) <= Cardinality(R1)
    BY <1>1, <2>1, FS_Subset
  <2>3. CASE Ups(s)
    <3>1. value'[s] = value[s] + 1
      BY <1>1, <2>3, UpEffect
    <3>2. CASE sema_waiters[s] = <<>> /\ UNCHANGED <<cpuVars, arg, sema_waiters>>
      BY <3>2
    <3>3. ASSUME sema_waiters[s] # <<>>, NEW w \in Blocked("sema_down", s), Wakes(w)
          PROVE  value'[s] <= Cardinality(R1)
      <4>1. /\ w \in Thread /\ status[w] = "BLOCKED" /\ pc'[w] = "sema_down"
            /\ arg'[w] = s /\ status'[w] \in Awake
        BY Zenon, <3>3, WakesStays DEF Blocked, Wakes
      <4>2. w \in R1 /\ w \notin R
        BY <1>0, <4>1 DEF R, Retrying, Awake
      <4>3. R \cup {w} \in SUBSET R1
        BY Zenon, <2>1, <4>2
      <4>4. Cardinality(R \cup {w}) = Cardinality(R) + 1
        BY Zenon, <1>1, <4>2, FS_AddElement
      <4>5. Cardinality(R \cup {w}) <= Cardinality(R1)
        BY Zenon, <1>1, <4>3, FS_Subset
      <4>. QED  BY <1>1, <1>4, <3>1, <3>3, <4>4, <4>5
    <3>. QED  BY Zenon, <2>3, <3>2, <3>3, UpEffect
  <2>4. CASE ~Ups(s)
    <3>1. ASSUME UNCHANGED <<value, sema_waiters>>
          PROVE  value'[s] <= value[s] /\ sema_waiters[s] # <<>>
      BY <1>1, <3>1
    <3>2. ASSUME Quiet
          PROVE  value'[s] <= value[s] /\ sema_waiters[s] # <<>>
      BY Zenon, <3>1, <3>2 DEF Quiet, semaVars
    <3>3. ASSUME NEW l \in Lock, WaitsForLock(l)
          PROVE  value'[s] <= value[s] /\ sema_waiters[s] # <<>>
      <4>1. /\ value' = value
            /\ sema_waiters'[s] \in {sema_waiters[s], Remove(sema_waiters[s], holder[l])}
        BY Zenon, <3>3 DEF WaitsForLock, WaitForLock
      <4>2. Remove(<<>>, holder[l]) = <<>>
        BY DEF Remove, Range
      <4>3. sema_waiters[s] # <<>>
        BY Zenon, <4>1, <4>2
      <4>. QED  BY <1>1, <4>1, <4>3
    <3>4. ASSUME NEW l \in Lock, TakesLock(l) \/ lock_release(l)
          PROVE  value'[s] <= value[s] /\ sema_waiters[s] # <<>>
      BY Zenon, <3>1, <3>4 DEF TakesLock, lock_release, semaVars
    <3>5. ASSUME NEW r \in Sema, sema_down(r) \/ sema_try_down(r) \/ Ups(r)
          PROVE  value'[s] <= value[s] /\ sema_waiters[s] # <<>>
      <4>1. CASE sema_try_down(r)
        <5>1. value[r] > 0 /\ value' = [value EXCEPT ![r] = @ - 1]
          BY Zenon, <4>1 DEF sema_try_down
        <5>2. sema_waiters' = sema_waiters
          BY Zenon, <4>1 DEF sema_try_down
        <5>. QED  BY <1>1, <5>1, <5>2
      <4>2. CASE sema_down(r)
        <5>1. /\ r # s
              /\ value' \in {value, [value EXCEPT ![r] = @ - 1]}
              /\ sema_waiters' \in {sema_waiters,
                                    [sema_waiters EXCEPT ![r] = PushBack(@, cur)]}
          BY Zenon, <1>6, <4>2, DownEffect
        <5>. QED  BY <1>1, <5>1
      <4>3. CASE Ups(r)
        <5>1. r # s /\ value' = [value EXCEPT ![r] = @ + 1]
          BY Zenon, <2>4, <4>3, UpEffect
        <5>2. sema_waiters' = sema_waiters \/
                \E q : sema_waiters' = [sema_waiters EXCEPT ![r] = Tail(q)]
          BY Zenon, <4>3, UpEffect
        <5>. QED  BY <1>1, <5>1, <5>2
      <4>. QED  BY <3>5, <4>1, <4>2, <4>3
    <3>6. ASSUME NEW n \in SleepTicks, timer_sleep(n)
          PROVE  value'[s] <= value[s] /\ sema_waiters[s] # <<>>
      BY Zenon, <3>1, <3>6 DEF timer_sleep, semaVars
    <3>7. ASSUME handle_sleeping_threads
          PROVE  value'[s] <= value[s] /\ sema_waiters[s] # <<>>
      BY Zenon, <3>1, <3>7 DEF handle_sleeping_threads, semaVars
    <3>8. value'[s] <= value[s] /\ sema_waiters[s] # <<>>
      BY Zenon, <3>2, <3>3, <3>4, <3>5, <3>6, <3>7, StepKinds
    <3>9. value'[s] \in Nat
      BY Zenon DEF IInv, DataType
    <3>. QED  BY <1>1, <1>4, <2>2, <3>8, <3>9
  <2>. QED  BY <2>3, <2>4
<1>. QED  BY Zenon, <1>0, <1>5, <1>6

(* No wake-up of sema_up is ever lost, in a thread or in an interrupt      *)
(* handler: while threads wait on a semaphore, every unit of its value has *)
(* a woken thread coming for it, although a donation may have taken that   *)
(* thread off the waiters, and another thread may take the unit first.     *)
THEOREM SemaWakeupsKept == Spec => []NoLostSemaWakeup
<1>1. Init => NoLostSemaWakeup
  BY DEF Init, NoLostSemaWakeup
<1>2. IInv /\ IInv' /\ NoLostSemaWakeup /\ [Next]_vars => NoLostSemaWakeup'
  BY NextSemaWakeup
<1>. QED  BY <1>1, <1>2, SpecIInv, PTL DEF Spec
============================================================================
