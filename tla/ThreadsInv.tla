---------------------------- MODULE ThreadsInv -----------------------------
(***************************************************************************)
(* The operations that take and release locks, and those that put the      *)
(* running thread on a list of waiters or sleepers, preserve the inductive *)
(* invariant of Threads, so every action does: the state has its type,     *)
(* every thread's list element is in exactly the list its state calls for, *)
(* holders own their locks, and locks and semaphores implement Sync, for   *)
(* any number of threads, locks and semaphores and every bound.            *)
(***************************************************************************)
EXTENDS ThreadsSched

----------------------------------------------------------------------------
(* The operations that wait.                                             *)

(* The running thread starts to wait in op for x; the threads W, which a   *)
(* donation wakes, stop waiting.                                           *)
Blocks(op, x, W) ==
  /\ \A t \in Thread : status'[t] = "BLOCKED" <=>
       (status[t] = "BLOCKED" /\ t \notin W) \/ t = cur
  /\ \A t \in Thread : \A y \in {"DYING", "FREE"} :
       status'[t] = y <=> status[t] = y
  /\ \A t \in Thread : t # cur => pc'[t] = pc[t] /\ arg'[t] = arg[t]
  /\ pc'[cur] = op /\ arg'[cur] = x

(* The running thread joins those blocked on x, and W leaves the blocked. *)
LEMMA BlocksBlocked ==
  ASSUME IInv, cur \in Thread, NEW op, NEW x, NEW W, cur \notin W,
         Blocks(op, x, W), NEW op1, NEW x1
  PROVE  /\ op1 # op \/ x1 # x => Blocked(op1, x1)' = Blocked(op1, x1) \ W
         /\ Blocked(op, x)' = (Blocked(op, x) \ W) \cup {cur}
<1>1. status[cur] # "BLOCKED" /\ cur \in Threads
  BY DEF IInv, CpuInv
<1>. QED  BY <1>1 DEF Blocks, Blocked

(* The same when nobody leaves.                                            *)
LEMMA JoinsBlocked ==
  ASSUME IInv, cur \in Thread, NEW op, NEW x, Blocks(op, x, {})
  PROVE  /\ \A op1, x1 : op1 # op \/ x1 # x =>
              Blocked(op1, x1)' = Blocked(op1, x1)
         /\ Blocked(op, x)' = Blocked(op, x) \cup {cur}
<1>1. cur \notin {} /\ \A A : A \ {} = A
  OBVIOUS
<1>. QED  BY <1>1, BlocksBlocked

(* Goto and schedule, as the last steps of an operation that waits. *)
LEMMA ScheduleBlocks ==
  ASSUME IInv, cur \in Thread, NEW op, NEW x, NEW W \in SUBSET Thread,
         NEW rl, NEW st, NEW cp, ReadyQueue(rl, st, cp),
         \A t \in Threads : st[t] = "RUNNING" <=> t = cur,
         \A t \in Thread : st[t] = "BLOCKED" <=>
                            status[t] = "BLOCKED" /\ t \notin W,
         \A t \in Thread : \A y \in {"DYING", "FREE"} :
           st[t] = y <=> status[t] = y,
         Goto(op, x), current_priority' = cp,
         schedule(rl, [st EXCEPT ![cur] = "BLOCKED"])
  PROVE  CpuInv' /\ Blocks(op, x, W)
<1>. DEFINE st1 == [st EXCEPT ![cur] = "BLOCKED"]
<1>0. cur \in Threads /\ st \in [Threads -> States] /\ Thread \subseteq Threads
  BY DEF IInv, CpuInv, ReadyQueue, Threads
<1>1. ReadyQueue(rl, st1, cp)
  BY ZenonT(30), <1>0, Restate DEF States
<1>2. \A t \in Threads : st1[t] = IF t = cur THEN "BLOCKED" ELSE st[t]
  BY <1>0
<1>3. Settled(st1, cp)
  BY ZenonT(30), <1>1, <1>2, ScheduleSettles
<1>. HIDE DEF st1
<1>4. CpuInv'
  BY <1>3, SettledCpuInv
<1>5. /\ pc'[cur] = op /\ arg'[cur] = x
      /\ \A t \in Thread : t # cur => pc'[t] = pc[t] /\ arg'[t] = arg[t]
  BY <1>0 DEF Goto, IInv, DataType
<1>6. Blocks(op, x, W)
  BY <1>0, <1>2, <1>3, <1>5 DEF Settled, Blocks
<1>. QED  BY <1>4, <1>6

(* What a waiting operation keeps of HolderOwns. *)
LEMMA BlocksHolderOwns ==
  ASSUME IInv, cur \in Thread, NEW op, NEW x, NEW W, Blocks(op, x, W),
         UNCHANGED <<holder, owned_locks>>,
         op = "lock_acquire" => x \notin owned_locks[cur]
  PROVE  HolderOwns'
BY DEF IInv, HolderOwns, Blocks

(* A donation moves thread h to the ready list of priority p, whether it   *)
(* is ready or blocked.                                                    *)
LEMMA Relink ==
  ASSUME IInv, NEW h \in Thread, NEW p \in Pri,
         status[h] \in {"READY", "BLOCKED"},
         NEW rl, rl = [r \in Pri |-> IF r = p
                                     THEN PushBack(Remove(ready_list[r], h), h)
                                     ELSE Remove(ready_list[r], h)]
  PROVE  ReadyQueue(rl, [status EXCEPT ![h] = "READY"],
                    [current_priority EXCEPT ![h] = p])
<1>. DEFINE st == [status EXCEPT ![h] = "READY"]
            cp == [current_priority EXCEPT ![h] = p]
<1>1. /\ ready_list \in [Pri -> Seq(Thread)] /\ status \in [Threads -> States]
      /\ current_priority \in [Threads -> Pri]
      /\ h \in Threads /\ Thread \subseteq Threads
  BY DEF IInv, CpuInv, ReadyQueue, Threads
<1>2. /\ st \in [Threads -> States] /\ cp \in [Threads -> Pri]
      /\ st[h] = "READY" /\ cp[h] = p
      /\ \A u \in Thread : u # h => st[u] = status[u]
                                     /\ cp[u] = current_priority[u]
  BY <1>1 DEF States
<1>. HIDE DEF st, cp
<1>3. ASSUME NEW r \in Pri
      PROVE  /\ rl[r] \in Seq(Thread)
             /\ Lists(rl[r], {u \in Thread : st[u] = "READY" /\ cp[u] = r})
  <2>. DEFINE q == Remove(ready_list[r], h)
              A == {u \in Thread : status[u] = "READY" /\ current_priority[u] = r}
  <2>1. /\ ready_list[r] \in Seq(Thread) /\ IsInjective(ready_list[r])
        /\ Range(ready_list[r]) = A
    BY <1>1 DEF IInv, CpuInv, ReadyQueue, ReadyListed, Lists
  <2>2. q \in Seq(Thread) /\ IsInjective(q) /\ Range(q) = A \ {h}
    BY SMTT(30), <2>1, RemoveList
  <2>3. CASE r = p
    <3>1. rl[r] = PushBack(q, h)
      BY <2>3
    <3>2. /\ PushBack(q, h) \in Seq(Thread) /\ IsInjective(PushBack(q, h))
          /\ Range(PushBack(q, h)) = Range(q) \cup {h}
      <4>. HIDE DEF q
      <4>. QED  BY <2>2, PushBackList
    <3>3. {u \in Thread : st[u] = "READY" /\ cp[u] = r} = (A \ {h}) \cup {h}
      BY Zenon, <1>2, <2>3
    <3>. QED  BY <3>1, <3>2, <3>3, <2>2 DEF Lists
  <2>4. CASE r # p
    <3>1. rl[r] = q
      BY <2>4
    <3>2. {u \in Thread : st[u] = "READY" /\ cp[u] = r} = A \ {h}
      BY <1>2, <2>4
    <3>. QED  BY <3>1, <3>2, <2>2 DEF Lists
  <2>. QED  BY Zenon, <2>3, <2>4
<1>4. rl \in [Pri -> Seq(Thread)]
  <2>1. DOMAIN rl = Pri /\ rl = [r \in Pri |-> rl[r]]
    OBVIOUS
  <2>. QED  BY ZenonT(30), <2>1, <1>3
<1>5. ReadyQueue(rl, st, cp)
  BY ZenonT(30), <1>2, <1>3, <1>4 DEF ReadyQueue, ReadyListed
<1>. QED  BY <1>5 DEF st, cp

(* A list from which the threads W have been unlinked, for the waiters of  *)
(* op on x when the running thread starts to wait for something else.      *)
LEMMA UnlinkedList ==
  ASSUME IInv, cur \in Thread, NEW op, NEW x, NEW h \in Thread, cur # h,
         Blocks(op, x, {h}), NEW op1, NEW x1, NEW q \in Seq(Thread),
         Lists(q, Blocked(op1, x1))
  PROVE  /\ Remove(q, h) \in Seq(Thread)
         /\ op1 # op \/ x1 # x => Lists(Remove(q, h), Blocked(op1, x1)')
         /\ PushBack(Remove(q, h), cur) \in Seq(Thread)
         /\ op1 = op /\ x1 = x =>
              Lists(PushBack(Remove(q, h), cur), Blocked(op1, x1)')
<1>. DEFINE q1 == Remove(q, h)
<1>0. cur \in Threads /\ status[cur] # "BLOCKED"
  BY DEF IInv, CpuInv
<1>1. q1 \in Seq(Thread) /\ IsInjective(q1) /\ Range(q1) = Blocked(op1, x1) \ {h}
  BY RemoveList DEF Lists
<1>. HIDE DEF q1
<1>2. /\ PushBack(q1, cur) \in Seq(Thread) /\ IsInjective(PushBack(q1, cur))
      /\ Range(PushBack(q1, cur)) = Range(q1) \cup {cur}
  <2>1. cur \notin Range(q1)
    BY <1>0, <1>1 DEF Blocked
  <2>. QED  BY <1>1, <2>1, PushBackList
<1>3. op1 # op \/ x1 # x => Blocked(op1, x1)' = Blocked(op1, x1) \ {h}
  BY <1>0 DEF Blocks, Blocked
<1>4. op1 = op /\ x1 = x => Blocked(op1, x1)' = (Blocked(op1, x1) \ {h}) \cup {cur}
  BY <1>0 DEF Blocks, Blocked
<1>. QED  BY <1>1, <1>2, <1>3, <1>4 DEF Lists, q1

(* The lists of waiters once the holder h has left its list and the        *)
(* running thread has joined those of lock l.                              *)
LEMMA DonorWaits ==
  ASSUME IInv, cur \in Thread, NEW l \in Lock, NEW h \in Thread, h # cur,
         Blocks("lock_acquire", l, {h}),
         lock_waiters' = [m \in Lock |-> IF m = l
                            THEN PushBack(Remove(lock_waiters[m], h), cur)
                            ELSE Remove(lock_waiters[m], h)],
         sema_waiters' = [s \in Sema |-> Remove(sema_waiters[s], h)],
         sleep_list' = Remove(sleep_list, h)
  PROVE  WaitInv'
<1>1. ASSUME NEW m \in Lock
      PROVE  /\ lock_waiters'[m] \in Seq(Thread)
             /\ Lists(lock_waiters'[m], Blocked("lock_acquire", m)')
  <2>1. /\ lock_waiters[m] \in Seq(Thread)
        /\ Lists(lock_waiters[m], Blocked("lock_acquire", m))
    BY Zenon DEF IInv, WaitInv
  <2>2. /\ Remove(lock_waiters[m], h) \in Seq(Thread)
        /\ PushBack(Remove(lock_waiters[m], h), cur) \in Seq(Thread)
        /\ m # l => Lists(Remove(lock_waiters[m], h), Blocked("lock_acquire", m)')
        /\ m = l => Lists(PushBack(Remove(lock_waiters[m], h), cur),
                         Blocked("lock_acquire", m)')
    BY <2>1, UnlinkedList
  <2>3. lock_waiters'[m] = IF m = l THEN PushBack(Remove(lock_waiters[m], h), cur)
                           ELSE Remove(lock_waiters[m], h)
    BY Zenon
  <2>. QED  BY Zenon, <2>2, <2>3
<1>2. ASSUME NEW s \in Sema
      PROVE  /\ sema_waiters'[s] \in Seq(Thread)
             /\ Lists(sema_waiters'[s], Blocked("sema_down", s)')
  <2>1. /\ sema_waiters[s] \in Seq(Thread)
        /\ Lists(sema_waiters[s], Blocked("sema_down", s))
    BY Zenon DEF IInv, WaitInv
  <2>2. /\ Remove(sema_waiters[s], h) \in Seq(Thread)
        /\ Lists(Remove(sema_waiters[s], h), Blocked("sema_down", s)')
    BY <2>1, UnlinkedList
  <2>3. sema_waiters'[s] = Remove(sema_waiters[s], h)
    BY Zenon
  <2>. QED  BY Zenon, <2>2, <2>3
<1>3. /\ sleep_list' \in Seq(Thread)
      /\ Lists(sleep_list', Blocked("timer_sleep", NULL)')
  <2>1. /\ sleep_list \in Seq(Thread)
        /\ Lists(sleep_list, Blocked("timer_sleep", NULL))
    BY Zenon DEF IInv, WaitInv
  <2>. QED  BY SMTT(30), <2>1, UnlinkedList
<1>4. \A t \in Thread : status'[t] = "BLOCKED" => pc'[t] \in WaitOps
  BY Zenon DEF IInv, WaitInv, Blocks, WaitOps
<1>5. /\ lock_waiters' \in [Lock -> Seq(Thread)]
      /\ sema_waiters' \in [Sema -> Seq(Thread)]
  BY Zenon, <1>1, <1>2
<1>. QED  BY Zenon, <1>1, <1>2, <1>3, <1>4, <1>5 DEF WaitInv

(* The same when the holder stays where it is.                             *)
LEMMA JoinerWaits ==
  ASSUME IInv, cur \in Thread, status[cur] = "RUNNING", NEW l \in Lock,
         Blocks("lock_acquire", l, {}),
         lock_waiters' = [m \in Lock |-> IF m = l
                            THEN PushBack(lock_waiters[m], cur)
                            ELSE lock_waiters[m]],
         UNCHANGED <<sema_waiters, sleep_list>>
  PROVE  WaitInv'
<1>1. /\ \A m \in Lock : m # l =>
           Blocked("lock_acquire", m)' = Blocked("lock_acquire", m)
      /\ \A r \in Sema : Blocked("sema_down", r)' = Blocked("sema_down", r)
      /\ Blocked("timer_sleep", NULL)' = Blocked("timer_sleep", NULL)
      /\ Blocked("lock_acquire", l)'
           = Blocked("lock_acquire", l) \cup {cur}
  <2>1. "sema_down" # "lock_acquire" /\ "timer_sleep" # "lock_acquire"
    OBVIOUS
  <2>2. /\ \A op1, x1 : op1 # "lock_acquire" \/ x1 # l =>
             Blocked(op1, x1)' = Blocked(op1, x1)
        /\ Blocked("lock_acquire", l)' = Blocked("lock_acquire", l) \cup {cur}
    BY JoinsBlocked
  <2>. QED  BY Zenon, <2>1, <2>2
<1>2. /\ PushBack(lock_waiters[l], cur) \in Seq(Thread)
      /\ Lists(PushBack(lock_waiters[l], cur), Blocked("lock_acquire", l)')
  <2>1. /\ lock_waiters[l] \in Seq(Thread)
        /\ IsInjective(lock_waiters[l])
        /\ Range(lock_waiters[l]) = Blocked("lock_acquire", l)
        /\ cur \notin Range(lock_waiters[l])
    BY DEF IInv, WaitInv, Lists, Blocked
  <2>2. /\ PushBack(lock_waiters[l], cur) \in Seq(Thread)
        /\ IsInjective(PushBack(lock_waiters[l], cur))
        /\ Range(PushBack(lock_waiters[l], cur))
             = Range(lock_waiters[l]) \cup {cur}
    BY SMTT(30), <2>1, PushBackList
  <2>. QED  BY SMTT(30), <1>1, <2>1, <2>2 DEF Lists
<1>3. \A t \in Thread : status'[t] = "BLOCKED" => pc'[t] \in WaitOps
  BY Zenon DEF IInv, WaitInv, Blocks, WaitOps
<1>4. lock_waiters' \in [Lock -> Seq(Thread)]
  BY Zenon, <1>2 DEF IInv, WaitInv
<1>. QED  BY Zenon, <1>1, <1>2, <1>3, <1>4 DEF IInv, WaitInv

(* lock_acquire donates its priority and waits: a holder it outranks stops *)
(* waiting, for whatever it waited.                                        *)
LEMMA WaitForLockBlocks ==
  ASSUME IInv, NEW l \in Lock, cur \in Thread, l \notin owned_locks[cur],
         WaitForLock(l), Goto("lock_acquire", l)
  PROVE  /\ CpuInv' /\ holder[l] \in Thread /\ holder[l] # cur
         /\ status[holder[l]] \in {"READY", "BLOCKED"}
         /\ Blocks("lock_acquire", l, IF Donates(l) THEN {holder[l]} ELSE {})
<1>. DEFINE h == holder[l]
            p == current_priority[cur]
<1>0. /\ h \in Thread /\ h # cur /\ h \in Threads /\ p \in Pri
      /\ cur \in Threads /\ status[cur] = "RUNNING"
      /\ status[h] \in {"READY", "BLOCKED"} /\ Relinks(h)
  <2>1. h \in Thread /\ l \in owned_locks[h]
    BY DEF WaitForLock, IInv, DataType, HolderOwns
  <2>2. h # cur /\ status[h] \notin {"FREE", "DYING"} /\ h \in Threads
    BY Zenon, <2>1 DEF IInv, HolderOwns, Threads
  <2>3. status[h] # "RUNNING" /\ status[h] \in States
    BY Zenon, <2>2 DEF IInv, CpuInv, ReadyQueue
  <2>. QED  BY ZenonT(30), <2>1, <2>2, <2>3 DEF IInv, CpuInv, ReadyQueue, States, Relinks
<1>1. CASE Donates(l)
  <2>. DEFINE rl == [r \in Pri |-> IF r = p
                                   THEN PushBack(Remove(ready_list[r], h), h)
                                   ELSE Remove(ready_list[r], h)]
              st == [status EXCEPT ![h] = "READY"]
              cp == [current_priority EXCEPT ![h] = p]
  <2>1. /\ current_priority' = cp
        /\ schedule(rl, [st EXCEPT ![cur] = "BLOCKED"])
    BY <1>0, <1>1 DEF WaitForLock
  <2>2. ReadyQueue(rl, st, cp)
    BY ZenonT(30), <1>0, Relink
  <2>3. /\ \A t \in Threads : st[t] = IF t = h THEN "READY" ELSE status[t]
        /\ \A t \in Threads : status[t] = "RUNNING" <=> t = cur
        /\ Thread \subseteq Threads
    BY Zenon, <1>0 DEF IInv, CpuInv, ReadyQueue, Threads
  <2>. HIDE DEF rl, st, cp, h, p
  <2>4. /\ \A t \in Threads : st[t] = "RUNNING" <=> t = cur
        /\ \A t \in Thread : st[t] = "BLOCKED" <=>
                              status[t] = "BLOCKED" /\ t \notin {h}
        /\ \A t \in Thread : \A y \in {"DYING", "FREE"} :
             st[t] = y <=> status[t] = y
    BY <1>0, <2>3
  <2>5. {h} \in SUBSET Thread
    BY Zenon, <1>0
  <2>6. CpuInv' /\ Blocks("lock_acquire", l, {h})
    BY Zenon, <2>1, <2>2, <2>4, <2>5, ScheduleBlocks
  <2>. QED  BY Zenon, <1>0, <1>1, <2>6 DEF h
<1>2. CASE ~Donates(l)
  <2>1. /\ UNCHANGED current_priority
        /\ schedule([r \in Pri |-> ready_list[r]],
                    [status EXCEPT ![cur] = "BLOCKED"])
    BY Zenon, <1>2 DEF WaitForLock
  <2>2. [r \in Pri |-> ready_list[r]] = ready_list
    BY Zenon DEF IInv, CpuInv, ReadyQueue
  <2>3. CpuInv' /\ Blocks("lock_acquire", l, {})
    BY ZenonT(30), <1>0, <2>1, <2>2, ScheduleBlocks DEF IInv, CpuInv
  <2>. QED  BY Zenon, <1>0, <1>2, <2>3
<1>. QED  BY <1>1, <1>2

(* So it keeps the invariant.                                              *)
LEMMA WaitForLockIInv ==
  ASSUME IInv, NEW l \in Lock, cur \in Thread, l \notin owned_locks[cur],
         WaitForLock(l), Goto("lock_acquire", l),
         UNCHANGED <<context, priority, holder, owned_locks, value, wakeup_time,
                     ticks>>
  PROVE  IInv'
<1>. DEFINE h == holder[l]
            p == current_priority[cur]
<1>0. /\ h \in Thread /\ h # cur /\ p \in Pri /\ CpuInv' /\ Relinks(h)
      /\ cur \in Threads /\ status[cur] = "RUNNING"
      /\ Blocks("lock_acquire", l, IF Donates(l) THEN {h} ELSE {})
  BY Zenon, WaitForLockBlocks DEF IInv, CpuInv, ReadyQueue, Threads, Relinks
<1>1. /\ WaitInv' /\ bounty' \in [Lock -> Pri]
  <2>1. CASE Donates(l)
    <3>1. /\ bounty' = [bounty EXCEPT ![l] = p]
          /\ lock_waiters' = [m \in Lock |-> IF m = l
                                THEN PushBack(Remove(lock_waiters[m], h), cur)
                                ELSE Remove(lock_waiters[m], h)]
          /\ sema_waiters' = [s \in Sema |-> Remove(sema_waiters[s], h)]
          /\ sleep_list' = Remove(sleep_list, h)
      BY <1>0, <2>1 DEF WaitForLock
    <3>2. Blocks("lock_acquire", l, {h})
      BY Zenon, <1>0, <2>1
    <3>. HIDE DEF h, p
    <3>3. WaitInv'
      BY Zenon, <1>0, <3>1, <3>2, DonorWaits
    <3>4. bounty' \in [Lock -> Pri]
      BY Zenon, <1>0, <3>1 DEF IInv, DataType
    <3>. QED  BY Zenon, <3>3, <3>4
  <2>2. CASE ~Donates(l)
    <3>1. /\ UNCHANGED bounty
          /\ lock_waiters' = [m \in Lock |-> IF m = l
                                THEN PushBack(lock_waiters[m], cur)
                                ELSE lock_waiters[m]]
          /\ sema_waiters' = [s \in Sema |-> sema_waiters[s]]
          /\ sleep_list' = sleep_list
      BY Zenon, <2>2 DEF WaitForLock
    <3>2. sema_waiters' = sema_waiters /\ Blocks("lock_acquire", l, {})
      BY Zenon, <1>0, <2>2, <3>1 DEF IInv, WaitInv
    <3>3. WaitInv'
      BY Zenon, <1>0, <3>1, <3>2, JoinerWaits
    <3>4. bounty' \in [Lock -> Pri]
      BY Zenon, <3>1 DEF IInv, DataType
    <3>. QED  BY Zenon, <3>3, <3>4
  <2>. QED  BY <2>1, <2>2
<1>2. DataType' /\ ArgInv'
  BY Zenon, <1>0, <1>1 DEF IInv, Goto, DataType, ArgInv, Ops, Threads
<1>3. HolderOwns'
  BY Zenon, <1>0, BlocksHolderOwns
<1>. QED  BY Zenon, <1>0, <1>1, <1>2, <1>3 DEF IInv

(* The running thread is on no ready list, so its priority may change. *)
LEMMA RunningPriority ==
  ASSUME IInv, cur \in Thread, NEW n \in Pri
  PROVE  ReadyQueue(ready_list, status, [current_priority EXCEPT ![cur] = n])
<1>. DEFINE cp == [current_priority EXCEPT ![cur] = n]
<1>1. cp \in [Threads -> Pri]
  BY DEF IInv, CpuInv, ReadyQueue
<1>2. \A r \in Pri : {u \in Thread : status[u] = "READY" /\ cp[u] = r}
        = {u \in Thread : status[u] = "READY" /\ current_priority[u] = r}
  BY DEF IInv, CpuInv, ReadyQueue, Threads
<1>. QED  BY Zenon, <1>1, <1>2 DEF IInv, CpuInv, ReadyQueue, ReadyListed

(* lock_release, with the demotion and the wake-up of a waiter.            *)
LEMMA ReleaseIInv ==
  ASSUME IInv, NEW l \in Lock, lock_release(l)
  PROVE  IInv'
<1>0. /\ cur \in Thread /\ cur \in Threads /\ status[cur] = "RUNNING"
      /\ pc[cur] = "run" /\ l \in owned_locks[cur]
  BY Running DEF lock_release, ClearedBounty, Calls
<1>1. PICK n \in Pri :
        current_priority' = [current_priority EXCEPT ![cur] = n]
  BY ZenonT(30) DEF lock_release, ClearedBounty
<1>2. ReadyQueue(ready_list, status, current_priority')
  BY ZenonT(30), <1>0, <1>1, RunningPriority
<1>3. /\ holder' = [holder EXCEPT ![l] = NULL]
      /\ owned_locks' = [owned_locks EXCEPT ![cur] = @ \ {l}]
      /\ bounty' = [bounty EXCEPT ![l] = 0]
      /\ UNCHANGED <<priority, pcVars, semaVars, sleepVars>>
      /\ WakeLockWaiter(l)
  BY DEF lock_release, ClearedBounty
<1>4. /\ CpuInv' /\ WaitInv' /\ context' \in Contexts
      /\ \A t \in Thread : \A x \in {"DYING", "FREE"} :
           status'[t] = x <=> status[t] = x
  <2>1. CASE lock_waiters[l] = <<>>
    <3>1. UNCHANGED <<cpuVars, lock_waiters>>
      BY <2>1, <1>3 DEF WakeLockWaiter
    <3>2. CpuInv'
      BY <1>2, <3>1 DEF IInv, CpuInv, cpuVars
    <3>3. WaitInv'
      BY <3>1, <1>3, QuietWaitInv
      DEF IInv, cpuVars, pcVars, semaVars, sleepVars
    <3>. QED  BY <3>1, <3>2, <3>3 DEF IInv, DataType, cpuVars
  <2>2. CASE lock_waiters[l] # <<>>
    <3>1. PICK q \in ListSort(lock_waiters[l], current_priority) :
            /\ lock_waiters' = [lock_waiters EXCEPT ![l] = Tail(q)]
            /\ thread_unblock(Head(q), ready_list, status, current_priority',
                              FALSE)
      BY ZenonT(30), <2>2, <1>3 DEF WakeLockWaiter
    <3>. DEFINE w == Head(q)
    <3>2. /\ q \in Seq(Thread) /\ q # <<>>
          /\ Lists(q, Blocked("lock_acquire", l))
          /\ w \in Thread /\ status[w] = "BLOCKED"
          /\ w \in Blocked("lock_acquire", l)
      BY <2>2, SortedWaiter DEF IInv, WaitInv
    <3>3. CpuInv' /\ Wakes(w) /\ context' \in Contexts
      BY ZenonT(30), <3>1, <3>2, <1>2, <1>3, UnblockWakes DEF pcVars
    <3>. HIDE DEF w
    <3>4. /\ \A m \in Lock : m # l => w \notin Blocked("lock_acquire", m)
          /\ \A r \in Sema : w \notin Blocked("sema_down", r)
          /\ w \notin Blocked("timer_sleep", NULL)
      BY SMTT(30), <3>2 DEF Blocked
    <3>5. /\ \A r \in Sema : Lists(sema_waiters'[r], Blocked("sema_down", r)')
          /\ Lists(sleep_list', Blocked("timer_sleep", NULL)')
      BY SMTT(30), <1>3, <3>2, <3>3, <3>4, WakesLists
      DEF IInv, WaitInv, semaVars, sleepVars
    <3>6. Lists(Tail(q), Blocked("lock_acquire", l)') /\ Tail(q) \in Seq(Thread)
      BY <3>2, <3>3, WakesLists DEF w
    <3>w. /\ lock_waiters \in [Lock -> Seq(Thread)]
          /\ lock_waiters' = [lock_waiters EXCEPT ![l] = Tail(q)]
      BY ZenonT(30), <3>1 DEF IInv, WaitInv
    <3>7. ASSUME NEW m \in Lock
          PROVE  Lists(lock_waiters'[m], Blocked("lock_acquire", m)')
      <4>1. CASE m = l
        BY <4>1, <3>w, <3>6
      <4>2. CASE m # l
        <5>1. Lists(lock_waiters[m], Blocked("lock_acquire", m))
          BY DEF IInv, WaitInv
        <5>. QED  BY <4>2, <5>1, <3>w, <3>2, <3>3, <3>4, WakesLists
      <4>. QED  BY <4>1, <4>2
    <3>8. lock_waiters' \in [Lock -> Seq(Thread)]
      BY <3>w, <3>6
    <3>9. \A t \in Thread : status'[t] = "BLOCKED" => pc'[t] \in WaitOps
      BY Zenon, <3>3 DEF IInv, WaitInv, Wakes
    <3>10. WaitInv'
      BY ZenonT(30), <1>3, <3>5, <3>7, <3>8, <3>9 DEF IInv, WaitInv, semaVars, sleepVars
    <3>. QED  BY <3>3, <3>10 DEF Wakes
  <2>. QED  BY <2>1, <2>2
<1>5. DataType' /\ ArgInv'
  <2>1. 0 \in Pri
    BY ConstantsAssumption DEF Pri
  <2>. QED  BY <1>0, <1>3, <1>4, <2>1
            DEF IInv, DataType, ArgInv, pcVars, semaVars, sleepVars
<1>6. HolderOwns'
  <2>1. ASSUME NEW m \in Lock, NEW t \in Thread
        PROVE  holder'[m] = t <=> m \in owned_locks'[t]
    <3>1. NULL # t /\ t \in Threads
      BY ConstantsAssumption DEF Threads
    <3>. QED  BY <1>0, <1>3, <3>1 DEF IInv, DataType, HolderOwns
  <2>2. \A t \in Thread : owned_locks'[t] \subseteq owned_locks[t]
    BY <1>0, <1>3 DEF IInv, DataType, Threads
  <2>. QED  BY <2>1, <2>2, <1>3, <1>4 DEF IInv, HolderOwns, pcVars
<1>. QED  BY <1>4, <1>5, <1>6 DEF IInv

(* The running thread takes a free lock. *)
LEMMA TakeLockOwns ==
  ASSUME IInv, NEW l \in Lock, TakeLock(l), cur \in Thread,
         \A t \in Thread : status'[t] = status[t],
         \A t \in Thread : t # cur => pc'[t] = pc[t] /\ arg'[t] = arg[t],
         pc'[cur] = "run"
  PROVE  /\ HolderOwns'
         /\ holder' \in [Lock -> Thread \cup {NULL}]
         /\ owned_locks' \in [Threads -> SUBSET Lock]
<1>1. cur \in Threads /\ status[cur] = "RUNNING"
  BY SMTT(30) DEF IInv, CpuInv
<1>2. /\ holder[l] = NULL
      /\ holder' = [holder EXCEPT ![l] = cur]
      /\ owned_locks' = [owned_locks EXCEPT ![cur] = @ \cup {l}]
      /\ holder \in [Lock -> Thread \cup {NULL}]
      /\ owned_locks \in [Threads -> SUBSET Lock]
  BY DEF TakeLock, IInv, DataType
<1>3. ASSUME NEW m \in Lock, NEW t \in Thread
      PROVE  holder'[m] = t <=> m \in owned_locks'[t]
  <2>1. t \in Threads /\ NULL # t
    BY ConstantsAssumption DEF Threads
  <2>2. holder[m] = t <=> m \in owned_locks[t]
    BY SMTT(30) DEF IInv, HolderOwns
  <2>. QED  BY <1>1, <1>2, <2>1, <2>2
<1>4. \A t \in Thread : t # cur => owned_locks'[t] = owned_locks[t]
  BY <1>1, <1>2 DEF Threads
<1>5. ASSUME NEW t \in Thread
      PROVE  /\ status'[t] \in {"FREE", "DYING"} => owned_locks'[t] = {}
             /\ pc'[t] = "lock_acquire" => arg'[t] \notin owned_locks'[t]
  BY <1>1, <1>4 DEF IInv, HolderOwns
<1>. QED  BY <1>1, <1>2, <1>3, <1>5 DEF HolderOwns

(* lock_try_acquire of a free lock.                                        *)
LEMMA TryAcquireIInv ==
  ASSUME IInv, NEW l \in Lock, lock_try_acquire(l)
  PROVE  IInv'
<1>0. /\ cur \in Thread /\ cur \in Threads /\ pc[cur] = "run"
      /\ TakeLock(l)
      /\ UNCHANGED <<cpuVars, priVars, pcVars, bounty, lock_waiters, semaVars,
                     sleepVars>>
  BY Running DEF lock_try_acquire, Calls
<1>1. CpuInv' /\ \A u \in Thread : status'[u] = status[u]
  BY SMTT(30), <1>0, CpuUnchanged DEF IInv, cpuVars, priVars
<1>2. /\ HolderOwns'
      /\ holder' \in [Lock -> Thread \cup {NULL}]
      /\ owned_locks' \in [Threads -> SUBSET Lock]
  BY SMTT(30), <1>0, <1>1, TakeLockOwns DEF pcVars
<1>3. WaitInv'
  BY ZenonT(30), <1>0, <1>1, QuietWaitInv DEF IInv, pcVars, semaVars, sleepVars
<1>4. DataType' /\ ArgInv'
  BY <1>0, <1>2 DEF IInv, DataType, ArgInv, cpuVars, priVars, pcVars, semaVars,
                    sleepVars
<1>. QED  BY <1>1, <1>2, <1>3, <1>4 DEF IInv

(* lock_acquire, in both outcomes.                                         *)
LEMMA AcquireIInv ==
  ASSUME IInv, NEW l \in Lock, lock_acquire(l)
  PROVE  IInv'
<1>0. /\ cur \in Thread /\ cur \in Threads /\ status[cur] = "RUNNING"
      /\ l \notin owned_locks[cur]
  <2>1. context = "thread" /\ cur # Idle
    BY Zenon DEF lock_acquire, Calls, Resumes
  <2>2. /\ cur \in Thread /\ cur \in Threads /\ status[cur] = "RUNNING"
    BY <2>1, Running
  <2>3. l \notin owned_locks[cur] \/ (pc[cur] = "lock_acquire" /\ arg[cur] = l)
    BY Zenon DEF lock_acquire, Resumes
  <2>4. pc[cur] = "lock_acquire" => arg[cur] \notin owned_locks[cur]
    BY Zenon, <2>2 DEF IInv, HolderOwns
  <2>. QED  BY Zenon, <2>2, <2>3, <2>4
<1>1. CASE /\ TakeLock(l) /\ Return
           /\ UNCHANGED <<cpuVars, priVars, bounty, lock_waiters, semaVars,
                          sleepVars>>
  <2>1. CpuInv' /\ \A u \in Thread : status'[u] = status[u]
    BY <1>1, CpuUnchanged DEF IInv, cpuVars, priVars
  <2>2. /\ \A u \in Thread : u # cur => pc'[u] = pc[u] /\ arg'[u] = arg[u]
        /\ pc'[cur] = "run" /\ arg'[cur] = NULL
    BY SMTT(30), <1>0, <1>1 DEF IInv, DataType, Return, Goto, Threads
  <2>3. /\ HolderOwns'
        /\ holder' \in [Lock -> Thread \cup {NULL}]
        /\ owned_locks' \in [Threads -> SUBSET Lock]
    BY Zenon, <1>0, <1>1, <2>1, <2>2, TakeLockOwns
  <2>4. WaitInv'
    BY Zenon, <1>0, <1>1, <2>1, <2>2, QuietWaitInv DEF IInv, semaVars, sleepVars
  <2>5. DataType' /\ ArgInv'
    BY Zenon, <1>0, <1>1, <2>3
    DEF IInv, DataType, ArgInv, Return, Goto, Ops, Threads, cpuVars, priVars,
        semaVars, sleepVars
  <2>. QED  BY <2>1, <2>3, <2>4, <2>5 DEF IInv
<1>2. CASE /\ WaitForLock(l) /\ Goto("lock_acquire", l)
           /\ UNCHANGED <<context, priority, holder, owned_locks, value,
                          wakeup_time, ticks>>
  BY Zenon, <1>0, <1>2, WaitForLockIInv
<1>. QED  BY ZenonT(30), <1>1, <1>2 DEF lock_acquire

(* sema_down takes a unit, or waits.                                       *)
LEMMA SemaDownIInv ==
  ASSUME IInv, NEW s \in Sema, sema_down(s)
  PROVE  IInv'
<1>0. /\ cur \in Thread /\ cur \in Threads /\ status[cur] = "RUNNING"
      /\ UNCHANGED <<priVars, lockVars, sleepVars>>
      /\ context' = context
  BY ZenonT(30), Running DEF sema_down, Calls, Resumes, cpuVars
<1>1. CASE value[s] > 0
  <2>1. /\ value' = [value EXCEPT ![s] = @ - 1] /\ Return
        /\ UNCHANGED <<cpuVars, sema_waiters>>
    BY <1>1 DEF sema_down
  <2>2. value' \in [Sema -> Nat]
    <3>1. value \in [Sema -> Nat] /\ value[s] - 1 \in Nat
      BY <1>1 DEF IInv, DataType
    <3>. QED  BY Zenon, <2>1, <3>1
  <2>3. DataType' /\ ArgInv'
    BY SMTT(30), <1>0, <2>1, <2>2
    DEF IInv, Return, Goto, DataType, ArgInv, Ops, Threads, cpuVars, priVars,
        lockVars, sleepVars
  <2>4. /\ \A u \in Thread : u = cur \/ (pc'[u] = pc[u] /\ arg'[u] = arg[u])
        /\ pc'[cur] # "lock_acquire"
    BY <1>0, <2>1 DEF IInv, Return, Goto, DataType, Threads
  <2>5. UNCHANGED <<cur, status, ready_list, thread_ticks, current_priority,
                    lock_waiters, sema_waiters, sleep_list, lockVars>>
    BY Zenon, <1>0, <2>1 DEF cpuVars, priVars, lockVars, sleepVars
  <2>. QED  BY Zenon, <1>0, <2>3, <2>4, <2>5, LocalIInv
<1>2. CASE value[s] = 0
  <2>1. /\ sema_waiters' = [sema_waiters EXCEPT ![s] = PushBack(@, cur)]
        /\ Goto("sema_down", s)
        /\ schedule(ready_list, [status EXCEPT ![cur] = "BLOCKED"])
        /\ UNCHANGED value
    BY <1>2 DEF sema_down
  <2>2. CpuInv' /\ Blocks("sema_down", s, {})
    BY ZenonT(30), <1>0, <2>1, ScheduleBlocks DEF IInv, CpuInv, priVars
  <2>3. WaitInv'
    <3>1. /\ \A l \in Lock :
               Blocked("lock_acquire", l)' = Blocked("lock_acquire", l)
          /\ \A r \in Sema : r # s =>
               Blocked("sema_down", r)' = Blocked("sema_down", r)
          /\ Blocked("sema_down", s)' = Blocked("sema_down", s) \cup {cur}
          /\ Blocked("timer_sleep", NULL)' = Blocked("timer_sleep", NULL)
      <4>1. "lock_acquire" # "sema_down" /\ "timer_sleep" # "sema_down"
        OBVIOUS
      <4>2. /\ \A op1, x1 : op1 # "sema_down" \/ x1 # s =>
                 Blocked(op1, x1)' = Blocked(op1, x1)
            /\ Blocked("sema_down", s)' = Blocked("sema_down", s) \cup {cur}
        BY <1>0, <2>2, JoinsBlocked
      <4>. QED  BY Zenon, <4>1, <4>2
    <3>2. /\ PushBack(sema_waiters[s], cur) \in Seq(Thread)
          /\ Lists(PushBack(sema_waiters[s], cur), Blocked("sema_down", s)')
      <4>1. cur \notin Range(sema_waiters[s])
        BY ZenonT(30), <1>0 DEF IInv, WaitInv, Lists, Blocked
      <4>2. /\ sema_waiters[s] \in Seq(Thread) /\ IsInjective(sema_waiters[s])
            /\ Range(sema_waiters[s]) = Blocked("sema_down", s)
        BY SMTT(30) DEF IInv, WaitInv, Lists
      <4>3. /\ PushBack(sema_waiters[s], cur) \in Seq(Thread)
            /\ IsInjective(PushBack(sema_waiters[s], cur))
            /\ Range(PushBack(sema_waiters[s], cur))
                 = Range(sema_waiters[s]) \cup {cur}
        BY SMTT(30), <1>0, <4>1, <4>2, PushBackList
      <4>. QED  BY <3>1, <4>2, <4>3 DEF Lists
    <3>3. \A t \in Thread : status'[t] = "BLOCKED" => pc'[t] \in WaitOps
      BY ZenonT(30), <2>2 DEF IInv, WaitInv, Blocks, WaitOps
    <3>. QED  BY <1>0, <2>1, <3>1, <3>2, <3>3
              DEF IInv, WaitInv, lockVars, sleepVars
  <2>4. DataType' /\ ArgInv'
    BY <1>0, <2>1 DEF IInv, Goto, DataType, ArgInv, Ops, Threads, priVars,
                      lockVars, sleepVars
  <2>5. HolderOwns'
    BY ZenonT(30), <1>0, <2>2, BlocksHolderOwns DEF lockVars
  <2>. QED  BY SMTT(30), <2>2, <2>3, <2>4, <2>5 DEF IInv
<1>. QED  BY <1>1, <1>2 DEF sema_down

(* timer_sleep joins the sleep list.                                       *)
LEMMA SleepIInv ==
  ASSUME IInv, NEW n \in SleepTicks, timer_sleep(n)
  PROVE  IInv'
<1>0. /\ cur \in Thread /\ cur \in Threads /\ status[cur] = "RUNNING"
      /\ UNCHANGED <<context, priVars, lockVars, semaVars, ticks>>
      /\ Goto("timer_sleep", NULL)
      /\ schedule(ready_list, [status EXCEPT ![cur] = "BLOCKED"])
      /\ wakeup_time' = [wakeup_time EXCEPT ![cur] = ticks + n]
      /\ n \in Nat
  BY Running, ConstantsAssumption DEF timer_sleep, Calls
<1>1. PICK k \in 1..(Len(sleep_list) + 1) :
        sleep_list' = InsertAt(sleep_list, k, cur)
  BY DEF timer_sleep
<1>2. CpuInv' /\ Blocks("timer_sleep", NULL, {})
  BY ZenonT(30), <1>0, ScheduleBlocks DEF IInv, CpuInv, priVars
<1>3. WaitInv'
  <2>1. /\ \A l \in Lock :
             Blocked("lock_acquire", l)' = Blocked("lock_acquire", l)
        /\ \A r \in Sema :
             Blocked("sema_down", r)' = Blocked("sema_down", r)
        /\ Blocked("timer_sleep", NULL)'
             = Blocked("timer_sleep", NULL) \cup {cur}
    <3>1. /\ \A l \in Lock :
               Blocked("lock_acquire", l)' = Blocked("lock_acquire", l)
          /\ \A r \in Sema :
               Blocked("sema_down", r)' = Blocked("sema_down", r)
      BY SMTT(30), <1>0, <1>2 DEF Blocks, Blocked
    <3>2. Blocked("timer_sleep", NULL)'
            = Blocked("timer_sleep", NULL) \cup {cur}
      BY <1>0, <1>2, BlocksBlocked
    <3>. QED  BY SMTT(30), <3>1, <3>2
  <2>2. /\ sleep_list' \in Seq(Thread)
        /\ Lists(sleep_list', Blocked("timer_sleep", NULL)')
    <3>1. cur \notin Range(sleep_list)
      BY ZenonT(30), <1>0 DEF IInv, WaitInv, Lists, Blocked
    <3>2. /\ sleep_list \in Seq(Thread) /\ IsInjective(sleep_list)
          /\ Range(sleep_list) = Blocked("timer_sleep", NULL)
      BY SMTT(30) DEF IInv, WaitInv, Lists
    <3>3. /\ sleep_list' \in Seq(Thread) /\ IsInjective(sleep_list')
          /\ Range(sleep_list') = Range(sleep_list) \cup {cur}
      BY SMTT(30), <1>0, <1>1, <3>1, <3>2, InsertList
    <3>. QED  BY Zenon, <2>1, <3>2, <3>3 DEF Lists
  <2>3. \A t \in Thread : status'[t] = "BLOCKED" => pc'[t] \in WaitOps
    BY ZenonT(30), <1>2 DEF IInv, WaitInv, Blocks, WaitOps
  <2>. QED  BY ZenonT(30), <1>0, <2>1, <2>2, <2>3 DEF IInv, WaitInv, lockVars, semaVars
<1>4. DataType' /\ ArgInv'
  BY <1>0 DEF IInv, Goto, DataType, ArgInv, Ops, Threads, priVars, lockVars,
              semaVars
<1>5. HolderOwns'
  BY ZenonT(30), <1>0, <1>2, BlocksHolderOwns DEF lockVars
<1>. QED  BY ZenonT(30), <1>2, <1>3, <1>4, <1>5 DEF IInv
----------------------------------------------------------------------------
(* The invariant is inductive. *)
LEMMA NextIInv == IInv /\ [Next]_vars => IInv'
<1>. SUFFICES ASSUME IInv, [Next]_vars  PROVE IInv'
  OBVIOUS
<1>1. CASE UNCHANGED vars
  <2>1. /\ UNCHANGED <<cpuVars, priVars, pcVars, lockVars, semaVars, sleepVars>>
    BY <1>1 DEF vars
  <2>2. CpuInv' /\ \A u \in Thread : status'[u] = status[u]
    BY Zenon, <2>1, CpuUnchanged DEF IInv, cpuVars, priVars
  <2>3. WaitInv'
    BY ZenonT(30), <2>1, <2>2, QuietWaitInv DEF IInv, pcVars, lockVars, semaVars, sleepVars
  <2>4. DataType' /\ ArgInv' /\ HolderOwns'
    BY <2>1, <2>2 DEF IInv, DataType, ArgInv, HolderOwns, cpuVars, priVars,
                      pcVars, lockVars, semaVars, sleepVars
  <2>. QED  BY <2>2, <2>3, <2>4 DEF IInv
<1>2. CASE Yield
  BY <1>2, YieldIInv
<1>3. ASSUME NEW t \in Thread, NEW p \in CreatePri, thread_create(t, p)
      PROVE  IInv'
  BY <1>3, CreateIInv
<1>4. ASSUME NEW t \in Thread, CreatePreempts(t)  PROVE IInv'
  BY <1>4, CreatePreemptsIInv
<1>5. CASE thread_exit
  BY <1>5, ExitIInv
<1>6. ASSUME NEW p \in SetPri, thread_set_priority(p)  PROVE IInv'
  BY SMTT(30), <1>6, SetPriorityIInv
<1>7. CASE SetCurrentPriority
  BY <1>7, SetCurrentPriorityIInv
<1>8. CASE idle
  BY <1>8, IdleIInv
<1>9. ASSUME NEW l \in Lock,
             lock_acquire(l) \/ lock_try_acquire(l) \/ lock_release(l)
      PROVE  IInv'
  BY <1>9, AcquireIInv, TryAcquireIInv, ReleaseIInv
<1>10. ASSUME NEW s \in Sema, sema_down(s) \/ sema_try_down(s) \/ sema_up(s)
       PROVE  IInv'
  BY ZenonT(30), <1>10, SemaDownIInv, TryDownIInv, SemaUpIInv
<1>11. ASSUME NEW n \in SleepTicks, timer_sleep(n)  PROVE IInv'
  BY <1>11, SleepIInv
<1>12. CASE WakeUp
  BY <1>12, WakeUpIInv
<1>13. ASSUME NEW s \in IrqSema, device_interrupt(s)  PROVE IInv'
  BY <1>13, DeviceInterruptIInv
<1>14. CASE timer_interrupt
  BY <1>14, TimerInterruptIInv
<1>15. CASE handle_sleeping_threads
  BY <1>15, HandleSleepingIInv
<1>16. CASE thread_tick
  BY <1>16, ThreadTickIInv
<1>17. CASE Halted
  BY <1>17, <1>1 DEF Halted
<1>. QED
  BY ZenonT(30), <1>1, <1>2, <1>3, <1>4, <1>5, <1>6, <1>7, <1>8, <1>9, <1>10, <1>11,
     <1>12, <1>13, <1>14, <1>15, <1>16, <1>17 DEF Next

(* The inductive invariant holds in every reachable state.                 *)
LEMMA SpecIInv == Spec => []IInv
<1>. QED  BY InitIInv, NextIInv, PTL DEF Spec

(* The state always has its type. *)
THEOREM TypeCorrect == Spec => []TypeOK
<1>. QED  BY SpecIInv, IInvImplies, PTL

(* Every thread's list element is always in exactly the list its state     *)
(* calls for (thread.h), so no list operation of the kernel ever unlinks   *)
(* or links an element that is elsewhere.                                  *)
THEOREM OneList == Spec => []ElemInOneList
<1>. QED  BY SpecIInv, IInvImplies, PTL

(* A lock has at most one holder, and its owned_locks agree.               *)
THEOREM Ownership == Spec => []HolderOwns
<1>. QED  BY SpecIInv, IInvImplies, PTL


----------------------------------------------------------------------------
(* Refinement.                                                             *)

(* The running thread takes a free lock: Sync's Acquire.                   *)
LEMMA TakeAcquires ==
  ASSUME IInv, cur \in Thread, NEW l \in Lock, TakeLock(l), UNCHANGED value
  PROVE  S!Acquire(cur, l)
<1>1. /\ \A u \in Thread : l \notin owned_locks[u]
      /\ owned_locks \in [Threads -> SUBSET Lock] /\ cur \in Threads
      /\ owned_locks' = [owned_locks EXCEPT ![cur] = @ \cup {l}]
  BY ConstantsAssumption DEF TakeLock, IInv, HolderOwns, DataType, Threads
<1>. QED  BY ZenonT(30), <1>1 DEF S!Acquire, Threads

(* Every step of the thread core is one of Sync, or a stutter.             *)
LEMMA NextImplements == IInv /\ [Next]_vars => [S!Next]_(S!vars)
<1>. SUFFICES ASSUME IInv, [Next]_vars  PROVE [S!Next]_(S!vars)
  OBVIOUS
<1>0. owned_locks \in [Threads -> SUBSET Lock]
  BY DEF IInv, DataType
<1>1. CASE UNCHANGED <<owned_locks, value>>
  BY <1>1 DEF S!vars
<1>2. ASSUME NEW l \in Lock, lock_acquire(l) \/ lock_try_acquire(l)
      PROVE  [S!Next]_(S!vars)
  <2>1. cur \in Thread
    BY Zenon, <1>2, Running DEF lock_acquire, lock_try_acquire, Calls, Resumes
  <2>2. (TakeLock(l) /\ UNCHANGED value) \/ UNCHANGED <<owned_locks, value>>
    BY Zenon, <1>2 DEF lock_acquire, lock_try_acquire, semaVars
  <2>. QED  BY Zenon, <1>1, <2>1, <2>2, TakeAcquires DEF S!Next
<1>3. ASSUME NEW l \in Lock, lock_release(l)  PROVE [S!Next]_(S!vars)
  <2>1. /\ cur \in Thread /\ cur \in Threads /\ l \in owned_locks[cur]
        /\ owned_locks' = [owned_locks EXCEPT ![cur] = @ \ {l}]
        /\ UNCHANGED value
    BY Zenon, <1>3, Running DEF lock_release, ClearedBounty, Calls, semaVars
  <2>2. S!Release(cur, l)
    BY ZenonT(30), <1>0, <2>1 DEF S!Release, Threads
  <2>. QED  BY Zenon, <2>1, <2>2 DEF S!Next
<1>4. ASSUME NEW s \in Sema, sema_down(s) \/ sema_try_down(s)
      PROVE  [S!Next]_(S!vars)
  <2>1. /\ UNCHANGED owned_locks
        /\ \/ value[s] > 0 /\ value' = [value EXCEPT ![s] = @ - 1]
           \/ UNCHANGED value
    BY <1>4 DEF sema_down, sema_try_down, lockVars
  <2>2. S!Down(s) \/ UNCHANGED <<owned_locks, value>>
    BY <2>1 DEF S!Down
  <2>. QED  BY ZenonT(30), <1>1, <2>2 DEF S!Next
<1>5. ASSUME NEW s \in Sema, NEW b, Up(s, b)  PROVE [S!Next]_(S!vars)
  <2>1. S!Up(s)
    BY <1>5 DEF Up, S!Up, lockVars
  <2>. QED  BY <2>1 DEF S!Next
<1>6. ASSUME NEW s \in Sema, sema_up(s)  PROVE [S!Next]_(S!vars)
  BY ZenonT(30), <1>5, <1>6 DEF sema_up
<1>7. ASSUME NEW s \in IrqSema, device_interrupt(s)  PROVE [S!Next]_(S!vars)
  BY ZenonT(30), <1>5, <1>7, ConstantsAssumption DEF device_interrupt
<1>8. CASE UNCHANGED vars \/ Halted
  BY <1>1, <1>8 DEF Halted, vars, lockVars, semaVars
<1>9. CASE \/ Yield \/ thread_exit \/ SetCurrentPriority \/ idle \/ WakeUp
           \/ timer_interrupt \/ handle_sleeping_threads \/ thread_tick
  BY ZenonT(30), <1>1, <1>9
  DEF Yield, thread_exit, SetCurrentPriority, idle, WakeUp, timer_interrupt,
      handle_sleeping_threads, thread_tick, lockVars, semaVars
<1>10. ASSUME NEW t \in Thread,
              CreatePreempts(t) \/ \E p \in CreatePri : thread_create(t, p)
       PROVE  [S!Next]_(S!vars)
  BY ZenonT(30), <1>1, <1>10 DEF CreatePreempts, thread_create, lockVars, semaVars
<1>11. CASE \/ \E p \in SetPri : thread_set_priority(p)
            \/ \E n \in SleepTicks : timer_sleep(n)
  BY ZenonT(30), <1>1, <1>11 DEF thread_set_priority, timer_sleep, lockVars, semaVars
<1>. QED
  BY ZenonT(30), <1>2, <1>3, <1>4, <1>6, <1>7, <1>8, <1>9, <1>10, <1>11 DEF Next

(* The kernel's locks and semaphores keep what synch.c promises: every     *)
(* step of the thread core is a step of Sync or leaves Sync's state alone. *)
THEOREM Refinement == Spec => Implements
<1>1. Init => S!Init
  BY DEF Init, S!Init, Threads
<1>. QED  BY <1>1, SpecIInv, NextImplements, PTL DEF Spec, Implements, S!Spec
============================================================================
