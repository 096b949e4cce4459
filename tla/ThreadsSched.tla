--------------------------- MODULE ThreadsSched ----------------------------
(***************************************************************************)
(* Facts about the kernel's lists, the inductive invariant IInv of Threads, *)
(* and its preservation by the actions that make, run and end threads,     *)
(* that change the running thread's priority, by the interrupts and by     *)
(* sema_up.                                                                *)
(***************************************************************************)
EXTENDS Threads, TLAPS

----------------------------------------------------------------------------
(* list_push_back of an element that is not in the list. *)
LEMMA PushBackList ==
  ASSUME NEW E, NEW s \in Seq(E), IsInjective(s), NEW e \in E, e \notin Range(s)
  PROVE  /\ PushBack(s, e) \in Seq(E)
         /\ IsInjective(PushBack(s, e))
         /\ Range(PushBack(s, e)) = Range(s) \cup {e}
<1>1. /\ PushBack(s, e) \in Seq(E)
      /\ Len(PushBack(s, e)) = Len(s) + 1
      /\ \A i \in 1..Len(s) : PushBack(s, e)[i] = s[i]
      /\ PushBack(s, e)[Len(s) + 1] = e
      /\ DOMAIN PushBack(s, e) = 1..(Len(s) + 1)
      /\ DOMAIN s = 1..Len(s)
      /\ Len(s) \in Nat
  BY DEF PushBack
<1>. HIDE DEF PushBack
<1>2. IsInjective(PushBack(s, e))
  BY <1>1 DEF IsInjective, Range
<1>3. Range(PushBack(s, e)) = Range(s) \cup {e}
  BY <1>1 DEF Range
<1>. QED  BY <1>1, <1>2, <1>3

(* list_pop_front. *)
LEMMA PopFrontList ==
  ASSUME NEW E, NEW s \in Seq(E), IsInjective(s), s # <<>>
  PROVE  /\ Head(s) \in E /\ Head(s) \in Range(s)
         /\ Tail(s) \in Seq(E)
         /\ IsInjective(Tail(s))
         /\ Range(Tail(s)) = Range(s) \ {Head(s)}
<1>1. /\ Head(s) = s[1] /\ Len(s) \in Nat /\ Len(s) > 0
      /\ Tail(s) \in Seq(E)
      /\ Len(Tail(s)) = Len(s) - 1
      /\ \A i \in 1..(Len(s) - 1) : Tail(s)[i] = s[i + 1]
      /\ DOMAIN Tail(s) = 1..(Len(s) - 1)
      /\ DOMAIN s = 1..Len(s)
      /\ \A i \in 1..Len(s) : s[i] \in E
  OBVIOUS
<1>2. IsInjective(Tail(s))
  BY <1>1 DEF IsInjective
<1>3. ASSUME NEW x \in Range(Tail(s))  PROVE x \in Range(s) \ {Head(s)}
  BY <1>1 DEF IsInjective, Range
<1>4. ASSUME NEW x \in Range(s) \ {Head(s)}  PROVE x \in Range(Tail(s))
  <2>1. PICK i \in 1..Len(s) : s[i] = x
    BY <1>1 DEF Range
  <2>2. i # 1
    BY <2>1, <1>1
  <2>3. i - 1 \in 1..(Len(s) - 1) /\ Tail(s)[i - 1] = x
    BY <2>1, <2>2, <1>1
  <2>. QED  BY ZenonT(30), <2>3, <1>1 DEF Range
<1>5. Head(s) \in Range(s)
  BY <1>1 DEF Range
<1>6. Range(Tail(s)) = Range(s) \ {Head(s)}
  BY <1>3, <1>4
<1>. QED  BY <1>1, <1>2, <1>5, <1>6

(* list_remove. *)
LEMMA RemoveList ==
  ASSUME NEW E, NEW s \in Seq(E), IsInjective(s), NEW e
  PROVE  /\ Remove(s, e) \in Seq(E)
         /\ IsInjective(Remove(s, e))
         /\ Range(Remove(s, e)) = Range(s) \ {e}
<1>1. CASE e \notin Range(s)
  BY <1>1 DEF Remove
<1>2. CASE e \in Range(s)
  <2>. DEFINE k == CHOOSE k \in DOMAIN s : s[k] = e
              r == [i \in 1..(Len(s) - 1) |-> IF i < k THEN s[i] ELSE s[i + 1]]
  <2>1. k \in DOMAIN s /\ s[k] = e
    BY <1>2 DEF Range
  <2>2. Remove(s, e) = r
    BY <1>2 DEF Remove
  <2>. HIDE DEF k
  <2>3. /\ DOMAIN s = 1..Len(s) /\ Len(s) \in Nat
        /\ \A i \in 1..Len(s) : s[i] \in E
    OBVIOUS
  <2>4. /\ r \in Seq(E)
        /\ DOMAIN r = 1..(Len(s) - 1)
    BY <2>1, <2>3
  <2>5. IsInjective(r)
    BY <2>1, <2>3 DEF IsInjective
  <2>6. ASSUME NEW x \in Range(r)  PROVE x \in Range(s) \ {e}
    <3>1. PICK i \in 1..(Len(s) - 1) : r[i] = x
      BY <2>4 DEF Range
    <3>2. CASE i < k
      BY <3>1, <3>2, <2>1, <2>3 DEF IsInjective, Range
    <3>3. CASE ~(i < k)
      BY <3>1, <3>3, <2>1, <2>3 DEF IsInjective, Range
    <3>. QED  BY <3>2, <3>3
  <2>7. ASSUME NEW x \in Range(s) \ {e}  PROVE x \in Range(r)
    <3>1. PICK i \in 1..Len(s) : s[i] = x
      BY <2>3 DEF Range
    <3>2. CASE i < k
      <4>1. i \in 1..(Len(s) - 1) /\ r[i] = x
        BY <3>1, <3>2, <2>1, <2>3
      <4>. QED  BY <4>1, <2>4 DEF Range
    <3>3. CASE i > k
      <4>1. i - 1 \in 1..(Len(s) - 1) /\ r[i - 1] = x
        BY <3>1, <3>3, <2>1, <2>3
      <4>. QED  BY <4>1, <2>4 DEF Range
    <3>. QED  BY <3>1, <3>2, <3>3, <2>1, <2>3
  <2>. HIDE DEF r
  <2>. QED  BY ZenonT(30), <2>2, <2>4, <2>5, <2>6, <2>7 DEF Range
<1>. QED  BY <1>1, <1>2

(* list_sort permutes the list. *)
LEMMA SortList ==
  ASSUME NEW E, NEW s \in Seq(E), NEW key, NEW q \in ListSort(s, key), s # <<>>
  PROVE  /\ q \in Seq(E) /\ q # <<>>
         /\ IsInjective(q)
         /\ Range(q) = Range(s)
<1>1. /\ q \in [1..Len(s) -> Range(s)]
      /\ IsInjective(q)
      /\ Range(q) = Range(s)
  BY DEF ListSort
<1>2. Range(s) \subseteq E /\ Len(s) \in Nat /\ Len(s) > 0
  BY DEF Range
<1>3. q \in Seq(E) /\ Len(q) = Len(s)
  BY <1>1, <1>2
<1>. QED  BY <1>1, <1>2, <1>3

(* list_insert of an element that is not in the list. *)
LEMMA InsertList ==
  ASSUME NEW E, NEW s \in Seq(E), IsInjective(s), NEW e \in E,
         e \notin Range(s), NEW k \in 1..(Len(s) + 1)
  PROVE  /\ InsertAt(s, k, e) \in Seq(E)
         /\ IsInjective(InsertAt(s, k, e))
         /\ Range(InsertAt(s, k, e)) = Range(s) \cup {e}
<1>. DEFINE r == InsertAt(s, k, e)
<1>1. /\ DOMAIN s = 1..Len(s) /\ Len(s) \in Nat
      /\ \A i \in 1..Len(s) : s[i] \in E
  OBVIOUS
<1>2. /\ r \in Seq(E)
      /\ DOMAIN r = 1..(Len(s) + 1)
      /\ \A i \in 1..(k - 1) : r[i] = s[i]
      /\ r[k] = e
      /\ \A i \in k..Len(s) : r[i + 1] = s[i]
  BY <1>1 DEF InsertAt
<1>3. \A i \in (k + 1)..(Len(s) + 1) : r[i] = s[i - 1]
  BY <1>1 DEF InsertAt
<1>. HIDE DEF r
<1>4. IsInjective(r)
  <2>. SUFFICES ASSUME NEW i \in 1..(Len(s) + 1), NEW j \in 1..(Len(s) + 1),
                       r[i] = r[j]
                PROVE  i = j
    BY <1>2 DEF IsInjective
  <2>1. \A n \in 1..Len(s) : s[n] # e
    BY <1>1 DEF Range
  <2>2. \A m, n \in 1..Len(s) : s[m] = s[n] => m = n
    BY <1>1 DEF IsInjective
  <2>. QED  BY SMTT(30), <1>1, <1>2, <1>3, <2>1, <2>2
<1>5. ASSUME NEW x \in Range(r)  PROVE x \in Range(s) \cup {e}
  <2>1. PICK i \in 1..(Len(s) + 1) : r[i] = x
    BY <1>2 DEF Range
  <2>2. CASE i < k
    BY SMTT(30), <2>1, <2>2, <1>1, <1>2 DEF Range
  <2>3. CASE i = k
    BY <2>1, <2>3, <1>2
  <2>4. CASE i > k
    <3>1. i - 1 \in 1..Len(s) /\ s[i - 1] = x
      BY <2>1, <2>4, <1>1, <1>3
    <3>. QED  BY <3>1, <1>1 DEF Range
  <2>. QED  BY <2>2, <2>3, <2>4, <1>1
<1>6. ASSUME NEW x \in Range(s) \cup {e}  PROVE x \in Range(r)
  <2>1. CASE x = e
    BY <2>1, <1>1, <1>2 DEF Range
  <2>2. CASE x \in Range(s)
    <3>1. PICK i \in 1..Len(s) : s[i] = x
      BY <2>2, <1>1 DEF Range
    <3>2. CASE i < k
      BY <3>1, <3>2, <1>1, <1>2 DEF Range
    <3>3. CASE i >= k
      <4>1. i + 1 \in 1..(Len(s) + 1) /\ r[i + 1] = x
        BY <3>1, <3>3, <1>1, <1>2
      <4>. QED  BY <4>1, <1>2 DEF Range
    <3>. QED  BY <3>2, <3>3, <1>1
  <2>. QED  BY <2>1, <2>2
<1>. QED  BY ZenonT(30), <1>2, <1>4, <1>5, <1>6 DEF r, Range

----------------------------------------------------------------------------
(* Scheduling.                                                             *)

(* The ready lists rl fit the states st and the current priorities cp. *)
ReadyQueue(rl, st, cp) ==
  /\ rl \in [Pri -> Seq(Thread)]
  /\ st \in [Threads -> States]
  /\ cp \in [Threads -> Pri]
  /\ ReadyListed(rl, st, cp)

(* An action that leaves threads in the states st, and then gives the CPU  *)
(* to someone, only turns "READY" into "RUNNING" and back.                 *)
Settled(st, cp) ==
  /\ ReadyQueue(ready_list', status', cp)
  /\ cur' \in Threads
  /\ thread_ticks' \in Nat
  /\ \A t \in Threads : status'[t] = "RUNNING" <=> t = cur'
  /\ \A t \in Thread : \A x \in {"BLOCKED", "DYING", "FREE"} :
       status'[t] = x <=> st[t] = x

(* A thread that becomes ready joins the list of its current priority. *)
LEMMA Enqueue ==
  ASSUME NEW rl, NEW st, NEW cp, ReadyQueue(rl, st, cp),
         NEW t \in Thread, st[t] # "READY"
  PROVE  ReadyQueue([rl EXCEPT ![cp[t]] = PushBack(@, t)],
                    [st EXCEPT ![t] = "READY"], cp)
<1>. DEFINE rl1 == [rl EXCEPT ![cp[t]] = PushBack(@, t)]
            st1 == [st EXCEPT ![t] = "READY"]
<1>1. /\ rl \in [Pri -> Seq(Thread)] /\ st \in [Threads -> States]
      /\ cp \in [Threads -> Pri] /\ t \in Threads /\ cp[t] \in Pri
      /\ st1 \in [Threads -> States]
  BY DEF ReadyQueue, Threads, States
<1>2. \A p \in Pri :
        /\ IsInjective(rl[p])
        /\ Range(rl[p]) = {u \in Thread : st[u] = "READY" /\ cp[u] = p}
  BY DEF ReadyQueue, ReadyListed, Lists
<1>3. /\ PushBack(rl[cp[t]], t) \in Seq(Thread)
      /\ IsInjective(PushBack(rl[cp[t]], t))
      /\ Range(PushBack(rl[cp[t]], t)) = Range(rl[cp[t]]) \cup {t}
  <2>1. t \notin Range(rl[cp[t]])
    BY <1>1, <1>2
  <2>2. rl[cp[t]] \in Seq(Thread) /\ IsInjective(rl[cp[t]])
    BY <1>1, <1>2
  <2>. QED  BY <2>1, <2>2, PushBackList
<1>4. rl1 \in [Pri -> Seq(Thread)]
  BY <1>1, <1>3
<1>5. ASSUME NEW p \in Pri
      PROVE  Lists(rl1[p], {u \in Thread : st1[u] = "READY" /\ cp[u] = p})
  <2>1. CASE p = cp[t]
    <3>1. rl1[p] = PushBack(rl[p], t)
      BY <2>1, <1>1
    <3>2. Range(rl1[p]) = Range(rl[p]) \cup {t} /\ IsInjective(rl1[p])
      BY <3>1, <2>1, <1>3
    <3>3. {u \in Thread : st1[u] = "READY" /\ cp[u] = p}
            = {u \in Thread : st[u] = "READY" /\ cp[u] = p} \cup {t}
      BY <2>1, <1>1 DEF Threads
    <3>. QED  BY <3>2, <3>3, <1>2 DEF Lists
  <2>2. CASE p # cp[t]
    <3>1. rl1[p] = rl[p]
      BY <2>2, <1>1
    <3>2. {u \in Thread : st1[u] = "READY" /\ cp[u] = p}
            = {u \in Thread : st[u] = "READY" /\ cp[u] = p}
      BY <2>2, <1>1 DEF Threads
    <3>. QED  BY <3>1, <3>2, <1>2 DEF Lists
  <2>. QED  BY <2>1, <2>2
<1>. QED  BY ZenonT(30), <1>1, <1>4, <1>5 DEF ReadyQueue, ReadyListed

(* schedule, called when no thread is in the running state. *)
LEMMA ScheduleSettles ==
  ASSUME NEW rl, NEW st, NEW cp, ReadyQueue(rl, st, cp),
         \A t \in Threads : st[t] # "RUNNING",
         schedule(rl, st)
  PROVE  Settled(st, cp)
<1>1. /\ rl \in [Pri -> Seq(Thread)] /\ st \in [Threads -> States]
      /\ cp \in [Threads -> Pri]
  BY DEF ReadyQueue
<1>2. \A p \in Pri :
        /\ IsInjective(rl[p])
        /\ Range(rl[p]) = {u \in Thread : st[u] = "READY" /\ cp[u] = p}
  BY DEF ReadyQueue, ReadyListed, Lists
<1>3. CASE SwitchTo(Idle, rl, st)
  <2>1. /\ cur' = Idle /\ ready_list' = rl /\ thread_ticks' = 0
        /\ status' = [st EXCEPT ![Idle] = "RUNNING"]
        /\ Idle \in Threads /\ Idle \notin Thread /\ Thread \subseteq Threads
    BY <1>3, ConstantsAssumption DEF SwitchTo, Threads
  <2>2. /\ status' \in [Threads -> States]
        /\ \A t \in Thread : status'[t] = st[t]
        /\ \A t \in Threads : status'[t] = "RUNNING" <=> t = cur'
    BY <2>1, <1>1 DEF States
  <2>3. ReadyListed(ready_list', status', cp)
    <3>. SUFFICES ASSUME NEW p \in Pri
                  PROVE  Lists(rl[p], {u \in Thread : status'[u] = "READY"
                                                      /\ cp[u] = p})
      BY <2>1 DEF ReadyListed
    <3>1. {u \in Thread : status'[u] = "READY" /\ cp[u] = p}
            = {u \in Thread : st[u] = "READY" /\ cp[u] = p}
      BY <2>2
    <3>. QED  BY <3>1, <1>2 DEF Lists
  <2>. QED  BY <2>1, <2>2, <2>3, <1>1 DEF Settled, ReadyQueue
<1>4. ASSUME NEW p \in Pri, rl[p] # <<>>,
             SwitchTo(Head(rl[p]), [rl EXCEPT ![p] = Tail(@)], st)
      PROVE  Settled(st, cp)
  <2>. DEFINE n == Head(rl[p])
  <2>0. /\ n \in Thread /\ n \in Range(rl[p])
        /\ Tail(rl[p]) \in Seq(Thread)
        /\ IsInjective(Tail(rl[p]))
        /\ Range(Tail(rl[p])) = Range(rl[p]) \ {n}
    <3>1. rl[p] \in Seq(Thread) /\ IsInjective(rl[p]) /\ rl[p] # <<>>
      BY <1>1, <1>2, <1>4
    <3>. QED  BY <3>1, PopFrontList
  <2>1. /\ cur' = n /\ thread_ticks' = 0
        /\ ready_list' = [rl EXCEPT ![p] = Tail(rl[p])]
        /\ status' = [st EXCEPT ![n] = "RUNNING"]
        /\ n \in Threads /\ Thread \subseteq Threads
        /\ st[n] = "READY" /\ cp[n] = p
    BY <1>4, <2>0, <1>2 DEF SwitchTo, Threads
  <2>. HIDE DEF n
  <2>2. /\ status' \in [Threads -> States]
        /\ \A t \in Thread : t # n => status'[t] = st[t]
        /\ \A t \in Threads : status'[t] = "RUNNING" <=> t = cur'
        /\ status'[n] = "RUNNING"
    BY <2>1, <1>1 DEF States
  <2>3. ready_list' \in [Pri -> Seq(Thread)]
    BY <2>0, <2>1, <1>1
  <2>4. ASSUME NEW r \in Pri
        PROVE  Lists(ready_list'[r], {u \in Thread : status'[u] = "READY"
                                                     /\ cp[u] = r})
    <3>1. CASE r = p
      <4>1. ready_list'[r] = Tail(rl[p])
        BY <3>1, <2>1, <1>1
      <4>2. {u \in Thread : status'[u] = "READY" /\ cp[u] = r}
              = {u \in Thread : st[u] = "READY" /\ cp[u] = r} \ {n}
        BY <2>2
      <4>. QED  BY <4>1, <4>2, <3>1, <2>0, <1>2 DEF Lists
    <3>2. CASE r # p
      <4>1. ready_list'[r] = rl[r]
        BY <3>2, <2>1, <1>1
      <4>2. {u \in Thread : status'[u] = "READY" /\ cp[u] = r}
              = {u \in Thread : st[u] = "READY" /\ cp[u] = r}
        BY <2>1, <2>2, <3>2
      <4>. QED  BY <4>1, <4>2, <1>2 DEF Lists
    <3>. QED  BY <3>1, <3>2
  <2>. QED  BY ZenonT(30), <2>1, <2>2, <2>3, <2>4, <1>1
            DEF Settled, ReadyQueue, ReadyListed
<1>. QED  BY ZenonT(30), <1>3, <1>4 DEF schedule

(* The queue as an action finds it: only the running thread is running. *)
CpuInv ==
  /\ ReadyQueue(ready_list, status, current_priority)
  /\ cur \in Threads
  /\ thread_ticks \in Nat
  /\ \A t \in Threads : status[t] = "RUNNING" <=> t = cur

(* thread_yield, after the action has changed the ready lists, the states  *)
(* of other threads and the priorities.                                    *)
LEMMA YieldSettles ==
  ASSUME NEW rl, NEW st, NEW cp, ReadyQueue(rl, st, cp), cur \in Threads,
         \A t \in Threads : st[t] = "RUNNING" <=> t = cur,
         thread_yield(rl, st, cp)
  PROVE  Settled(st, cp)
<1>. DEFINE st1 == [st EXCEPT ![cur] = "READY"]
<1>1. \A t \in Threads : st1[t] # "RUNNING"
  BY DEF ReadyQueue
<1>2. \A t \in Thread : \A x \in {"BLOCKED", "DYING", "FREE"} :
        st1[t] = x <=> st[t] = x
  BY DEF ReadyQueue, Threads
<1>3. CASE cur = Idle
  <2>1. ReadyQueue(rl, st1, cp)
    <3>1. \A t \in Thread : st1[t] = st[t]
      BY <1>3, ConstantsAssumption DEF ReadyQueue, Threads
    <3>2. st1 \in [Threads -> States]
      BY DEF ReadyQueue, States
    <3>. QED  BY ZenonT(30), <3>1, <3>2 DEF ReadyQueue, ReadyListed
  <2>2. schedule(rl, st1)
    BY <1>3 DEF thread_yield
  <2>3. Settled(st1, cp)
    BY ZenonT(30), <2>1, <2>2, <1>1, ScheduleSettles
  <2>. QED  BY <2>3, <1>2 DEF Settled
<1>4. CASE cur # Idle
  <2>1. cur \in Thread /\ st[cur] # "READY"
    BY <1>4 DEF Threads
  <2>2. ReadyQueue([rl EXCEPT ![cp[cur]] = PushBack(@, cur)], st1, cp)
    BY <2>1, Enqueue
  <2>3. schedule([rl EXCEPT ![cp[cur]] = PushBack(@, cur)], st1)
    BY <1>4 DEF thread_yield
  <2>4. Settled(st1, cp)
    BY ZenonT(30), <2>2, <2>3, <1>1, ScheduleSettles
  <2>. QED  BY <2>4, <1>2 DEF Settled
<1>. QED  BY <1>3, <1>4

(* thread_unblock of a blocked thread. *)
LEMMA UnblockSettles ==
  ASSUME NEW cp, ReadyQueue(ready_list, status, cp), CpuInv,
         NEW t \in Thread, status[t] = "BLOCKED", NEW b, context \in Contexts,
         thread_unblock(t, ready_list, status, cp, b)
  PROVE  Settled([status EXCEPT ![t] = "READY"], cp) /\ context' \in Contexts
<1>. DEFINE rl1 == [ready_list EXCEPT ![cp[t]] = PushBack(@, t)]
            st1 == [status EXCEPT ![t] = "READY"]
<1>1. ReadyQueue(rl1, st1, cp)
  BY Enqueue
<1>2. \A u \in Threads : st1[u] = "RUNNING" <=> u = cur
  BY DEF CpuInv, ReadyQueue, Threads
<1>. HIDE DEF rl1, st1
<1>3. ASSUME KeepCpu(rl1, st1)  PROVE Settled(st1, cp)
  BY <1>1, <1>2, <1>3 DEF KeepCpu, Settled, CpuInv, Threads
<1>4. ASSUME thread_yield(rl1, st1, cp)  PROVE Settled(st1, cp)
  BY <1>1, <1>2, <1>4, YieldSettles DEF CpuInv
<1>5. /\ KeepCpu(rl1, st1) \/ thread_yield(rl1, st1, cp)
      /\ context' \in Contexts
  BY DEF thread_unblock, Contexts, rl1, st1
<1>. QED  BY <1>3, <1>4, <1>5 DEF st1
----------------------------------------------------------------------------
(* The inductive invariant, in the parts the proof treats one by one.      *)

(* The types of what is not about the CPU. *)
DataType ==
  /\ context \in Contexts
  /\ priority \in [Threads -> Pri]
  /\ pc \in [Threads -> Ops \cup {"halt", "loop"}]
  /\ arg \in [Threads -> Lock \cup Sema \cup Thread \cup Pri \cup {NULL}]
  /\ holder \in [Lock -> Thread \cup {NULL}]
  /\ bounty \in [Lock -> Pri]
  /\ owned_locks \in [Threads -> SUBSET Lock]
  /\ value \in [Sema -> Nat]
  /\ wakeup_time \in [Threads -> Nat]
  /\ ticks \in Nat

(* A thread's argument fits the operation it is in. *)
ArgInv ==
  \A t \in Thread :
    /\ pc[t] \in Ops
    /\ pc[t] \in {"run", "timer_sleep"} => arg[t] = NULL
    /\ pc[t] = "lock_acquire" => arg[t] \in Lock
    /\ pc[t] = "sema_down" => arg[t] \in Sema
    /\ pc[t] = "set_priority" => arg[t] \in Pri
    /\ pc[t] = "thread_create" => arg[t] \in Thread

(* Every blocked thread is in the list of what it waits for. *)
WaitInv ==
  /\ lock_waiters \in [Lock -> Seq(Thread)]
  /\ sema_waiters \in [Sema -> Seq(Thread)]
  /\ sleep_list \in Seq(Thread)
  /\ \A l \in Lock : Lists(lock_waiters[l], Blocked("lock_acquire", l))
  /\ \A s \in Sema : Lists(sema_waiters[s], Blocked("sema_down", s))
  /\ Lists(sleep_list, Blocked("timer_sleep", NULL))
  /\ \A t \in Thread : status[t] = "BLOCKED" => pc[t] \in WaitOps

IInv == CpuInv /\ DataType /\ ArgInv /\ WaitInv /\ HolderOwns

(* The inductive invariant implies the properties it was made for.         *)
LEMMA IInvImplies == IInv => TypeOK /\ ElemInOneList /\ HolderOwns
<1>. SUFFICES ASSUME IInv  PROVE TypeOK /\ ElemInOneList
  BY DEF IInv
<1>1. TypeOK
  BY DEF IInv, CpuInv, DataType, ArgInv, WaitInv, TypeOK, ReadyQueue
<1>2. ElemInOneList
  BY DEF IInv, CpuInv, WaitInv, ElemInOneList, ReadyQueue
<1>. QED  BY <1>1, <1>2

(* It holds when thread_start is done.                                     *)
LEMMA InitIInv == Init => IInv
<1>. SUFFICES ASSUME Init  PROVE IInv
  OBVIOUS
<1>. USE ConstantsAssumption DEF Init
<1>0. /\ \A E : <<>> \in Seq(E)
      /\ IsInjective(<<>>) /\ Range(<<>>) = {}
  BY SMTT(30) DEF IsInjective, Range
<1>1. CpuInv
  <2>1. \A t \in Thread : status[t] # "READY" /\ t \in Threads
    BY DEF Threads
  <2>2. ReadyListed(ready_list, status, current_priority)
    BY <2>1, <1>0 DEF ReadyListed, Lists
  <2>3. 0 \in Pri
    BY DEF Pri
  <2>4. /\ ready_list \in [Pri -> Seq(Thread)]
        /\ status \in [Threads -> States]
        /\ current_priority \in [Threads -> Pri]
    BY <2>3, <1>0 DEF States
  <2>5. \A t \in Threads : status[t] = "RUNNING" <=> t = cur
    BY DEF Threads
  <2>. QED  BY <2>2, <2>4, <2>5 DEF CpuInv, ReadyQueue, Threads
<1>2. DataType
  BY DEF DataType, Contexts, Ops, Pri
<1>3. ArgInv
  BY DEF ArgInv, Ops, Threads
<1>4. WaitInv
  <2>1. \A t \in Thread : status[t] # "BLOCKED"
    BY DEF Threads
  <2>2. \A op, x : Blocked(op, x) = {}
    BY <2>1 DEF Blocked
  <2>. QED  BY ZenonT(30), <2>1, <2>2, <1>0 DEF WaitInv, Lists
<1>5. HolderOwns
  BY DEF HolderOwns, Threads
<1>. QED  BY <1>1, <1>2, <1>3, <1>4, <1>5 DEF IInv

(* What the end of an action gives. *)
LEMMA SettledCpuInv ==
  ASSUME NEW st, Settled(st, current_priority')  PROVE CpuInv'
BY DEF Settled, CpuInv, ReadyQueue

(* A thread that is not ready may take any other state but the ready one. *)
LEMMA Restate ==
  ASSUME NEW rl, NEW st, NEW cp, ReadyQueue(rl, st, cp),
         NEW t \in Threads, t \in Thread => st[t] # "READY",
         NEW x \in States, x # "READY"
  PROVE  ReadyQueue(rl, [st EXCEPT ![t] = x], cp)
<1>1. [st EXCEPT ![t] = x] \in [Threads -> States]
  BY DEF ReadyQueue
<1>2. \A u \in Thread : [st EXCEPT ![t] = x][u] = "READY" <=> st[u] = "READY"
  BY DEF ReadyQueue, Threads
<1>3. \A p \in Pri :
        {u \in Thread : [st EXCEPT ![t] = x][u] = "READY" /\ cp[u] = p}
          = {u \in Thread : st[u] = "READY" /\ cp[u] = p}
  BY <1>2
<1>. QED  BY <1>1, <1>3 DEF ReadyQueue, ReadyListed

(* A step in which no thread starts or stops waiting. *)
LEMMA QuietWaitInv ==
  ASSUME WaitInv, UNCHANGED <<lock_waiters, sema_waiters, sleep_list>>,
         \A t \in Thread : status'[t] = "BLOCKED" <=> status[t] = "BLOCKED",
         \A t \in Thread : status[t] = "BLOCKED" =>
                            pc'[t] = pc[t] /\ arg'[t] = arg[t]
  PROVE  WaitInv'
<1>1. ASSUME NEW op, NEW x  PROVE Blocked(op, x)' = Blocked(op, x)
  BY DEF Blocked
<1>. QED  BY <1>1 DEF WaitInv
----------------------------------------------------------------------------
(* The operations of thread.c preserve the invariant.                      *)

(* What a running thread that is not the idle thread knows of itself. *)
LEMMA Running ==
  ASSUME IInv, cur # Idle
  PROVE  cur \in Thread /\ cur \in Threads /\ status[cur] = "RUNNING"
BY DEF IInv, CpuInv, Threads

(* A step that changes nothing of the CPU but what KeepCpu says. *)
LEMMA CpuUnchanged ==
  ASSUME CpuInv, UNCHANGED <<cur, status, ready_list, thread_ticks,
                             current_priority>>
  PROVE  /\ CpuInv'
         /\ \A t \in Thread : status'[t] = status[t]
BY DEF CpuInv, ReadyQueue, ReadyListed

(* thread_yield keeps it.                                                  *)
LEMMA YieldIInv == IInv /\ Yield => IInv'
<1>. SUFFICES ASSUME IInv, Yield  PROVE IInv'
  OBVIOUS
<1>1. Settled(status, current_priority)
  BY YieldSettles DEF IInv, CpuInv, Yield
<1>2. CpuInv'
  BY <1>1, SettledCpuInv DEF Yield, priVars
<1>3. WaitInv'
  BY Zenon, <1>1, QuietWaitInv
  DEF IInv, Yield, Settled, pcVars, lockVars, semaVars, sleepVars
<1>4. DataType' /\ ArgInv'
  BY DEF IInv, Yield, DataType, ArgInv, priVars, pcVars, lockVars, semaVars,
         sleepVars
<1>5. HolderOwns'
  BY <1>1 DEF IInv, Yield, HolderOwns, Settled, pcVars, lockVars
<1>. QED  BY <1>2, <1>3, <1>4, <1>5 DEF IInv

(* thread_create puts a new thread on the list of its priority.            *)
LEMMA CreateIInv ==
  ASSUME IInv, NEW t \in Thread, NEW p \in CreatePri, thread_create(t, p)
  PROVE  IInv'
<1>1. /\ p \in Pri /\ t \in Threads /\ t # cur
      /\ cur \in Thread /\ status[cur] = "RUNNING" /\ status[t] = "FREE"
      /\ cur \in Threads
  BY ConstantsAssumption, Running DEF thread_create, Calls, Threads
<1>. DEFINE cp == [current_priority EXCEPT ![t] = p]
<1>2. ReadyQueue(ready_list, status, cp)
  <2>1. cp \in [Threads -> Pri]
    BY <1>1 DEF IInv, CpuInv, ReadyQueue
  <2>2. \A r \in Pri : {u \in Thread : status[u] = "READY" /\ cp[u] = r}
          = {u \in Thread : status[u] = "READY" /\ current_priority[u] = r}
    BY <1>1 DEF IInv, CpuInv, ReadyQueue, Threads
  <2>. QED  BY ZenonT(30), <2>1, <2>2 DEF IInv, CpuInv, ReadyQueue, ReadyListed
<1>3. cp[t] = p
  BY <1>1 DEF IInv, CpuInv, ReadyQueue
<1>4. ReadyQueue(ready_list', status', cp)
  BY ZenonT(30), <1>1, <1>2, <1>3, Enqueue DEF thread_create, KeepCpu
<1>5. /\ status' = [status EXCEPT ![t] = "READY"] /\ current_priority' = cp
      /\ UNCHANGED <<cur, thread_ticks>>
      /\ status \in [Threads -> States]
  BY DEF thread_create, KeepCpu, IInv, CpuInv, ReadyQueue
<1>6. CpuInv'
  <2>1. \A u \in Threads : status'[u] = "RUNNING" <=> u = cur'
    BY Zenon, <1>1, <1>5 DEF IInv, CpuInv
  <2>. QED  BY <1>4, <1>5, <2>1 DEF IInv, CpuInv
<1>7. WaitInv'
  <2>1. \A u \in Thread : status'[u] = "BLOCKED" <=> status[u] = "BLOCKED"
    BY <1>1, <1>5 DEF Threads
  <2>2. \A u \in Thread : u # cur => pc'[u] = pc[u] /\ arg'[u] = arg[u]
    BY Zenon DEF thread_create, Goto, IInv, DataType, Threads
  <2>. QED  BY Zenon, <1>1, <2>1, <2>2, QuietWaitInv
            DEF IInv, thread_create, lockVars, semaVars
<1>8. DataType' /\ ArgInv'
  BY Zenon, <1>1 DEF IInv, thread_create, Goto, DataType, ArgInv, Ops, Threads,
              lockVars, semaVars
<1>9. HolderOwns'
  BY Zenon, <1>1, <1>5 DEF IInv, DataType, thread_create, Goto, HolderOwns, Threads,
                    lockVars
<1>. QED  BY ZenonT(30), <1>6, <1>7, <1>8, <1>9 DEF IInv

(* The end of thread_create, with or without the yield.                    *)
LEMMA CreatePreemptsIInv ==
  ASSUME IInv, NEW t \in Thread, CreatePreempts(t)
  PROVE  IInv'
<1>0. cur \in Thread /\ status[cur] = "RUNNING" /\ cur \in Threads
  BY Zenon, Running DEF CreatePreempts, Resumes
<1>1. CpuInv' /\ \A u \in Thread : \A x \in {"BLOCKED", "DYING", "FREE"} :
        status'[u] = x <=> status[u] = x
  <2>1. CASE UNCHANGED cpuVars
    BY ZenonT(30), <2>1, CpuUnchanged DEF IInv, CreatePreempts, cpuVars, priVars
  <2>2. CASE thread_yield(ready_list, status, current_priority)
    <3>1. Settled(status, current_priority)
      BY ZenonT(30), <2>2, YieldSettles DEF IInv, CpuInv
    <3>2. CpuInv'
      BY <3>1, SettledCpuInv DEF CreatePreempts, priVars
    <3>. QED  BY <3>1, <3>2 DEF Settled
  <2>. QED  BY Zenon, <2>1, <2>2 DEF CreatePreempts
<1>2. \A u \in Thread : u # cur => pc'[u] = pc[u] /\ arg'[u] = arg[u]
  BY ZenonT(30) DEF CreatePreempts, Return, Goto, IInv, DataType, Threads
<1>3. WaitInv'
  BY Zenon, <1>0, <1>1, <1>2, QuietWaitInv
  DEF IInv, CreatePreempts, lockVars, semaVars, sleepVars
<1>4. DataType' /\ ArgInv'
  BY Zenon, <1>0 DEF IInv, CreatePreempts, Return, Goto, DataType, ArgInv, Ops,
              Threads, priVars, lockVars, semaVars, sleepVars, cpuVars
<1>5. HolderOwns'
  BY ZenonT(30), <1>0, <1>1 DEF IInv, DataType, CreatePreempts, Return, Goto, HolderOwns,
                    Threads, lockVars
<1>. QED  BY Zenon, <1>1, <1>3, <1>4, <1>5 DEF IInv

(* thread_exit: the page of the dying thread leaves the scheduler.         *)
LEMMA ExitIInv == IInv /\ thread_exit => IInv'
<1>. SUFFICES ASSUME IInv, thread_exit  PROVE IInv'
  OBVIOUS
<1>0. cur \in Thread /\ status[cur] = "RUNNING" /\ cur \in Threads
  BY Running DEF thread_exit, Calls
<1>. DEFINE x == IF cur = Main THEN "DYING" ELSE "FREE"
            st == [status EXCEPT ![cur] = x]
<1>1. /\ ReadyQueue(ready_list, st, current_priority)
      /\ \A u \in Threads : st[u] # "RUNNING"
      /\ \A u \in Thread : st[u] = "BLOCKED" <=> status[u] = "BLOCKED"
      /\ \A u \in Thread : u # cur => st[u] = status[u]
  <2>1. x \in States /\ x \notin {"READY", "RUNNING", "BLOCKED"}
    BY DEF States
  <2>. HIDE DEF x
  <2>2. ReadyQueue(ready_list, st, current_priority)
    BY <2>1, <1>0, Restate DEF IInv, CpuInv
  <2>. QED  BY <2>1, <2>2, <1>0 DEF IInv, CpuInv, ReadyQueue, Threads
<1>2. Settled(st, current_priority)
  BY ZenonT(30), <1>1, ScheduleSettles DEF thread_exit
<1>. HIDE DEF st
<1>3. CpuInv'
  BY Zenon, <1>2, SettledCpuInv DEF thread_exit, priVars
<1>4. WaitInv'
  BY Zenon, <1>1, <1>2, QuietWaitInv
  DEF IInv, thread_exit, Settled, pcVars, lockVars, semaVars, sleepVars
<1>5. DataType' /\ ArgInv'
  BY Zenon DEF IInv, thread_exit, DataType, ArgInv, priVars, pcVars, lockVars,
         semaVars, sleepVars
<1>6. HolderOwns'
  BY <1>0, <1>1, <1>2
  DEF IInv, thread_exit, HolderOwns, Settled, pcVars, lockVars
<1>. QED  BY <1>3, <1>4, <1>5, <1>6 DEF IInv

----------------------------------------------------------------------------
(* thread_set_priority, up to its assignment.                              *)
LEMMA SetPriorityIInv ==
  ASSUME IInv, NEW p \in SetPri, thread_set_priority(p)
  PROVE  IInv'
<1>0. /\ cur \in Thread /\ status[cur] = "RUNNING" /\ cur \in Threads
      /\ p \in Pri
  BY Running, ConstantsAssumption DEF thread_set_priority, Calls
<1>1. CpuInv' /\ \A u \in Thread : status'[u] = status[u]
  BY Zenon, CpuUnchanged DEF IInv, thread_set_priority, cpuVars
<1>2. \A u \in Thread : u # cur => pc'[u] = pc[u] /\ arg'[u] = arg[u]
  BY Zenon DEF thread_set_priority, Goto, IInv, DataType, Threads, pcVars
<1>3. WaitInv'
  BY ZenonT(30), <1>0, <1>1, <1>2, QuietWaitInv
  DEF IInv, thread_set_priority, lockVars, semaVars, sleepVars
<1>4. DataType' /\ ArgInv'
  BY <1>0 DEF IInv, thread_set_priority, Goto, DataType, ArgInv, Ops, Threads,
              pcVars, lockVars, semaVars, sleepVars, cpuVars
<1>5. HolderOwns'
  BY <1>0, <1>1 DEF IInv, DataType, thread_set_priority, Goto, HolderOwns,
                    Threads, lockVars, pcVars
<1>. QED  BY <1>1, <1>3, <1>4, <1>5 DEF IInv

(* The assignment of thread_set_priority, and its yield.                   *)
LEMMA SetCurrentPriorityIInv == IInv /\ SetCurrentPriority => IInv'
<1>. SUFFICES ASSUME IInv, SetCurrentPriority  PROVE IInv'
  OBVIOUS
<1>0. /\ cur \in Thread /\ status[cur] = "RUNNING" /\ cur \in Threads
      /\ arg[cur] \in Pri
  BY Zenon, Running DEF SetCurrentPriority, IInv, ArgInv
<1>. DEFINE cp == [current_priority EXCEPT ![cur] = arg[cur]]
<1>1. ReadyQueue(ready_list, status, cp)
  <2>1. cp \in [Threads -> Pri]
    BY <1>0 DEF IInv, CpuInv, ReadyQueue
  <2>2. \A r \in Pri : {u \in Thread : status[u] = "READY" /\ cp[u] = r}
          = {u \in Thread : status[u] = "READY" /\ current_priority[u] = r}
    BY ZenonT(30), <1>0 DEF IInv, CpuInv, ReadyQueue, Threads
  <2>. QED  BY <2>1, <2>2 DEF IInv, CpuInv, ReadyQueue, ReadyListed
<1>2. Settled(status, cp)
  BY <1>1, YieldSettles DEF IInv, CpuInv, SetCurrentPriority
<1>3. CpuInv'
  BY ZenonT(30), <1>2, SettledCpuInv DEF SetCurrentPriority
<1>4. \A u \in Thread : u # cur => pc'[u] = pc[u] /\ arg'[u] = arg[u]
  BY Zenon DEF SetCurrentPriority, Return, Goto, IInv, DataType, Threads
<1>5. WaitInv'
  BY Zenon, <1>0, <1>2, <1>4, QuietWaitInv
  DEF IInv, SetCurrentPriority, Settled, lockVars, semaVars, sleepVars
<1>6. DataType' /\ ArgInv'
  BY Zenon, <1>0 DEF IInv, SetCurrentPriority, Return, Goto, DataType, ArgInv, Ops,
              Threads, lockVars, semaVars, sleepVars
<1>7. HolderOwns'
  BY ZenonT(30), <1>0, <1>2 DEF IInv, DataType, SetCurrentPriority, Return, Goto,
                    HolderOwns, Settled, Threads, lockVars
<1>. QED  BY <1>3, <1>5, <1>6, <1>7 DEF IInv

(* The idle thread blocks.                                                 *)
LEMMA IdleIInv == IInv /\ idle => IInv'
<1>. SUFFICES ASSUME IInv, idle  PROVE IInv'
  OBVIOUS
<1>. DEFINE st == [status EXCEPT ![Idle] = "BLOCKED"]
<1>0. Idle \in Threads /\ Idle \notin Thread /\ cur = Idle
  BY ConstantsAssumption DEF Threads, idle
<1>1. /\ ReadyQueue(ready_list, st, current_priority)
      /\ \A u \in Threads : st[u] # "RUNNING"
      /\ \A u \in Thread : st[u] = status[u]
  <2>1. ReadyQueue(ready_list, st, current_priority)
    BY ZenonT(30), <1>0, Restate DEF IInv, CpuInv, States
  <2>. QED  BY <2>1, <1>0 DEF IInv, CpuInv, ReadyQueue, Threads
<1>2. Settled(st, current_priority)
  BY ZenonT(30), <1>1, ScheduleSettles DEF idle
<1>. HIDE DEF st
<1>3. CpuInv'
  BY Zenon, <1>2, SettledCpuInv DEF idle, priVars
<1>4. \A u \in Thread : pc'[u] = pc[u] /\ arg'[u] = arg[u]
  BY Zenon, <1>0 DEF idle, IInv, DataType, Threads
<1>5. WaitInv'
  BY ZenonT(30), <1>1, <1>2, <1>4, QuietWaitInv
  DEF IInv, idle, Settled, lockVars, semaVars, sleepVars
<1>6. DataType' /\ ArgInv'
  BY Zenon, <1>0, <1>4 DEF IInv, idle, DataType, ArgInv, priVars, lockVars, semaVars,
                    sleepVars
<1>7. HolderOwns'
  BY <1>1, <1>2, <1>4 DEF IInv, idle, HolderOwns, Settled, lockVars
<1>. QED  BY <1>3, <1>5, <1>6, <1>7 DEF IInv

(* What is common to the steps in which the running thread keeps the CPU,  *)
(* nobody starts or stops waiting, and no lock changes hands.              *)
LEMMA LocalIInv ==
  ASSUME IInv, DataType', ArgInv',
         UNCHANGED <<cur, status, ready_list, thread_ticks, current_priority,
                     lock_waiters, sema_waiters, sleep_list, lockVars>>,
         \A u \in Thread : u = cur \/ (pc'[u] = pc[u] /\ arg'[u] = arg[u]),
         cur \in Thread => pc'[cur] # "lock_acquire"
  PROVE  IInv'
<1>1. CpuInv' /\ \A u \in Thread : status'[u] = status[u]
  BY CpuUnchanged DEF IInv
<1>2. \A u \in Thread : u = cur => status[u] # "BLOCKED"
  BY DEF IInv, CpuInv, Threads
<1>3. WaitInv'
  BY SMTT(30), <1>1, <1>2, QuietWaitInv DEF IInv
<1>4. HolderOwns'
  BY <1>1 DEF IInv, HolderOwns, lockVars
<1>. QED  BY <1>1, <1>3, <1>4 DEF IInv

(* timer_sleep returns.                                                    *)
LEMMA WakeUpIInv == IInv /\ WakeUp => IInv'
<1>. SUFFICES ASSUME IInv, WakeUp  PROVE IInv'
  OBVIOUS
<1>0. cur \in Thread /\ cur \in Threads
  BY Zenon, Running DEF WakeUp, Resumes
<1>1. DataType' /\ ArgInv'
  BY Zenon, <1>0 DEF IInv, WakeUp, Return, Goto, DataType, ArgInv, Ops, Threads,
              cpuVars, priVars, lockVars, semaVars, sleepVars
<1>2. /\ \A u \in Thread : u = cur \/ (pc'[u] = pc[u] /\ arg'[u] = arg[u])
      /\ pc'[cur] # "lock_acquire"
  BY Zenon, <1>0 DEF IInv, WakeUp, Return, Goto, DataType, Threads
<1>. QED  BY <1>1, <1>2, LocalIInv
          DEF WakeUp, cpuVars, priVars, lockVars, semaVars, sleepVars

(* sema_try_down moves no thread.                                          *)
LEMMA TryDownIInv ==
  ASSUME IInv, NEW s \in Sema, sema_try_down(s)
  PROVE  IInv'
<1>0. cur \in Thread /\ cur \in Threads /\ pc[cur] = "run"
  BY Running DEF sema_try_down, Calls
<1>1. value' \in [Sema -> Nat]
  BY DEF IInv, DataType, sema_try_down
<1>2. DataType' /\ ArgInv'
  BY Zenon, <1>0, <1>1 DEF IInv, sema_try_down, DataType, ArgInv, cpuVars, priVars,
                    pcVars, lockVars, sleepVars
<1>. QED  BY <1>0, <1>2, LocalIInv
          DEF sema_try_down, cpuVars, priVars, pcVars, lockVars, sleepVars

(* The clock ticks.                                                        *)
LEMMA TimerInterruptIInv == IInv /\ timer_interrupt => IInv'
<1>. SUFFICES ASSUME IInv, timer_interrupt  PROVE IInv'
  OBVIOUS
<1>1. DataType' /\ ArgInv'
  BY ConstantsAssumption
  DEF IInv, timer_interrupt, DataType, ArgInv, Contexts, priVars, pcVars,
      lockVars, semaVars
<1>2. cur \in Thread => pc[cur] # "lock_acquire"
  BY ConstantsAssumption DEF timer_interrupt, IntrOn
<1>. QED  BY ZenonT(30), <1>1, <1>2, LocalIInv
          DEF timer_interrupt, priVars, pcVars, lockVars, semaVars

(* Only the idle thread's pc is changed when an interrupt ends a hlt. *)
LEMMA EndHltPc ==
  ASSUME IInv, EndHlt
  PROVE  /\ pc' \in [Threads -> Ops \cup {"halt", "loop"}]
         /\ \A u \in Thread : pc'[u] = pc[u]
BY ConstantsAssumption DEF IInv, DataType, EndHlt, Threads

(* The timer interrupt ends, and may yield.                                *)
LEMMA ThreadTickIInv == IInv /\ thread_tick => IInv'
<1>. SUFFICES ASSUME IInv, thread_tick  PROVE IInv'
  OBVIOUS
<1>0. /\ pc' \in [Threads -> Ops \cup {"halt", "loop"}]
      /\ \A u \in Thread : pc'[u] = pc[u]
  BY EndHltPc DEF thread_tick
<1>1. CpuInv' /\ \A u \in Thread : \A x \in {"BLOCKED", "DYING", "FREE"} :
        status'[u] = x <=> status[u] = x
  <2>1. CASE thread_yield(ready_list, status, current_priority)
    <3>1. Settled(status, current_priority)
      BY <2>1, YieldSettles DEF IInv, CpuInv
    <3>2. CpuInv'
      BY <3>1, SettledCpuInv DEF thread_tick, priVars
    <3>. QED  BY <3>1, <3>2 DEF Settled
  <2>2. CASE thread_ticks' = thread_ticks + 1
             /\ UNCHANGED <<cur, status, ready_list>>
    BY <2>2 DEF IInv, CpuInv, ReadyQueue, ReadyListed, thread_tick, priVars
  <2>. QED  BY <2>1, <2>2 DEF thread_tick
<1>2. WaitInv'
  BY Zenon, <1>0, <1>1, QuietWaitInv
  DEF IInv, thread_tick, lockVars, semaVars, sleepVars
<1>3. DataType' /\ ArgInv'
  BY Zenon, <1>0 DEF IInv, thread_tick, DataType, ArgInv, Contexts, priVars, lockVars,
              semaVars, sleepVars
<1>4. HolderOwns'
  BY Zenon, <1>0, <1>1 DEF IInv, thread_tick, HolderOwns, lockVars
<1>. QED  BY <1>1, <1>2, <1>3, <1>4 DEF IInv

----------------------------------------------------------------------------
(* The operations that wake a thread.                                      *)

(* Thread w is woken: it leaves the waiters it is among. *)
Wakes(w) ==
  /\ \A t \in Thread : status'[t] = "BLOCKED" <=> status[t] = "BLOCKED" /\ t # w
  /\ \A t \in Thread : \A x \in {"DYING", "FREE"} :
       status'[t] = x <=> status[t] = x
  /\ \A t \in Thread : pc'[t] = pc[t] /\ arg'[t] = arg[t]

(* Only w leaves the threads that are blocked on something.                *)
LEMMA WakesBlocked ==
  ASSUME NEW w \in Thread, Wakes(w), NEW op, NEW x
  PROVE  Blocked(op, x)' = Blocked(op, x) \ {w}
BY DEF Wakes, Blocked

(* A list that w is not in stays as it is, and one that starts with w     *)
(* loses its first element.                                                *)
LEMMA WakesLists ==
  ASSUME NEW w \in Thread, Wakes(w), NEW op, NEW x, NEW q \in Seq(Thread),
         Lists(q, Blocked(op, x))
  PROVE  /\ w \notin Blocked(op, x) => Lists(q, Blocked(op, x)')
         /\ q # <<>> /\ Head(q) = w => /\ Lists(Tail(q), Blocked(op, x)')
                                       /\ Tail(q) \in Seq(Thread)
                                       /\ w \in Blocked(op, x)
<1>1. Blocked(op, x)' = Blocked(op, x) \ {w}
  BY WakesBlocked
<1>2. CASE q # <<>> /\ Head(q) = w
  <2>1. /\ Tail(q) \in Seq(Thread) /\ IsInjective(Tail(q))
        /\ Range(Tail(q)) = Range(q) \ {w} /\ w \in Range(q)
    BY ZenonT(30), <1>2, PopFrontList DEF Lists
  <2>. QED  BY <1>1, <1>2, <2>1 DEF Lists
<1>. QED  BY <1>1, <1>2 DEF Lists

(* The statement common to the three: thread w is unblocked. *)
LEMMA UnblockWakes ==
  ASSUME IInv, NEW cp, ReadyQueue(ready_list, status, cp),
         NEW w \in Thread, status[w] = "BLOCKED", NEW b,
         thread_unblock(w, ready_list, status, cp, b),
         \A t \in Thread : pc'[t] = pc[t] /\ arg'[t] = arg[t],
         current_priority' = cp
  PROVE  CpuInv' /\ Wakes(w) /\ context' \in Contexts
<1>. DEFINE st == [status EXCEPT ![w] = "READY"]
<1>1. Settled(st, cp) /\ context' \in Contexts
  BY ZenonT(30), UnblockSettles DEF IInv, DataType
<1>2. \A t \in Thread : st[t] = IF t = w THEN "READY" ELSE status[t]
  BY Zenon DEF IInv, CpuInv, ReadyQueue, Threads
<1>. HIDE DEF st
<1>3. Wakes(w)
  BY ZenonT(30), <1>1, <1>2 DEF Settled, Wakes
<1>. QED  BY <1>1, <1>3, SettledCpuInv

(* The waiter that lock_release or sema_up takes off a list after sorting. *)
LEMMA SortedWaiter ==
  ASSUME NEW op, NEW x, NEW s \in Seq(Thread), Lists(s, Blocked(op, x)),
         s # <<>>, NEW key, NEW q \in ListSort(s, key)
  PROVE  /\ q \in Seq(Thread) /\ q # <<>> /\ Lists(q, Blocked(op, x))
         /\ Head(q) \in Thread /\ Head(q) \in Blocked(op, x)
         /\ status[Head(q)] = "BLOCKED"
<1>1. q \in Seq(Thread) /\ q # <<>> /\ IsInjective(q) /\ Range(q) = Range(s)
  BY SortList
<1>2. Head(q) \in Range(q)
  BY <1>1, PopFrontList
<1>. QED  BY <1>1, <1>2 DEF Lists, Blocked

(* sema_up, in a thread or in an interrupt handler.                        *)
LEMMA UpIInv ==
  ASSUME IInv, NEW s \in Sema, NEW b, Up(s, b),
         pc' \in [Threads -> Ops \cup {"halt", "loop"}],
         \A t \in Thread : pc'[t] = pc[t],
         cur \in Thread => pc[cur] # "lock_acquire"
  PROVE  IInv'
<1>1. value' \in [Sema -> Nat]
  BY DEF IInv, DataType, Up
<1>2. CASE ~SemaWakes(s)
  <2>1. UNCHANGED <<cpuVars, sema_waiters, priVars, arg, lockVars, sleepVars>>
    BY Zenon, <1>2 DEF Up
  <2>2. DataType' /\ ArgInv'
    BY Zenon, <1>1, <2>1 DEF IInv, DataType, ArgInv, cpuVars, priVars, lockVars,
                      sleepVars
  <2>. QED  BY Zenon, <2>1, <2>2, LocalIInv DEF cpuVars, priVars, lockVars, sleepVars
<1>3. CASE SemaWakes(s)
  <2>1. PICK q \in ListSort(sema_waiters[s], current_priority) :
          /\ sema_waiters' = [sema_waiters EXCEPT ![s] = Tail(q)]
          /\ thread_unblock(Head(q), ready_list, status, current_priority, b)
    BY ZenonT(30), <1>3 DEF Up
  <2>. DEFINE w == Head(q)
  <2>2. /\ q \in Seq(Thread) /\ q # <<>> /\ Lists(q, Blocked("sema_down", s))
        /\ w \in Thread /\ status[w] = "BLOCKED"
        /\ w \in Blocked("sema_down", s)
    BY <1>3, SortedWaiter DEF SemaWakes, IInv, WaitInv
  <2>3. UNCHANGED <<priVars, arg, lockVars, sleepVars>>
    BY Zenon DEF Up
  <2>4. CpuInv' /\ Wakes(w) /\ context' \in Contexts
    BY Zenon, <2>1, <2>2, <2>3, UnblockWakes DEF IInv, CpuInv, priVars
  <2>. HIDE DEF w
  <2>5. WaitInv'
    <3>1. /\ \A l \in Lock : w \notin Blocked("lock_acquire", l)
          /\ \A r \in Sema : r # s => w \notin Blocked("sema_down", r)
          /\ w \notin Blocked("timer_sleep", NULL)
      BY Zenon, <2>2 DEF Blocked
    <3>2. \A l \in Lock :
            Lists(lock_waiters'[l], Blocked("lock_acquire", l)')
      BY Zenon, <2>2, <2>3, <2>4, <3>1, WakesLists DEF IInv, WaitInv, lockVars
    <3>3. Lists(sleep_list', Blocked("timer_sleep", NULL)')
      BY Zenon, <2>2, <2>3, <2>4, <3>1, WakesLists DEF IInv, WaitInv, sleepVars
    <3>4. Lists(Tail(q), Blocked("sema_down", s)') /\ Tail(q) \in Seq(Thread)
      BY Zenon, <2>2, <2>4, WakesLists DEF w
    <3>5. ASSUME NEW r \in Sema
          PROVE  Lists(sema_waiters'[r], Blocked("sema_down", r)')
      <4>1. CASE r = s
        BY Zenon, <4>1, <3>4, <2>1 DEF IInv, WaitInv
      <4>2. CASE r # s
        BY Zenon, <4>2, <2>1, <2>2, <2>4, <3>1, WakesLists DEF IInv, WaitInv
      <4>. QED  BY Zenon, <4>1, <4>2
    <3>6. sema_waiters' \in [Sema -> Seq(Thread)]
      BY ZenonT(30), <2>1, <3>4 DEF IInv, WaitInv
    <3>7. \A t \in Thread : status'[t] = "BLOCKED" => pc'[t] \in WaitOps
      BY ZenonT(30), <2>4 DEF IInv, WaitInv, Wakes
    <3>. QED  BY Zenon, <2>3, <3>2, <3>3, <3>5, <3>6, <3>7
              DEF IInv, WaitInv, lockVars, sleepVars
  <2>6. DataType' /\ ArgInv'
    BY ZenonT(30), <1>1, <2>3, <2>4 DEF IInv, DataType, ArgInv, priVars, lockVars, sleepVars
  <2>7. HolderOwns'
    BY <2>3, <2>4 DEF IInv, HolderOwns, Wakes, lockVars
  <2>. QED  BY Zenon, <2>4, <2>5, <2>6, <2>7 DEF IInv
<1>. QED  BY Zenon, <1>2, <1>3

(* sema_up, called by a thread.                                            *)
LEMMA SemaUpIInv ==
  ASSUME IInv, NEW s \in Sema, sema_up(s)
  PROVE  IInv'
BY ZenonT(30), UpIInv DEF sema_up, Calls, IInv, DataType

(* sema_up, called by an interrupt handler.                                *)
LEMMA DeviceInterruptIInv ==
  ASSUME IInv, NEW s \in IrqSema, device_interrupt(s)
  PROVE  IInv'
<1>1. cur \in Thread => pc[cur] # "lock_acquire"
  BY ConstantsAssumption DEF device_interrupt, IntrOn
<1>. QED  BY ZenonT(30), <1>1, UpIInv, EndHltPc, ConstantsAssumption DEF device_interrupt

(* handle_sleeping_threads wakes the first sleeper.                        *)
LEMMA HandleSleepingIInv == IInv /\ handle_sleeping_threads => IInv'
<1>. SUFFICES ASSUME IInv, handle_sleeping_threads  PROVE IInv'
  OBVIOUS
<1>. DEFINE w == Head(sleep_list)
<1>1. /\ sleep_list \in Seq(Thread) /\ sleep_list # <<>>
      /\ Lists(sleep_list, Blocked("timer_sleep", NULL))
      /\ sleep_list' = Tail(sleep_list)
      /\ UNCHANGED <<priVars, pcVars, lockVars, semaVars, wakeup_time, ticks>>
      /\ thread_unblock(w, ready_list, status, current_priority, TRUE)
  BY ZenonT(30) DEF handle_sleeping_threads, SleeperDue, IInv, WaitInv
<1>2. w \in Thread /\ w \in Blocked("timer_sleep", NULL)
  BY <1>1, PopFrontList DEF Lists
<1>3. status[w] = "BLOCKED"
  BY <1>2 DEF Blocked
<1>4. CpuInv' /\ Wakes(w) /\ context' \in Contexts
  BY ZenonT(30), <1>1, <1>2, <1>3, UnblockWakes DEF IInv, CpuInv, priVars, pcVars
<1>. HIDE DEF w
<1>5. WaitInv'
  <2>1. /\ \A l \in Lock : w \notin Blocked("lock_acquire", l)
        /\ \A r \in Sema : w \notin Blocked("sema_down", r)
    BY Zenon, <1>2 DEF Blocked
  <2>2. \A l \in Lock : Lists(lock_waiters'[l], Blocked("lock_acquire", l)')
    BY Zenon, <1>1, <1>2, <1>4, <2>1, WakesLists DEF IInv, WaitInv, lockVars
  <2>3. \A r \in Sema : Lists(sema_waiters'[r], Blocked("sema_down", r)')
    BY Zenon, <1>1, <1>2, <1>4, <2>1, WakesLists DEF IInv, WaitInv, semaVars
  <2>4. /\ Lists(sleep_list', Blocked("timer_sleep", NULL)')
        /\ sleep_list' \in Seq(Thread)
    BY Zenon, <1>1, <1>2, <1>4, WakesLists DEF w
  <2>5. \A t \in Thread : status'[t] = "BLOCKED" => pc'[t] \in WaitOps
    BY Zenon, <1>4 DEF IInv, WaitInv, Wakes
  <2>. QED  BY Zenon, <1>1, <2>2, <2>3, <2>4, <2>5
            DEF IInv, WaitInv, lockVars, semaVars
<1>6. DataType' /\ ArgInv'
  BY Zenon, <1>1, <1>4 DEF IInv, DataType, ArgInv, priVars, pcVars, lockVars, semaVars
<1>7. HolderOwns'
  BY Zenon, <1>1, <1>4 DEF IInv, HolderOwns, Wakes, lockVars, pcVars
<1>. QED  BY <1>4, <1>5, <1>6, <1>7 DEF IInv
============================================================================
