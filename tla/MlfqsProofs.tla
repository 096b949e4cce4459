---------------------------- MODULE MlfqsProofs ----------------------------
(***************************************************************************)
(* For any number of threads, any length of a second and of the load       *)
(* window and any fixed-point format: load_avg and recent_cpu stay         *)
(* bounded, and a thread is on a ready list exactly when it is ready, once *)
(* and on the list of its present priority.                                *)
(*                                                                         *)
(* The bound of recent_cpu is the one that a second of running and the     *)
(* decay after it lead back to; within a second a thread gains one with    *)
(* every tick, which Usage counts.  For the ready lists, requeue_all is    *)
(* followed a thread at a time: Queued says where each ready thread is,    *)
(* on the list of its new priority or still on that of its old one.        *)
(***************************************************************************)
EXTENDS Mlfqs, FiniteSetTheorems, WellFoundedInduction, TLAPS

Pri == 0..PRI_MAX

(* The number of threads, and the most that recent_cpu can be, in whole    *)
(* ticks, when a second begins. *)
Count == Cardinality(Thread)

Settled == (2 * Count + 1) * (TIMER_FREQ + NiceMax)

Status == {"free", "ready", "running", "blocked"}

Record == [status : Status, nice : Int, recent_cpu : Int, priority : Pri]

(* The threads ths, k ticks after a second began. *)
Usage(ths, k) ==
  /\ ths \in [Thread -> Record]
  /\ \A t \in Thread : /\ ths[t].nice <= NiceMax
                       /\ ths[t].recent_cpu <= f * (Settled + k)
                       /\ ths[t].status = "free" => ths[t].recent_cpu = 0

(* The threads of S, and no others, are on the lists q, each once and on   *)
(* the list that w gives it. *)
Queued(q, S, w) ==
  /\ q \in [Pri -> Seq(Thread)]
  /\ \A p \in Pri : IsInjective(q[p]) /\ Range(q[p]) = {t \in S : w[t] = p}

ReadySet(ths) == {t \in Thread : ths[t].status = "ready"}

Priorities(ths) == [t \in Thread |-> ths[t].priority]

(* The threads ths, of which c runs, with the ready lists q. *)
Runs(ths, q, c) ==
  /\ Queued(q, ReadySet(ths), Priorities(ths))
  /\ c \in Thread \cup {Idle}
  /\ c \in Thread => ths[c].status = "running"

IInv ==
  /\ ticks \in 0..(TIMER_FREQ - 1)
  /\ load_avg \in 0..(f * Count)
  /\ Usage(th, ticks)
  /\ Runs(th, ready_list, current)
----------------------------------------------------------------------------
(* Arithmetic.                                                             *)

(* A product grows with each of its factors. *)
LEMMA TimesGrows ==
  ASSUME NEW a \in Int, NEW b \in Int, NEW c \in Nat, a <= b
  PROVE  a * c <= b * c /\ c * a <= c * b
OBVIOUS

(* What a division of natural numbers leaves is not more than the quotient *)
(* times the divisor.                                                      *)
LEMMA Division ==
  ASSUME NEW a \in Nat, NEW b \in Nat \ {0}
  PROVE  a \div b \in Nat /\ b * (a \div b) <= a
OBVIOUS

(* A product of positive factors tells the smaller of two others. *)
LEMMA Cancel ==
  ASSUME NEW a \in Int, NEW b \in Int, NEW c \in Nat \ {0}, c * a <= c * b
  PROVE  a <= b
OBVIOUS

(* C's division of an integer by a positive one is an integer, not more    *)
(* than 0 for a negative one.                                              *)
LEMMA Quotient ==
  ASSUME NEW a \in Int, NEW b \in Nat \ {0}
  PROVE  /\ Quot(a, b) \in Int
         /\ a >= 0 => Quot(a, b) >= 0 /\ b * Quot(a, b) <= a
         /\ a < 0 => Quot(a, b) <= 0
<1>1. CASE a >= 0
  BY <1>1, Division DEF Quot
<1>2. CASE a < 0
  <2>1. -a \in Nat
    BY <1>2
  <2>2. (-a) \div b \in Nat
    BY <2>1, Division
  <2> QED BY <1>2, <2>2 DEF Quot
<1> QED BY <1>1, <1>2

(* The coefficient of the decay, for N threads, is below 1 by a part that  *)
(* depends on N alone.                                                     *)
LEMMA Coefficient ==
  ASSUME NEW F \in Nat \ {0}, NEW N \in Nat, NEW l \in 0..(F * N)
  PROVE  /\ Quot(2 * l * F, 2 * l + F) \in Nat
         /\ (2 * N + 1) * Quot(2 * l * F, 2 * l + F) <= 2 * F * N
<1> DEFINE x == 2 * l * F
           D == 2 * l + F
           K == 2 * N + 1
           c == Quot(x, D)
           B == 2 * F * N
<1>1. /\ x \in Nat /\ x \in Int /\ x >= 0 /\ D \in Nat \ {0} /\ D \in Int
      /\ K \in Nat /\ K \in Int /\ B \in Int
  OBVIOUS
<1>4. K * x <= D * B
  <2>1. (2 * F) * l <= (2 * F) * (F * N)
    OBVIOUS
  <2> QED BY <2>1
<1> HIDE DEF x, D, K, B
<1>2. c \in Int /\ c >= 0 /\ D * c <= x
  BY Zenon, <1>1, Quotient
<1> HIDE DEF c
<1>3. K * (D * c) <= K * x
  <2>1. D * c \in Int
    BY <1>1, <1>2
  <2> QED BY Zenon, <2>1, <1>1, <1>2, TimesGrows
<1>5. K * (D * c) = D * (K * c) /\ K * c \in Int /\ D * (K * c) \in Int /\ D * B \in Int
      /\ K * x \in Int
  BY <1>1, <1>2
<1>6. D * (K * c) <= D * B
  BY <1>3, <1>4, <1>5
<1>7. K * c <= B
  BY Zenon, <1>1, <1>5, <1>6, Cancel
<1>8. c \in Nat
  BY <1>2
<1> QED BY Zenon, <1>8, <1>7 DEF c, D, x, K, B

(* The decay takes from recent_cpu what a second of T ticks can add to it, *)
(* when that was as large as it may be at the beginning of the second.     *)
LEMMA Decay ==
  ASSUME NEW F \in Nat \ {0}, NEW N \in Nat, NEW T \in Nat, NEW M \in Nat,
         NEW c \in Nat, (2 * N + 1) * c <= 2 * F * N,
         NEW r \in Int, r <= F * ((2 * N + 1) * (T + M) + T)
  PROVE  Quot(c * r, F) \in Int /\ Quot(c * r, F) + F * M <= F * ((2 * N + 1) * (T + M))
<1> DEFINE K == 2 * N + 1
           A == 2 * F * N
           B == F * (K * (T + M) + T)
           G == 2 * N * (T + M) + T
           x == c * r
           q == Quot(x, F)
<1>1. /\ x \in Int /\ K \in Nat \ {0} /\ A \in Nat /\ B \in Nat /\ G \in Nat
      /\ r <= B /\ K * c <= A /\ (r < 0 => x <= 0) /\ (r >= 0 => x >= 0)
  OBVIOUS
<1>2. A * B <= (F * K) * (F * G)
  <2>1. 2 * N * (K * (T + M) + T) <= K * G
    OBVIOUS
  <2>2. (F * F) * (2 * N * (K * (T + M) + T)) <= (F * F) * (K * G)
    BY <2>1
  <2> QED BY <2>2
<1>3. F * G + F * M = F * (K * (T + M))
  OBVIOUS
<1>4. x = c * r
  OBVIOUS
<1> HIDE DEF K, A, B, G, x
<1>5. q \in Int /\ (x >= 0 => q >= 0 /\ F * q <= x) /\ (x < 0 => q <= 0)
  BY Zenon, <1>1, Quotient
<1>6. Quot(0, F) = 0
  BY DEF Quot
<1> HIDE DEF q
<1>7. q <= F * G
  <2>1. CASE r < 0
    <3>1. q <= 0
      <4>1. CASE x = 0
        BY <4>1, <1>6 DEF q
      <4>2. CASE x < 0
        BY Zenon, <4>2, <1>5
      <4> QED BY <4>1, <4>2, <2>1, <1>1
    <3> QED BY <3>1, <1>1, <1>5
  <2>2. CASE r >= 0
    <3>1. F * q <= x /\ F * q \in Int /\ r \in Nat /\ A * r \in Int /\ A * B \in Int
          /\ K \in Nat /\ K \in Int /\ K * c \in Int /\ A \in Int /\ B \in Int
      BY <2>2, <1>1, <1>5
    <3>2. K * (F * q) <= K * x
      BY Zenon, <3>1, <1>1, TimesGrows
    <3>3. (K * c) * r <= A * r
      BY Zenon, <3>1, <1>1, TimesGrows
    <3>4. A * r <= A * B
      BY Zenon, <3>1, <1>1, TimesGrows
    <3>5. K * x = (K * c) * r /\ K * (F * q) = (F * K) * q /\ F * G \in Int
          /\ F * K \in Nat \ {0}
      BY <3>1, <1>1, <1>4, <1>5
    <3>6. (F * K) * q \in Int /\ (K * c) * r \in Int /\ (F * K) * (F * G) \in Int
      BY <3>1, <3>5, <1>5
    <3>7. (F * K) * q <= (F * K) * (F * G)
      <4> HIDE <2>2
      <4>1. (F * K) * q <= (K * c) * r
        BY Zenon, <3>2, <3>5
      <4> QED BY <4>1, <3>3, <3>4, <1>2, <3>1, <3>6
    <3> QED BY Zenon, <3>7, <3>5, <1>5, Cancel
  <2> QED BY <2>1, <2>2
<1>8. q + F * M <= F * (K * (T + M))
  <2>1. F * G \in Int /\ F * M \in Int
    BY <1>1
  <2> QED BY <2>1, <1>3, <1>5, <1>7
<1> QED BY Zenon, <1>5, <1>8 DEF q, x, K

(* The load average of at most N threads does not exceed N.                *)
LEMMA Average ==
  ASSUME NEW F \in Nat \ {0}, NEW N \in Nat, NEW W \in Nat \ {0},
         NEW l \in 0..(F * N), NEW k \in 0..N
  PROVE  Quot(l * (W - 1) + k * F, W) \in 0..(F * N)
<1> DEFINE a == l * (W - 1) + k * F
           q == Quot(a, W)
           B == F * N
<1>1. l * (W - 1) <= (F * N) * (W - 1) /\ k * F <= N * F
  OBVIOUS
<1>2. a \in Int /\ a >= 0 /\ a <= W * B /\ B \in Int
  BY <1>1
<1> HIDE DEF a, B
<1>3. q \in Int /\ q >= 0 /\ W * q <= a
  BY Zenon, <1>2, Quotient
<1> HIDE DEF q
<1>4. W * q <= W * B
  BY <1>2, <1>3
<1>5. q <= B
  BY Zenon, <1>2, <1>3, <1>4, Cancel
<1> QED BY <1>2, <1>3, <1>5 DEF q, B, a
----------------------------------------------------------------------------
(* Lists.                                                                  *)

(* list_push_back of an element that is not in the list. *)
LEMMA PushBackList ==
  ASSUME NEW E, NEW s \in Seq(E), IsInjective(s), NEW e \in E, e \notin Range(s)
  PROVE  /\ PushBack(s, e) \in Seq(E)
         /\ IsInjective(PushBack(s, e))
         /\ Range(PushBack(s, e)) = Range(s) \cup {e}
<1>1. /\ PushBack(s, e) \in Seq(E)
      /\ Len(PushBack(s, e)) = Len(s) + 1
      /\ \A i \in 1..Len(s) : PushBack(s, e)[i] = s[i]
      /\ PushBack(s, e)[Len(s) + 1] = e
      /\ DOMAIN PushBack(s, e) = 1..(Len(s) + 1)
      /\ DOMAIN s = 1..Len(s)
      /\ Len(s) \in Nat
  BY DEF PushBack
<1>. HIDE DEF PushBack
<1>2. IsInjective(PushBack(s, e))
  BY <1>1 DEF IsInjective, Range
<1>3. Range(PushBack(s, e)) = Range(s) \cup {e}
  BY <1>1 DEF Range
<1>. QED  BY <1>1, <1>2, <1>3

(* list_remove. *)
LEMMA RemoveList ==
  ASSUME NEW E, NEW s \in Seq(E), IsInjective(s), NEW e
  PROVE  /\ Remove(s, e) \in Seq(E)
         /\ IsInjective(Remove(s, e))
         /\ Range(Remove(s, e)) = Range(s) \ {e}
<1>1. CASE e \notin Range(s)
  BY <1>1 DEF Remove
<1>2. CASE e \in Range(s)
  <2>. DEFINE k == CHOOSE k \in DOMAIN s : s[k] = e
              r == [i \in 1..(Len(s) - 1) |-> IF i < k THEN s[i] ELSE s[i + 1]]
  <2>1. k \in DOMAIN s /\ s[k] = e
    BY <1>2 DEF Range
  <2>2. Remove(s, e) = r
    BY <1>2 DEF Remove
  <2>. HIDE DEF k
  <2>3. /\ DOMAIN s = 1..Len(s) /\ Len(s) \in Nat
        /\ \A i \in 1..Len(s) : s[i] \in E
    OBVIOUS
  <2>4. /\ r \in Seq(E)
        /\ DOMAIN r = 1..(Len(s) - 1)
    BY <2>1, <2>3
  <2>5. IsInjective(r)
    BY <2>1, <2>3 DEF IsInjective
  <2>6. ASSUME NEW x \in Range(r)  PROVE x \in Range(s) \ {e}
    <3>1. PICK i \in 1..(Len(s) - 1) : r[i] = x
      BY <2>4 DEF Range
    <3>2. CASE i < k
      BY <3>1, <3>2, <2>1, <2>3 DEF IsInjective, Range
    <3>3. CASE ~(i < k)
      BY <3>1, <3>3, <2>1, <2>3 DEF IsInjective, Range
    <3>. QED  BY <3>2, <3>3
  <2>7. ASSUME NEW x \in Range(s) \ {e}  PROVE x \in Range(r)
    <3>1. PICK i \in 1..Len(s) : s[i] = x
      BY <2>3 DEF Range
    <3>2. CASE i < k
      <4>1. i \in 1..(Len(s) - 1) /\ r[i] = x
        BY <3>1, <3>2, <2>1, <2>3
      <4>. QED  BY <4>1, <2>4 DEF Range
    <3>3. CASE i > k
      <4>1. i - 1 \in 1..(Len(s) - 1) /\ r[i - 1] = x
        BY <3>1, <3>3, <2>1, <2>3
      <4>. QED  BY <4>1, <2>4 DEF Range
    <3>. QED  BY <3>1, <3>2, <3>3, <2>1, <2>3
  <2>. HIDE DEF r
  <2>. QED  BY ZenonT(30), <2>2, <2>4, <2>5, <2>6, <2>7 DEF Range
<1>. QED  BY <1>1, <1>2


(* A thread that is not queued is put on the list of its priority.         *)
LEMMA PushQueued ==
  ASSUME NEW q, NEW S \in SUBSET Thread, NEW w \in [Thread -> Pri], Queued(q, S, w),
         NEW t \in Thread, t \notin S
  PROVE  Queued([q EXCEPT ![w[t]] = PushBack(@, t)], S \cup {t}, w)
<1> DEFINE r == [q EXCEPT ![w[t]] = PushBack(@, t)]
<1>1. q \in [Pri -> Seq(Thread)] /\ w[t] \in Pri
  BY Zenon DEF Queued
<1>2. ASSUME NEW p \in Pri
      PROVE  q[p] \in Seq(Thread) /\ IsInjective(q[p]) /\ Range(q[p]) = {u \in S : w[u] = p}
  BY Zenon, <1>1 DEF Queued
<1>3. ASSUME NEW p \in Pri
      PROVE  /\ r[p] \in Seq(Thread) /\ IsInjective(r[p])
             /\ Range(r[p]) = {u \in S \cup {t} : w[u] = p}
  <2>1. CASE p = w[t]
    <3>1. t \notin Range(q[p])
      BY Zenon, <1>2
    <3>2. r[p] = PushBack(q[p], t)
      BY Zenon, <1>1, <2>1
    <3> HIDE DEF r
    <3>3. /\ r[p] \in Seq(Thread) /\ IsInjective(r[p])
          /\ Range(r[p]) = Range(q[p]) \cup {t}
      <4>1. q[p] \in Seq(Thread) /\ IsInjective(q[p])
        BY Zenon, <1>2
      <4>2. /\ PushBack(q[p], t) \in Seq(Thread)
            /\ IsInjective(PushBack(q[p], t))
            /\ Range(PushBack(q[p], t)) = Range(q[p]) \cup {t}
        BY <4>1, <3>1, PushBackList
      <4> QED BY Zenon, <4>2, <3>2
    <3> QED BY Zenon, <3>3, <2>1, <1>2
  <2>2. CASE p # w[t]
    <3>1. r[p] = q[p]
      BY Zenon, <1>1, <2>2
    <3>2. {u \in S \cup {t} : w[u] = p} = {u \in S : w[u] = p}
      BY Zenon, <2>2
    <3> QED BY Zenon, <3>1, <3>2, <1>2
  <2> QED BY <2>1, <2>2
<1>4. DOMAIN r = Pri /\ r = [p \in Pri |-> r[p]]
  BY Zenon, <1>1
<1> HIDE DEF r
<1>5. r \in [Pri -> Seq(Thread)]
  BY Zenon, <1>3, <1>4
<1>6. Queued(r, S \cup {t}, w)
  BY Zenon, <1>3, <1>5 DEF Queued
<1> QED BY Zenon, <1>6 DEF r

(* A thread is taken from every list. *)
LEMMA TakeQueued ==
  ASSUME NEW q, NEW S \in SUBSET Thread, NEW w, Queued(q, S, w), NEW t
  PROVE  Queued([p \in DOMAIN q |-> Remove(q[p], t)], S \ {t}, w)
<1> DEFINE r == [p \in DOMAIN q |-> Remove(q[p], t)]
<1>1. q \in [Pri -> Seq(Thread)]
  BY Zenon DEF Queued
<1>2. ASSUME NEW p \in Pri
      PROVE  q[p] \in Seq(Thread) /\ IsInjective(q[p]) /\ Range(q[p]) = {u \in S : w[u] = p}
  BY Zenon, <1>1 DEF Queued
<1>3. ASSUME NEW p \in Pri
      PROVE  /\ r[p] \in Seq(Thread) /\ IsInjective(r[p])
             /\ Range(r[p]) = {u \in S \ {t} : w[u] = p}
  <2>1. r[p] = Remove(q[p], t)
    BY Zenon, <1>1
  <2> HIDE DEF r
  <2>2. /\ r[p] \in Seq(Thread) /\ IsInjective(r[p]) /\ Range(r[p]) = Range(q[p]) \ {t}
    <3>1. q[p] \in Seq(Thread) /\ IsInjective(q[p])
      BY Zenon, <1>2
    <3>2. /\ Remove(q[p], t) \in Seq(Thread)
          /\ IsInjective(Remove(q[p], t))
          /\ Range(Remove(q[p], t)) = Range(q[p]) \ {t}
      BY <3>1, RemoveList
    <3> QED BY Zenon, <3>2, <2>1
  <2> QED BY Zenon, <2>2, <1>2
<1>4. DOMAIN r = Pri /\ r = [p \in Pri |-> r[p]]
  BY Zenon, <1>1
<1> HIDE DEF r
<1>5. r \in [Pri -> Seq(Thread)]
  BY Zenon, <1>3, <1>4
<1>6. Queued(r, S \ {t}, w)
  BY Zenon, <1>3, <1>5 DEF Queued
<1> QED BY Zenon, <1>6 DEF r

(* Only the priorities of the threads that are queued matter. *)
LEMMA SameQueued ==
  ASSUME NEW q, NEW S, NEW w, NEW v, Queued(q, S, w), \A t \in S : v[t] = w[t]
  PROVE  Queued(q, S, v)
<1>1. ASSUME NEW p PROVE {t \in S : v[t] = p} = {t \in S : w[t] = p}
  BY Zenon
<1> QED BY Zenon, <1>1 DEF Queued

(* The lists q with thread t moved to the list of priority n. *)
Moved(q, t, n) ==
  [[p \in DOMAIN q |-> Remove(q[p], t)] EXCEPT ![n] = PushBack(@, t)]

(* A thread that is queued moves to the list of priority n. *)
LEMMA MoveQueued ==
  ASSUME NEW q, NEW S \in SUBSET Thread, NEW w \in [Thread -> Pri], Queued(q, S, w),
         NEW t \in S, NEW n \in Pri, NEW v, v = [w EXCEPT ![t] = n]
  PROVE  Queued(Moved(q, t, n), S, v)
<1> DEFINE r == [p \in DOMAIN q |-> Remove(q[p], t)]
<1>1. Queued(r, S \ {t}, w)
  BY Zenon, TakeQueued
<1>2. v \in [Thread -> Pri] /\ v[t] = n /\ \A u \in S \ {t} : v[u] = w[u]
  BY Zenon
<1> HIDE DEF r
<1>3. Queued(r, S \ {t}, v)
  BY Zenon, <1>1, <1>2, SameQueued
<1>4. S \ {t} \in SUBSET Thread /\ t \in Thread /\ t \notin S \ {t} /\ (S \ {t}) \cup {t} = S
  BY Zenon
<1>5. Queued([r EXCEPT ![v[t]] = PushBack(@, t)], (S \ {t}) \cup {t}, v)
  BY Zenon, <1>2, <1>3, <1>4, PushQueued
<1>6. Queued([r EXCEPT ![n] = PushBack(@, t)], S, v)
  BY Zenon, <1>2, <1>4, <1>5
<1> QED BY Zenon, <1>6 DEF r, Moved

(* The smallest of a set of numbers. *)
LEMMA Smallest ==
  ASSUME NEW T \in SUBSET Nat, T # {}
  PROVE  \E x \in T : \A y \in T : x <= y
<1>1. PICK x \in T : \A y \in T : ~(<<y, x>> \in OpToRel(<, Nat))
  BY Zenon, WFMin, NatLessThanWellFounded
<1>2. ASSUME NEW y \in T PROVE x <= y
  <2>1. x \in Nat /\ y \in Nat
    OBVIOUS
  <2>2. ~(<<y, x>> \in OpToRel(<, Nat))
    BY Zenon, <1>1
  <2> QED BY <2>1, <2>2 DEF OpToRel
<1> QED BY Zenon, <1>2

(* The lists g[k] of the loop of requeue_all, after k of N threads. *)
IsRun(g, lists, ths, order, N) ==
  g = [k \in 0..N |-> IF k = 0 THEN lists ELSE requeue(g[k - 1], ths, order[k])]

(* The loop of requeue_all has a result after every thread.                *)
LEMMA RequeueRuns ==
  ASSUME NEW lists, NEW ths, NEW order, NEW N \in Nat
  PROVE  \E g : IsRun(g, lists, ths, order, N)
<1> DEFINE F(g, m) == [k \in 0..m |-> IF k = 0 THEN lists ELSE requeue(g[k - 1], ths, order[k])]
           Without == {m \in Nat : \A g : g # F(g, m)}
<1>1. 0 \notin Without
  <2> DEFINE g == [k \in 0..0 |-> lists]
  <2>1. g = F(g, 0)
    OBVIOUS
  <2> QED BY Zenon, <2>1
<1>2. ASSUME NEW m \in Nat, m \notin Without PROVE m + 1 \notin Without
  <2>1. PICK g : g = F(g, m)
    BY <1>2
  <2> DEFINE h == F(g, m + 1)
  <2>2. ASSUME NEW k \in 0..m PROVE h[k] = g[k]
    <3>1. k \in 0..(m + 1)
      OBVIOUS
    <3>2. h[k] = IF k = 0 THEN lists ELSE requeue(g[k - 1], ths, order[k])
      BY Zenon, <3>1
    <3>3. F(g, m)[k] = IF k = 0 THEN lists ELSE requeue(g[k - 1], ths, order[k])
      BY Zenon
    <3> QED BY Zenon, <2>1, <3>2, <3>3
  <2>3. ASSUME NEW k \in 0..(m + 1), k # 0 PROVE k - 1 \in 0..m
    BY <2>3
  <2>4. ASSUME NEW k \in 0..(m + 1)
        PROVE  (IF k = 0 THEN lists ELSE requeue(g[k - 1], ths, order[k]))
               = IF k = 0 THEN lists ELSE requeue(h[k - 1], ths, order[k])
    <3> HIDE DEF h
    <3> QED BY Zenon, <2>2, <2>3
  <2>5. F(g, m + 1) = F(h, m + 1)
    <3> HIDE DEF h
    <3> QED BY Zenon, <2>4
  <2>6. h = F(h, m + 1)
    BY Zenon, <2>5
  <2> HIDE DEF h
  <2> QED BY Zenon, <2>6
<1>3. Without = {}
  <2>1. SUFFICES ASSUME Without # {} PROVE FALSE
    OBVIOUS
  <2>2. Without \in SUBSET Nat
    OBVIOUS
  <2> HIDE DEF Without
  <2>3. PICK x \in Without : \A y \in Without : x <= y
    BY Zenon, <2>1, <2>2, Smallest
  <2>4. x \in Nat /\ x # 0
    BY Zenon, <1>1, <2>2, <2>3
  <2>5. x - 1 \in Nat /\ ~(x <= x - 1) /\ x = (x - 1) + 1
    BY <2>4
  <2>6. x - 1 \notin Without
    BY Zenon, <2>3, <2>5
  <2> QED BY Zenon, <1>2, <2>3, <2>5, <2>6
<1>4. ~(\A g : g # F(g, N))
  BY Zenon, <1>3
<1> QED BY Zenon, <1>4 DEF IsRun

(* After requeue_all every ready thread is on the list of its priority in  *)
(* ths, whatever its priority w was before.                                *)
LEMMA RequeueAll ==
  ASSUME NEW q, NEW ths \in [Thread -> Record], NEW w \in [Thread -> Pri],
         Queued(q, ReadySet(ths), w),
         NEW N \in Nat, NEW order \in [1..N -> Thread], ReadySet(ths) \subseteq Range(order)
  PROVE  Queued(requeue_all(q, ths, order), ReadySet(ths), Priorities(ths))
<1> DEFINE S == ReadySet(ths)
           Done(k) == {order[i] : i \in 1..k}
           W(k) == [t \in Thread |-> IF t \in Done(k) THEN ths[t].priority ELSE w[t]]
           body(g, k) == IF k = 0 THEN q ELSE requeue(g[k - 1], ths, order[k])
           after == CHOOSE g : g = [k \in 0..N |-> body(g, k)]
<1>1. S \in SUBSET Thread /\ \A t \in Thread : ths[t].priority \in Pri
  BY DEF ReadySet, Record
<1>2. \A k : W(k) \in [Thread -> Pri]
  BY Zenon, <1>1
<1>3. Len(order) = N
  OBVIOUS
<1>4. requeue_all(q, ths, order) = after[N]
  BY <1>3 DEF requeue_all
<1>5. after = [k \in 0..N |-> body(after, k)]
  <2>1. PICK g : IsRun(g, q, ths, order, N)
    BY Zenon, RequeueRuns
  <2>2. g = [k \in 0..N |-> body(g, k)]
    BY Zenon, <2>1 DEF IsRun
  <2> QED BY Zenon, <2>2
<1> HIDE DEF after
<1> DEFINE Bad == {k \in 0..N : ~Queued(after[k], S, W(k))}
<1>6. 0 \notin Bad
  <2>1. after[0] = q
    BY <1>5
  <2>2. \A t \in S : W(0)[t] = w[t]
    BY <1>1
  <2>3. Queued(q, S, W(0))
    BY Zenon, <2>2, SameQueued
  <2> QED BY Zenon, <2>1, <2>3
<1>7. ASSUME NEW k \in 1..N, Queued(after[k - 1], S, W(k - 1))
      PROVE  Queued(after[k], S, W(k))
  <2> DEFINE t == order[k]
             lists == after[k - 1]
  <2>1. t \in Thread
    OBVIOUS
  <2>2. after[k] = requeue(lists, ths, t)
    BY <1>5
  <2>3. Done(k) = Done(k - 1) \cup {t}
    <3>1. 1..k = (1..(k - 1)) \cup {k}
      OBVIOUS
    <3> QED BY Zenon, <3>1
  <2> HIDE DEF lists, Done, t
  <2>4. CASE t \notin S
    <3>1. after[k] = lists
      BY Zenon, <2>1, <2>2, <2>4 DEF requeue, ReadySet
    <3>2. \A u \in S : W(k)[u] = W(k - 1)[u]
      BY Zenon, <1>1, <2>3, <2>4
    <3> QED BY Zenon, <1>7, <3>1, <3>2, SameQueued DEF lists
  <2>5. CASE t \in S
    <3>1. after[k] = Moved(lists, t, ths[t].priority)
      BY Zenon, <2>1, <2>2, <2>5 DEF requeue, ReadySet, Moved
    <3>2. W(k) = [W(k - 1) EXCEPT ![t] = ths[t].priority]
      BY Zenon, <2>1, <2>3
    <3> HIDE DEF W, S
    <3>3. Queued(lists, S, W(k - 1)) /\ ths[t].priority \in Pri
      BY Zenon, <1>1, <1>7, <2>1 DEF lists
    <3>4. Queued(Moved(lists, t, ths[t].priority), S, W(k))
      BY Zenon, <1>1, <1>2, <2>5, <3>2, <3>3, MoveQueued
    <3> QED BY Zenon, <3>1, <3>4
  <2> QED BY Zenon, <2>4, <2>5
<1>8. Bad = {}
  <2>1. SUFFICES ASSUME Bad # {} PROVE FALSE
    BY Zenon
  <2>2. Bad \in SUBSET Nat
    OBVIOUS
  <2>3. PICK x \in Bad : \A y \in Bad : x <= y
    <3> HIDE DEF Bad
    <3> QED BY Zenon, <2>1, <2>2, Smallest
  <2>4. x \in 0..N /\ x # 0 /\ ~Queued(after[x], S, W(x))
    BY Zenon, <1>6, <2>3
  <2>5. x \in 1..N /\ x - 1 \in 0..N /\ ~(x <= x - 1)
    BY <2>4
  <2>6. x - 1 \notin Bad
    <3> HIDE DEF Bad
    <3> QED BY Zenon, <2>3, <2>5
  <2>7. Queued(after[x - 1], S, W(x - 1))
    BY Zenon, <2>5, <2>6
  <2> HIDE DEF S, W, Bad
  <2> QED BY Zenon, <1>7, <2>4, <2>5, <2>7
<1>9. Queued(after[N], S, W(N))
  <2>1. N \in 0..N
    OBVIOUS
  <2> HIDE DEF S, W
  <2> QED BY Zenon, <2>1, <1>8
<1>10. \A t \in S : Priorities(ths)[t] = W(N)[t]
  <2>1. Range(order) = Done(N)
    BY DEF Range
  <2> HIDE DEF Done
  <2> QED BY Zenon, <1>1, <2>1 DEF Priorities
<1> QED BY Zenon, <1>4, <1>9, <1>10, SameQueued
----------------------------------------------------------------------------
(* Priorities and usage.                                                   *)

(* A priority that is computed is one. *)
LEMMA NewPriority ==
  ASSUME NEW r, r.recent_cpu \in Int, r.nice \in Int
  PROVE  new_priority(r) \in Pri
<1> DEFINE a == fp_int_div(r.recent_cpu, 4)
           b == fp_to_int_rn(a)
           h == f \div 2
<1>1. 4 \in Nat \ {0} /\ f \in Nat \ {0} /\ h \in Int /\ PRI_MAX \in Nat
  BY MlfqsAssumption
<1>2. a \in Int
  BY Zenon, <1>1, Quotient DEF fp_int_div
<1> HIDE DEF a, h
<1>3. a + h \in Int /\ a - h \in Int
  BY <1>1, <1>2
<1>4. Quot(a + h, f) \in Int /\ Quot(a - h, f) \in Int
  BY Zenon, <1>1, <1>3, Quotient
<1>5. b \in Int
  BY Zenon, <1>4 DEF fp_to_int_rn, h
<1> HIDE DEF b
<1>6. new_priority(r) = IF PRI_MAX - b - r.nice * 2 < 0 THEN 0
                        ELSE IF PRI_MAX - b - r.nice * 2 > PRI_MAX THEN PRI_MAX
                        ELSE PRI_MAX - b - r.nice * 2
  BY Zenon DEF new_priority, a, b
<1> DEFINE p == PRI_MAX - b - r.nice * 2
<1>7. p \in Int
  BY <1>1, <1>5
<1> HIDE DEF p
<1>8. (IF p < 0 THEN 0 ELSE IF p > PRI_MAX THEN PRI_MAX ELSE p) \in 0..PRI_MAX
  BY <1>1, <1>7
<1> QED BY Zenon, <1>6, <1>8 DEF p, Pri

(* The decay brings recent_cpu, at the end of a second, back to what it    *)
(* may be when the next one begins.                                        *)
LEMMA DecaySettles ==
  ASSUME NEW r, r.recent_cpu \in Int, r.nice \in Int, r.nice <= NiceMax,
         r.recent_cpu <= f * (Settled + TIMER_FREQ), NEW l \in 0..(f * Count)
  PROVE  decayed(r, l) \in Int /\ decayed(r, l) <= f * Settled
<1> DEFINE c == Quot(2 * l * f, 2 * l + f)
           q == Quot(c * r.recent_cpu, f)
<1>1. f \in Nat \ {0} /\ TIMER_FREQ \in Nat /\ NiceMax \in Nat /\ Count \in Nat /\ l \in Int
  BY MlfqsAssumption, FS_CardinalityType DEF Count
<1>2. c \in Nat /\ (2 * Count + 1) * c <= 2 * f * Count
  BY Zenon, <1>1, Coefficient
<1>3. decayed(r, l) = q + r.nice * f
  <2>1. l * 2 * f = 2 * l * f /\ l * 2 + 1 * f = 2 * l + f
    BY <1>1
  <2> QED BY Zenon, <2>1 DEF decayed, fp_int_add, fp_from_int, fp_mult, fp_div, fp_int_mult
<1> HIDE DEF c
<1>4. q \in Int /\ q + f * NiceMax <= f * Settled
  BY Zenon, <1>1, <1>2, Decay DEF Settled
<1> HIDE DEF q
<1>5. f * Settled \in Int
  BY <1>1 DEF Settled
<1>6. r.nice * f <= f * NiceMax /\ r.nice * f \in Int /\ f * NiceMax \in Int
  BY <1>1
<1> HIDE DEF Settled
<1>7. q + r.nice * f \in Int /\ q + r.nice * f <= f * Settled
  BY <1>4, <1>5, <1>6
<1> QED BY Zenon, <1>3, <1>7

(* The fields of a thread, and of one with a field changed.                *)
LEMMA Fields ==
  ASSUME NEW r \in Record
  PROVE  /\ r.nice \in Int /\ r.recent_cpu \in Int /\ r.priority \in Pri /\ r.status \in Status
         /\ \A x \in Status : LET n == [r EXCEPT !.status = x]
                              IN  /\ n \in Record /\ n.status = x /\ n.nice = r.nice
                                  /\ n.recent_cpu = r.recent_cpu /\ n.priority = r.priority
         /\ \A x \in Int : LET n == [r EXCEPT !.nice = x]
                           IN  /\ n \in Record /\ n.nice = x /\ n.status = r.status
                               /\ n.recent_cpu = r.recent_cpu /\ n.priority = r.priority
         /\ \A x \in Int : LET n == [r EXCEPT !.recent_cpu = x]
                           IN  /\ n \in Record /\ n.recent_cpu = x /\ n.status = r.status
                               /\ n.nice = r.nice /\ n.priority = r.priority
         /\ \A x \in Pri : LET n == [r EXCEPT !.priority = x]
                           IN  /\ n \in Record /\ n.priority = x /\ n.status = r.status
                               /\ n.nice = r.nice /\ n.recent_cpu = r.recent_cpu
BY DEF Record

(* A thread that has used y, and a thread as nice as x. *)
WithUse(new, r, y) == new = [r EXCEPT !.recent_cpu = y]
WithNice(new, r, x) == new = [r EXCEPT !.nice = x]

(* The thread new is r but for its nice value and what it has used.        *)
Resembles(new, r, nice, used) ==
  /\ new \in Record /\ new.status = r.status /\ new.priority = r.priority
  /\ new.nice = nice /\ new.recent_cpu = used

(* The other fields of such a thread are those of r. *)
LEMMA Charged ==
  ASSUME NEW r \in Record, NEW y \in Int, NEW new, WithUse(new, r, y)
  PROVE  Resembles(new, r, r.nice, y)
BY DEF Record, WithUse, Resembles

(* The same, for how nice it is. *)
LEMMA Renice ==
  ASSUME NEW r \in Record, NEW x \in Int, NEW new, WithNice(new, r, x)
  PROVE  Resembles(new, r, x, r.recent_cpu)
BY DEF Record, WithNice, Resembles

(* The free thread is a record like any other. *)
LEMMA FreeThread ==
  /\ Free \in Record /\ Free.status = "free" /\ Free.nice = 0 /\ Free.recent_cpu = 0
<1>1. 0 \in Pri /\ 0 \in Int /\ "free" \in Status
  BY MlfqsAssumption DEF Pri, Status
<1> QED BY <1>1 DEF Free, Record
----------------------------------------------------------------------------
(* Scheduling.                                                             *)

(* next_thread_to_run finds a thread that is queued, or none is.           *)
LEMMA NextThread ==
  ASSUME NEW q, NEW S, NEW w, Queued(q, S, w)
  PROVE  next_thread_to_run(q) \in S \cup {Idle}
<1> DEFINE ready == {p \in DOMAIN q : q[p] # <<>>}
           top == CHOOSE p \in ready : \A n \in ready : p >= n
           below == {PRI_MAX - p : p \in ready}
<1>1. q \in [Pri -> Seq(Thread)] /\ DOMAIN q = Pri
  BY Zenon DEF Queued
<1>2. CASE ready = {}
  BY Zenon, <1>2 DEF next_thread_to_run
<1>3. CASE ready # {}
  <2>1. ready \subseteq Pri
    BY Zenon, <1>1
  <2>2. ASSUME NEW p \in Pri PROVE p \in Int /\ PRI_MAX - p \in Nat
    BY MlfqsAssumption DEF Pri
  <2>3. next_thread_to_run(q) = Head(q[top])
    BY Zenon, <1>3 DEF next_thread_to_run
  <2>4. \A p \in ready : q[p] # <<>>
    OBVIOUS
  <2> HIDE DEF ready
  <2>5. below \in SUBSET Nat /\ below # {}
    BY Zenon, <1>3, <2>1, <2>2
  <2>6. PICK x \in below : \A y \in below : x <= y
    <3> HIDE DEF below
    <3> QED BY Zenon, <2>5, Smallest
  <2>7. PICK p \in ready : x = PRI_MAX - p
    BY Zenon
  <2>8. ASSUME NEW n \in ready PROVE p >= n
    <3>1. p \in Int /\ n \in Int
      BY Zenon, <2>1, <2>2, <2>7
    <3>2. PRI_MAX - p <= PRI_MAX - n
      BY Zenon, <2>6, <2>7
    <3> QED BY <3>1, <3>2, MlfqsAssumption
  <2>9. top \in ready
    BY Zenon, <2>8
  <2> HIDE DEF top
  <2>10. /\ top \in Pri /\ q[top] \in Seq(Thread) /\ q[top] # <<>>
         /\ Range(q[top]) = {t \in S : w[t] = top}
    BY Zenon, <1>1, <2>1, <2>4, <2>9 DEF Queued
  <2>11. Head(q[top]) \in Range(q[top])
    <3>1. ASSUME NEW s \in Seq(Thread), s # <<>> PROVE Head(s) \in Range(s)
      <4>1. 1 \in DOMAIN s /\ Head(s) = s[1]
        BY <3>1
      <4> QED BY Zenon, <4>1 DEF Range
    <3> QED BY Zenon, <2>10, <3>1
  <2> QED BY Zenon, <2>3, <2>10, <2>11
<1> QED BY <1>2, <1>3

(* The state of t changes to x. *)
Becomes(new, ths, t, x) == new = [ths EXCEPT ![t].status = x]

Differ(new, ths, t, x) ==
  \A u \in Thread : new[u].status = IF u = t THEN x ELSE ths[u].status

(* Nothing else does then. *)
LEMMA SetStatus ==
  ASSUME NEW ths, NEW k, Usage(ths, k), NEW t \in Thread,
         NEW x \in Status, x # "free", NEW new, Becomes(new, ths, t, x)
  PROVE  Usage(new, k) /\ Priorities(new) = Priorities(ths) /\ Differ(new, ths, t, x)
<1>1. ths \in [Thread -> Record] /\ new = [ths EXCEPT ![t].status = x]
  BY Zenon DEF Usage, Becomes
<1>2. ASSUME NEW u \in Thread
      PROVE  /\ new[u] \in Record /\ new[u].nice = ths[u].nice
             /\ new[u].recent_cpu = ths[u].recent_cpu /\ new[u].priority = ths[u].priority
             /\ new[u].status = IF u = t THEN x ELSE ths[u].status
  <2>1. ths[u] \in Record
    BY Zenon, <1>1
  <2>2. new[u] = IF u = t THEN [ths[u] EXCEPT !.status = x] ELSE ths[u]
    BY Zenon, <1>1
  <2>3. CASE u = t
    <3>1. new[u] = [ths[u] EXCEPT !.status = x]
      BY Zenon, <2>2, <2>3
    <3> QED BY <2>1, <2>3, <3>1, Fields
  <2>4. CASE u # t
    BY Zenon, <2>1, <2>2, <2>4
  <2> QED BY <2>3, <2>4
<1>3. new \in [Thread -> Record]
  <2>1. new = [u \in Thread |-> new[u]]
    BY Zenon, <1>1
  <2> QED BY Zenon, <2>1, <1>2
<1>4. Usage(new, k)
  BY Zenon, <1>2, <1>3 DEF Usage
<1>5. Priorities(new) = Priorities(ths)
  BY Zenon, <1>2 DEF Priorities
<1> QED BY Zenon, <1>2, <1>4, <1>5 DEF Differ

(* The priorities of threads are priorities. *)
LEMMA PrioritiesType ==
  ASSUME NEW ths, NEW k, Usage(ths, k)
  PROVE  Priorities(ths) \in [Thread -> Pri]
<1>1. ASSUME NEW t \in Thread PROVE ths[t].priority \in Pri
  BY Zenon, Fields DEF Usage
<1> QED BY Zenon, <1>1 DEF Priorities

(* schedule() runs a thread that was ready, or the idle thread.            *)
LEMMA ScheduleRuns ==
  ASSUME NEW ths, NEW k, Usage(ths, k),
         NEW q, Queued(q, ReadySet(ths), Priorities(ths)), schedule(ths, q)
  PROVE  Usage(th', k) /\ Runs(th', ready_list', current')
<1> DEFINE next == next_thread_to_run(q)
<1>1. /\ current' = next
      /\ ready_list' = [p \in DOMAIN q |-> Remove(q[p], next)]
      /\ th' = IF next = Idle THEN ths ELSE [ths EXCEPT ![next].status = "running"]
  BY Zenon DEF schedule
<1>2. next \in ReadySet(ths) \cup {Idle}
  BY Zenon, NextThread
<1>3. ReadySet(ths) \in SUBSET Thread
  BY Zenon DEF ReadySet
<1> HIDE DEF next
<1>4. Queued(ready_list', ReadySet(ths) \ {next}, Priorities(ths))
  BY Zenon, <1>1, <1>3, TakeQueued
<1>5. CASE next = Idle
  <2>1. ReadySet(ths) \ {next} = ReadySet(ths) /\ next \notin Thread
    BY Zenon, <1>3, <1>5, MlfqsAssumption
  <2>2. th' = ths
    BY Zenon, <1>1, <1>5
  <2>3. Runs(th', ready_list', current')
    BY Zenon, <1>1, <1>4, <1>5, <2>1, <2>2 DEF Runs
  <2> QED BY Zenon, <2>2, <2>3
<1>6. CASE next # Idle
  <2>1. next \in Thread /\ next \in ReadySet(ths)
    BY Zenon, <1>2, <1>3, <1>6
  <2>2. Becomes(th', ths, next, "running") /\ "running" \in Status /\ "running" # "free"
    BY Zenon, <1>1, <1>6 DEF Status, Becomes
  <2>3. Usage(th', k) /\ Priorities(th') = Priorities(ths) /\ Differ(th', ths, next, "running")
    BY Zenon, <2>1, <2>2, SetStatus
  <2>4. "running" # "ready"
    OBVIOUS
  <2>5. ReadySet(th') = ReadySet(ths) \ {next}
    BY Zenon, <2>3, <2>4 DEF ReadySet, Differ
  <2>6. Runs(th', ready_list', current')
    BY Zenon, <1>1, <1>4, <2>1, <2>3, <2>5 DEF Runs, Differ
  <2> QED BY Zenon, <2>3, <2>6
<1> QED BY Zenon, <1>5, <1>6

(* thread_yield queues the running thread first.                           *)
LEMMA YieldRuns ==
  ASSUME NEW ths, NEW k, Usage(ths, k), NEW q, Runs(ths, q, current), yield(ths, q)
  PROVE  Usage(th', k) /\ Runs(th', ready_list', current')
<1>1. Queued(q, ReadySet(ths), Priorities(ths)) /\ current \in Thread \cup {Idle}
  BY Zenon DEF Runs
<1>2. CASE current = Idle
  BY Zenon, <1>1, <1>2, ScheduleRuns DEF yield
<1>3. CASE current # Idle
  <2> DEFINE c == current
             new == [ths EXCEPT ![c].status = "ready"]
             r == [q EXCEPT ![ths[c].priority] = PushBack(@, c)]
  <2>1. /\ c \in Thread /\ ths[c].status = "running" /\ "ready" \in Status
        /\ schedule(new, r) /\ "ready" # "running" /\ "ready" # "free"
    BY Zenon, <1>1, <1>3 DEF Runs, yield, Status
  <2>2. c \notin ReadySet(ths) /\ ReadySet(ths) \in SUBSET Thread
    BY Zenon, <2>1 DEF ReadySet
  <2>3. Priorities(ths) \in [Thread -> Pri] /\ Priorities(ths)[c] = ths[c].priority
    BY Zenon, <2>1, PrioritiesType DEF Priorities
  <2>4. Queued([q EXCEPT ![Priorities(ths)[c]] = PushBack(@, c)], ReadySet(ths) \cup {c}, Priorities(ths))
    BY Zenon, <1>1, <2>1, <2>2, <2>3, PushQueued
  <2>5. Queued(r, ReadySet(ths) \cup {c}, Priorities(ths))
    BY Zenon, <2>3, <2>4
  <2> HIDE DEF r
  <2>6. Usage(new, k) /\ Priorities(new) = Priorities(ths) /\ Differ(new, ths, c, "ready")
    <3>1. Becomes(new, ths, c, "ready")
      BY Zenon DEF Becomes
    <3> HIDE DEF new
    <3> QED BY Zenon, <2>1, <3>1, SetStatus
  <2> HIDE DEF new
  <2>7. ReadySet(new) = ReadySet(ths) \cup {c}
    BY Zenon, <2>1, <2>6 DEF ReadySet, Differ
  <2>8. Queued(r, ReadySet(new), Priorities(new))
    BY Zenon, <2>5, <2>6, <2>7
  <2> QED BY Zenon, <2>1, <2>6, <2>8, ScheduleRuns
<1> QED BY <1>2, <1>3
----------------------------------------------------------------------------
(* The steps.                                                              *)

(* A set of threads is not larger than all of them.                        *)
LEMMA CountType ==
  /\ Count \in Nat
  /\ \A S \in SUBSET Thread : IsFiniteSet(S) /\ Cardinality(S) \in 0..Count
<1>1. IsFiniteSet(Thread) /\ Count \in Nat
  BY Zenon, MlfqsAssumption, FS_CardinalityType DEF Count
<1>2. ASSUME NEW S \in SUBSET Thread PROVE IsFiniteSet(S) /\ Cardinality(S) \in 0..Count
  <2>1. IsFiniteSet(S) /\ Cardinality(S) <= Count
    BY Zenon, <1>1, FS_Subset DEF Count
  <2>2. Cardinality(S) \in Nat
    BY Zenon, <2>1, FS_CardinalityType
  <2> QED BY <1>1, <2>1, <2>2
<1> QED BY Zenon, <1>1, <1>2

(* The load average stays within its bound. *)
LEMMA LoadBounded ==
  ASSUME load_avg \in 0..(f * Count)
  PROVE  recomputed_load_avg \in 0..(f * Count)
<1> DEFINE k == thread_get_ready_threads
<1>1. f \in Nat \ {0} /\ LOAD_WINDOW \in Nat \ {0} /\ Count \in Nat
  BY Zenon, MlfqsAssumption, CountType
<1>2. k \in 0..Count
  BY Zenon, CountType DEF thread_get_ready_threads
<1> HIDE DEF k
<1>3. Quot(load_avg * (LOAD_WINDOW - 1) + k * f, LOAD_WINDOW) \in 0..(f * Count)
  BY Zenon, <1>1, <1>2, Average
<1> QED BY Zenon, <1>3 DEF recomputed_load_avg, fp_int_div, fp_int_add, fp_int_mult, fp_from_int, k

(* all_list has every thread that is not free.                             *)
LEMMA AllList ==
  \E N \in Nat : /\ all_list \in [1..N -> Thread]
                 /\ Range(all_list) = {t \in Thread : th[t].status # "free"}
<1> DEFINE alive == {t \in Thread : th[t].status # "free"}
           N == Cardinality(alive)
<1>1. IsFiniteSet(alive)
  BY Zenon, CountType
<1> HIDE DEF alive
<1>2. N \in Nat /\ ExistsBijection(1..N, alive)
  BY Zenon, <1>1, FS_CardinalityType
<1> HIDE DEF N
<1>3. PICK g : g \in Bijection(1..N, alive)
  BY Zenon, <1>2 DEF ExistsBijection
<1>4. g \in [1..N -> alive] /\ IsInjective(g) /\ Range(g) = alive
  BY <1>3 DEF Bijection, Injection, Surjection, IsInjective, Range
<1>5. all_list = CHOOSE s \in [1..N -> alive] : IsInjective(s) /\ Range(s) = alive
  BY Zenon DEF all_list, N, alive
<1>6. all_list \in [1..N -> alive] /\ Range(all_list) = alive
  BY Zenon, <1>4, <1>5
<1>7. alive \subseteq Thread
  BY Zenon DEF alive
<1>8. all_list \in [1..N -> Thread]
  BY Zenon, <1>6, <1>7
<1> QED BY Zenon, <1>2, <1>6, <1>8 DEF alive

(* A second that ends: what recompute_all leaves.                          *)
LEMMA RecomputeAll ==
  ASSUME NEW ths, Usage(ths, TIMER_FREQ), NEW l \in 0..(f * Count)
  PROVE  /\ Usage(recompute_all(ths, l), 0)
         /\ \A t \in Thread : recompute_all(ths, l)[t].status = ths[t].status
<1> DEFINE new == recompute_all(ths, l)
<1>1. ths \in [Thread -> Record]
  BY Zenon DEF Usage
<1>2. f * Settled \in Int /\ Settled + 0 = Settled /\ 0 <= f * Settled
  BY CountType, MlfqsAssumption DEF Settled
<1>3. ASSUME NEW t \in Thread
      PROVE  /\ new[t] \in Record /\ new[t].nice <= NiceMax
             /\ new[t].recent_cpu <= f * Settled /\ new[t].status = ths[t].status
             /\ new[t].status = "free" => new[t].recent_cpu = 0
  <2>1. /\ ths[t] \in Record /\ ths[t].nice \in Int /\ ths[t].recent_cpu \in Int
        /\ ths[t].nice <= NiceMax /\ ths[t].recent_cpu <= f * (Settled + TIMER_FREQ)
        /\ ths[t].status = "free" => ths[t].recent_cpu = 0
    <3>1. ths[t] \in Record
      BY Zenon, <1>1
    <3> QED BY Zenon, <3>1, Fields DEF Usage
  <2> DEFINE x == decayed(ths[t], l)
             r == [ths[t] EXCEPT !.recent_cpu = x]
             p == new_priority(r)
  <2>2. CASE ths[t].status = "free"
    <3>1. new[t] = ths[t]
      BY Zenon, <2>2 DEF recompute_all
    <3> HIDE DEF new
    <3> QED BY Zenon, <1>2, <2>1, <2>2, <3>1
  <2>3. CASE ths[t].status # "free"
    <3>1. x \in Int /\ x <= f * Settled
      BY Zenon, <2>1, DecaySettles
    <3> HIDE DEF x
    <3>2. /\ r \in Record /\ r.recent_cpu = x /\ r.status = ths[t].status /\ r.nice = ths[t].nice
      BY <2>1, <3>1, Fields
    <3>3. p \in Pri
      <4>1. r.recent_cpu \in Int /\ r.nice \in Int
        BY Zenon, <2>1, <3>1, <3>2
      <4> QED BY Zenon, <4>1, NewPriority
    <3>4. new[t] = [r EXCEPT !.priority = p]
      BY Zenon, <2>3 DEF recompute_all, x
    <3> HIDE DEF r, p, new
    <3>5. /\ new[t] \in Record /\ new[t].status = r.status /\ new[t].nice = r.nice
          /\ new[t].recent_cpu = r.recent_cpu
      BY <3>2, <3>3, <3>4, Fields
    <3> QED BY Zenon, <2>1, <2>3, <3>1, <3>2, <3>5
  <2> QED BY <2>2, <2>3
<1>4. new \in [Thread -> Record]
  <2>1. new = [t \in Thread |-> new[t]]
    BY Zenon DEF recompute_all
  <2> QED BY Zenon, <2>1, <1>3
<1> HIDE DEF new
<1>5. Usage(new, 0)
  BY Zenon, <1>2, <1>3, <1>4 DEF Usage
<1> QED BY Zenon, <1>3, <1>5 DEF new

(* The threads new have the states of ths. *)
SameStates(new, ths) == \A t \in Thread : new[t].status = ths[t].status

(* Then the same threads are ready.                                        *)
LEMMA SameReady ==
  ASSUME NEW new, NEW ths, SameStates(new, ths)
  PROVE  ReadySet(new) = ReadySet(ths)
BY Zenon DEF SameStates, ReadySet

(* A tick is added to the time of the running thread. *)
LEMMA TickUsed ==
  ASSUME IInv, NEW used,
         used = IF current = Idle THEN th ELSE [th EXCEPT ![current].recent_cpu = fp_int_add(@, 1)]
  PROVE  Usage(used, ticks + 1) /\ SameStates(used, th) /\ Priorities(used) = Priorities(th)
<1>1. th \in [Thread -> Record] /\ current \in Thread \cup {Idle}
  BY Zenon DEF IInv, Usage, Runs
<1>2. /\ f * (Settled + ticks) \in Int /\ f \in Int
      /\ f * (Settled + (ticks + 1)) = f * (Settled + ticks) + f /\ f >= 0
  BY CountType, MlfqsAssumption DEF IInv, Settled
<1>3. ASSUME NEW t \in Thread
      PROVE  /\ used[t] \in Record /\ used[t].nice <= NiceMax
             /\ used[t].recent_cpu <= f * (Settled + (ticks + 1))
             /\ used[t].status = "free" => used[t].recent_cpu = 0
             /\ used[t].status = th[t].status /\ used[t].priority = th[t].priority
  <2>1. /\ th[t] \in Record /\ th[t].nice <= NiceMax /\ th[t].recent_cpu <= f * (Settled + ticks)
        /\ th[t].status = "free" => th[t].recent_cpu = 0
    BY Zenon, <1>1 DEF IInv, Usage
  <2>2. th[t].recent_cpu \in Int
    BY Zenon, <2>1, Fields
  <2> DEFINE x == th[t].recent_cpu
  <2> HIDE DEF x
  <2>3. x \in Int /\ x <= f * (Settled + ticks)
    BY Zenon, <2>1, <2>2 DEF x
  <2>4. /\ x <= f * (Settled + (ticks + 1)) /\ x + 1 * f <= f * (Settled + (ticks + 1))
        /\ x + 1 * f \in Int
    <3> HIDE DEF Settled
    <3> QED BY <1>2, <2>3
  <2>5. CASE t # current \/ current = Idle
    <3>1. used[t] = th[t]
      BY Zenon, <1>1, <2>5
    <3> QED BY Zenon, <3>1, <2>1, <2>4 DEF x
  <2>6. CASE t = current /\ current # Idle
    <3>1. used[t] = [th[t] EXCEPT !.recent_cpu = x + 1 * f]
      BY Zenon, <1>1, <2>6 DEF fp_int_add, fp_from_int, x
    <3>2. /\ used[t] \in Record /\ used[t].nice = th[t].nice /\ used[t].recent_cpu = x + 1 * f
          /\ used[t].status = th[t].status /\ used[t].priority = th[t].priority
      <4> DEFINE y == x + 1 * f
      <4>1. y \in Int /\ WithUse(used[t], th[t], y)
        BY Zenon, <2>4, <3>1 DEF WithUse
      <4> HIDE DEF y
      <4>2. /\ used[t] \in Record /\ used[t].nice = th[t].nice /\ used[t].recent_cpu = y
            /\ used[t].status = th[t].status /\ used[t].priority = th[t].priority
        <5>1. Resembles(used[t], th[t], th[t].nice, y)
          BY Zenon, <2>1, <4>1, Charged
        <5> QED BY Zenon, <5>1 DEF Resembles
      <4> QED BY Zenon, <4>2 DEF y
    <3>3. th[t].status = "running"
      BY Zenon, <2>6 DEF IInv, Runs
    <3>4. "running" # "free"
      OBVIOUS
    <3> QED BY Zenon, <2>1, <2>4, <3>2, <3>3, <3>4
  <2> QED BY <2>5, <2>6
<1>4. used \in [Thread -> Record]
  <2>1. used = [t \in Thread |-> used[t]]
    BY Zenon, <1>1
  <2> QED BY Zenon, <2>1, <1>3
<1>5. Usage(used, ticks + 1)
  BY Zenon, <1>3, <1>4 DEF Usage
<1>6. SameStates(used, th) /\ Priorities(used) = Priorities(th)
  BY Zenon, <1>3 DEF SameStates, Priorities
<1> QED BY Zenon, <1>5, <1>6

(* The priority of thread c is computed again. *)
Repriced(new, ths, c) == new = [ths EXCEPT ![c].priority = new_priority(ths[c])]

OthersKeep(new, ths, c) == \A t \in Thread : t # c => Priorities(new)[t] = Priorities(ths)[t]

(* It disturbs neither what the threads have used nor their states, and no *)
(* other thread's priority.                                                *)
LEMMA SetPriority ==
  ASSUME NEW ths, NEW k, Usage(ths, k), NEW c \in Thread, NEW new, Repriced(new, ths, c)
  PROVE  Usage(new, k) /\ SameStates(new, ths) /\ OthersKeep(new, ths, c)
<1>1. ths \in [Thread -> Record]
  BY Zenon DEF Usage
<1> DEFINE p == new_priority(ths[c])
<1>2. p \in Pri
  <2>1. ths[c] \in Record
    BY Zenon, <1>1
  <2>2. ths[c].recent_cpu \in Int /\ ths[c].nice \in Int
    BY Zenon, <2>1, Fields
  <2> QED BY Zenon, <2>2, NewPriority
<1>3. new = [ths EXCEPT ![c].priority = p]
  BY Zenon DEF Repriced
<1> HIDE DEF p
<1>4. ASSUME NEW t \in Thread
      PROVE  /\ new[t] \in Record /\ new[t].nice = ths[t].nice
             /\ new[t].recent_cpu = ths[t].recent_cpu /\ new[t].status = ths[t].status
             /\ t # c => new[t] = ths[t]
  <2>1. ths[t] \in Record
    BY Zenon, <1>1
  <2>2. CASE t = c
    <3>1. new[t] = [ths[t] EXCEPT !.priority = p]
      BY Zenon, <1>1, <1>3, <2>2
    <3> QED BY <2>1, <2>2, <3>1, <1>2, Fields
  <2>3. CASE t # c
    BY Zenon, <1>1, <1>3, <2>1, <2>3
  <2> QED BY <2>2, <2>3
<1>5. new \in [Thread -> Record]
  <2>1. new = [t \in Thread |-> new[t]]
    BY Zenon, <1>1, <1>3
  <2> QED BY Zenon, <2>1, <1>4
<1>6. Usage(new, k)
  BY Zenon, <1>4, <1>5 DEF Usage
<1>7. SameStates(new, ths)
  BY Zenon, <1>4 DEF SameStates
<1>8. ASSUME NEW t \in Thread, t # c PROVE Priorities(new)[t] = Priorities(ths)[t]
  <2>1. new[t] = ths[t]
    BY Zenon, <1>4, <1>8
  <2>2. Priorities(new)[t] = new[t].priority /\ Priorities(ths)[t] = ths[t].priority
    BY Zenon DEF Priorities
  <2> QED BY Zenon, <2>1, <2>2
<1> QED BY Zenon, <1>6, <1>7, <1>8 DEF OthersKeep

(* The timer interrupt. *)
LEMMA TimerStep == IInv /\ timer_interrupt => IInv'
<1> SUFFICES ASSUME IInv, timer_interrupt PROVE IInv'
  OBVIOUS
<1> DEFINE tick == (ticks + 1) % TIMER_FREQ
           used == IF current = Idle THEN th
                   ELSE [th EXCEPT ![current].recent_cpu = fp_int_add(@, 1)]
           load == IF tick = 0 THEN recomputed_load_avg ELSE load_avg
           threads == IF tick = 0 THEN recompute_all(used, load)
                      ELSE IF tick % PRI_PERIOD = 0 /\ current # Idle
                      THEN [used EXCEPT ![current].priority = new_priority(used[current])]
                      ELSE used
           lists == IF tick = 0 THEN requeue_all(ready_list, threads, all_list) ELSE ready_list
<1>1. /\ ticks' = tick /\ load_avg' = load
      /\ IF thread_ticks + 1 >= TIME_SLICE THEN yield(threads, lists)
         ELSE th' = threads /\ ready_list' = lists /\ current' = current
  BY Zenon DEF timer_interrupt
<1>2. /\ tick \in 0..(TIMER_FREQ - 1)
      /\ tick = 0 => ticks + 1 = TIMER_FREQ
      /\ tick # 0 => tick = ticks + 1
  BY MlfqsAssumption DEF IInv
<1>3. load \in 0..(f * Count)
  BY Zenon, LoadBounded DEF IInv
<1>4. Usage(used, ticks + 1) /\ SameStates(used, th) /\ Priorities(used) = Priorities(th)
  BY Zenon, TickUsed
<1>5. /\ Queued(ready_list, ReadySet(th), Priorities(th)) /\ current \in Thread \cup {Idle}
      /\ current \in Thread => th[current].status = "running"
      /\ Priorities(th) \in [Thread -> Pri]
  BY Zenon, PrioritiesType DEF IInv, Runs
<1>6. ReadySet(used) = ReadySet(th)
  BY ZenonT(40), <1>4, SameReady
<1> HIDE DEF used, tick, load
<1>7. Usage(threads, tick) /\ Runs(threads, lists, current)
  <2>1. CASE tick = 0
    <3>1. threads = recompute_all(used, load) /\ lists = requeue_all(ready_list, threads, all_list)
      BY Zenon, <2>1
    <3>2. Usage(threads, 0) /\ \A t \in Thread : threads[t].status = used[t].status
      BY ZenonT(40), <1>2, <1>3, <1>4, <2>1, <3>1, RecomputeAll
    <3> HIDE DEF threads, lists
    <3>3. SameStates(threads, th)
      BY Zenon, <1>4, <3>2 DEF SameStates
    <3>4. ReadySet(threads) = ReadySet(th) /\ threads \in [Thread -> Record]
      BY Zenon, <3>2, <3>3, SameReady DEF Usage
    <3>5. PICK N \in Nat : /\ all_list \in [1..N -> Thread]
                           /\ Range(all_list) = {t \in Thread : th[t].status # "free"}
      BY Zenon, AllList
    <3>6. "ready" # "free"
      OBVIOUS
    <3>7. ReadySet(threads) \subseteq Range(all_list)
      BY Zenon, <3>4, <3>5, <3>6 DEF ReadySet
    <3>8. Queued(ready_list, ReadySet(threads), Priorities(th))
      BY Zenon, <1>5, <3>4
    <3>9. Queued(lists, ReadySet(threads), Priorities(threads))
      BY Zenon, <1>5, <3>1, <3>4, <3>5, <3>7, <3>8, RequeueAll
    <3>10. Runs(threads, lists, current)
      BY Zenon, <1>5, <3>3, <3>9 DEF Runs, SameStates
    <3> QED BY Zenon, <2>1, <3>2, <3>10
  <2>2. CASE tick # 0
    <3>1. lists = ready_list /\ tick = ticks + 1
      BY Zenon, <1>2, <2>2
    <3>2. CASE tick % PRI_PERIOD = 0 /\ current # Idle
      <4>1. current \in Thread
        BY Zenon, <1>5, <3>2
      <4>2. Repriced(threads, used, current)
        BY Zenon, <2>2, <3>2 DEF Repriced
      <4> HIDE DEF threads, lists
      <4>3. Usage(threads, tick) /\ SameStates(threads, used) /\ OthersKeep(threads, used, current)
        <5>1. Usage(used, tick)
          BY Zenon, <1>4, <3>1
        <5> QED BY Zenon, <4>1, <4>2, <5>1, SetPriority
      <4>4. ReadySet(threads) = ReadySet(th)
        BY Zenon, <1>6, <4>3, SameReady
      <4>5. "running" # "ready"
        OBVIOUS
      <4>6. \A t \in ReadySet(th) : t \in Thread /\ t # current
        BY Zenon, <1>5, <4>5 DEF ReadySet
      <4>7. \A t \in ReadySet(th) : Priorities(threads)[t] = Priorities(th)[t]
        BY Zenon, <1>4, <4>3, <4>6 DEF OthersKeep
      <4>8. Queued(lists, ReadySet(threads), Priorities(threads))
        BY Zenon, <1>5, <3>1, <4>4, <4>7, SameQueued
      <4>9. Runs(threads, lists, current)
        BY Zenon, <1>4, <1>5, <4>3, <4>8 DEF Runs, SameStates
      <4> QED BY Zenon, <4>3, <4>9
    <3>3. CASE ~(tick % PRI_PERIOD = 0 /\ current # Idle)
      <4>1. threads = used
        BY Zenon, <2>2, <3>3
      <4> HIDE DEF threads, lists
      <4>2. Runs(threads, lists, current)
        BY Zenon, <1>4, <1>5, <1>6, <3>1, <4>1 DEF Runs, SameStates
      <4> QED BY Zenon, <1>4, <3>1, <4>1, <4>2
    <3> QED BY Zenon, <3>2, <3>3
  <2> QED BY <2>1, <2>2
<1> HIDE DEF threads, lists
<1>8. Usage(th', tick) /\ Runs(th', ready_list', current')
  <2>1. CASE thread_ticks + 1 >= TIME_SLICE
    BY Zenon, <1>1, <1>7, <2>1, YieldRuns
  <2>2. CASE ~(thread_ticks + 1 >= TIME_SLICE)
    BY Zenon, <1>1, <1>7, <2>2
  <2> QED BY Zenon, <2>1, <2>2
<1>9. Usage(th, ticks)' /\ Runs(th, ready_list, current)' /\ (ticks \in 0..(TIMER_FREQ - 1))'
      /\ (load_avg \in 0..(f * Count))'
  BY Zenon, <1>1, <1>2, <1>3, <1>8 DEF Usage, Runs, Queued, ReadySet, Priorities, Count
<1> QED BY Zenon, <1>9 DEF IInv

(* Thread t becomes r, and every other stays what it was. *)
Replaced(new, ths, t, r) == new = [ths EXCEPT ![t] = r]

Only(new, ths, t) == \A u \in Thread : u # t => new[u] = ths[u]

(* The time used stays bounded when that of r is. *)
LEMMA Replace ==
  ASSUME NEW ths, NEW k, Usage(ths, k), NEW t \in Thread, NEW r \in Record,
         r.nice <= NiceMax, r.recent_cpu <= f * (Settled + k),
         r.status = "free" => r.recent_cpu = 0, NEW new, Replaced(new, ths, t, r)
  PROVE  Usage(new, k) /\ new[t] = r /\ Only(new, ths, t)
<1>1. ths \in [Thread -> Record] /\ new = [ths EXCEPT ![t] = r]
  BY Zenon DEF Usage, Replaced
<1>2. new[t] = r /\ Only(new, ths, t)
  BY Zenon, <1>1 DEF Only
<1>3. new \in [Thread -> Record]
  BY Zenon, <1>1
<1>4. ASSUME NEW u \in Thread
      PROVE  /\ new[u].nice <= NiceMax
             /\ new[u].recent_cpu <= f * (Settled + k)
             /\ new[u].status = "free" => new[u].recent_cpu = 0
  <2>1. CASE u = t
    BY Zenon, <1>2, <2>1
  <2>2. CASE u # t
    BY Zenon, <1>2, <2>2 DEF Only, Usage
  <2> QED BY <2>1, <2>2
<1> QED BY Zenon, <1>2, <1>3, <1>4 DEF Usage

(* The lists do not depend on a thread that is not ready.                  *)
LEMMA Unqueued ==
  ASSUME NEW ths, NEW q, Queued(q, ReadySet(ths), Priorities(ths)),
         NEW t \in Thread, ths[t].status # "ready", NEW new, Only(new, ths, t)
  PROVE  Queued(q, ReadySet(ths), Priorities(new))
<1>1. ASSUME NEW u \in ReadySet(ths) PROVE Priorities(new)[u] = Priorities(ths)[u]
  <2>1. u \in Thread /\ u # t
    BY Zenon, <1>1 DEF ReadySet
  <2>2. Priorities(new)[u] = new[u].priority /\ Priorities(ths)[u] = ths[u].priority
    BY Zenon, <2>1 DEF Priorities
  <2> QED BY Zenon, <2>1, <2>2 DEF Only
<1> QED BY Zenon, <1>1, SameQueued

(* A thread that becomes ready goes to the list of its priority.           *)
LEMMA AddReady ==
  ASSUME NEW ths, NEW q, NEW c, Runs(ths, q, c),
         NEW t \in Thread, ths[t].status # "ready", t # c,
         NEW new, NEW k, Usage(new, k), Only(new, ths, t), new[t].status = "ready"
  PROVE  Runs(new, [q EXCEPT ![new[t].priority] = PushBack(@, t)], c)
<1> DEFINE r == [q EXCEPT ![new[t].priority] = PushBack(@, t)]
<1>1. Queued(q, ReadySet(ths), Priorities(new))
  BY Zenon, Unqueued DEF Runs
<1>2. Priorities(new) \in [Thread -> Pri]
  BY Zenon, PrioritiesType
<1>3. t \notin ReadySet(ths) /\ ReadySet(ths) \in SUBSET Thread
  BY Zenon DEF ReadySet
<1>4. Priorities(new)[t] = new[t].priority
  BY Zenon DEF Priorities
<1>5. Queued([q EXCEPT ![Priorities(new)[t]] = PushBack(@, t)], ReadySet(ths) \cup {t}, Priorities(new))
  BY Zenon, <1>1, <1>2, <1>3, PushQueued
<1>6. Queued(r, ReadySet(ths) \cup {t}, Priorities(new))
  BY Zenon, <1>4, <1>5
<1> HIDE DEF r
<1>7. ReadySet(new) = ReadySet(ths) \cup {t}
  BY Zenon DEF ReadySet, Only
<1>8. Runs(new, r, c)
  BY Zenon, <1>6, <1>7 DEF Runs, Only
<1> QED BY Zenon, <1>8 DEF r

(* A thread that was not ready and is not made so leaves the lists right.  *)
LEMMA StillUnready ==
  ASSUME NEW ths, NEW q, NEW c, Runs(ths, q, c),
         NEW t \in Thread, ths[t].status # "ready",
         NEW new, Only(new, ths, t), new[t].status # "ready"
  PROVE  Queued(q, ReadySet(new), Priorities(new))
<1>1. Queued(q, ReadySet(ths), Priorities(new))
  BY Zenon, Unqueued DEF Runs
<1>2. ReadySet(new) = ReadySet(ths)
  BY Zenon DEF ReadySet, Only
<1> QED BY Zenon, <1>1, <1>2

(* What the invariant says of the running thread. *)
LEMMA Running ==
  ASSUME IInv, current # Idle
  PROVE  /\ current \in Thread /\ th[current].status = "running" /\ th[current] \in Record
         /\ th[current].nice <= NiceMax /\ th[current].recent_cpu <= f * (Settled + ticks)
<1>1. current \in Thread
  BY Zenon DEF IInv, Runs
<1> QED BY Zenon, <1>1 DEF IInv, Runs, Usage

(* The invariant of the next state, from its parts.                        *)
LEMMA Rebuild ==
  ASSUME IInv, ticks' = ticks, load_avg' = load_avg,
         Usage(th', ticks), Runs(th', ready_list', current')
  PROVE  IInv'
<1>1. Usage(th, ticks)' /\ Runs(th, ready_list, current)' /\ (ticks \in 0..(TIMER_FREQ - 1))'
      /\ (load_avg \in 0..(f * Count))'
  BY Zenon DEF IInv, Usage, Runs, Queued, ReadySet, Priorities, Count
<1> QED BY Zenon, <1>1 DEF IInv

(* thread_create. *)
LEMMA CreateStep == \A t \in Thread : IInv /\ Create(t) => IInv'
<1> SUFFICES ASSUME NEW t \in Thread, IInv, Create(t) PROVE IInv'
  OBVIOUS
<1> DEFINE r == [th[current] EXCEPT !.status = "ready"]
           p == new_priority(r)
           n == [r EXCEPT !.priority = p]
<1>1. /\ current # Idle /\ th[t].status = "free" /\ th' = [th EXCEPT ![t] = n]
      /\ ready_list' = [ready_list EXCEPT ![p] = PushBack(@, t)]
      /\ current' = current /\ load_avg' = load_avg /\ ticks' = ticks
  BY Zenon DEF Create
<1>2. /\ current \in Thread /\ th[current].status = "running" /\ th[current] \in Record
      /\ th[current].nice <= NiceMax /\ th[current].recent_cpu <= f * (Settled + ticks)
  BY Zenon, <1>1, Running
<1>3. "ready" \in Status /\ "ready" # "free" /\ "free" # "running"
  BY DEF Status
<1>4. /\ r \in Record /\ r.status = "ready" /\ r.nice = th[current].nice
      /\ r.recent_cpu = th[current].recent_cpu
  BY ZenonT(40), <1>2, <1>3, Fields
<1>5. p \in Pri
  <2> HIDE DEF r
  <2>1. r.recent_cpu \in Int /\ r.nice \in Int
    BY Zenon, <1>4, Fields
  <2> QED BY Zenon, <2>1, NewPriority
<1> HIDE DEF r, p
<1>6. /\ n \in Record /\ n.status = "ready" /\ n.nice = th[current].nice
      /\ n.recent_cpu = th[current].recent_cpu /\ n.priority = p
  BY Zenon, <1>4, <1>5, Fields
<1>7. Replaced(th', th, t, n)
  BY Zenon, <1>1 DEF Replaced
<1> HIDE DEF n
<1>8. Usage(th', ticks) /\ th'[t] = n /\ Only(th', th, t)
  <2>1. n.nice <= NiceMax /\ n.recent_cpu <= f * (Settled + ticks)
        /\ (n.status = "free" => n.recent_cpu = 0) /\ Usage(th, ticks)
    BY Zenon, <1>2, <1>3, <1>6 DEF IInv
  <2> QED BY Zenon, <1>6, <1>7, <2>1, Replace
<1>9. ready_list' = [ready_list EXCEPT ![th'[t].priority] = PushBack(@, t)]
  BY Zenon, <1>1, <1>6, <1>8
<1>10. Runs(th', ready_list', current)
  <2>1. Runs(th, ready_list, current) /\ th[t].status # "ready" /\ t # current
        /\ th'[t].status = "ready"
    BY Zenon, <1>1, <1>2, <1>3, <1>6, <1>8 DEF IInv
  <2>2. Runs(th', [ready_list EXCEPT ![th'[t].priority] = PushBack(@, t)], current)
    BY Zenon, <1>8, <2>1, AddReady
  <2> QED BY Zenon, <1>9, <2>2
<1> QED BY Zenon, <1>1, <1>8, <1>10, Rebuild

(* thread_unblock. *)
LEMMA UnblockStep == \A t \in Thread : IInv /\ thread_unblock(t) => IInv'
<1> SUFFICES ASSUME NEW t \in Thread, IInv, thread_unblock(t) PROVE IInv'
  OBVIOUS
<1>1. /\ th[t].status = "blocked" /\ Becomes(th', th, t, "ready")
      /\ ready_list' = [ready_list EXCEPT ![th[t].priority] = PushBack(@, t)]
      /\ current' = current /\ load_avg' = load_avg /\ ticks' = ticks
  BY Zenon DEF thread_unblock, Becomes
<1>2. /\ "ready" \in Status /\ "ready" # "free" /\ "blocked" # "running" /\ "blocked" # "ready"
  BY DEF Status
<1>3. Usage(th, ticks) /\ Runs(th, ready_list, current)
  BY Zenon DEF IInv
<1>4. /\ Usage(th', ticks) /\ Priorities(th') = Priorities(th) /\ Differ(th', th, t, "ready")
  BY Zenon, <1>1, <1>2, <1>3, SetStatus
<1>5. Only(th', th, t) /\ th'[t].status = "ready"
  BY Zenon, <1>1, <1>3, <1>4 DEF Only, Becomes, Differ, Usage
<1>6. th'[t].priority = th[t].priority
  <2>1. Priorities(th')[t] = th'[t].priority /\ Priorities(th)[t] = th[t].priority
    BY Zenon DEF Priorities
  <2> QED BY Zenon, <1>4, <2>1
<1>7. Runs(th', ready_list', current)
  <2>1. t # current /\ th[t].status # "ready"
    BY Zenon, <1>1, <1>2, <1>3 DEF Runs
  <2>2. Runs(th', [ready_list EXCEPT ![th'[t].priority] = PushBack(@, t)], current)
    BY Zenon, <1>3, <1>4, <1>5, <2>1, AddReady
  <2> QED BY Zenon, <1>1, <1>6, <2>2
<1> QED BY Zenon, <1>1, <1>4, <1>7, Rebuild

(* thread_set_nice. *)
LEMMA NiceStep == \A n \in Nice : IInv /\ thread_set_nice(n) => IInv'
<1> SUFFICES ASSUME NEW n \in Nice, IInv, thread_set_nice(n) PROVE IInv'
  OBVIOUS
<1> DEFINE r == [th[current] EXCEPT !.nice = n]
<1>1. /\ current # Idle /\ th' = [th EXCEPT ![current].nice = n] /\ ready_list' = ready_list
      /\ current' = current /\ load_avg' = load_avg /\ ticks' = ticks
  BY Zenon DEF thread_set_nice
<1>2. /\ current \in Thread /\ th[current].status = "running" /\ th[current] \in Record
      /\ th[current].nice <= NiceMax /\ th[current].recent_cpu <= f * (Settled + ticks)
  BY Zenon, <1>1, Running
<1>3. n \in Int /\ n <= NiceMax /\ "running" # "ready" /\ "running" # "free"
  BY MlfqsAssumption
<1>4. /\ r \in Record /\ r.status = "running" /\ r.nice = n
      /\ r.recent_cpu = th[current].recent_cpu
  <2>1. WithNice(r, th[current], n)
    BY Zenon DEF WithNice
  <2> HIDE DEF r
  <2>2. Resembles(r, th[current], n, th[current].recent_cpu)
    BY Zenon, <1>2, <1>3, <2>1, Renice
  <2> QED BY Zenon, <1>2, <2>2 DEF Resembles
<1>5. Replaced(th', th, current, r)
  BY Zenon, <1>1, <1>2 DEF Replaced, IInv, Usage
<1> HIDE DEF r
<1>6. Usage(th', ticks) /\ th'[current] = r /\ Only(th', th, current)
  <2>1. r.nice <= NiceMax /\ r.recent_cpu <= f * (Settled + ticks)
        /\ (r.status = "free" => r.recent_cpu = 0) /\ Usage(th, ticks)
    BY Zenon, <1>2, <1>3, <1>4 DEF IInv
  <2> QED BY Zenon, <1>2, <1>4, <1>5, <2>1, Replace
<1>7. Runs(th', ready_list', current)
  <2>1. Runs(th, ready_list, current) /\ th[current].status # "ready" /\ th'[current].status # "ready"
    BY ZenonT(40), <1>2, <1>3, <1>4, <1>6 DEF IInv
  <2>2. Queued(ready_list, ReadySet(th'), Priorities(th'))
    BY Zenon, <1>2, <1>6, <2>1, StillUnready
  <2> QED BY Zenon, <1>1, <1>2, <1>4, <1>6, <2>2 DEF Runs
<1> QED BY Zenon, <1>1, <1>6, <1>7, Rebuild

(* thread_block. *)
LEMMA BlockStep == IInv /\ thread_block => IInv'
<1> SUFFICES ASSUME IInv, thread_block PROVE IInv'
  OBVIOUS
<1> DEFINE new == [th EXCEPT ![current].status = "blocked"]
<1>1. current # Idle /\ schedule(new, ready_list) /\ load_avg' = load_avg /\ ticks' = ticks
  BY Zenon DEF thread_block
<1>2. current \in Thread /\ th[current].status = "running"
  BY Zenon, <1>1, Running
<1>3. /\ "blocked" \in Status /\ "blocked" # "free" /\ "blocked" # "ready" /\ "running" # "ready"
  BY DEF Status
<1>4. Usage(th, ticks) /\ Runs(th, ready_list, current)
  BY Zenon DEF IInv
<1>5. Becomes(new, th, current, "blocked") /\ Only(new, th, current)
  BY Zenon, <1>2, <1>4 DEF Becomes, Only, Usage
<1> HIDE DEF new
<1>6. Usage(new, ticks) /\ Differ(new, th, current, "blocked")
  BY ZenonT(40), <1>2, <1>3, <1>4, <1>5, SetStatus
<1>7. new[current].status = "blocked"
  BY Zenon, <1>2, <1>6 DEF Differ
<1>8. Queued(ready_list, ReadySet(new), Priorities(new))
  BY ZenonT(40), <1>2, <1>3, <1>4, <1>5, <1>7, StillUnready
<1>9. Usage(th', ticks) /\ Runs(th', ready_list', current')
  BY ZenonT(40), <1>1, <1>6, <1>8, ScheduleRuns
<1> QED BY Zenon, <1>1, <1>9, Rebuild

(* thread_exit. *)
LEMMA ExitStep == IInv /\ thread_exit => IInv'
<1> SUFFICES ASSUME IInv, thread_exit PROVE IInv'
  OBVIOUS
<1> DEFINE new == [th EXCEPT ![current] = Free]
<1>1. current # Idle /\ schedule(new, ready_list) /\ load_avg' = load_avg /\ ticks' = ticks
  BY Zenon DEF thread_exit
<1>2. current \in Thread /\ th[current].status = "running"
  BY Zenon, <1>1, Running
<1>3. "free" # "ready" /\ "running" # "ready"
  OBVIOUS
<1>4. Usage(th, ticks) /\ Runs(th, ready_list, current)
  BY Zenon DEF IInv
<1>5. Replaced(new, th, current, Free)
  BY Zenon DEF Replaced
<1>6. 0 <= NiceMax /\ 0 <= f * (Settled + ticks)
  <2>1. Settled + ticks \in Nat
    BY CountType, MlfqsAssumption DEF IInv, Settled
  <2> HIDE DEF Settled
  <2> QED BY <2>1, MlfqsAssumption
<1> HIDE DEF new
<1>7. Usage(new, ticks) /\ new[current] = Free /\ Only(new, th, current)
  <2>1. /\ Free \in Record /\ Free.nice <= NiceMax /\ Free.recent_cpu <= f * (Settled + ticks)
        /\ (Free.status = "free" => Free.recent_cpu = 0)
    BY Zenon, <1>6, FreeThread
  <2> QED BY Zenon, <1>2, <1>4, <1>5, <2>1, Replace
<1>8. Queued(ready_list, ReadySet(new), Priorities(new))
  <2>1. new[current].status # "ready" /\ th[current].status # "ready"
    BY ZenonT(40), <1>2, <1>3, <1>7, FreeThread
  <2> QED BY ZenonT(40), <1>2, <1>4, <1>7, <2>1, StillUnready
<1>9. Usage(th', ticks) /\ Runs(th', ready_list', current')
  BY ZenonT(40), <1>1, <1>7, <1>8, ScheduleRuns
<1> QED BY Zenon, <1>1, <1>9, Rebuild

(* Initially only the first thread exists, and it runs.                    *)
LEMMA InitInv == Init => IInv
<1> SUFFICES ASSUME Init PROVE IInv
  OBVIOUS
<1> DEFINE base == [t \in Thread |-> Free]
           main == [Free EXCEPT !.status = "running"]
           n == [main EXCEPT !.priority = new_priority(main)]
<1>1. /\ th = [t \in Thread |-> IF t = Main THEN n ELSE Free]
      /\ ready_list = [p \in Pri |-> <<>>] /\ current = Main
      /\ load_avg = 0 * f /\ ticks = 0
  BY Zenon DEF Init, Pri, fp_from_int
<1>2. Main \in Thread /\ "running" \in Status /\ "running" # "free" /\ "running" # "ready"
      /\ "free" # "ready"
  BY MlfqsAssumption DEF Status
<1>3. main \in Record /\ main.status = "running" /\ main.nice = 0 /\ main.recent_cpu = 0
  BY Zenon, <1>2, FreeThread, Fields
<1>4. new_priority(main) \in Pri
  <2> HIDE DEF main
  <2>1. main.recent_cpu \in Int /\ main.nice \in Int
    BY Zenon, <1>3, Fields
  <2> QED BY Zenon, <2>1, NewPriority
<1> HIDE DEF main
<1>5. n \in Record /\ n.status = "running" /\ n.nice = 0 /\ n.recent_cpu = 0
  BY ZenonT(40), <1>3, <1>4, Fields
<1> HIDE DEF n
<1>6. 0 <= NiceMax /\ 0 <= f * (Settled + 0) /\ 0 \in 0..(TIMER_FREQ - 1) /\ 0 * f \in 0..(f * Count)
  BY CountType, MlfqsAssumption DEF Settled
<1>7. Usage(base, 0)
  <2>1. base \in [Thread -> Record]
    BY Zenon, FreeThread
  <2>2. \A t \in Thread : base[t] = Free
    BY Zenon
  <2> HIDE DEF base
  <2> QED BY Zenon, <1>6, <2>1, <2>2, FreeThread DEF Usage
<1>8. Replaced(th, base, Main, n)
  BY Zenon, <1>1, <1>2 DEF Replaced
<1>9. Usage(th, 0)
  <2>1. /\ n.nice <= NiceMax /\ n.recent_cpu <= f * (Settled + 0)
        /\ (n.status = "free" => n.recent_cpu = 0)
    BY Zenon, <1>5, <1>6
  <2> HIDE DEF base
  <2> QED BY Zenon, <1>2, <1>5, <1>7, <1>8, <2>1, Replace
<1>10. th[Main] = n /\ \A t \in Thread : t # Main => th[t] = Free
  BY Zenon, <1>1, <1>2
<1>11. ReadySet(th) = {}
  BY ZenonT(40), <1>2, <1>5, <1>10, FreeThread DEF ReadySet
<1>12. Queued(ready_list, {}, Priorities(th))
  <2>1. <<>> \in Seq(Thread) /\ IsInjective(<<>>) /\ Range(<<>>) = {}
    BY DEF IsInjective, Range
  <2> QED BY Zenon, <1>1, <2>1 DEF Queued
<1>13. Runs(th, ready_list, current)
  BY ZenonT(40), <1>1, <1>2, <1>5, <1>10, <1>11, <1>12 DEF Runs
<1> QED BY ZenonT(40), <1>1, <1>6, <1>9, <1>13 DEF IInv

(* No step breaks the invariant.                                           *)
LEMMA NextInv == IInv /\ [Next]_vars => IInv'
<1> SUFFICES ASSUME IInv, [Next]_vars PROVE IInv'
  OBVIOUS
<1>1. CASE Next
  BY ZenonT(40), <1>1, CreateStep, UnblockStep, NiceStep, BlockStep, ExitStep, TimerStep DEF Next
<1>2. CASE UNCHANGED vars
  <2>1. /\ th' = th /\ ready_list' = ready_list /\ current' = current
        /\ load_avg' = load_avg /\ ticks' = ticks
    BY Zenon, <1>2 DEF vars
  <2>2. Usage(th', ticks) /\ Runs(th', ready_list', current')
    BY Zenon, <2>1 DEF IInv
  <2> QED BY Zenon, <2>1, <2>2, Rebuild
<1> QED BY <1>1, <1>2

(* The invariant holds throughout.                                         *)
THEOREM Invariant == Spec => []IInv
BY InitInv, NextInv, PTL DEF Spec

(* UsageBounded: load_avg never exceeds the number of threads, and the     *)
(* decay of recent_cpu outweighs what a second of running adds to it,      *)
(* whatever the threads do and however long they run.                      *)
THEOREM Bounded == Spec => []UsageBounded
<1>1. IInv => UsageBounded
  <2> SUFFICES ASSUME IInv PROVE UsageBounded
    OBVIOUS
  <2> DEFINE B == (2 * Count + 1) * (TIMER_FREQ + NiceMax) + TIMER_FREQ
  <2>1. Count * f = f * Count /\ load_avg \in 0..(f * Count)
    BY CountType, MlfqsAssumption DEF IInv
  <2>2. f * (Settled + ticks) <= B * f /\ f * (Settled + ticks) \in Int /\ B * f \in Int
    <3>1. Settled + ticks \in Int /\ B \in Int /\ Settled + ticks <= B /\ f \in Nat
      BY CountType, MlfqsAssumption DEF IInv, Settled
    <3> HIDE DEF B
    <3>2. f * (Settled + ticks) <= f * B
      BY ZenonT(40), <3>1, TimesGrows
    <3> QED BY <3>1, <3>2
  <2>3. ASSUME NEW t \in Thread PROVE th[t].recent_cpu <= B * f
    <3> HIDE DEF B
    <3>1. th[t] \in Record /\ th[t].recent_cpu <= f * (Settled + ticks)
      BY Zenon DEF IInv, Usage
    <3>2. th[t].recent_cpu \in Int
      BY ZenonT(40), <3>1, Fields
    <3> QED BY <2>2, <3>1, <3>2
  <2> QED BY Zenon, <2>1, <2>3 DEF UsageBounded, Count, fp_from_int
<1> QED BY <1>1, Invariant, PTL

(* ReadyQueues: a thread is on a ready list exactly when it is ready, once *)
(* and on the list of its present priority, through every recomputation of *)
(* the priorities by the timer interrupt.                                  *)
THEOREM QueuesRight == Spec => []ReadyQueues
<1>1. IInv => ReadyQueues
  <2> SUFFICES ASSUME IInv, NEW t \in Thread, NEW p \in Pri
               PROVE  Cardinality({i \in DOMAIN ready_list[p] : ready_list[p][i] = t})
                        = IF th[t].status = "ready" /\ th[t].priority = p THEN 1 ELSE 0
    BY Zenon DEF ReadyQueues, Pri
  <2> DEFINE q == ready_list[p]
             at == {i \in DOMAIN q : q[i] = t}
  <2>1. IsInjective(q) /\ Range(q) = {u \in ReadySet(th) : Priorities(th)[u] = p}
    BY Zenon DEF IInv, Runs, Queued
  <2>2. t \in Range(q) <=> th[t].status = "ready" /\ th[t].priority = p
    BY Zenon, <2>1 DEF ReadySet, Priorities
  <2>3. CASE t \in Range(q)
    <3>1. PICK i \in DOMAIN q : q[i] = t
      BY Zenon, <2>3 DEF Range
    <3>2. at = {i}
      BY ZenonT(40), <2>1, <3>1 DEF IsInjective
    <3>3. Cardinality(at) = 1
      BY Zenon, <3>2, FS_Singleton
    <3> QED BY ZenonT(40), <2>2, <2>3, <3>3
  <2>4. CASE t \notin Range(q)
    <3>1. at = {}
      BY Zenon, <2>4 DEF Range
    <3>2. Cardinality(at) = 0
      BY Zenon, <3>1, FS_EmptySet
    <3> QED BY Zenon, <2>2, <2>4, <3>2
  <2> QED BY <2>3, <2>4
<1> QED BY <1>1, Invariant, PTL
=============================================================================
