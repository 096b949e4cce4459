------------------------------- MODULE Stdlib -------------------------------
(***************************************************************************)
(* lib/stdlib.c (sort, binary_search), lib/arithmetic.c (64-bit division   *)
(* from 32-bit operations) and lib/random.c (the RC4 generator).           *)
(*                                                                         *)
(* Sizes are parameters: W is the width of a machine word (32 in the       *)
(* code), a long is 2W bits wide, and the generator permutes the numbers   *)
(* below R (256 in the code).                                              *)
(***************************************************************************)
EXTENDS Integers, Sequences
LOCAL INSTANCE SequencesExt

CONSTANTS W, R

(* sort: an array is a sequence of keys, which "compare" subtracts. *)
do_swap(a, i, j) == [a EXCEPT ![i] = a[j], ![j] = a[i]]

RECURSIVE heapify(_, _, _)
heapify(a, i, cnt) ==
  LET left  == 2 * i
      right == 2 * i + 1
      m     == IF left <= cnt /\ a[left] > a[i] THEN left ELSE i
      max   == IF right <= cnt /\ a[right] > a[m] THEN right ELSE m
  IN  IF max = i THEN a ELSE heapify(do_swap(a, i, max), max, cnt)

Downto(n, m) == [k \in 1..(n - m + 1) |-> n + 1 - k]

sort(array) ==
  LET cnt == Len(array)
      heap == FoldLeft(LAMBDA a, i : heapify(a, i, cnt), array,
                       Downto(cnt \div 2, 1))
  IN  FoldLeft(LAMBDA a, i : heapify(do_swap(a, 1, i), 1, i - 1), heap,
               Downto(cnt, 2))

(* binary_search in positions first..last-1: a position, or 0. *)
RECURSIVE binary_search(_, _, _, _)
binary_search(key, a, first, last) ==
  IF first >= last THEN 0
  ELSE LET middle == first + (last - first) \div 2
       IN  IF key < a[middle] THEN binary_search(key, a, first, middle)
           ELSE IF key > a[middle] THEN binary_search(key, a, middle + 1, last)
           ELSE middle
-----------------------------------------------------------------------------
(* arithmetic.c.  B is the base of the words a long is made of. *)
B == 2 ^ W
Long(x) == x % (B * B)
Trap == -1

(* The x86 DIVL instruction: traps if the quotient does not fit a word. *)
divl(n, d) == IF n \div d >= B THEN Trap ELSE n \div d

(* nlz's steps for a word of W bits: W/2, W/4, ..., 1. *)
RECURSIVE nlz_from(_, _, _)
nlz_from(x, k, n) ==
  IF k = 0 THEN n
  ELSE IF x <= 2 ^ (W - k) - 1 THEN nlz_from(x * 2 ^ k, k \div 2, n + k)
  ELSE nlz_from(x, k \div 2, n)
nlz(x) == nlz_from(x, W \div 2, 0)

udiv64(n, d) ==
  IF d \div B = 0
  THEN divl((B * ((n \div B) % d)) + (n % B), d) + B * ((n \div B) \div d)
  ELSE IF n < d THEN 0
  ELSE LET s == nlz(d \div B)
           q == divl(n \div 2, Long(d * 2 ^ s) \div B) \div 2 ^ (W - 1 - s)
       IN  IF Long(n - (q - 1) * d) < d THEN q - 1 ELSE q

(* The remainder is returned as a word. *)
umod64(n, d) == Long(n - d * udiv64(n, d)) % B

Abs(x) == IF x < 0 THEN -x ELSE x
Signed(x) == IF 2 * x >= B * B THEN x - B * B ELSE x

sdiv64(n, d) ==
  LET q == udiv64(Long(Abs(n)), Long(Abs(d)))
  IN  Signed(Long(IF (n < 0) = (d < 0) THEN q ELSE -q))
-----------------------------------------------------------------------------
(* random.c: the state is the array s and the indexes i and j. *)
swap_byte(s, i, j) == [s EXCEPT ![i] = s[j], ![j] = s[i]]

random_init(seed) ==
  FoldLeft(LAMBDA g, i :
             LET j == (g.j + g.s[i] + seed[(i % Len(seed)) + 1]) % R
             IN  [s |-> swap_byte(g.s, i, j), i |-> 0, j |-> j],
           [s |-> [i \in 0..(R - 1) |-> i], i |-> 0, j |-> 0],
           [k \in 1..R |-> k - 1]).s

random_byte(g) ==
  LET i == (g.i + 1) % R
      j == (g.j + g.s[i]) % R
      s == swap_byte(g.s, i, j)
  IN  [s |-> s, i |-> i, j |-> j, byte |-> s[(s[i] + s[j]) % R]]
-----------------------------------------------------------------------------
(* What is checked of an array, a divisor and a seed. *)
SortsArray(a) ==
  LET r == sort(a)
  IN  /\ \A i \in 1..(Len(r) - 1) : r[i] <= r[i + 1]
      /\ \A k \in ToSet(a) \cup ToSet(r) :
           Len(SelectSeq(r, LAMBDA x : x = k)) = Len(SelectSeq(a, LAMBDA x : x = k))
      /\ \A k \in 0..4 :
           LET at == binary_search(k, r, 1, Len(r) + 1)
           IN  IF k \in ToSet(a) THEN r[at] = k ELSE at = 0

DividesLongs(d) ==
  \A n \in 0..(B * B - 1) :
    LET sn == Signed(n)
        sd == Signed(d)
        q  == Abs(sn) \div Abs(sd)
    IN  /\ udiv64(n, d) = n \div d
        /\ n % d < B => umod64(n, d) = n % d
        /\ 2 * q < B * B =>
             sdiv64(sn, sd) = IF (sn < 0) = (sd < 0) THEN q ELSE -q

RECURSIVE Run(_, _)
Run(g, n) == IF n = 0 THEN g ELSE Run(random_byte(g), n - 1)

(* After any number of bytes the array still holds every number once, so   *)
(* no value is lost to the generator.                                      *)
Permutes(seed) ==
  \A n \in 0..(2 * R) :
    LET g == Run([s |-> random_init(seed), i |-> 0, j |-> 0, byte |-> 0], n)
    IN  {g.s[i] : i \in DOMAIN g.s} = 0..(R - 1)
=============================================================================
