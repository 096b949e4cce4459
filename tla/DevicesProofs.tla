--------------------------- MODULE DevicesProofs ---------------------------
(***************************************************************************)
(* For every size of the rings, every set of threads and all their         *)
(* scripts: the ring of intq.c is a first-in first-out queue, and the      *)
(* serial port keeps the bytes of both directions in order and its         *)
(* interrupts armed.  PortInv is the inductive invariant: the types, and   *)
(* the three properties, which count the bytes in the rings and in the     *)
(* registers as well.                                                      *)
(*                                                                         *)
(* For the disk channel it is ChannelInv: the thread that holds the lock   *)
(* is the only one inside a call, and Progress relates where it is to the  *)
(* disk's registers and to the one completion that is under way, as an     *)
(* interrupt that is pending or as an up of the semaphore.                 *)
(*                                                                         *)
(* For printing it is PrintInv: the thread that holds console_lock is in   *)
(* the middle of a text, and nobody else prints one.                       *)
(***************************************************************************)
EXTENDS Devices, SequenceTheorems, TLAPS

-----------------------------------------------------------------------------
(* The ring.                                                               *)

(* Length, Place and next, on the numbers they compute with. *)
Between(t, h, N) == IF h >= t THEN h - t ELSE h + N - t
Walk(t, i, N) == IF t + i < N THEN t + i ELSE t + i - N
Step(p, N) == IF p + 1 < N THEN p + 1 ELSE 0

(* The places of the bytes between tail and head lie in the ring and are   *)
(* not the head, which is the place after them.                            *)
LEMMA RingPlaces ==
  ASSUME NEW N \in Nat, NEW t \in 0..(N - 1), NEW h \in 0..(N - 1)
  PROVE  /\ \A i \in 1..Between(t, h, N) : /\ Walk(t, i - 1, N) \in 0..(N - 1)
                                          /\ Walk(t, i - 1, N) # h
         /\ Walk(t, Between(t, h, N), N) = h
BY SMT DEF Between, Walk

(* A step of the head makes room for one byte more, a step of the tail for *)
(* one less, and the places after the new tail are those after the old one.*)
LEMMA RingSteps ==
  ASSUME NEW N \in Nat, NEW t \in 0..(N - 1), NEW h \in 0..(N - 1)
  PROVE  /\ Step(h, N) # t => Between(t, Step(h, N), N) = Between(t, h, N) + 1
         /\ h # t => Between(Step(t, N), h, N) = Between(t, h, N) - 1
         /\ \A i \in 1..(N - 1) : Walk(Step(t, N), i - 1, N) = Walk(t, i + 1 - 1, N)
BY SMT DEF Between, Walk, Step

(* next walks around the ring. *)
LEMMA NextPosition ==
  ASSUME NEW pos \in Position
  PROVE  next(pos) = IF pos + 1 < INTQ_BUFSIZE THEN pos + 1 ELSE 0
<1> USE IntqAssumption
<1>1. CASE pos + 1 < INTQ_BUFSIZE
  BY <1>1, SMT DEF next, Position
<1>2. CASE pos + 1 = INTQ_BUFSIZE
  BY <1>2, SMT DEF next, Position
<1> QED BY <1>1, <1>2, SMT DEF Position

(* The ring holds at most INTQ_BUFSIZE - 1 bytes, intq_full tells when it  *)
(* does, and intq_empty when it holds none.                                *)
THEOREM RingCapacity ==
  ASSUME NEW B, NEW T, NEW q \in Queue(B, T)
  PROVE  /\ Length(q) \in 0..(INTQ_BUFSIZE - 1)
         /\ intq_full(q) <=> Length(q) = INTQ_BUFSIZE - 1
         /\ intq_empty(q) <=> Length(q) = 0
<1>1. q.head \in Position /\ q.tail \in Position
  BY DEF Queue
<1>2. next(q.head) = IF q.head + 1 < INTQ_BUFSIZE THEN q.head + 1 ELSE 0
  BY <1>1, NextPosition
<1> QED BY <1>1, <1>2, IntqAssumption, SMT DEF Length, intq_full, intq_empty, Position

(* The bytes in the ring form a sequence. *)
LEMMA ContentsSeq ==
  ASSUME NEW B, NEW T, NEW q \in Queue(B, T)
  PROVE  /\ Contents(q) \in Seq(B) /\ Len(Contents(q)) = Length(q)
         /\ \A i \in 1..Length(q) : Contents(q)[i] = q.buf[Place(q, i - 1)]
<1>1. q.head \in Position /\ q.tail \in Position /\ q.buf \in [Position -> B]
  BY DEF Queue
<1>2. Length(q) \in Nat
  BY RingCapacity, IntqAssumption
<1>3. \A i \in 1..Length(q) : Place(q, i - 1) \in Position
  BY Zenon, <1>1, RingPlaces, IntqAssumption DEF Place, Walk, Length, Between, Position
<1>4. \A i \in 1..Length(q) : q.buf[Place(q, i - 1)] \in B
  BY <1>1, <1>3
<1> QED BY <1>2, <1>4, SMT DEF Contents

(* intq_putc on a ring that is not full appends the byte. *)
THEOREM PutAppends ==
  ASSUME NEW B, NEW T, NEW q \in Queue(B, T), NEW byte \in B, NULL \in T, ~intq_full(q)
  PROVE  /\ intq_putc(q, byte) \in Queue(B, T)
         /\ Contents(intq_putc(q, byte)) = Append(Contents(q), byte)
<1> DEFINE r == intq_putc(q, byte)
<1> USE IntqAssumption
<1>1. q.head \in Position /\ q.tail \in Position /\ q.buf \in [Position -> B]
  BY DEF Queue
<1>2. next(q.head) = IF q.head + 1 < INTQ_BUFSIZE THEN q.head + 1 ELSE 0
  BY <1>1, NextPosition
<1>3. next(q.head) \in Position
  BY <1>1, <1>2, SMT DEF Position
<1>4. r \in Queue(B, T)
  BY Zenon, <1>1, <1>3 DEF Queue, intq_putc
<1>5. /\ r.head = next(q.head) /\ r.tail = q.tail
      /\ r.buf = [q.buf EXCEPT ![q.head] = byte]
  BY DEF intq_putc, Queue
<1>6. Length(r) = Length(q) + 1
  <2>1. Length(r) = Between(q.tail, next(q.head), INTQ_BUFSIZE)
    BY Zenon, <1>5 DEF Length, Between
  <2>2. next(q.head) # q.tail
    BY Zenon DEF intq_full
  <2>3. next(q.head) = Step(q.head, INTQ_BUFSIZE)
    BY Zenon, <1>2 DEF Step
  <2>4. Length(r) = Between(q.tail, q.head, INTQ_BUFSIZE) + 1
    BY Zenon, <1>1, <2>1, <2>2, <2>3, RingSteps DEF Position
  <2> QED BY Zenon, <2>4 DEF Length, Between
<1>7. Place(r, Length(q)) = q.head
  <2>1. Place(r, Length(q)) = Walk(q.tail, Between(q.tail, q.head, INTQ_BUFSIZE), INTQ_BUFSIZE)
    BY Zenon, <1>5 DEF Place, Walk, Length, Between
  <2> QED BY Zenon, <1>1, <2>1, RingPlaces DEF Position
<1>8. ASSUME NEW i \in 1..Length(q)
      PROVE  Contents(r)[i] = Contents(q)[i]
  <2>1. Length(q) \in 0..(INTQ_BUFSIZE - 1)
    BY RingCapacity
  <2>2. Place(r, i - 1) = Place(q, i - 1)
    BY <1>5 DEF Place
  <2>3. Place(q, i - 1) \in Position /\ Place(q, i - 1) # q.head
    <3>1. Place(q, i - 1) = Walk(q.tail, i - 1, INTQ_BUFSIZE)
      BY Zenon DEF Place, Walk
    <3>2. i \in 1..Between(q.tail, q.head, INTQ_BUFSIZE)
      BY Zenon DEF Length, Between
    <3>3. \A k \in 1..Between(q.tail, q.head, INTQ_BUFSIZE) :
            Walk(q.tail, k - 1, INTQ_BUFSIZE) \in Position \ {q.head}
      BY Zenon, <1>1, RingPlaces DEF Position
    <3> QED BY Zenon, <3>1, <3>2, <3>3
  <2>4. i \in 1..Length(r)
    BY <1>6, <2>1
  <2>5. Contents(r)[i] = r.buf[Place(r, i - 1)]
    BY <1>4, <2>4, ContentsSeq
  <2> QED BY <1>1, <1>5, <2>2, <2>3, <2>5, ContentsSeq
<1>9. Contents(r)[Length(q) + 1] = byte
  <2>1. Length(q) \in 0..(INTQ_BUFSIZE - 1)
    BY RingCapacity
  <2>2. Contents(r)[Length(q) + 1] = r.buf[Place(r, Length(q) + 1 - 1)]
    BY <1>4, <1>6, <2>1, ContentsSeq
  <2> QED BY <1>1, <1>5, <1>7, <2>1, <2>2
<1>10. Contents(q) \in Seq(B) /\ Len(Contents(q)) = Length(q)
  BY ContentsSeq
<1>11. Contents(r) \in Seq(B) /\ Len(Contents(r)) = Length(q) + 1
  BY <1>4, <1>6, ContentsSeq
<1>12. Contents(r) = Append(Contents(q), byte)
  BY <1>8, <1>9, <1>10, <1>11, RingCapacity, SMT
<1> QED BY <1>4, <1>12

(* intq_getc on a ring that is not empty takes the oldest byte. *)
THEOREM GetTakes ==
  ASSUME NEW B, NEW T, NEW q \in Queue(B, T), NULL \in T, ~intq_empty(q)
  PROVE  /\ intq_getc(q) \in Queue(B, T)
         /\ First(q) \in B
         /\ Contents(q) = <<First(q)>> \o Contents(intq_getc(q))
         /\ ~intq_full(intq_getc(q))
<1> DEFINE r == intq_getc(q)
<1> USE IntqAssumption
<1>1. q.head \in Position /\ q.tail \in Position /\ q.buf \in [Position -> B]
  BY DEF Queue
<1>2. next(q.tail) = IF q.tail + 1 < INTQ_BUFSIZE THEN q.tail + 1 ELSE 0
  BY <1>1, NextPosition
<1>3. next(q.tail) \in Position
  BY <1>1, <1>2, SMT DEF Position
<1>4. r \in Queue(B, T)
  BY Zenon, <1>3 DEF Queue, intq_getc
<1>5. r.head = q.head /\ r.tail = next(q.tail) /\ r.buf = q.buf
  BY DEF intq_getc, Queue
<1>6. First(q) \in B
  BY <1>1 DEF First
<1> DEFINE n == next(q.tail)
<1>7. Length(r) = Length(q) - 1
  <2>1. Length(r) = Between(n, q.head, INTQ_BUFSIZE)
    BY Zenon, <1>5 DEF Length, Between
  <2>2. n = Step(q.tail, INTQ_BUFSIZE)
    BY Zenon, <1>2 DEF Step
  <2>3. q.head # q.tail
    BY Zenon DEF intq_empty
  <2>4. Length(r) = Between(q.tail, q.head, INTQ_BUFSIZE) - 1
    BY Zenon, <1>1, <2>1, <2>2, <2>3, RingSteps DEF Position
  <2> QED BY Zenon, <2>4 DEF Length, Between
<1>8. Length(q) \in 1..(INTQ_BUFSIZE - 1)
  BY RingCapacity, SMT
<1>9. Contents(q)[1] = First(q)
  <2>1. Contents(q)[1] = q.buf[Place(q, 1 - 1)]
    BY <1>8, ContentsSeq
  <2>2. Place(q, 1 - 1) = q.tail
    BY <1>1, SMT DEF Place, Position
  <2> QED BY <2>1, <2>2 DEF First
<1>10. ASSUME NEW i \in 1..Length(r)
       PROVE  Contents(q)[i + 1] = Contents(r)[i]
  <2>1. i + 1 \in 1..Length(q)
    BY <1>7, <1>8
  <2>2. Contents(q)[i + 1] = q.buf[Place(q, i + 1 - 1)]
    BY <2>1, ContentsSeq
  <2>3. Contents(r)[i] = r.buf[Place(r, i - 1)]
    BY <1>4, ContentsSeq
  <2>4. Place(r, i - 1) = Walk(n, i - 1, INTQ_BUFSIZE)
    BY Zenon, <1>5 DEF Place, Walk
  <2>5. n = Step(q.tail, INTQ_BUFSIZE)
    BY Zenon, <1>2 DEF Step
  <2>6. i \in 1..(INTQ_BUFSIZE - 1)
    BY <1>8, <2>1
  <2>7. Place(q, i + 1 - 1) = Place(r, i - 1)
    <3>1. Place(q, i + 1 - 1) = Walk(q.tail, i + 1 - 1, INTQ_BUFSIZE)
      BY Zenon DEF Place, Walk
    <3> QED BY Zenon, <1>1, <2>4, <2>5, <2>6, <3>1, RingSteps DEF Position
  <2> QED BY <1>5, <2>2, <2>3, <2>7
<1>11. Contents(q) \in Seq(B) /\ Len(Contents(q)) = Length(q)
  BY ContentsSeq
<1>12. Contents(r) \in Seq(B) /\ Len(Contents(r)) = Length(q) - 1
  BY <1>4, <1>7, ContentsSeq
<1>13. Contents(q) = <<First(q)>> \o Contents(r)
  <2> HIDE DEF r
  <2> DEFINE s == <<First(q)>> \o Contents(r)
  <2>1. <<First(q)>> \in Seq(B) /\ Len(<<First(q)>>) = 1
    BY <1>6
  <2>2. s \in Seq(B) /\ Len(s) = Length(q)
    BY <1>8, <1>12, <2>1
  <2>3. ASSUME NEW i \in 1..Len(s)
        PROVE  Contents(q)[i] = s[i]
    <3>1. CASE i = 1
      BY <1>9, <1>12, <2>1, <3>1
    <3>2. CASE i > 1
      <4>1. i - 1 \in 1..Length(r)
        BY <1>7, <1>8, <2>2, <3>2
      <4>2. Contents(q)[(i - 1) + 1] = Contents(r)[i - 1]
        BY <1>10, <4>1
      <4>3. s[i] = Contents(r)[i - 1]
        BY <1>8, <1>12, <2>1, <2>2, <3>2
      <4> QED BY <2>2, <4>2, <4>3
    <3> QED BY <2>2, <3>1, <3>2
  <2> QED BY <1>8, <1>11, <2>2, <2>3, SeqEqual
<1>14. ~intq_full(r)
  BY <1>4, <1>7, <1>8, RingCapacity
<1> QED BY <1>4, <1>6, <1>13, <1>14
-----------------------------------------------------------------------------
(* The port.                                                               *)

(* Only the position of a queue matters for what it holds. *)
LEMMA SameRing ==
  ASSUME NEW q, NEW r, r.head = q.head, r.tail = q.tail, r.buf = q.buf
  PROVE  /\ Contents(r) = Contents(q)
         /\ intq_full(r) = intq_full(q)
         /\ intq_empty(r) = intq_empty(q)
BY DEF Contents, Length, Place, intq_full, intq_empty

(* A register holds a sequence of at most one byte.                        *)
LEMMA ByteSeq ==
  ASSUME NEW r \in Register
  PROVE  /\ Byte(r) \in Seq(Char)
         /\ r # NULL => Byte(r) = <<r>> /\ r \in Char
         /\ r = NULL => Byte(r) = <<>>
BY DEF Byte, Register

(* Concatenating sequences of bytes is associative. *)
LEMMA BytesAssociative == \A a, b, c \in Seq(Char) : (a \o b) \o c = a \o (b \o c)
BY SMTT(30), ConcatAssociative

(* The other laws of sequences of bytes that the streams use. *)
LEMMA BytesConcat ==
  /\ \A a, b \in Seq(Char) : a \o b \in Seq(Char)
  /\ \A a \in Seq(Char) : a \o <<>> = a
  /\ \A a \in Seq(Char), b \in Char : Append(a, b) = a \o <<b>> /\ <<b>> \in Seq(Char)
<1>1. \A a, b \in Seq(Char) : a \o b \in Seq(Char)
  OBVIOUS
<1>2. \A a \in Seq(Char) : a \o <<>> = a
  BY ConcatEmptySeq
<1>3. \A a \in Seq(Char), b \in Char : Append(a, b) = a \o <<b>> /\ <<b>> \in Seq(Char)
  BY AppendIsConcat
<1> QED BY Zenon, <1>1, <1>2, <1>3

(* The texts are sequences of bytes. *)
LEMMA TextsType == Texts \subseteq Seq(Char)
<1> SUFFICES ASSUME NEW t \in Thread, NEW i \in DOMAIN Script[t], Script[t][i].op = "putbuf"
             PROVE  Script[t][i].text \in Seq(Char)
  BY DEF Texts
<1>1. Script[t][i] \in ConsoleCall \cup DiskCall
  BY ScriptAssumption
<1> QED BY <1>1 DEF ConsoleCall, DiskCall

(* NotMixed, of any bytes printed. *)
Mixless(w) ==
  \A i, k \in 1..Len(w) :
    (/\ i < k /\ w[i] # Message /\ w[k] # Message
     /\ \A m \in (i + 1)..(k - 1) : w[m] = Message)
    => Follows(w[i], w[k])

(* Of the bytes w, those of texts end with c; there is none; the last one  *)
(* ends a text.                                                            *)
LastIs(w, c) ==
  /\ c # Message
  /\ \E i \in 1..Len(w) : w[i] = c /\ \A m \in (i + 1)..Len(w) : w[m] = Message
Silent(w) == \A m \in 1..Len(w) : w[m] = Message
BetweenTexts(w) == Silent(w) \/ \E x \in Texts : x # <<>> /\ LastIs(w, x[Len(x)])

(* s is what remains of a text whose first j bytes are the last of w. *)
RestOf(w, s, x, j) ==
  /\ Len(s) = Len(x) - j
  /\ \A n \in 1..Len(s) : s[n] = x[j + n]
  /\ IF j = 0 THEN BetweenTexts(w) ELSE LastIs(w, x[j])
Rest(w, s) == \E x \in Texts : \E j \in 0..Len(x) : RestOf(w, s, x, j)

(* A message changes none of this. *)
LEMMA MessageAppended ==
  ASSUME NEW w \in Seq(Char)
  PROVE  /\ Mixless(w) => Mixless(Append(w, Message))
         /\ \A c : LastIs(w, c) => LastIs(Append(w, Message), c)
         /\ Silent(w) => Silent(Append(w, Message))
<1> DEFINE v == Append(w, Message)
<1>1. /\ Len(v) = Len(w) + 1 /\ v[Len(w) + 1] = Message /\ Len(w) \in Nat
      /\ \A i \in 1..Len(w) : v[i] = w[i]
  BY ConsoleAssumption
<1> HIDE DEF v
<1>2. ASSUME Mixless(w) PROVE Mixless(v)
  <2> SUFFICES ASSUME NEW i \in 1..Len(v), NEW k \in 1..Len(v), i < k,
                      v[i] # Message, v[k] # Message,
                      \A m \in (i + 1)..(k - 1) : v[m] = Message
               PROVE  Follows(v[i], v[k])
    BY Zenon DEF Mixless
  <2>1. i \in 1..Len(w) /\ k \in 1..Len(w)
    BY <1>1
  <2>2. v[i] = w[i] /\ v[k] = w[k] /\ \A m \in (i + 1)..(k - 1) : w[m] = Message
    BY <1>1, <2>1
  <2> QED BY Zenon, <1>2, <2>1, <2>2 DEF Mixless
<1>3. ASSUME NEW c, LastIs(w, c) PROVE LastIs(v, c)
  BY <1>1, <1>3 DEF LastIs
<1>4. Silent(w) => Silent(v)
  BY <1>1 DEF Silent
<1> QED BY Zenon, <1>2, <1>3, <1>4 DEF v

(* A byte of a text, that may come after the last one. *)
LEMMA ByteAppended ==
  ASSUME NEW w \in Seq(Char), NEW c \in Char, c # Message, Mixless(w),
         \A d : LastIs(w, d) => Follows(d, c)
  PROVE  Mixless(Append(w, c)) /\ LastIs(Append(w, c), c)
<1> DEFINE v == Append(w, c)
<1>1. /\ Len(v) = Len(w) + 1 /\ v[Len(w) + 1] = c /\ Len(w) \in Nat
      /\ \A i \in 1..Len(w) : v[i] = w[i]
  OBVIOUS
<1> HIDE DEF v
<1>2. Mixless(v)
  <2> SUFFICES ASSUME NEW i \in 1..Len(v), NEW k \in 1..Len(v), i < k,
                      v[i] # Message, v[k] # Message,
                      \A m \in (i + 1)..(k - 1) : v[m] = Message
               PROVE  Follows(v[i], v[k])
    BY Zenon DEF Mixless
  <2>1. i \in 1..Len(w) /\ (k \in 1..Len(w) \/ k = Len(w) + 1)
    BY <1>1
  <2>2. v[i] = w[i] /\ \A m \in (i + 1)..(k - 1) : w[m] = Message
    BY <1>1, <2>1
  <2>3. CASE k \in 1..Len(w)
    BY Zenon, <1>1, <2>1, <2>2, <2>3 DEF Mixless
  <2>4. CASE k = Len(w) + 1
    <3>1. LastIs(w, w[i])
      BY <1>1, <2>1, <2>2, <2>4 DEF LastIs
    <3> QED BY Zenon, <1>1, <2>2, <2>4, <3>1
  <2> QED BY Zenon, <2>1, <2>3, <2>4
<1>3. LastIs(v, c)
  BY <1>1 DEF LastIs
<1> QED BY Zenon, <1>2, <1>3 DEF v

(* There is one last byte. *)
LEMMA OneLast ==
  ASSUME NEW w \in Seq(Char), NEW c, NEW d, LastIs(w, c)
  PROVE  ~Silent(w) /\ (LastIs(w, d) => c = d)
BY DEF LastIs, Silent

(* A text begins, goes on by its next byte, and ends. *)
LEMMA RestBegins ==
  ASSUME NEW w, NEW s \in Texts, BetweenTexts(w)
  PROVE  Rest(w, s)
<1>1. s \in Seq(Char)
  BY Zenon, TextsType
<1>2. 0 \in 0..Len(s) /\ Len(s) = Len(s) - 0 /\ \A n \in 1..Len(s) : s[n] = s[0 + n]
  BY <1>1
<1>3. RestOf(w, s, s, 0)
  BY Zenon, <1>2 DEF RestOf
<1> QED BY Zenon, <1>2, <1>3 DEF Rest

(* The next byte of the text. *)
LEMMA RestPrints ==
  ASSUME NEW w \in Seq(Char), NEW s \in Seq(Char), s # <<>>, Rest(w, s), Mixless(w)
  PROVE  Mixless(Append(w, Head(s))) /\ Rest(Append(w, Head(s)), Tail(s))
<1>1. PICK x \in Texts : \E j \in 0..Len(x) : RestOf(w, s, x, j)
  BY Zenon DEF Rest
<1>2. PICK j \in 0..Len(x) : RestOf(w, s, x, j)
  BY Zenon, <1>1
<1> DEFINE c == Head(s)
           v == Append(w, c)
<1>3. x \in Seq(Char) /\ Len(x) \in Nat
  BY TextsType
<1>4. /\ Len(s) = Len(x) - j /\ \A n \in 1..Len(s) : s[n] = x[j + n]
      /\ IF j = 0 THEN BetweenTexts(w) ELSE LastIs(w, x[j])
  BY Zenon, <1>2 DEF RestOf
<1>5. /\ j \in Nat /\ j + 1 \in 1..Len(x) /\ j < Len(x) /\ c = x[j + 1] /\ c \in Char
      /\ Len(s) \in Nat /\ Len(Tail(s)) = Len(x) - (j + 1)
      /\ \A n \in 1..Len(Tail(s)) : Tail(s)[n] = x[(j + 1) + n]
  <2>1. /\ Len(s) \in Nat \ {0} /\ c = s[1] /\ c \in Char /\ Len(Tail(s)) = Len(s) - 1
        /\ \A n \in 1..Len(Tail(s)) : Tail(s)[n] = s[n + 1]
    OBVIOUS
  <2>2. Len(s) = Len(x) - j /\ j \in Nat
    <3>1. \A n : \A i \in 0..n : i \in Nat
      OBVIOUS
    <3> QED BY Zenon, <1>4, <3>1
  <2> HIDE DEF c
  <2>3. /\ j + 1 \in 1..Len(x) /\ j < Len(x) /\ Len(Tail(s)) = Len(x) - (j + 1)
        /\ 1 \in 1..Len(s)
    BY <1>3, <2>1, <2>2
  <2>4. c = x[j + 1]
    BY Zenon, <1>4, <2>1, <2>3
  <2>5. ASSUME NEW n \in 1..Len(Tail(s)) PROVE Tail(s)[n] = x[(j + 1) + n]
    <3>1. n + 1 \in 1..Len(s) /\ j + (n + 1) = (j + 1) + n
      BY <2>1, <2>2
    <3>2. s[n + 1] = x[j + (n + 1)]
      BY Zenon, <1>4, <3>1
    <3> QED BY Zenon, <2>1, <3>1, <3>2
  <2> QED BY Zenon, <2>1, <2>2, <2>3, <2>4, <2>5
<1>6. c # Message
  BY Zenon, <1>5, TextAssumption
<1>7. ASSUME NEW d, LastIs(w, d) PROVE Follows(d, c)
  <2>1. CASE j = 0
    <3>1. PICK y \in Texts : y # <<>> /\ LastIs(w, y[Len(y)])
      BY Zenon, <1>4, <1>7, <2>1, OneLast DEF BetweenTexts
    <3>2. y \in Seq(Char) /\ Len(y) \in 1..Len(y) /\ ~(Len(y) < Len(y))
      BY <3>1, TextsType
    <3>3. d = y[Len(y)] /\ c = x[1]
      <4>1. j + 1 = 1
        BY <2>1
      <4> QED BY ZenonT(40), <1>5, <1>7, <3>1, <4>1, OneLast
    <3> QED BY Zenon, <3>2, <3>3 DEF Follows
  <2>2. CASE j # 0
    <3>1. j \in 1..Len(x)
      BY <1>5, <2>2
    <3>2. d = x[j]
      BY Zenon, <1>4, <1>7, <2>2, OneLast
    <3> QED BY Zenon, <1>5, <3>1, <3>2 DEF Follows
  <2> QED BY Zenon, <2>1, <2>2
<1> HIDE DEF c
<1>8. Mixless(v) /\ LastIs(v, c)
  BY Zenon, <1>5, <1>6, <1>7, ByteAppended
<1>9. j + 1 # 0 /\ j + 1 \in 0..Len(x)
  BY <1>5
<1>10. RestOf(v, Tail(s), x, j + 1)
  BY Zenon, <1>5, <1>8, <1>9 DEF RestOf
<1>11. Rest(v, Tail(s))
  BY Zenon, <1>9, <1>10 DEF Rest
<1> QED BY Zenon, <1>8, <1>11 DEF c

(* The end of the text. *)
LEMMA RestEnds ==
  ASSUME NEW w \in Seq(Char), Rest(w, <<>>)
  PROVE  BetweenTexts(w)
<1>1. PICK x \in Texts : \E j \in 0..Len(x) : RestOf(w, <<>>, x, j)
  BY Zenon DEF Rest
<1>2. PICK j \in 0..Len(x) : RestOf(w, <<>>, x, j)
  BY Zenon, <1>1
<1>3. x \in Seq(Char) /\ Len(x) = j /\ (j # 0 => x # <<>>)
  BY <1>2, TextsType DEF RestOf
<1>4. IF j = 0 THEN BetweenTexts(w) ELSE LastIs(w, x[j])
  BY Zenon, <1>2 DEF RestOf
<1> QED BY Zenon, <1>3, <1>4 DEF BetweenTexts

(* What remains, after a message. *)
LEMMA RestKept ==
  ASSUME NEW w \in Seq(Char)
  PROVE  /\ BetweenTexts(w) => BetweenTexts(Append(w, Message))
         /\ \A s : Rest(w, s) => Rest(Append(w, Message), s)
<1> DEFINE v == Append(w, Message)
<1>1. BetweenTexts(w) => BetweenTexts(v)
  BY Zenon, MessageAppended DEF BetweenTexts
<1>2. ASSUME NEW s, NEW x \in Texts, NEW j \in 0..Len(x), RestOf(w, s, x, j) PROVE RestOf(v, s, x, j)
  BY Zenon, <1>1, <1>2, MessageAppended DEF RestOf
<1> QED BY Zenon, <1>1, <1>2 DEF Rest

(* Thread t, with calls c still to finish, at p, when h holds console_lock *)
(* and w is printed.  Every text is still whole but the one t is printing. *)
Whole(c, h, t) ==
  \A i \in 1..Len(c) : c[i].op = "putbuf" /\ (i # 1 \/ h # t) => c[i].text \in Texts
Prints(c) == c # <<>> /\ c[1].op = "putbuf"
Standing(c, p, h, t, w) ==
  /\ Whole(c, h, t)
  /\ IF h = t THEN Prints(c) /\ p # "call" /\ Rest(w, c[1].text)
     ELSE Prints(c) => p = "call"

(* The call at the head. *)
LEMMA HeadFirst ==
  ASSUME NEW S, NEW c \in Seq(S), c # <<>>
  PROVE  Head(c) = c[1]
OBVIOUS

(* What remains of a call that prints. *)
LEMMA PrintedCall ==
  ASSUME NEW c \in Seq(ConsoleCall \cup DiskCall), Prints(c)
  PROVE  LET d == <<Printed(Head(c))>> \o Tail(c)
         IN  /\ c[1].text \in Seq(Char) /\ Len(d) = Len(c) /\ d # <<>>
             /\ d[1].op = "putbuf" /\ d[1].text = Tail(c[1].text)
             /\ \A i \in 1..Len(c) : i # 1 => d[i] = c[i]
<1>1. c[1] \in [op : {"putbuf"}, text : Seq(Char)] /\ Head(c) = c[1] /\ c # <<>>
  BY DEF Prints, ConsoleCall, DiskCall
<1> DEFINE r == Printed(Head(c))
<1>2. r.op = "putbuf" /\ r.text = Tail(c[1].text) /\ c[1].text \in Seq(Char)
  BY <1>1 DEF Printed
<1> HIDE DEF r
<1>3. LET d == <<r>> \o Tail(c)
      IN  Len(d) = Len(c) /\ d # <<>> /\ d[1] = r /\ \A i \in 1..Len(c) : i # 1 => d[i] = c[i]
  BY <1>1
<1> QED BY Zenon, <1>2, <1>3 DEF r

(* The texts of the script. *)
LEMMA ScriptTexts ==
  ASSUME NEW t \in Thread
  PROVE  \A i \in 1..Len(Script[t]) : Script[t][i].op = "putbuf" => Script[t][i].text \in Texts
BY ScriptAssumption DEF Texts

(* Who may wait in a queue. *)
LEMMA QueueHolders ==
  ASSUME NEW q \in Queue(Char, Holder)
  PROVE  q.not_full \in Holder /\ q.not_empty \in Holder /\ NULL \in Holder
BY DEF Queue, Holder

(* A thread that does not print may be anywhere. *)
LEMMA StandingMoves ==
  ASSUME NEW c, NEW p, NEW q, NEW h, NEW t, NEW w, Standing(c, p, h, t, w),
         (p = "call" <=> q = "call") \/ ~Prints(c)
  PROVE  Standing(c, q, h, t, w)
BY Zenon DEF Standing

(* A call returns. *)
LEMMA StandingReturns ==
  ASSUME NEW S, NEW c \in Seq(S), NEW p, NEW h, NEW g, NEW t, NEW w, g # t, c # <<>>,
         Standing(c, p, h, t, w)
  PROVE  Standing(Tail(c), "call", g, t, w)
<1>1. Len(Tail(c)) = Len(c) - 1 /\ Len(c) \in Nat /\ \A i \in 1..Len(Tail(c)) : Tail(c)[i] = c[i + 1]
  OBVIOUS
<1>2. Whole(Tail(c), g, t)
  <2> SUFFICES ASSUME NEW i \in 1..Len(Tail(c)), Tail(c)[i].op = "putbuf"
               PROVE  Tail(c)[i].text \in Texts
    BY Zenon DEF Whole
  <2>1. i + 1 \in 1..Len(c) /\ i + 1 # 1
    BY <1>1
  <2>2. Tail(c)[i] = c[i + 1]
    BY Zenon, <1>1
  <2> QED BY Zenon, <2>1, <2>2 DEF Standing, Whole
<1> QED BY Zenon, <1>2 DEF Standing

(* A print begins. *)
LEMMA StandingTakes ==
  ASSUME NEW S, NEW c \in Seq(S), NEW p, NEW h, NEW t, NEW w, h # t, Prints(c), BetweenTexts(w),
         Standing(c, p, h, t, w)
  PROVE  Standing(c, "putc", t, t, w)
<1>1. 1 \in 1..Len(c)
  BY DEF Prints
<1>2. c[1].text \in Texts /\ Whole(c, t, t)
  BY Zenon, <1>1 DEF Standing, Whole, Prints
<1>3. Rest(w, c[1].text)
  BY Zenon, <1>2, RestBegins
<1>4. "putc" # "call"
  OBVIOUS
<1> QED BY Zenon, <1>2, <1>3, <1>4 DEF Standing

(* A byte is printed: c becomes d. *)
LEMMA StandingPrints ==
  ASSUME NEW c, NEW d, NEW p, NEW t, NEW w \in Seq(Char), Mixless(w), Standing(c, p, t, t, w),
         c[1].text \in Seq(Char), c[1].text # <<>>, Len(d) = Len(c), d # <<>>,
         d[1].op = "putbuf", d[1].text = Tail(c[1].text),
         \A i \in 1..Len(c) : i # 1 => d[i] = c[i]
  PROVE  /\ Mixless(Append(w, Head(c[1].text)))
         /\ Standing(d, "putc", t, t, Append(w, Head(c[1].text)))
<1> DEFINE s == c[1].text
           v == Append(w, Head(s))
<1>1. Mixless(v) /\ Rest(v, Tail(s))
  BY Zenon, RestPrints DEF Standing
<1>2. Whole(d, t, t)
  BY Zenon DEF Standing, Whole
<1>3. "putc" # "call"
  OBVIOUS
<1> HIDE DEF v
<1>4. Standing(d, "putc", t, t, v)
  BY Zenon, <1>1, <1>2, <1>3 DEF Standing, Prints
<1> QED BY Zenon, <1>1, <1>4 DEF v

(* A message is printed; a thread that does not hold the lock is not       *)
(* concerned by what is printed, nor by who else holds it.                 *)
LEMMA StandingKept ==
  ASSUME NEW c, NEW p, NEW h, NEW t, NEW w, Standing(c, p, h, t, w)
  PROVE  /\ w \in Seq(Char) => Standing(c, p, h, t, Append(w, Message))
         /\ \A g, v : h # t /\ g # t => Standing(c, p, g, t, v)
<1>1. w \in Seq(Char) => Standing(c, p, h, t, Append(w, Message))
  BY Zenon, RestKept DEF Standing
<1>2. \A g, v : h # t /\ g # t => Standing(c, p, g, t, v)
  BY Zenon DEF Standing, Whole
<1> QED BY Zenon, <1>1, <1>2

(* The bytes on the way are a sequence of bytes.                           *)
LEMMA StreamSeq ==
  ASSUME NEW l \in Seq(Char), NEW r \in Register, NEW q \in Queue(Char, Holder)
  PROVE  Stream(l, r, q) \in Seq(Char)
BY Zenon, ByteSeq, ContentsSeq, BytesConcat DEF Stream

(* A byte put in the queue is the last on the way. *)
LEMMA StreamPut ==
  ASSUME NEW l \in Seq(Char), NEW r \in Register, NEW q \in Queue(Char, Holder),
         NEW b \in Char, ~intq_full(q)
  PROVE  Stream(l, r, intq_putc(q, b)) = Append(Stream(l, r, q), b)
<1> DEFINE c == Contents(q)
           a == l \o Byte(r)
<1>1. c \in Seq(Char) /\ a \in Seq(Char) /\ <<b>> \in Seq(Char)
  BY Zenon, ContentsSeq, ByteSeq, BytesConcat
<1>2. Contents(intq_putc(q, b)) = Append(c, b)
  BY PutAppends DEF Holder
<1>3. Append(c, b) = c \o <<b>> /\ a \o c \in Seq(Char)
  BY Zenon, <1>1, BytesConcat
<1>4. Append(a \o c, b) = (a \o c) \o <<b>>
  BY Zenon, <1>3, BytesConcat
<1>5. (a \o c) \o <<b>> = a \o (c \o <<b>>)
  <2> HIDE DEF a, c
  <2> QED BY ZenonT(30), <1>1, BytesAssociative
<1> QED BY Zenon, <1>2, <1>3, <1>4, <1>5 DEF Stream

(* The oldest byte moves from the queue to the empty register. *)
LEMMA StreamSend ==
  ASSUME NEW l \in Seq(Char), NEW q \in Queue(Char, Holder), ~intq_empty(q)
  PROVE  Stream(l, First(q), intq_getc(q)) = Stream(l, NULL, q)
<1> DEFINE f == First(q)
           c == Contents(intq_getc(q))
<1>1. /\ intq_getc(q) \in Queue(Char, Holder) /\ f \in Char
      /\ Contents(q) = <<f>> \o c
  BY ZenonT(30), GetTakes DEF Holder
<1>2. c \in Seq(Char) /\ <<f>> \in Seq(Char)
  BY <1>1, ContentsSeq
<1>3. Byte(f) = <<f>>
  BY <1>1, ConsoleAssumption DEF Byte
<1>4. l \o Byte(NULL) = l
  BY ConcatEmptySeq DEF Byte
<1>5. (l \o <<f>>) \o c = l \o (<<f>> \o c)
  BY Zenon, <1>2, BytesAssociative
<1> QED BY <1>1, <1>3, <1>4, <1>5 DEF Stream

(* The byte in the register leaves on the line. *)
LEMMA StreamLeave ==
  ASSUME NEW l \in Seq(Char), NEW r \in Char, NEW q
  PROVE  Stream(Append(l, r), NULL, q) = Stream(l, r, q)
<1>1. Append(l, r) \in Seq(Char) /\ Append(l, r) = l \o <<r>>
  BY AppendProperties, AppendIsConcat
<1>2. Append(l, r) \o Byte(NULL) = Append(l, r)
  BY <1>1, ConcatEmptySeq DEF Byte
<1>3. Byte(r) = <<r>>
  BY ZenonT(40), ConsoleAssumption DEF Byte
<1> QED BY Zenon, <1>1, <1>2, <1>3 DEF Stream

(* Polling out the oldest byte keeps the order. *)
LEMMA StreamPoll ==
  ASSUME NEW l \in Seq(Char), NEW u \in [thr : Register, rbr : Register],
         NEW q \in Queue(Char, Holder), ~intq_empty(q)
  PROVE  LET p == putc_poll(u, l, First(q))
         IN  /\ p.line \in Seq(Char) /\ p.uart \in [thr : Register, rbr : Register]
             /\ p.uart.rbr = u.rbr
             /\ Stream(p.line, p.uart.thr, intq_getc(q)) = Stream(l, u.thr, q)
<1> DEFINE p == putc_poll(u, l, First(q))
<1>1. First(q) \in Char
  BY Zenon, GetTakes DEF Holder
<1>2. p.uart = [u EXCEPT !.thr = First(q)]
  BY DEF putc_poll
<1>3. p.uart.thr = First(q) /\ p.uart \in [thr : Register, rbr : Register]
      /\ p.uart.rbr = u.rbr
  BY <1>1, <1>2 DEF Register
<1>4. p.line = IF u.thr = NULL THEN l ELSE Append(l, u.thr)
  BY DEF putc_poll
<1>5. CASE u.thr = NULL
  BY Zenon, <1>3, <1>4, <1>5, StreamSend
<1>6. CASE u.thr # NULL
  <2>1. u.thr \in Char
    BY <1>6 DEF Register
  <2>2. p.line \in Seq(Char) /\ p.line = Append(l, u.thr)
    BY <1>4, <1>6, <2>1, AppendProperties
  <2>3. Stream(p.line, First(q), intq_getc(q)) = Stream(p.line, NULL, q)
    BY Zenon, <2>2, StreamSend
  <2> QED BY <1>3, <2>1, <2>2, <2>3, StreamLeave
<1> QED BY <1>5, <1>6

(* wait and the release after it touch no byte of the ring. *)
LEMMA WaitKeeps ==
  ASSUME NEW q \in Queue(Char, Holder), NEW t \in Thread,
         NEW w \in {"not_full", "not_empty"}
  PROVE  LET r == wait(q, t, w).q
         IN  /\ r \in Queue(Char, Holder)
             /\ r.head = q.head /\ r.tail = q.tail /\ r.buf = q.buf
<1>1. CASE w = "not_full"
  BY Zenon, <1>1 DEF wait, Queue, Holder
<1>2. CASE w = "not_empty"
  BY Zenon, <1>2 DEF wait, Queue, Holder
<1> QED BY <1>1, <1>2

(* A waiter that resumes leaves the ring as it is.                         *)
LEMMA ResumeKeeps ==
  ASSUME NEW q \in Queue(Char, Holder), NEW t \in Thread
  PROVE  LET r == Resume(q, t)
         IN  /\ r \in Queue(Char, Holder)
             /\ r.head = q.head /\ r.tail = q.tail /\ r.buf = q.buf
BY Zenon DEF Resume, Queue, Holder

(* What serial_flush leaves: all but the last byte on the line, the last in *)
(* the register, and the ring empty.                                        *)
LEMMA StreamFlush ==
  ASSUME NEW l \in Seq(Char), NEW r \in Register, NEW q \in Queue(Char, Holder),
         ~intq_empty(q)
  PROVE  LET sent == (IF r = NULL THEN <<>> ELSE <<r>>) \o Contents(q)
             n == Len(sent)
             e == [q EXCEPT !.tail = q.head, !.not_full = NULL]
             k == l \o SubSeq(sent, 1, n - 1)
         IN  /\ sent[n] \in Char /\ k \in Seq(Char)
             /\ e \in Queue(Char, Holder) /\ intq_empty(e)
             /\ Stream(k, sent[n], e) = Stream(l, r, q)
<1> DEFINE sent == Byte(r) \o Contents(q)
           n == Len(sent)
           e == [q EXCEPT !.tail = q.head, !.not_full = NULL]
           front == SubSeq(sent, 1, n - 1)
           k == l \o front
<1>1. /\ Byte(r) \in Seq(Char) /\ Contents(q) \in Seq(Char)
      /\ Len(Contents(q)) = Length(q) /\ Length(q) > 0
  BY ByteSeq, ContentsSeq, RingCapacity, IntqAssumption
<1>2. sent \in Seq(Char) /\ n \in Nat /\ n > 0
  BY <1>1, ConcatProperties
<1> HIDE DEF sent
<1>3. sent[n] \in Char /\ front \in Seq(Char) /\ sent = front \o <<sent[n]>>
  <2>1. sent[n] \in Char
    BY <1>2, ElementOfSeq
  <2>2. \A i \in 1..(n - 1) : sent[i] \in Char
    BY <1>2, ElementOfSeq
  <2>3. front \in Seq(Char)
    BY <1>2, <2>2, SubSeqProperties
  <2>4. SubSeq(sent, 1, n) = front \o <<sent[n]>>
    BY <1>2, SubSeqRecursiveSecond
  <2> QED BY Zenon, <1>2, <2>1, <2>3, <2>4, SubSeqFull
<1>4. k \in Seq(Char)
  BY Zenon, <1>3, ConcatProperties
<1>5. e \in Queue(Char, Holder) /\ e.head = q.head /\ e.tail = q.head
  BY Zenon DEF Queue, Holder
<1>6. intq_empty(e) /\ Contents(e) = <<>>
  <2>1. intq_empty(e)
    BY Zenon, <1>5 DEF intq_empty
  <2> HIDE DEF e
  <2>2. Length(e) = 0
    BY Zenon, <1>5, <2>1, RingCapacity
  <2>3. Contents(e) \in Seq(Char) /\ Len(Contents(e)) = 0
    BY Zenon, <1>5, <2>2, ContentsSeq
  <2> QED BY <2>1, <2>3, EmptySeq
<1>7. Byte(sent[n]) = <<sent[n]>> /\ <<sent[n]>> \in Seq(Char)
  <2>1. \A c \in Char : Byte(c) = <<c>> /\ <<c>> \in Seq(Char)
    BY ConsoleAssumption DEF Byte
  <2> QED BY Zenon, <1>3, <2>1
<1>8. (k \o <<sent[n]>>) \o <<>> = k \o <<sent[n]>>
  BY <1>4, <1>7, ConcatProperties, ConcatEmptySeq
<1>9. \A a, b, c \in Seq(Char) : (a \o b) \o c = a \o (b \o c)
  BY Zenon, BytesAssociative
<1>10. k \o <<sent[n]>> = l \o sent /\ (l \o Byte(r)) \o Contents(q) = l \o sent
  <2> HIDE DEF front, n
  <2>1. (l \o front) \o <<sent[n]>> = l \o (front \o <<sent[n]>>)
    BY Zenon, <1>3, <1>7, <1>9
  <2>2. (l \o Byte(r)) \o Contents(q) = l \o (Byte(r) \o Contents(q))
    BY Zenon, <1>1, <1>9
  <2> QED BY Zenon, <1>3, <2>1, <2>2 DEF sent
<1>11. Stream(k, sent[n], e) = Stream(l, r, q)
  BY Zenon, <1>6, <1>7, <1>8, <1>10 DEF Stream
<1> HIDE DEF k, e, n, front
<1> QED BY ZenonT(30), <1>3, <1>4, <1>5, <1>6, <1>11 DEF sent, Byte, k, e, n, front

(* A byte read leaves the ring. *)
LEMMA InputTake ==
  ASSUME NEW g \in Seq(Char), NEW q \in Queue(Char, Holder), ~intq_empty(q)
  PROVE  Append(g, First(q)) \o Contents(intq_getc(q)) = g \o Contents(q)
<1> DEFINE f == First(q)
           c == Contents(intq_getc(q))
<1>1. /\ intq_getc(q) \in Queue(Char, Holder) /\ f \in Char
      /\ Contents(q) = <<f>> \o c
  BY Zenon, GetTakes DEF Holder
<1>2. c \in Seq(Char) /\ <<f>> \in Seq(Char) /\ Append(g, f) = g \o <<f>>
  BY <1>1, ContentsSeq, AppendIsConcat
<1>3. (g \o <<f>>) \o c = g \o (<<f>> \o c)
  BY ZenonT(30), <1>2, BytesAssociative
<1> QED BY Zenon, <1>1, <1>2, <1>3

(* A byte stored leaves the receiver's register. *)
LEMMA InputStore ==
  ASSUME NEW g \in Seq(Char), NEW q \in Queue(Char, Holder), NEW r \in Char,
         ~intq_full(q)
  PROVE  (g \o Contents(intq_putc(q, r))) \o Byte(NULL) = (g \o Contents(q)) \o Byte(r)
<1> DEFINE c == Contents(q)
<1>1. Contents(intq_putc(q, r)) = Append(c, r)
  BY PutAppends DEF Holder
<1>2. /\ c \in Seq(Char) /\ <<r>> \in Seq(Char)
      /\ Append(c, r) = c \o <<r>> /\ c \o <<r>> \in Seq(Char)
  BY ContentsSeq, AppendIsConcat, ConcatProperties
<1> HIDE DEF c
<1>3. g \o (c \o <<r>>) \in Seq(Char)
  BY <1>2, ConcatProperties
<1>4. (g \o (c \o <<r>>)) \o <<>> = g \o (c \o <<r>>)
  BY <1>3, ConcatEmptySeq
<1>5. (g \o c) \o <<r>> = g \o (c \o <<r>>)
  BY Zenon, <1>2, BytesAssociative
<1>6. Byte(NULL) = <<>> /\ Byte(r) = <<r>>
  BY ConsoleAssumption DEF Byte
<1> QED BY Zenon, <1>1, <1>2, <1>4, <1>5, <1>6 DEF c

(* A byte arrives in the register. *)
LEMMA InputArrives ==
  ASSUME NEW g \in Seq(Char), NEW q \in Queue(Char, Holder), NEW n \in Nat,
         n < Len(Incoming), (g \o Contents(q)) \o Byte(NULL) = SubSeq(Incoming, 1, n)
  PROVE  /\ Incoming[n + 1] \in Char
         /\ (g \o Contents(q)) \o Byte(Incoming[n + 1]) = SubSeq(Incoming, 1, n + 1)
<1> DEFINE b == Incoming[n + 1]
<1>1. Incoming \in Seq(Char) /\ n + 1 \in 1..Len(Incoming)
  BY ConsoleAssumption
<1>2. b \in Char
  BY <1>1, ElementOfSeq
<1>3. Byte(NULL) = <<>> /\ \A c \in Char : Byte(c) = <<c>>
  BY ConsoleAssumption DEF Byte
<1>4. SubSeq(Incoming, 1, n + 1) = SubSeq(Incoming, 1, n) \o <<b>>
  <2>1. /\ 1 \in 1..Len(Incoming) /\ n + 1 \in 1..Len(Incoming) /\ (n + 1) - 1 = n
    BY <1>1
  <2> QED BY <1>1, <2>1, SubSeqRecursiveSecond
<1>5. g \o Contents(q) \in Seq(Char)
  BY ContentsSeq, ConcatProperties
<1>6. (g \o Contents(q)) \o <<>> = g \o Contents(q)
  BY <1>5, ConcatEmptySeq
<1> QED BY Zenon, <1>2, <1>3, <1>4, <1>6
-----------------------------------------------------------------------------
(* The invariant.                                                          *)

PortInv == PortTypeOK /\ OutputInOrder /\ InputInOrder /\ InterruptsArmed

(* The port as serial_init leaves it.                                      *)
LEMMA PortInit == Init => PortInv
<1> SUFFICES ASSUME Init PROVE PortInv
  BY Zenon
<1> USE DEF Init, ConsoleInit
<1>1. intq_init \in Queue(Char, Holder) /\ intq_empty(intq_init)
  BY IntqAssumption, ConsoleAssumption DEF intq_init, Queue, Holder, Position, intq_empty
<1>2. Contents(intq_init) = <<>>
  <2>1. Contents(intq_init) \in Seq(Char) /\ Len(Contents(intq_init)) = 0
    BY <1>1, ContentsSeq, RingCapacity
  <2> QED BY ZenonT(30), <2>1, EmptySeq
<1>3. PortTypeOK
  BY <1>1, ConsoleAssumption, ScriptAssumption DEF PortTypeOK, Register
<1>4. OutputInOrder
  BY <1>2, ConcatEmptySeq DEF OutputInOrder, Stream, Byte
<1>5. InputInOrder
  BY <1>2, ConcatEmptySeq, SubSeqEmpty DEF InputInOrder, Byte
<1>6. InterruptsArmed
  BY <1>1 DEF InterruptsArmed, write_ier
<1> QED BY <1>3, <1>4, <1>5, <1>6 DEF PortInv

(* A step that leaves the port alone. *)
LEMMA PortUnchanged ==
  ASSUME PortInv, UNCHANGED portVars, todo' \in [Thread -> Seq(ConsoleCall \cup DiskCall)]
  PROVE  PortInv'
BY Zenon DEF PortInv, portVars, PortTypeOK, OutputInOrder, InputInOrder, InterruptsArmed

(* The end of a call. *)
LEMMA ReturnType ==
  ASSUME PortTypeOK, NEW t \in Thread, todo[t] # <<>>, Return(t)
  PROVE  todo' \in [Thread -> Seq(ConsoleCall \cup DiskCall)]
<1>1. Tail(todo[t]) \in Seq(ConsoleCall \cup DiskCall)
  BY HeadTailProperties DEF PortTypeOK
<1> QED BY <1>1 DEF Return, PortTypeOK

(* write_ier arms what InterruptsArmed asks for. *)
LEMMA Armed ==
  ASSUME NEW tx, NEW in
  PROVE  /\ ~intq_empty(tx) => "XMIT" \in write_ier(tx, in)
         /\ "RECV" \in write_ier(tx, in) <=> ~intq_full(in)
BY DEF write_ier

(* Printing by a thread. *)
LEMMA PutcStep ==
  ASSUME PortInv, NEW t \in Thread, serial_putc(t)
  PROVE  PortInv'
<1> DEFINE q == IF pc[t] = "woken" THEN Resume(txq, t) ELSE txq
           w == wait(q, t, "not_full")
           call == Head(todo[t])
           b == Head(Text(t))
<1>1. PortTypeOK /\ OutputInOrder /\ InputInOrder /\ InterruptsArmed
  BY DEF PortInv
<1>2. /\ q \in Queue(Char, Holder)
      /\ q.head = txq.head /\ q.tail = txq.tail /\ q.buf = txq.buf
  BY ZenonT(30), <1>1, ResumeKeeps DEF PortTypeOK
<1>3. UNCHANGED <<buffer, uart, line, came, got>> /\ todo[t] # <<>> /\ call.op = "putbuf"
  BY DEF serial_putc, Calls
<1>4. InputInOrder'
  BY Zenon, <1>1, <1>3 DEF InputInOrder
<1>5. Stream(line, uart.thr, q) = written
  BY Zenon, <1>1, <1>2, SameRing DEF OutputInOrder, Stream
<1> HIDE DEF q
<1>6. CASE pc[t] = "lock" \/ intq_full(q)
  <2>1. txq' = w.q /\ UNCHANGED <<todo, ier, written>>
    BY ZenonT(30), <1>6 DEF serial_putc, q
  <2>2. /\ w.q \in Queue(Char, Holder)
        /\ w.q.head = txq.head /\ w.q.tail = txq.tail /\ w.q.buf = txq.buf
    BY <1>2, WaitKeeps
  <2>3. /\ Contents(txq') = Contents(txq) /\ intq_empty(txq') = intq_empty(txq)
    BY Zenon, <2>1, <2>2, SameRing
  <2>4. PortTypeOK'
    BY Zenon, <1>1, <1>3, <2>1, <2>2 DEF PortTypeOK
  <2>5. OutputInOrder'
    BY Zenon, <1>1, <1>3, <2>1, <2>3 DEF OutputInOrder, Stream
  <2>6. InterruptsArmed'
    BY Zenon, <1>1, <1>3, <2>1, <2>3 DEF InterruptsArmed
  <2> QED BY <1>4, <2>4, <2>5, <2>6 DEF PortInv
<1>7. CASE ~(pc[t] = "lock" \/ intq_full(q))
  <2>1. /\ txq' = intq_putc(q, b)
        /\ ier' = write_ier(txq', buffer)
        /\ written' = Append(written, b)
        /\ todo' = [todo EXCEPT ![t] = <<Printed(call)>> \o Tail(todo[t])]
        /\ Text(t) # <<>>
    <3> USE DEF q
    <3>1. txq' = intq_putc(q, b)
      BY Zenon, <1>7 DEF serial_putc
    <3>2. ier' = write_ier(txq', buffer)
      BY <1>7 DEF serial_putc
    <3>3. written' = Append(written, b)
      BY Zenon, <1>7 DEF serial_putc
    <3>4. todo' = [todo EXCEPT ![t] = <<Printed(call)>> \o Tail(todo[t])]
      BY Zenon, <1>7 DEF serial_putc
    <3>5. Text(t) # <<>>
      BY <1>7 DEF serial_putc
    <3> QED BY Zenon, <3>1, <3>2, <3>3, <3>4, <3>5
  <2>2. call \in ConsoleCall \cup DiskCall /\ Tail(todo[t]) \in Seq(ConsoleCall \cup DiskCall)
    BY <1>1, <1>3, HeadTailProperties DEF PortTypeOK
  <2>3. call \in [op : {"putbuf"}, text : Seq(Char)]
    BY Zenon, <1>3, <2>2 DEF ConsoleCall, DiskCall
  <2>4. b \in Char /\ Tail(call.text) \in Seq(Char)
    BY <2>1, <2>3, HeadTailProperties DEF Text
  <2>5. Printed(call) \in ConsoleCall \cup DiskCall
    <3>1. Printed(call) \in [op : {"putbuf"}, text : Seq(Char)]
      BY Zenon, <2>3, <2>4 DEF Printed
    <3> QED BY <3>1 DEF ConsoleCall
  <2>6. todo' \in [Thread -> Seq(ConsoleCall \cup DiskCall)]
    <3> DEFINE c == Printed(call)
               C == ConsoleCall \cup DiskCall
    <3> HIDE DEF c, C
    <3>1. <<c>> \in Seq(C) /\ Tail(todo[t]) \in Seq(C)
      BY <2>2, <2>5 DEF c, C
    <3>2. <<c>> \o Tail(todo[t]) \in Seq(C)
      BY <3>1, ConcatProperties
    <3>3. todo \in [Thread -> Seq(C)] /\ todo' = [todo EXCEPT ![t] = <<c>> \o Tail(todo[t])]
      BY Zenon, <1>1, <2>1 DEF PortTypeOK, c, C
    <3> QED BY <3>2, <3>3 DEF C
  <2>7. txq' \in Queue(Char, Holder)
    BY Zenon, <1>2, <1>7, <2>1, <2>4, PutAppends DEF Holder
  <2>8. Stream(line, uart.thr, txq') = Append(written, b)
    <3>1. line \in Seq(Char) /\ uart.thr \in Register
      BY Zenon, <1>1 DEF PortTypeOK
    <3>2. Stream(line, uart.thr, intq_putc(q, b)) = Append(Stream(line, uart.thr, q), b)
      BY Zenon, <1>2, <1>7, <2>4, <3>1, StreamPut
    <3> QED BY <1>5, <2>1, <3>2
  <2>9. PortTypeOK'
    BY Zenon, <1>1, <1>3, <2>1, <2>4, <2>6, <2>7, AppendProperties DEF PortTypeOK
  <2>10. OutputInOrder'
    BY Zenon, <1>3, <2>1, <2>8 DEF OutputInOrder
  <2>11. InterruptsArmed'
    BY <1>3, <2>1, Armed DEF InterruptsArmed
  <2> QED BY <1>4, <2>9, <2>10, <2>11 DEF PortInv
<1> QED BY <1>6, <1>7

(* Printing by an interrupt handler. *)
LEMMA PrintOffStep ==
  ASSUME PortInv, PrintOff(Message), UNCHANGED <<todo, buffer, came, got>>
  PROVE  PortInv'
<1> DEFINE p == putc_poll(uart, line, First(txq))
           full == intq_full(txq)
           q == IF full THEN intq_getc(txq) ELSE txq
<1>1. PortTypeOK /\ OutputInOrder /\ InputInOrder /\ InterruptsArmed
  BY DEF PortInv
<1>2. /\ txq' = intq_putc(q, Message) /\ written' = Append(written, Message)
      /\ uart' = IF full THEN p.uart ELSE uart
      /\ line' = IF full THEN p.line ELSE line
      /\ ier' = write_ier(txq', buffer)
  BY Zenon DEF PrintOff
<1>3. /\ line' \in Seq(Char) /\ uart' \in [thr : Register, rbr : Register]
      /\ uart'.rbr = uart.rbr /\ q \in Queue(Char, Holder) /\ ~intq_full(q)
      /\ Stream(line', uart'.thr, q) = written
  <2>1. CASE full
    <3>1. ~intq_empty(txq)
      BY <1>1, <2>1, RingCapacity, IntqAssumption DEF PortTypeOK
    <3>2. intq_getc(txq) \in Queue(Char, Holder) /\ ~intq_full(intq_getc(txq))
      BY ZenonT(30), <1>1, <3>1, GetTakes DEF PortTypeOK, Holder
    <3>3. /\ p.line \in Seq(Char) /\ p.uart \in [thr : Register, rbr : Register]
          /\ p.uart.rbr = uart.rbr
          /\ Stream(p.line, p.uart.thr, intq_getc(txq)) = Stream(line, uart.thr, txq)
      BY <1>1, <3>1, StreamPoll DEF PortTypeOK
    <3> HIDE DEF p
    <3> QED BY Zenon, <1>1, <1>2, <2>1, <3>2, <3>3 DEF OutputInOrder
  <2>2. CASE ~full
    BY <1>1, <1>2, <2>2, Zenon DEF PortTypeOK, OutputInOrder
  <2> QED BY <2>1, <2>2, Zenon
<1> HIDE DEF q, full, p
<1>4. txq' \in Queue(Char, Holder)
  BY ZenonT(30), <1>2, <1>3, ConsoleAssumption, PutAppends DEF Holder
<1>5. OutputInOrder'
  <2>1. uart'.thr \in Register
    BY <1>3
  <2>2. Stream(line', uart'.thr, intq_putc(q, Message)) = Append(Stream(line', uart'.thr, q), Message)
    BY Zenon, <1>3, <2>1, ConsoleAssumption, StreamPut
  <2> QED BY <1>2, <1>3, <2>2 DEF OutputInOrder
<1>6. PortTypeOK'
  BY Zenon, <1>1, <1>2, <1>3, <1>4, ConsoleAssumption, AppendProperties DEF PortTypeOK
<1>7. InputInOrder'
  BY Zenon, <1>1, <1>3 DEF InputInOrder
<1>8. InterruptsArmed'
  BY <1>2, Armed DEF InterruptsArmed
<1> QED BY <1>5, <1>6, <1>7, <1>8 DEF PortInv

(* Polling out the queue. *)
LEMMA FlushStep ==
  ASSUME PortInv, NEW t \in Thread, serial_flush(t)
  PROVE  PortInv'
<1> DEFINE sent == (IF uart.thr = NULL THEN <<>> ELSE <<uart.thr>>) \o Contents(txq)
           n == Len(sent)
           e == [txq EXCEPT !.tail = txq.head, !.not_full = NULL]
           k == line \o SubSeq(sent, 1, n - 1)
<1>1. PortTypeOK /\ OutputInOrder /\ InputInOrder /\ InterruptsArmed
  BY DEF PortInv
<1>2. todo' \in [Thread -> Seq(ConsoleCall \cup DiskCall)]
  BY <1>1, ReturnType DEF serial_flush, Calls
<1>3. UNCHANGED <<buffer, ier, written, came, got>>
  BY DEF serial_flush
<1>4. CASE intq_empty(txq)
  BY <1>2, <1>3, <1>4, PortUnchanged DEF serial_flush, portVars
<1>5. CASE ~intq_empty(txq)
  <2>1. txq' = e /\ uart' = [uart EXCEPT !.thr = sent[n]] /\ line' = k
    BY Zenon, <1>5 DEF serial_flush
  <2>2. txq \in Queue(Char, Holder) /\ line \in Seq(Char) /\ uart.thr \in Register
    BY <1>1 DEF PortTypeOK
  <2>3. /\ sent[n] \in Char /\ k \in Seq(Char)
        /\ e \in Queue(Char, Holder) /\ intq_empty(e)
        /\ Stream(k, sent[n], e) = Stream(line, uart.thr, txq)
    BY Zenon, <1>5, <2>2, StreamFlush
  <2> HIDE DEF sent, n, e, k
  <2>4. uart' \in [thr : Register, rbr : Register] /\ uart'.thr = sent[n] /\ uart'.rbr = uart.rbr
    BY Zenon, <1>1, <2>1, <2>3 DEF PortTypeOK, Register
  <2>5. PortTypeOK'
    BY Zenon, <1>1, <1>2, <1>3, <2>1, <2>3, <2>4 DEF PortTypeOK
  <2>6. OutputInOrder'
    BY Zenon, <1>1, <1>3, <2>1, <2>3, <2>4 DEF OutputInOrder
  <2>7. InputInOrder'
    BY Zenon, <1>1, <1>3, <2>4 DEF InputInOrder
  <2>8. InterruptsArmed'
    BY Zenon, <1>1, <1>3, <2>1, <2>3 DEF InterruptsArmed
  <2> QED BY <2>5, <2>6, <2>7, <2>8 DEF PortInv
<1> QED BY <1>4, <1>5

(* Reading. *)
LEMMA GetcStep ==
  ASSUME PortInv, NEW t \in Thread, input_getc(t)
  PROVE  PortInv'
<1> DEFINE q == IF pc[t] = "woken" THEN Resume(buffer, t) ELSE buffer
           w == wait(q, t, "not_empty")
<1>1. PortTypeOK /\ OutputInOrder /\ InputInOrder /\ InterruptsArmed
  BY DEF PortInv
<1>2. /\ q \in Queue(Char, Holder)
      /\ q.head = buffer.head /\ q.tail = buffer.tail /\ q.buf = buffer.buf
  BY <1>1, ResumeKeeps DEF PortTypeOK
<1>3. UNCHANGED <<txq, uart, line, written, came>> /\ todo[t] # <<>>
  BY Zenon DEF input_getc, Calls
<1>4. OutputInOrder'
  BY Zenon, <1>1, <1>3 DEF OutputInOrder
<1>5. Contents(q) = Contents(buffer)
  BY <1>2, SameRing
<1>6. CASE pc[t] = "lock" \/ intq_empty(q)
  <2>1. buffer' = w.q /\ UNCHANGED <<todo, ier, got>>
    BY ZenonT(30), <1>6 DEF input_getc
  <2> HIDE DEF q
  <2>2. /\ w.q \in Queue(Char, Holder)
        /\ w.q.head = buffer.head /\ w.q.tail = buffer.tail /\ w.q.buf = buffer.buf
    BY <1>2, WaitKeeps
  <2>3. Contents(buffer') = Contents(buffer) /\ intq_full(buffer') = intq_full(buffer)
    BY Zenon, <2>1, <2>2, SameRing
  <2>4. PortTypeOK'
    BY Zenon, <1>1, <1>3, <2>1, <2>2 DEF PortTypeOK
  <2>5. InputInOrder'
    BY Zenon, <1>1, <1>3, <2>1, <2>3 DEF InputInOrder
  <2>6. InterruptsArmed'
    BY Zenon, <1>1, <1>3, <2>1, <2>3 DEF InterruptsArmed
  <2> QED BY Zenon, <1>4, <2>4, <2>5, <2>6 DEF PortInv
<1>7. CASE ~(pc[t] = "lock" \/ intq_empty(q))
  <2>1. buffer' = intq_getc(q)
    BY Zenon, <1>7 DEF input_getc
  <2>2. ier' = serial_notify(buffer') /\ Return(t)
    BY Zenon, <1>7 DEF input_getc
  <2>3. got' = Append(got, First(q))
    BY Zenon, <1>7 DEF input_getc
  <2> HIDE DEF q
  <2>4. todo' \in [Thread -> Seq(ConsoleCall \cup DiskCall)]
    BY <1>1, <1>3, <2>2, ReturnType, Zenon
  <2>5. intq_getc(q) \in Queue(Char, Holder) /\ First(q) \in Char
    BY Zenon, <1>2, <1>7, GetTakes DEF Holder
  <2>6. PortTypeOK'
    BY Zenon, <1>1, <1>3, <2>1, <2>3, <2>4, <2>5, AppendProperties DEF PortTypeOK
  <2>7. InputInOrder'
    <3>1. Append(got, First(q)) \o Contents(intq_getc(q)) = got \o Contents(q)
      BY ZenonT(30), <1>1, <1>2, <1>7, InputTake DEF PortTypeOK
    <3> QED BY Zenon, <1>1, <1>3, <1>5, <2>1, <2>3, <3>1 DEF InputInOrder
  <2>8. InterruptsArmed'
    BY <1>3, <2>2, Armed DEF InterruptsArmed, serial_notify
  <2> QED BY <1>4, <2>6, <2>7, <2>8 DEF PortInv
<1> QED BY Zenon, <1>6, <1>7

(* The port sends and receives. *)
LEMMA UartKeeps ==
  ASSUME PortInv, UartStep
  PROVE  PortInv'
<1>1. PortTypeOK /\ OutputInOrder /\ InputInOrder /\ InterruptsArmed
  BY DEF PortInv
<1>2. CASE Transmit
  <2>1. /\ uart.thr # NULL /\ line' = Append(line, uart.thr)
        /\ uart' = [uart EXCEPT !.thr = NULL]
        /\ UNCHANGED <<todo, txq, buffer, ier, written, came, got>>
    BY <1>2 DEF Transmit, callVars
  <2>2. uart.thr \in Char /\ line \in Seq(Char)
    BY <1>1, <2>1 DEF PortTypeOK, Register
  <2>3. uart' \in [thr : Register, rbr : Register] /\ uart'.thr = NULL /\ uart'.rbr = uart.rbr
    BY Zenon, <1>1, <2>1 DEF PortTypeOK, Register
  <2>4. PortTypeOK'
    BY Zenon, <1>1, <2>1, <2>2, <2>3, AppendProperties DEF PortTypeOK
  <2>5. OutputInOrder'
    BY <1>1, <2>1, <2>2, <2>3, StreamLeave DEF OutputInOrder
  <2>6. InputInOrder' /\ InterruptsArmed'
    BY Zenon, <1>1, <2>1, <2>3 DEF InputInOrder, InterruptsArmed
  <2> QED BY <2>4, <2>5, <2>6 DEF PortInv
<1>3. CASE Receive
  <2>1. /\ uart.rbr = NULL /\ came < Len(Incoming) /\ came' = came + 1
        /\ uart' = [uart EXCEPT !.rbr = Incoming[came + 1]]
        /\ UNCHANGED <<todo, txq, buffer, ier, line, written, got>>
    BY <1>3 DEF Receive, callVars
  <2>2. came \in Nat /\ Len(Incoming) \in Nat /\ came' \in 0..Len(Incoming)
    BY <1>1, <2>1, ConsoleAssumption, LenProperties DEF PortTypeOK
  <2>3. /\ Incoming[came + 1] \in Char
        /\ (got \o Contents(buffer)) \o Byte(Incoming[came + 1]) = SubSeq(Incoming, 1, came + 1)
    BY Zenon, <1>1, <2>1, <2>2, InputArrives DEF PortTypeOK, InputInOrder
  <2>4. /\ uart' \in [thr : Register, rbr : Register] /\ uart'.thr = uart.thr
        /\ uart'.rbr = Incoming[came + 1]
    BY Zenon, <1>1, <2>1, <2>3 DEF PortTypeOK, Register
  <2>5. PortTypeOK'
    BY <1>1, <2>1, <2>2, <2>4 DEF PortTypeOK
  <2>6. InputInOrder'
    BY Zenon, <2>1, <2>3, <2>4 DEF InputInOrder
  <2>7. OutputInOrder' /\ InterruptsArmed'
    BY <1>1, <2>1, <2>4 DEF OutputInOrder, InterruptsArmed
  <2> QED BY <2>5, <2>6, <2>7 DEF PortInv
<1> QED BY <1>2, <1>3 DEF UartStep

(* The interrupt of the port. *)
LEMMA InterruptStep ==
  ASSUME PortInv, serial_interrupt
  PROVE  PortInv'
<1> DEFINE recv == ~intq_full(buffer) /\ uart.rbr # NULL
           xmit == ~intq_empty(txq) /\ uart.thr = NULL
<1>1. PortTypeOK /\ OutputInOrder /\ InputInOrder /\ InterruptsArmed
  BY DEF PortInv
<1>2. /\ buffer' = IF recv THEN intq_putc(buffer, uart.rbr) ELSE buffer
      /\ txq' = IF xmit THEN intq_getc(txq) ELSE txq
      /\ uart' = [thr |-> IF xmit THEN First(txq) ELSE uart.thr,
                  rbr |-> IF recv THEN NULL ELSE uart.rbr]
      /\ ier' = write_ier(txq', buffer')
      /\ UNCHANGED <<todo, line, written, came, got>>
  BY Zenon DEF serial_interrupt
<1>3. /\ txq \in Queue(Char, Holder) /\ buffer \in Queue(Char, Holder)
      /\ uart.thr \in Register /\ uart.rbr \in Register
      /\ line \in Seq(Char) /\ got \in Seq(Char)
  BY <1>1 DEF PortTypeOK
<1>4. /\ txq' \in Queue(Char, Holder) /\ uart'.thr \in Register
      /\ Stream(line, uart'.thr, txq') = written
  <2>1. CASE xmit
    <3>1. /\ intq_getc(txq) \in Queue(Char, Holder) /\ First(txq) \in Char
          /\ Stream(line, First(txq), intq_getc(txq)) = Stream(line, NULL, txq)
      BY Zenon, <1>3, <2>1, GetTakes, StreamSend DEF Holder
    <3> QED BY Zenon, <1>1, <1>2, <2>1, <3>1 DEF OutputInOrder, Register
  <2>2. CASE ~xmit
    BY Zenon, <1>1, <1>2, <1>3, <2>2 DEF OutputInOrder
  <2> QED BY Zenon, <2>1, <2>2
<1>5. /\ buffer' \in Queue(Char, Holder) /\ uart'.rbr \in Register
      /\ (got \o Contents(buffer')) \o Byte(uart'.rbr) = SubSeq(Incoming, 1, came)
  <2>1. CASE recv
    <3>1. uart.rbr \in Char
      BY Zenon, <1>3, <2>1 DEF Register
    <3>2. intq_putc(buffer, uart.rbr) \in Queue(Char, Holder)
      BY Zenon, <1>3, <2>1, <3>1, PutAppends DEF Holder
    <3>3. (got \o Contents(intq_putc(buffer, uart.rbr))) \o Byte(NULL)
            = (got \o Contents(buffer)) \o Byte(uart.rbr)
      BY Zenon, <1>3, <2>1, <3>1, InputStore
    <3> QED BY Zenon, <1>1, <1>2, <2>1, <3>2, <3>3 DEF InputInOrder, Register
  <2>2. CASE ~recv
    BY Zenon, <1>1, <1>2, <1>3, <2>2 DEF InputInOrder
  <2> QED BY Zenon, <2>1, <2>2
<1> HIDE DEF recv, xmit
<1>6. uart' \in [thr : Register, rbr : Register]
  <2>1. uart' = [thr |-> uart'.thr, rbr |-> uart'.rbr]
    BY Zenon, <1>2
  <2> QED BY <1>4, <1>5, <2>1
<1>7. PortTypeOK'
  BY Zenon, <1>1, <1>2, <1>4, <1>5, <1>6 DEF PortTypeOK
<1>8. OutputInOrder' /\ InputInOrder'
  BY ZenonT(30), <1>2, <1>4, <1>5 DEF OutputInOrder, InputInOrder
<1>9. InterruptsArmed'
  BY <1>2, Armed DEF InterruptsArmed
<1> QED BY <1>7, <1>8, <1>9 DEF PortInv

(* PortInv is inductive.                                                   *)
LEMMA PortStep == PortInv /\ [Next]_vars => PortInv'
<1> SUFFICES ASSUME PortInv, [Next]_vars PROVE PortInv'
  OBVIOUS
<1>1. todo \in [Thread -> Seq(ConsoleCall \cup DiskCall)]
  BY DEF PortInv, PortTypeOK
<1>2. ASSUME UNCHANGED <<todo, portVars>> PROVE PortInv'
  BY Zenon, <1>1, <1>2, PortUnchanged
<1>3. ASSUME NEW t \in Thread, ThreadStep(t) PROVE PortInv'
  <2>1. CASE putbuf(t)
    BY <1>2, <2>1 DEF putbuf
  <2>2. CASE serial_putc(t)
    BY Zenon, <2>2, PutcStep
  <2>3. CASE release_console(t)
    <3>1. todo[t] # <<>>
      BY <2>3 DEF release_console, Calls
    <3> QED BY Zenon, <2>3, <3>1, PortUnchanged, ReturnType DEF release_console, PortInv
  <2>4. CASE serial_flush(t)
    BY <2>4, FlushStep
  <2>5. CASE input_getc(t)
    BY <2>5, GetcStep
  <2>6. CASE block_op(t)
    BY <1>2, <2>6 DEF block_op
  <2>7. CASE select_sector(t)
    BY <1>2, <2>7 DEF select_sector
  <2>8. CASE Expect(t)
    BY <1>2, <2>8 DEF Expect
  <2>9. CASE issue_pio_command(t)
    BY <1>2, <2>9 DEF issue_pio_command
  <2>10. CASE sema_down(t)
    BY <1>2, <2>10 DEF sema_down
  <2>11. CASE Transfer(t)
    BY <1>2, <2>11 DEF Transfer
  <2>12. CASE lock_release(t)
    <3>1. todo[t] # <<>>
      BY <2>12 DEF lock_release, InCall, Calls
    <3> QED BY <2>12, <3>1, PortUnchanged, ReturnType DEF lock_release, PortInv
  <2> QED BY ZenonT(30), <1>3, <2>1, <2>2, <2>3, <2>4, <2>5, <2>6, <2>7, <2>8, <2>9, <2>10, <2>11,
             <2>12 DEF ThreadStep
<1>4. CASE UartStep
  BY <1>4, UartKeeps
<1>5. CASE SerialInterrupt
  BY <1>5, InterruptStep DEF SerialInterrupt
<1>6. CASE DiskWorks
  BY <1>2, <1>6 DEF DiskWorks, callVars
<1>7. CASE interrupt_handler
  BY <1>2, <1>7, PrintOffStep DEF interrupt_handler, callVars
<1>8. CASE UNCHANGED vars
  BY <1>2, <1>8 DEF vars, consoleVars, callVars
<1> QED BY Zenon, <1>3, <1>4, <1>5, <1>6, <1>7, <1>8 DEF Next

(* What is printed is sent, in the order of printing: OutputInOrder holds  *)
(* for every ring, every set of threads and every script.                  *)
THEOREM SpecOutputInOrder == Spec => []OutputInOrder
<1>1. PortInv => OutputInOrder
  BY DEF PortInv
<1> QED BY <1>1, PortInit, PortStep, PTL DEF Spec

(* What arrives is read, in the order of arrival. *)
THEOREM SpecInputInOrder == Spec => []InputInOrder
<1>1. PortInv => InputInOrder
  BY DEF PortInv
<1> QED BY <1>1, PortInit, PortStep, PTL DEF Spec

(* The port's interrupts are on whenever the queues need them. *)
THEOREM SpecInterruptsArmed == Spec => []InterruptsArmed
<1>1. PortInv => InterruptsArmed
  BY DEF PortInv
<1> QED BY <1>1, PortInit, PortStep, PTL DEF Spec
-----------------------------------------------------------------------------
(* The disks.                                                              *)

(* Where a thread is in a call on a disk, and in any call. *)
ChannelLabels == {"select", "issue", "command", "sema_down", "wait", "unlock"}
CallLabels == ChannelLabels \cup {"call", "putc", "woken", "lock", "blocked"}

(* What a sector or a buffer holds. *)
Cell == Char \cup {Old, NULL}

ChannelTypeOK ==
  /\ pc \in [Thread -> CallLabels]
  /\ chan \in [lock : Holder, expecting_interrupt : BOOLEAN, completion_wait : Nat]
  /\ dev \in [lba : (Disk \X Sector) \cup {NULL}, command : {"read", "write", NULL},
              status : {"idle", "busy", "drq"}, intrq : BOOLEAN, data : Cell]
  /\ disk \in [Disk -> [Sector -> Cell]] /\ data \in [Thread -> Cell]

(* The threads registered in the queues of the port sleep there: an        *)
(* interrupt handler that wakes one wakes none that waits for a disk.      *)
Waiters ==
  /\ txq.not_empty = NULL /\ buffer.not_full = NULL
  /\ \A t \in Thread :
       /\ txq.not_full = t => pc[t] = "blocked" /\ Calls(t, "putbuf")
       /\ buffer.not_empty = t => pc[t] = "blocked" /\ Calls(t, "getc")

(* The channel's lock admits one thread, which is in a call on a disk. *)
OneUser ==
  \A t \in Thread :
    /\ pc[t] \in ChannelLabels <=> chan.lock = t
    /\ chan.lock = t => Calls(t, "read") \/ Calls(t, "write")

(* No command is under way; no interrupt of one, or one is outstanding.    *)
Untold == ~dev.intrq /\ chan.completion_wait = 0
Told == \/ dev.intrq /\ chan.completion_wait = 0
        \/ ~dev.intrq /\ chan.completion_wait = 1
AtRest == dev.status = "idle" /\ dev.data = NULL /\ Untold

(* How far the disk is with the call of thread t. *)
Reading(t, r) ==
  /\ dev.lba = <<r.disk, r.sector>> /\ dev.command = "read"
  /\ \/ pc[t] = "sema_down" /\ dev.status = "busy" /\ Untold
     \/ /\ pc[t] = "sema_down" /\ dev.status = "drq" /\ Told
        /\ dev.data = disk[r.disk][r.sector]
     \/ /\ pc[t] = "wait" /\ dev.status = "drq" /\ Untold
        /\ dev.data = disk[r.disk][r.sector]
     \/ pc[t] = "unlock" /\ AtRest /\ data[t] = disk[r.disk][r.sector]

Writing(t, r) ==
  /\ dev.lba = <<r.disk, r.sector>> /\ dev.command = "write"
  /\ \/ pc[t] = "wait" /\ dev.status \in {"busy", "drq"} /\ dev.data = NULL /\ Untold
     \/ pc[t] = "sema_down" /\ dev.status = "busy" /\ dev.data = r.value /\ Untold
     \/ /\ pc[t] = "sema_down" /\ dev.status = "idle" /\ dev.data = NULL /\ Told
        /\ disk[r.disk][r.sector] = r.value
     \/ pc[t] = "unlock" /\ AtRest /\ disk[r.disk][r.sector] = r.value

CallProgress(t) ==
  \/ pc[t] = "select" /\ AtRest
  \/ /\ pc[t] \in {"issue", "command"} /\ AtRest
     /\ dev.lba = <<Request(t).disk, Request(t).sector>>
  \/ Calls(t, "read") /\ Reading(t, Request(t))
  \/ Calls(t, "write") /\ Writing(t, Request(t))

Progress ==
  /\ chan.lock = NULL => AtRest
  /\ \A t \in Thread : chan.lock = t => CallProgress(t)

ChannelInv == ChannelTypeOK /\ Waiters /\ OneUser /\ Progress

(* The disk, the sector and the value of a call. *)
LEMMA RequestType ==
  ASSUME PortTypeOK, NEW t \in Thread, Calls(t, "read") \/ Calls(t, "write")
  PROVE  /\ Request(t).disk \in Disk /\ Request(t).sector \in Sector
         /\ Calls(t, "write") => Request(t).value \in Char
         /\ Calls(t, "read") <=> ~Calls(t, "write")
<1> DEFINE r == Request(t)
<1>1. todo[t] # <<>> /\ r.op \in {"read", "write"}
  BY DEF Calls, Request
<1>2. r \in ConsoleCall \cup DiskCall
  BY <1>1, HeadTailProperties DEF PortTypeOK, Request
<1>3. /\ Calls(t, "read") <=> r.op = "read"
      /\ Calls(t, "write") <=> r.op = "write"
  BY Zenon, <1>1 DEF Calls, Request
<1> HIDE DEF r
<1>4. r \in DiskCall
  BY <1>1, <1>2 DEF ConsoleCall
<1> QED BY <1>1, <1>3, <1>4 DEF DiskCall, r

(* A step of the port's threads and interrupts. *)
PortMove ==
  /\ UNCHANGED ideVars
  /\ pc' \in [Thread -> CallLabels]
  /\ \A t \in Thread :
       /\ pc[t] \in ChannelLabels => pc'[t] = pc[t] /\ todo'[t] = todo[t]
       /\ pc[t] \notin ChannelLabels => pc'[t] \notin ChannelLabels

(* It leaves the call on a disk alone.                                     *)
LEMMA PortMoveKeeps ==
  ASSUME ChannelTypeOK, OneUser, Progress, PortMove
  PROVE  ChannelTypeOK' /\ OneUser' /\ Progress'
<1>1. ChannelTypeOK'
  BY Zenon DEF ChannelTypeOK, PortMove, ideVars
<1>2. ASSUME NEW t \in Thread, chan.lock = t
      PROVE  /\ pc'[t] = pc[t] /\ Request(t)' = Request(t)
             /\ \A l : Calls(t, l)' <=> Calls(t, l)
  BY Zenon, <1>2 DEF OneUser, PortMove, Request, Calls
<1>3. chan' = chan /\ dev' = dev /\ disk' = disk /\ data' = data
  BY Zenon DEF PortMove, ideVars
<1>4. OneUser'
  BY Zenon, <1>2, <1>3 DEF OneUser, PortMove
<1>5. ASSUME NEW t \in Thread, chan'.lock = t PROVE CallProgress(t)'
  <2>1. /\ CallProgress(t) /\ pc'[t] = pc[t] /\ Request(t)' = Request(t)
        /\ Calls(t, "read")' <=> Calls(t, "read")
        /\ Calls(t, "write")' <=> Calls(t, "write")
    BY Zenon, <1>2, <1>3, <1>5 DEF Progress
  <2> QED BY Zenon, <1>3, <2>1 DEF CallProgress, Reading, Writing, AtRest, Told, Untold
<1>6. Progress'
  BY Zenon, <1>3, <1>5 DEF Progress, AtRest, Untold
<1> QED BY Zenon, <1>1, <1>4, <1>6

(* wait registers the thread that goes to sleep; only the queue's own      *)
(* operations touch the other fields.                                      *)
LEMMA QueueWaiters ==
  ASSUME NEW q \in Queue(Char, Holder), NEW t \in Thread, NEW b
  PROVE  /\ Resume(q, t).not_full = q.not_full /\ Resume(q, t).not_empty = q.not_empty
         /\ intq_putc(q, b).not_full = q.not_full /\ intq_putc(q, b).not_empty = NULL
         /\ intq_getc(q).not_full = NULL /\ intq_getc(q).not_empty = q.not_empty
         /\ LET w == wait(q, t, "not_full")
            IN  /\ w.q.not_empty = q.not_empty
                /\ \/ w.pc = "lock" /\ w.q.not_full = q.not_full
                   \/ w.pc = "blocked" /\ w.q.not_full = t
         /\ LET w == wait(q, t, "not_empty")
            IN  /\ w.q.not_full = q.not_full
                /\ \/ w.pc = "lock" /\ w.q.not_empty = q.not_empty
                   \/ w.pc = "blocked" /\ w.q.not_empty = t
<1>1. Resume(q, t).not_full = q.not_full /\ Resume(q, t).not_empty = q.not_empty
  BY Zenon DEF Resume, Queue
<1>2. /\ intq_putc(q, b).not_full = q.not_full /\ intq_putc(q, b).not_empty = NULL
      /\ intq_getc(q).not_full = NULL /\ intq_getc(q).not_empty = q.not_empty
  BY Zenon DEF intq_putc, intq_getc, Queue
<1>3. LET w == wait(q, t, "not_full")
      IN  /\ w.q.not_empty = q.not_empty
          /\ \/ w.pc = "lock" /\ w.q.not_full = q.not_full
             \/ w.pc = "blocked" /\ w.q.not_full = t
  BY DEF wait, Queue
<1>4. LET w == wait(q, t, "not_empty")
      IN  /\ w.q.not_full = q.not_full
          /\ \/ w.pc = "lock" /\ w.q.not_empty = q.not_empty
             \/ w.pc = "blocked" /\ w.q.not_empty = t
  BY DEF wait, Queue
<1> QED BY Zenon, <1>1, <1>2, <1>3, <1>4

(* A step of a thread outside the channel that wakes at most those who     *)
(* sleep on a queue.                                                       *)
LEMMA MoveOfThread ==
  ASSUME ChannelTypeOK, UNCHANGED ideVars, NEW t \in Thread, pc[t] \notin ChannelLabels,
         NEW l \in CallLabels \ ChannelLabels, pc' = [pc EXCEPT ![t] = l],
         \A u \in Thread \ {t} : todo'[u] = todo[u]
  PROVE  PortMove /\ \A u \in Thread \ {t} : pc'[u] = pc[u]
<1>1. pc' \in [Thread -> CallLabels] /\ pc'[t] = l /\ \A u \in Thread \ {t} : pc'[u] = pc[u]
  BY Zenon DEF ChannelTypeOK
<1>2. ASSUME NEW u \in Thread
      PROVE  /\ pc[u] \in ChannelLabels => pc'[u] = pc[u] /\ todo'[u] = todo[u]
             /\ pc[u] \notin ChannelLabels => pc'[u] \notin ChannelLabels
  BY Zenon, <1>1
<1> QED BY Zenon, <1>1, <1>2 DEF PortMove

(* What it needs to leave the registered threads asleep. *)
LEMMA WaitersOfThread ==
  ASSUME Waiters, NEW t \in Thread, pc[t] # "blocked",
         \A u \in Thread \ {t} : pc'[u] = pc[u] /\ todo'[u] = todo[u],
         txq'.not_empty = NULL, buffer'.not_full = NULL,
         \/ txq'.not_full = txq.not_full
         \/ txq'.not_full = t /\ pc'[t] = "blocked" /\ Calls(t, "putbuf")',
         \/ buffer'.not_empty = buffer.not_empty
         \/ buffer'.not_empty = t /\ pc'[t] = "blocked" /\ Calls(t, "getc")'
  PROVE  Waiters'
<1>1. ASSUME NEW u \in Thread, txq'.not_full = u PROVE pc'[u] = "blocked" /\ Calls(u, "putbuf")'
  <2>1. CASE u = t
    <3>1. txq.not_full # t
      BY Zenon DEF Waiters
    <3> QED BY Zenon, <1>1, <2>1, <3>1
  <2>2. CASE u # t
    <3>1. txq.not_full = u /\ pc'[u] = pc[u] /\ todo'[u] = todo[u]
      BY Zenon, <1>1, <2>2
    <3> QED BY ZenonT(40), <3>1 DEF Waiters, Calls
  <2> QED BY Zenon, <2>1, <2>2
<1>2. ASSUME NEW u \in Thread, buffer'.not_empty = u PROVE pc'[u] = "blocked" /\ Calls(u, "getc")'
  <2>1. CASE u = t
    <3>1. buffer.not_empty # t
      BY Zenon DEF Waiters
    <3> QED BY Zenon, <1>2, <2>1, <3>1
  <2>2. CASE u # t
    <3>1. buffer.not_empty = u /\ pc'[u] = pc[u] /\ todo'[u] = todo[u]
      BY Zenon, <1>2, <2>2
    <3> QED BY ZenonT(40), <3>1 DEF Waiters, Calls
  <2> QED BY Zenon, <2>1, <2>2
<1> QED BY Zenon, <1>1, <1>2 DEF Waiters

(* An interrupt that wakes a sleeping thread. *)
LEMMA Wakes ==
  ASSUME NEW P \in [Thread -> CallLabels], NEW w \in Holder
  PROVE  /\ Wake(w, P) \in [Thread -> CallLabels]
         /\ \A u \in Thread : Wake(w, P)[u] = IF u = w THEN "woken" ELSE P[u]
BY ConsoleAssumption DEF Wake, CallLabels, Holder

(* Printing by a thread, and reading. *)
LEMMA PutcMoves ==
  ASSUME PortTypeOK, ChannelTypeOK, Waiters, NEW t \in Thread, serial_putc(t), UNCHANGED ideVars
  PROVE  PortMove /\ Waiters'
<1> DEFINE q == IF pc[t] = "woken" THEN Resume(txq, t) ELSE txq
           w == wait(q, t, "not_full")
           b == Head(Text(t))
<1>1. q \in Queue(Char, Holder) /\ q.not_full = txq.not_full /\ q.not_empty = txq.not_empty
  <2>1. txq \in Queue(Char, Holder)
    BY Zenon DEF PortTypeOK
  <2>2. /\ Resume(txq, t) \in Queue(Char, Holder)
        /\ Resume(txq, t).not_full = txq.not_full /\ Resume(txq, t).not_empty = txq.not_empty
    BY Zenon, <2>1, ResumeKeeps, QueueWaiters
  <2> QED BY Zenon, <2>1, <2>2
<1>2. /\ pc[t] \in {"putc", "woken", "lock"} /\ Calls(t, "putbuf") /\ buffer' = buffer
      /\ \/ txq' = w.q /\ pc' = [pc EXCEPT ![t] = w.pc] /\ todo' = todo
         \/ /\ txq' = intq_putc(q, b) /\ pc' = Goto(t, "putc", Wake(q.not_empty, pc))
            /\ todo' = [todo EXCEPT ![t] = <<Printed(Head(@))>> \o Tail(@)]
  BY Zenon DEF serial_putc, Goto
<1>3. pc[t] \notin ChannelLabels /\ pc[t] # "blocked"
  BY <1>2 DEF ChannelLabels
<1> HIDE DEF q, w, b
<1>5. CASE txq' = w.q /\ pc' = [pc EXCEPT ![t] = w.pc] /\ todo' = todo
  <2>1. /\ w.q.not_empty = NULL
        /\ \/ w.pc = "lock" /\ w.q.not_full = txq.not_full
           \/ w.pc = "blocked" /\ w.q.not_full = t
    BY Zenon, <1>1, QueueWaiters DEF w, Waiters
  <2>2. w.pc \in CallLabels \ ChannelLabels
    BY <2>1 DEF CallLabels, ChannelLabels
  <2>3. PortMove /\ (\A u \in Thread \ {t} : pc'[u] = pc[u]) /\ pc'[t] = w.pc
    BY Zenon, <1>3, <1>5, <2>2, MoveOfThread DEF ChannelTypeOK
  <2>4. Calls(t, "putbuf")'
    BY Zenon, <1>2, <1>5 DEF Calls
  <2> QED BY Zenon, <1>2, <1>3, <1>5, <2>1, <2>3, <2>4, WaitersOfThread DEF Waiters
<1>6. CASE /\ txq' = intq_putc(q, b) /\ pc' = Goto(t, "putc", Wake(q.not_empty, pc))
           /\ todo' = [todo EXCEPT ![t] = <<Printed(Head(@))>> \o Tail(@)]
  <2>1. pc' = [pc EXCEPT ![t] = "putc"]
    BY Zenon, <1>1, <1>6 DEF Waiters, Wake, Goto
  <2>2. \A u \in Thread \ {t} : todo'[u] = todo[u]
    BY Zenon, <1>6 DEF PortTypeOK
  <2>3. "putc" \in CallLabels \ ChannelLabels
    BY DEF CallLabels, ChannelLabels
  <2>4. PortMove /\ \A u \in Thread \ {t} : pc'[u] = pc[u]
    BY Zenon, <1>3, <2>1, <2>2, <2>3, MoveOfThread
  <2>5. txq'.not_full = txq.not_full /\ txq'.not_empty = NULL
    BY ZenonT(40), <1>1, <1>6, QueueWaiters
  <2> QED BY Zenon, <1>2, <1>3, <2>2, <2>4, <2>5, WaitersOfThread DEF Waiters
<1> QED BY Zenon, <1>2, <1>5, <1>6

(* Reading by a thread. *)
LEMMA GetcMoves ==
  ASSUME PortTypeOK, ChannelTypeOK, Waiters, NEW t \in Thread, input_getc(t), UNCHANGED ideVars
  PROVE  PortMove /\ Waiters'
<1> DEFINE q == IF pc[t] = "woken" THEN Resume(buffer, t) ELSE buffer
           w == wait(q, t, "not_empty")
<1>1. q \in Queue(Char, Holder) /\ q.not_full = buffer.not_full /\ q.not_empty = buffer.not_empty
  <2>1. buffer \in Queue(Char, Holder)
    BY Zenon DEF PortTypeOK
  <2>2. /\ Resume(buffer, t) \in Queue(Char, Holder)
        /\ Resume(buffer, t).not_full = buffer.not_full /\ Resume(buffer, t).not_empty = buffer.not_empty
    BY Zenon, <2>1, ResumeKeeps, QueueWaiters
  <2> QED BY Zenon, <2>1, <2>2
<1>2. /\ pc[t] \in {"call", "woken", "lock"} /\ Calls(t, "getc") /\ txq' = txq
      /\ \/ buffer' = w.q /\ pc' = [pc EXCEPT ![t] = w.pc] /\ todo' = todo
         \/ /\ buffer' = intq_getc(q) /\ pc' = Goto(t, "call", Wake(q.not_full, pc))
            /\ todo' = [todo EXCEPT ![t] = Tail(@)]
  BY Zenon DEF input_getc, Goto, Return
<1>3. pc[t] \notin ChannelLabels /\ pc[t] # "blocked"
  BY <1>2 DEF ChannelLabels
<1> HIDE DEF q, w
<1>5. CASE buffer' = w.q /\ pc' = [pc EXCEPT ![t] = w.pc] /\ todo' = todo
  <2>1. /\ w.q.not_full = NULL
        /\ \/ w.pc = "lock" /\ w.q.not_empty = buffer.not_empty
           \/ w.pc = "blocked" /\ w.q.not_empty = t
    BY Zenon, <1>1, QueueWaiters DEF w, Waiters
  <2>2. w.pc \in CallLabels \ ChannelLabels
    BY <2>1 DEF CallLabels, ChannelLabels
  <2>3. PortMove /\ (\A u \in Thread \ {t} : pc'[u] = pc[u]) /\ pc'[t] = w.pc
    BY Zenon, <1>3, <1>5, <2>2, MoveOfThread DEF ChannelTypeOK
  <2>4. Calls(t, "getc")'
    BY Zenon, <1>2, <1>5 DEF Calls
  <2> QED BY Zenon, <1>2, <1>3, <1>5, <2>1, <2>3, <2>4, WaitersOfThread DEF Waiters
<1>6. CASE /\ buffer' = intq_getc(q) /\ pc' = Goto(t, "call", Wake(q.not_full, pc))
           /\ todo' = [todo EXCEPT ![t] = Tail(@)]
  <2>1. pc' = [pc EXCEPT ![t] = "call"]
    BY Zenon, <1>1, <1>6 DEF Waiters, Wake, Goto
  <2>2. \A u \in Thread \ {t} : todo'[u] = todo[u]
    BY Zenon, <1>6 DEF PortTypeOK
  <2>3. "call" \in CallLabels \ ChannelLabels
    BY DEF CallLabels, ChannelLabels
  <2>4. PortMove /\ \A u \in Thread \ {t} : pc'[u] = pc[u]
    BY Zenon, <1>3, <2>1, <2>2, <2>3, MoveOfThread
  <2>5. buffer'.not_empty = buffer.not_empty /\ buffer'.not_full = NULL
    BY Zenon, <1>1, <1>6, QueueWaiters
  <2> QED BY Zenon, <1>2, <1>3, <2>2, <2>4, <2>5, WaitersOfThread DEF Waiters
<1> QED BY Zenon, <1>2, <1>5, <1>6

(* The other calls on the console. *)
LEMMA ConsoleMoves ==
  ASSUME PortTypeOK, ChannelTypeOK, Waiters, NEW t \in Thread, UNCHANGED ideVars,
         putbuf(t) \/ release_console(t)
  PROVE  PortMove /\ Waiters'
<1>1. PICK l \in {"call", "putc"} :
        /\ pc[t] \in {"call", "putc"} /\ pc' = [pc EXCEPT ![t] = l] /\ UNCHANGED <<txq, buffer>>
        /\ todo' = todo \/ todo' = [todo EXCEPT ![t] = Tail(@)]
  BY Zenon DEF putbuf, release_console, Goto, Return, portVars
<1>2. /\ pc[t] \notin ChannelLabels /\ pc[t] # "blocked" /\ l \in CallLabels \ ChannelLabels
  BY <1>1 DEF ChannelLabels, CallLabels
<1>3. \A u \in Thread \ {t} : todo'[u] = todo[u]
  BY Zenon, <1>1 DEF PortTypeOK
<1>4. PortMove /\ \A u \in Thread \ {t} : pc'[u] = pc[u]
  BY Zenon, <1>1, <1>2, <1>3, MoveOfThread
<1> QED BY Zenon, <1>1, <1>2, <1>3, <1>4, WaitersOfThread DEF Waiters

(* The wake-ups by interrupts and serial_flush: w is woken from one or     *)
(* both of the queues, and leaves them.                                    *)
LEMMA WakingMoves ==
  ASSUME PortTypeOK, ChannelTypeOK, Waiters, UNCHANGED ideVars,
         NEW x \in {txq.not_full, NULL}, NEW y \in {buffer.not_empty, NULL},
         pc' = Wake(x, Wake(y, pc)),
         \A u \in Thread : todo'[u] = todo[u] \/ pc[u] = "call",
         txq'.not_full = (IF x = NULL THEN txq.not_full ELSE NULL),
         buffer'.not_empty = (IF y = NULL THEN buffer.not_empty ELSE NULL),
         txq'.not_empty = NULL, buffer'.not_full = NULL
  PROVE  PortMove /\ Waiters'
<1>1. /\ x \in Holder /\ y \in Holder /\ pc \in [Thread -> CallLabels]
      /\ txq.not_full \in Holder /\ buffer.not_empty \in Holder
  BY DEF PortTypeOK, ChannelTypeOK, Queue, Holder
<1>2. /\ x # NULL => pc[x] = "blocked" /\ Calls(x, "putbuf")
      /\ y # NULL => pc[y] = "blocked" /\ Calls(y, "getc")
  BY Zenon, <1>1 DEF Waiters, Holder
<1> DEFINE P == Wake(y, pc)
<1>4. P \in [Thread -> CallLabels] /\ \A u \in Thread : P[u] = IF u = y THEN "woken" ELSE pc[u]
  BY Zenon, <1>1, <1>2, Wakes
<1> HIDE DEF P
<1>6. pc' = Wake(x, P)
  BY Zenon DEF P
<1>7. pc' \in [Thread -> CallLabels] /\ \A u \in Thread : pc'[u] = IF u = x THEN "woken" ELSE P[u]
  <2>1. /\ Wake(x, P) \in [Thread -> CallLabels]
        /\ \A u \in Thread : Wake(x, P)[u] = IF u = x THEN "woken" ELSE P[u]
    BY Zenon, <1>1, <1>4, Wakes
  <2> QED BY Zenon, <1>6, <2>1
<1>8. \A u \in Thread : pc'[u] = IF u = x \/ u = y THEN "woken" ELSE pc[u]
  BY Zenon, <1>4, <1>7
<1>9. \A u \in Thread : u = x \/ u = y => pc[u] = "blocked"
  BY Zenon, <1>2, ConsoleAssumption
<1>10. "woken" \notin ChannelLabels /\ "blocked" \notin ChannelLabels /\ "call" \notin ChannelLabels
  BY DEF ChannelLabels
<1>11. PortMove
  BY ZenonT(40), <1>7, <1>8, <1>9, <1>10 DEF PortMove
<1>12. ASSUME NEW u \in Thread
       PROVE  /\ txq'.not_full = u => pc'[u] = "blocked" /\ Calls(u, "putbuf")'
              /\ buffer'.not_empty = u => pc'[u] = "blocked" /\ Calls(u, "getc")'
  <2>1. NULL # u /\ "blocked" # "call"
    BY ConsoleAssumption
  <2>2. CASE txq'.not_full = u
    <3>1. txq.not_full = u /\ x = NULL
      BY Zenon, <2>1, <2>2
    <3>2. pc[u] = "blocked" /\ Calls(u, "putbuf")
      BY Zenon, <3>1 DEF Waiters
    <3>3. y # u
      BY <1>2, <2>1, <3>2 DEF Calls
    <3>4. pc'[u] = "blocked" /\ todo'[u] = todo[u]
      BY Zenon, <1>8, <2>1, <3>1, <3>2, <3>3
    <3>5. Calls(u, "putbuf")'
      BY Zenon, <3>2, <3>4 DEF Calls
    <3>6. buffer'.not_empty # u
      <4>1. buffer.not_empty # u
        BY <3>2 DEF Waiters, Calls
      <4> QED BY Zenon, <2>1, <4>1
    <3> QED BY Zenon, <3>4, <3>5, <3>6
  <2>3. CASE buffer'.not_empty = u
    <3>1. buffer.not_empty = u /\ y = NULL
      BY Zenon, <2>1, <2>3
    <3>2. pc[u] = "blocked" /\ Calls(u, "getc")
      BY Zenon, <3>1 DEF Waiters
    <3>3. x # u
      BY <1>2, <2>1, <3>2 DEF Calls
    <3>4. pc'[u] = "blocked" /\ todo'[u] = todo[u]
      BY Zenon, <1>8, <2>1, <3>1, <3>2, <3>3
    <3>5. Calls(u, "getc")'
      BY Zenon, <3>2, <3>4 DEF Calls
    <3>6. txq'.not_full # u
      <4>1. txq.not_full # u
        BY <3>2 DEF Waiters, Calls
      <4> QED BY ZenonT(40), <2>1, <4>1
    <3> QED BY Zenon, <3>4, <3>5, <3>6
  <2> QED BY Zenon, <2>2, <2>3
<1> QED BY ZenonT(40), <1>11, <1>12 DEF Waiters

(* serial_flush, and the interrupts of the serial port. *)
LEMMA FlushMoves ==
  ASSUME PortTypeOK, ChannelTypeOK, Waiters, NEW t \in Thread, serial_flush(t), UNCHANGED ideVars
  PROVE  PortMove /\ Waiters'
<1>1. txq \in Queue(Char, Holder) /\ buffer' = buffer /\ pc[t] = "call"
  BY Zenon DEF PortTypeOK, serial_flush
<1>2. \A u \in Thread : todo'[u] = todo[u] \/ pc[u] = "call"
  BY Zenon, <1>1 DEF serial_flush, Return, PortTypeOK
<1>3. CASE intq_empty(txq)
  <2>1. txq' = txq /\ pc' = pc
    BY Zenon, <1>3 DEF serial_flush
  <2>2. pc' = Wake(NULL, Wake(NULL, pc))
    BY Zenon, <2>1 DEF Wake
  <2> QED BY Zenon, <1>1, <1>2, <2>1, <2>2, WakingMoves DEF Waiters
<1>4. CASE ~intq_empty(txq)
  <2>1. pc' = Wake(txq.not_full, Wake(NULL, pc))
    BY Zenon, <1>4 DEF serial_flush, Wake
  <2>2. txq'.not_full = NULL /\ txq'.not_empty = txq.not_empty
    BY Zenon, <1>1, <1>4 DEF serial_flush, Queue
  <2>3. txq'.not_full = IF txq.not_full = NULL THEN txq.not_full ELSE NULL
    BY Zenon, <2>2
  <2> QED BY Zenon, <1>1, <1>2, <2>1, <2>2, <2>3, WakingMoves DEF Waiters
<1> QED BY Zenon, <1>3, <1>4

(* serial_interrupt. *)
LEMMA InterruptMoves ==
  ASSUME PortTypeOK, ChannelTypeOK, Waiters, serial_interrupt, UNCHANGED ideVars
  PROVE  PortMove /\ Waiters'
<1> DEFINE recv == ~intq_full(buffer) /\ uart.rbr # NULL
           xmit == ~intq_empty(txq) /\ uart.thr = NULL
           x == IF xmit THEN txq.not_full ELSE NULL
           y == IF recv THEN buffer.not_empty ELSE NULL
<1>1. /\ txq \in Queue(Char, Holder) /\ buffer \in Queue(Char, Holder)
      /\ txq.not_empty = NULL /\ buffer.not_full = NULL
  BY Zenon DEF PortTypeOK, Waiters
<1>2. /\ pc' = Wake(x, Wake(y, pc)) /\ todo' = todo
      /\ buffer' = (IF recv THEN intq_putc(buffer, uart.rbr) ELSE buffer)
      /\ txq' = (IF xmit THEN intq_getc(txq) ELSE txq)
  BY Zenon DEF serial_interrupt
<1> HIDE DEF recv, xmit
<1>3. txq'.not_full = (IF x = NULL THEN txq.not_full ELSE NULL) /\ txq'.not_empty = NULL
  <2>1. intq_getc(txq).not_full = NULL /\ intq_getc(txq).not_empty = NULL
    BY Zenon, <1>1 DEF intq_getc, Queue
  <2> QED BY Zenon, <1>1, <1>2, <2>1
<1>4. buffer'.not_empty = (IF y = NULL THEN buffer.not_empty ELSE NULL) /\ buffer'.not_full = NULL
  <2>1. /\ intq_putc(buffer, uart.rbr).not_empty = NULL
        /\ intq_putc(buffer, uart.rbr).not_full = NULL
    BY Zenon, <1>1 DEF intq_putc, Queue
  <2> QED BY Zenon, <1>1, <1>2, <2>1
<1>5. x \in {txq.not_full, NULL} /\ y \in {buffer.not_empty, NULL}
  BY Zenon
<1> HIDE DEF x, y
<1> QED BY Zenon, <1>2, <1>3, <1>4, <1>5, WakingMoves

(* A message of an interrupt handler. *)
LEMMA MessageMoves ==
  ASSUME PortTypeOK, ChannelTypeOK, Waiters, NEW b, PrintOff(b), UNCHANGED ideVars,
         UNCHANGED <<todo, buffer>>
  PROVE  PortMove /\ Waiters'
<1> DEFINE x == IF intq_full(txq) THEN txq.not_full ELSE NULL
           q == IF intq_full(txq) THEN intq_getc(txq) ELSE txq
<1>1. /\ txq \in Queue(Char, Holder) /\ txq.not_empty = NULL /\ buffer.not_full = NULL
  BY Zenon DEF PortTypeOK, Waiters
<1>2. pc' = Wake(x, Wake(NULL, pc)) /\ txq' = intq_putc(q, b)
  BY Zenon DEF PrintOff, Wake
<1>3. q.not_full = (IF x = NULL THEN txq.not_full ELSE NULL) /\ q.not_empty = NULL
  <2>1. intq_getc(txq).not_full = NULL /\ intq_getc(txq).not_empty = NULL
    BY Zenon, <1>1 DEF intq_getc, Queue
  <2> QED BY Zenon, <1>1, <2>1
<1>4. txq'.not_full = q.not_full /\ txq'.not_empty = NULL
  <2>1. intq_putc(txq, b).not_full = txq.not_full /\ intq_putc(txq, b).not_empty = NULL
    BY Zenon, <1>1 DEF intq_putc, Queue
  <2>2. /\ intq_putc(intq_getc(txq), b).not_full = intq_getc(txq).not_full
        /\ intq_putc(intq_getc(txq), b).not_empty = NULL
    BY Zenon, <1>1 DEF intq_putc, intq_getc, Queue
  <2> QED BY Zenon, <1>2, <2>1, <2>2
<1>5. x \in {txq.not_full, NULL}
  BY Zenon
<1> HIDE DEF x, q
<1>6. /\ txq'.not_full = (IF x = NULL THEN txq.not_full ELSE NULL) /\ txq'.not_empty = NULL
      /\ buffer'.not_empty = (IF NULL = NULL THEN buffer.not_empty ELSE NULL)
      /\ buffer'.not_full = NULL
  BY Zenon, <1>1, <1>3, <1>4
<1> QED BY Zenon, <1>2, <1>5, <1>6, WakingMoves


(* The places of a call on a disk differ from those of the ports.          *)
LEMMA LabelsDiffer ==
  /\ \A l \in ChannelLabels : l # "blocked" /\ l # "call"
  /\ \A l \in {"select", "issue", "command", "sema_down", "wait", "unlock"} :
       l \in ChannelLabels /\ l \in CallLabels
  /\ "call" # "blocked" /\ "call" \in CallLabels
<1>1. \A l \in ChannelLabels : l # "blocked" /\ l # "call"
  BY Zenon DEF ChannelLabels
<1>2. \A l \in {"select", "issue", "command", "sema_down", "wait", "unlock"} : l \in ChannelLabels
  BY Zenon DEF ChannelLabels
<1>3. \A l \in {"select", "issue", "command", "sema_down", "wait", "unlock"} : l \in CallLabels
  BY Zenon DEF ChannelLabels, CallLabels
<1>4. "call" # "blocked" /\ "call" \in CallLabels
  BY Zenon DEF ChannelLabels, CallLabels
<1> QED BY Zenon, <1>1, <1>2, <1>3, <1>4

(* How far the disk is, by the place of the thread. *)
LEMMA Stages ==
  ASSUME NEW t, CallProgress(t)
  PROVE  /\ pc[t] \in {"select", "issue", "command"} => AtRest
         /\ pc[t] \in {"issue", "command"} => dev.lba = <<Request(t).disk, Request(t).sector>>
         /\ pc[t] \in {"sema_down", "wait", "unlock"} =>
              \/ Calls(t, "read") /\ Reading(t, Request(t))
              \/ Calls(t, "write") /\ Writing(t, Request(t))
  BY Zenon DEF CallProgress, Reading, Writing

(* A thread goes on with its call on a disk. *)
LEMMA ChannelStep ==
  ASSUME PortTypeOK, ChannelTypeOK, Waiters, OneUser, NEW t \in Thread, chan.lock = t,
         NEW l \in ChannelLabels, pc' = [pc EXCEPT ![t] = l], UNCHANGED <<todo, txq, buffer>>,
         chan'.lock = chan.lock, CallProgress(t)'
  PROVE  Waiters' /\ OneUser' /\ Progress' /\ pc' \in [Thread -> CallLabels]
<1>1. /\ pc' \in [Thread -> CallLabels] /\ pc'[t] = l
      /\ \A u \in Thread \ {t} : pc'[u] = pc[u] /\ todo'[u] = todo[u]
  BY Zenon DEF ChannelTypeOK, CallLabels
<1>2. pc[t] # "blocked"
  BY Zenon, LabelsDiffer DEF OneUser
<1>3. Waiters'
  BY Zenon, <1>1, <1>2, WaitersOfThread DEF Waiters
<1>4. OneUser'
  <2>1. ASSUME NEW u \in Thread
        PROVE  /\ pc'[u] \in ChannelLabels <=> chan'.lock = u
               /\ chan'.lock = u => Calls(u, "read")' \/ Calls(u, "write")'
    <3>1. Calls(t, "read")' \/ Calls(t, "write")'
      BY Zenon DEF OneUser, Calls
    <3>2. CASE u = t
      BY Zenon, <1>1, <3>1, <3>2
    <3>3. CASE u # t
      BY Zenon, <1>1, <3>3 DEF OneUser
    <3> QED BY Zenon, <3>2, <3>3
  <2> QED BY Zenon, <2>1 DEF OneUser
<1>5. Progress'
  BY Zenon, ConsoleAssumption DEF Progress
<1> QED BY Zenon, <1>1, <1>3, <1>4, <1>5

(* ide_read and ide_write start: the channel is at rest.                   *)
LEMMA BlockOpStep ==
  ASSUME PortTypeOK, ChannelInv, NEW t \in Thread, block_op(t)
  PROVE  ChannelInv'
<1>1. /\ pc[t] = "call" /\ (Calls(t, "read") \/ Calls(t, "write"))
      /\ chan.lock = NULL /\ chan' = [chan EXCEPT !.lock = t]
      /\ pc' = [pc EXCEPT ![t] = "select"] /\ UNCHANGED <<todo, txq, buffer, dev, disk, data>>
  BY Zenon DEF block_op, InCall, lock_acquire, Goto, portVars
<1>2. ChannelTypeOK /\ Waiters /\ OneUser /\ Progress
  BY Zenon DEF ChannelInv
<1>3. "select" \in ChannelLabels /\ "select" \in CallLabels /\ pc[t] # "blocked"
  BY Zenon, <1>1, LabelsDiffer
<1>4. /\ pc' \in [Thread -> CallLabels] /\ pc'[t] = "select"
      /\ \A u \in Thread \ {t} : pc'[u] = pc[u] /\ todo'[u] = todo[u]
  BY Zenon, <1>1, <1>2, <1>3 DEF ChannelTypeOK
<1>5. /\ chan' \in [lock : Holder, expecting_interrupt : BOOLEAN, completion_wait : Nat]
      /\ chan'.lock = t /\ chan'.completion_wait = chan.completion_wait
  BY <1>1, <1>2 DEF ChannelTypeOK, Holder
<1>6. ChannelTypeOK'
  BY Zenon, <1>1, <1>2, <1>4, <1>5 DEF ChannelTypeOK
<1>7. Waiters'
  BY Zenon, <1>1, <1>2, <1>3, <1>4, WaitersOfThread DEF Waiters
<1>8. OneUser'
  <2>1. ASSUME NEW u \in Thread
        PROVE  /\ pc'[u] \in ChannelLabels <=> chan'.lock = u
               /\ chan'.lock = u => Calls(u, "read")' \/ Calls(u, "write")'
    <3>1. Calls(t, "read")' \/ Calls(t, "write")'
      BY Zenon, <1>1 DEF Calls
    <3>2. CASE u = t
      BY Zenon, <1>3, <1>4, <1>5, <3>1, <3>2
    <3>3. CASE u # t
      BY Zenon, <1>1, <1>2, <1>4, <1>5, <3>3, ConsoleAssumption DEF OneUser
    <3> QED BY Zenon, <3>2, <3>3
  <2> QED BY Zenon, <2>1 DEF OneUser
<1>9. AtRest'
  BY Zenon, <1>1, <1>2, <1>5 DEF Progress, AtRest, Untold
<1>10. Progress'
  BY Zenon, <1>4, <1>5, <1>9, ConsoleAssumption DEF Progress, CallProgress
<1> QED BY Zenon, <1>6, <1>7, <1>8, <1>10 DEF ChannelInv

(* select_sector, and the interrupt is expected. *)
LEMMA SelectStep ==
  ASSUME PortTypeOK, ChannelInv, NEW t \in Thread, select_sector(t) \/ Expect(t)
  PROVE  ChannelInv'
<1> DEFINE r == Request(t)
<1>1. ChannelTypeOK /\ Waiters /\ OneUser /\ Progress
  BY Zenon DEF ChannelInv
<1>2. /\ pc[t] \in {"select", "issue"} /\ (Calls(t, "read") \/ Calls(t, "write"))
      /\ UNCHANGED <<todo, txq, buffer, disk, data>>
  BY Zenon DEF select_sector, Expect, InCall, portVars
<1>3. chan.lock = t /\ r.disk \in Disk /\ r.sector \in Sector
  <2>1. pc[t] \in ChannelLabels
    BY Zenon, <1>2, LabelsDiffer
  <2> QED BY Zenon, <1>1, <1>2, <2>1, RequestType DEF OneUser
<1>4. AtRest /\ CallProgress(t)
  <2>1. CallProgress(t)
    BY Zenon, <1>1, <1>3 DEF Progress
  <2> QED BY Zenon, <1>2, <2>1, Stages DEF r
<1>5. r' = r
  BY Zenon, <1>2 DEF Request
<1> HIDE DEF r
<1>6. CASE select_sector(t)
  <2>1. /\ dev' = [dev EXCEPT !.lba = <<r.disk, r.sector>>, !.intrq = FALSE]
        /\ pc' = [pc EXCEPT ![t] = "issue"] /\ chan' = chan
    BY Zenon, <1>6 DEF select_sector, Goto, r
  <2>2. /\ dev' \in [lba : (Disk \X Sector) \cup {NULL}, command : {"read", "write", NULL},
                     status : {"idle", "busy", "drq"}, intrq : BOOLEAN, data : Cell]
        /\ dev'.lba = <<r.disk, r.sector>> /\ dev'.status = dev.status
        /\ dev'.data = dev.data /\ ~dev'.intrq
    BY Zenon, <1>1, <1>3, <2>1 DEF ChannelTypeOK
  <2>3. pc'[t] = "issue" /\ "issue" \in ChannelLabels
    BY Zenon, <1>1, <2>1 DEF ChannelTypeOK, ChannelLabels
  <2>4. CallProgress(t)'
    BY ZenonT(40), <1>4, <1>5, <2>1, <2>2, <2>3 DEF CallProgress, AtRest, Untold, r
  <2>5. Waiters' /\ OneUser' /\ Progress' /\ pc' \in [Thread -> CallLabels]
    BY ZenonT(40), <1>1, <1>2, <1>3, <2>1, <2>3, <2>4, ChannelStep
  <2> QED BY Zenon, <1>1, <1>2, <2>1, <2>2, <2>5 DEF ChannelInv, ChannelTypeOK
<1>7. CASE Expect(t)
  <2>1. /\ chan' = [chan EXCEPT !.expecting_interrupt = TRUE] /\ pc[t] = "issue"
        /\ pc' = [pc EXCEPT ![t] = "command"] /\ dev' = dev
    BY Zenon, <1>7 DEF Expect, Goto, InCall
  <2>2. /\ chan' \in [lock : Holder, expecting_interrupt : BOOLEAN, completion_wait : Nat]
        /\ chan'.lock = chan.lock /\ chan'.completion_wait = chan.completion_wait
    BY Zenon, <1>1, <2>1 DEF ChannelTypeOK
  <2>3. pc'[t] = "command" /\ "command" \in ChannelLabels
    BY Zenon, <1>1, <2>1 DEF ChannelTypeOK, ChannelLabels
  <2>4. dev.lba = <<r.disk, r.sector>>
    BY Zenon, <1>4, <2>1, Stages DEF r
  <2>5. CallProgress(t)'
    BY ZenonT(40), <1>4, <1>5, <2>1, <2>2, <2>3, <2>4 DEF CallProgress, AtRest, Untold, r
  <2>6. Waiters' /\ OneUser' /\ Progress' /\ pc' \in [Thread -> CallLabels]
    BY Zenon, <1>1, <1>2, <1>3, <2>1, <2>2, <2>3, <2>5, ChannelStep
  <2> QED BY ZenonT(40), <1>1, <1>2, <2>1, <2>2, <2>6 DEF ChannelInv, ChannelTypeOK
<1> QED BY Zenon, <1>6, <1>7

(* The command is written. *)
LEMMA IssueStep ==
  ASSUME PortTypeOK, ChannelInv, NEW t \in Thread, issue_pio_command(t)
  PROVE  ChannelInv'
<1> DEFINE r == Request(t)
           l == IF Calls(t, "read") THEN "sema_down" ELSE "wait"
<1>1. ChannelTypeOK /\ Waiters /\ OneUser /\ Progress
  BY Zenon DEF ChannelInv
<1>2. /\ pc[t] = "command" /\ (Calls(t, "read") \/ Calls(t, "write"))
      /\ UNCHANGED <<todo, txq, buffer, chan, disk, data>>
      /\ dev' = [dev EXCEPT !.command = r.op, !.status = "busy"] /\ pc' = [pc EXCEPT ![t] = l]
  BY Zenon DEF issue_pio_command, InCall, portVars, Goto
<1>3. chan.lock = t /\ (Calls(t, "read") <=> ~Calls(t, "write"))
  <2>1. pc[t] \in ChannelLabels
    BY Zenon, <1>2, LabelsDiffer
  <2> QED BY Zenon, <1>1, <1>2, <2>1, RequestType DEF OneUser
<1>4. AtRest /\ dev.lba = <<r.disk, r.sector>>
  <2>1. CallProgress(t)
    BY Zenon, <1>1, <1>3 DEF Progress
  <2> QED BY Zenon, <1>2, <2>1, Stages DEF r
<1>5. /\ Request(t)' = Request(t) /\ (Calls(t, "read")' <=> Calls(t, "read"))
      /\ (Calls(t, "write")' <=> Calls(t, "write"))
  BY Zenon, <1>2 DEF Request, Calls
<1>6. /\ Calls(t, "read") => r.op = "read"
      /\ Calls(t, "write") => r.op = "write"
  BY Zenon DEF Calls, Request
<1>7. pc'[t] = l /\ l \in ChannelLabels
  BY Zenon, <1>1, <1>2 DEF ChannelTypeOK, ChannelLabels
<1> HIDE DEF l, r
<1>8. /\ dev' \in [lba : (Disk \X Sector) \cup {NULL}, command : {"read", "write", NULL},
                   status : {"idle", "busy", "drq"}, intrq : BOOLEAN, data : Cell]
      /\ dev'.lba = dev.lba /\ dev'.status = "busy" /\ dev'.command = r.op
      /\ dev'.data = dev.data /\ dev'.intrq = dev.intrq
  <2>1. r.op \in {"read", "write", NULL}
    BY Zenon, <1>2, <1>6
  <2> QED BY Zenon, <1>1, <1>2, <2>1 DEF ChannelTypeOK
<1>9. Untold' /\ dev'.data = NULL /\ dev'.lba = <<r.disk, r.sector>>
  BY Zenon, <1>2, <1>4, <1>8 DEF AtRest, Untold
<1>10. CallProgress(t)'
  <2>1. CASE Calls(t, "read")
    <3>1. Reading(t, r)'
      BY Zenon, <1>5, <1>6, <1>7, <1>8, <1>9, <2>1 DEF Reading, l, r
    <3> QED BY Zenon, <1>5, <2>1, <3>1 DEF CallProgress, r
  <2>2. CASE Calls(t, "write")
    <3>1. Writing(t, r)'
      BY ZenonT(40), <1>3, <1>5, <1>6, <1>7, <1>8, <1>9, <2>2 DEF Writing, l, r
    <3> QED BY Zenon, <1>5, <2>2, <3>1 DEF CallProgress, r
  <2> QED BY Zenon, <1>2, <2>1, <2>2
<1>11. Waiters' /\ OneUser' /\ Progress' /\ pc' \in [Thread -> CallLabels]
  BY Zenon, <1>1, <1>2, <1>3, <1>7, <1>10, ChannelStep
<1> QED BY Zenon, <1>1, <1>2, <1>8, <1>11 DEF ChannelInv, ChannelTypeOK

(* sema_down returns: the disk had told the end of what it was asked for.  *)
LEMMA SemaDownStep ==
  ASSUME PortTypeOK, ChannelInv, NEW t \in Thread, sema_down(t)
  PROVE  ChannelInv'
<1> DEFINE r == Request(t)
           l == IF Calls(t, "read") THEN "wait" ELSE "unlock"
<1>1. ChannelTypeOK /\ Waiters /\ OneUser /\ Progress
  BY Zenon DEF ChannelInv
<1>2. /\ pc[t] = "sema_down" /\ (Calls(t, "read") \/ Calls(t, "write"))
      /\ UNCHANGED <<todo, txq, buffer, dev, disk, data>> /\ chan.completion_wait > 0
      /\ chan' = [chan EXCEPT !.completion_wait = @ - 1] /\ pc' = [pc EXCEPT ![t] = l]
  BY Zenon DEF sema_down, InCall, portVars, Goto
<1>3. chan.lock = t /\ (Calls(t, "read") <=> ~Calls(t, "write"))
  <2>1. pc[t] \in ChannelLabels
    BY Zenon, <1>2, LabelsDiffer
  <2> QED BY Zenon, <1>1, <1>2, <2>1, RequestType DEF OneUser
<1>4. /\ Request(t)' = Request(t) /\ (Calls(t, "read")' <=> Calls(t, "read"))
      /\ (Calls(t, "write")' <=> Calls(t, "write"))
  BY Zenon, <1>2 DEF Request, Calls
<1>5. pc'[t] = l /\ l \in ChannelLabels
  BY Zenon, <1>1, <1>2 DEF ChannelTypeOK, ChannelLabels
<1>6. \/ Calls(t, "read") /\ Reading(t, r)
      \/ Calls(t, "write") /\ Writing(t, r)
  <2>1. CallProgress(t)
    BY Zenon, <1>1, <1>3 DEF Progress
  <2> QED BY Zenon, <1>2, <2>1, Stages
<1>7. ~Untold
  <2>1. chan.completion_wait # 0
    BY <1>2
  <2> QED BY Zenon, <2>1 DEF Untold
<1> HIDE DEF l, r
<1>8. Told /\ dev.lba = <<r.disk, r.sector>>
      /\ \/ /\ Calls(t, "read") /\ dev.command = "read" /\ dev.status = "drq"
            /\ dev.data = disk[r.disk][r.sector]
         \/ /\ Calls(t, "write") /\ dev.command = "write" /\ dev.status = "idle"
            /\ dev.data = NULL /\ disk[r.disk][r.sector] = r.value
  BY <1>2, <1>6, <1>7 DEF Reading, Writing
<1>9. chan.completion_wait = 1 /\ ~dev.intrq
  BY <1>2, <1>8 DEF Told
<1>10. /\ chan' \in [lock : Holder, expecting_interrupt : BOOLEAN, completion_wait : Nat]
       /\ chan'.lock = chan.lock /\ chan'.completion_wait = 0
  <2>1. 1 - 1 = 0 /\ 0 \in Nat
    OBVIOUS
  <2> QED BY Zenon, <1>1, <1>2, <1>9, <2>1 DEF ChannelTypeOK
<1>11. Untold'
  BY Zenon, <1>2, <1>9, <1>10 DEF Untold
<1>12. CallProgress(t)'
  <2>1. CASE Calls(t, "read")
    <3>1. Reading(t, r)'
      BY ZenonT(40), <1>2, <1>3, <1>4, <1>5, <1>8, <1>11, <2>1 DEF Reading, l, r
    <3> QED BY Zenon, <1>4, <2>1, <3>1 DEF CallProgress, r
  <2>2. CASE Calls(t, "write")
    <3>1. Writing(t, r)'
      BY Zenon, <1>2, <1>3, <1>4, <1>5, <1>8, <1>11, <2>2 DEF Writing, AtRest, l, r
    <3> QED BY Zenon, <1>4, <2>2, <3>1 DEF CallProgress, r
  <2> QED BY ZenonT(40), <1>2, <2>1, <2>2
<1>13. Waiters' /\ OneUser' /\ Progress' /\ pc' \in [Thread -> CallLabels]
  BY Zenon, <1>1, <1>2, <1>3, <1>5, <1>10, <1>12, ChannelStep
<1> QED BY Zenon, <1>1, <1>2, <1>10, <1>13 DEF ChannelInv, ChannelTypeOK

(* The transfer: a read takes the sector, a write hands its value over.    *)
LEMMA TransferStep ==
  ASSUME PortTypeOK, ChannelInv, NEW t \in Thread, Transfer(t)
  PROVE  ChannelInv'
<1> DEFINE r == Request(t)
           l == AfterTransfer(t)
<1>1. ChannelTypeOK /\ Waiters /\ OneUser /\ Progress
  BY Zenon DEF ChannelInv
<1>2. /\ pc[t] = "wait" /\ (Calls(t, "read") \/ Calls(t, "write"))
      /\ UNCHANGED <<todo, txq, buffer, chan, disk>> /\ dev.status # "busy"
      /\ pc' = [pc EXCEPT ![t] = l]
  BY Zenon DEF Transfer, InCall, portVars, Goto, Ready
<1>3. /\ Calls(t, "read") => /\ data' = [data EXCEPT ![t] = dev.data]
                             /\ dev' = [dev EXCEPT !.status = "idle", !.data = NULL]
      /\ ~Calls(t, "read") => /\ dev' = [dev EXCEPT !.status = "busy", !.data = r.value]
                              /\ data' = data
  BY Zenon DEF Transfer
<1>4. chan.lock = t /\ (Calls(t, "read") <=> ~Calls(t, "write"))
  <2>1. pc[t] \in ChannelLabels
    BY Zenon, <1>2, LabelsDiffer
  <2> QED BY Zenon, <1>1, <1>2, <2>1, RequestType DEF OneUser
<1>5. /\ Request(t)' = Request(t) /\ (Calls(t, "read")' <=> Calls(t, "read"))
      /\ (Calls(t, "write")' <=> Calls(t, "write"))
  BY Zenon, <1>2 DEF Request, Calls
<1>6. pc'[t] = l /\ l \in ChannelLabels
  BY Zenon, <1>1, <1>2 DEF ChannelTypeOK, ChannelLabels, AfterTransfer
<1>7. \/ Calls(t, "read") /\ Reading(t, r)
      \/ Calls(t, "write") /\ Writing(t, r)
  <2>1. CallProgress(t)
    BY Zenon, <1>1, <1>4 DEF Progress
  <2> QED BY Zenon, <1>2, <2>1, Stages
<1>8. Calls(t, "write") => r.value \in Cell
  BY ZenonT(40), <1>2, RequestType DEF Cell
<1> HIDE DEF l, r
<1>9. Untold /\ dev.lba = <<r.disk, r.sector>>
      /\ \/ /\ Calls(t, "read") /\ dev.command = "read"
            /\ dev.data = disk[r.disk][r.sector]
         \/ Calls(t, "write") /\ dev.command = "write"
  BY <1>2, <1>7 DEF Reading, Writing
<1>10. CASE Calls(t, "read")
  <2>1. /\ dev' \in [lba : (Disk \X Sector) \cup {NULL}, command : {"read", "write", NULL},
                     status : {"idle", "busy", "drq"}, intrq : BOOLEAN, data : Cell]
        /\ dev'.lba = dev.lba /\ dev'.status = "idle" /\ dev'.command = dev.command
        /\ dev'.data = NULL /\ dev'.intrq = dev.intrq
    BY Zenon, <1>1, <1>3, <1>10 DEF ChannelTypeOK, Cell
  <2>2. dev.data \in Cell
    BY Zenon, <1>1 DEF ChannelTypeOK
  <2>3. data' \in [Thread -> Cell] /\ data'[t] = dev.data
    BY Zenon, <1>1, <1>3, <1>10, <2>2 DEF ChannelTypeOK
  <2>4. Reading(t, r)'
    BY Zenon, <1>2, <1>4, <1>5, <1>6, <1>9, <1>10, <2>1, <2>3
       DEF Reading, AtRest, Untold, AfterTransfer, l, r
  <2>5. CallProgress(t)'
    BY Zenon, <1>5, <1>10, <2>4 DEF CallProgress, r
  <2>6. Waiters' /\ OneUser' /\ Progress' /\ pc' \in [Thread -> CallLabels]
    BY Zenon, <1>1, <1>2, <1>4, <1>6, <2>5, ChannelStep
  <2> QED BY Zenon, <1>1, <1>2, <2>1, <2>3, <2>6 DEF ChannelInv, ChannelTypeOK
<1>11. CASE Calls(t, "write")
  <2>1. /\ dev' \in [lba : (Disk \X Sector) \cup {NULL}, command : {"read", "write", NULL},
                     status : {"idle", "busy", "drq"}, intrq : BOOLEAN, data : Cell]
        /\ dev'.lba = dev.lba /\ dev'.status = "busy" /\ dev'.command = dev.command
        /\ dev'.data = r.value /\ dev'.intrq = dev.intrq /\ data' = data
    BY Zenon, <1>1, <1>3, <1>4, <1>8, <1>11 DEF ChannelTypeOK
  <2>2. Writing(t, r)'
    BY ZenonT(40), <1>2, <1>4, <1>5, <1>6, <1>9, <1>11, <2>1
       DEF Writing, Untold, AfterTransfer, l, r
  <2>3. CallProgress(t)'
    BY Zenon, <1>5, <1>11, <2>2 DEF CallProgress, r
  <2>4. Waiters' /\ OneUser' /\ Progress' /\ pc' \in [Thread -> CallLabels]
    BY Zenon, <1>1, <1>2, <1>4, <1>6, <2>3, ChannelStep
  <2> QED BY Zenon, <1>1, <1>2, <2>1, <2>4 DEF ChannelInv, ChannelTypeOK
<1> QED BY Zenon, <1>2, <1>10, <1>11

(* ide_read and ide_write return: the sector was transferred. *)
LEMMA Transferred ==
  ASSUME PortTypeOK, ChannelInv, NEW t \in Thread, lock_release(t)
  PROVE  /\ chan.lock = t /\ AtRest
         /\ Calls(t, "read") => data[t] = disk[Request(t).disk][Request(t).sector]
         /\ Calls(t, "write") => disk[Request(t).disk][Request(t).sector] = Request(t).value
<1> DEFINE r == Request(t)
<1>1. OneUser /\ Progress
  BY Zenon DEF ChannelInv
<1>2. pc[t] = "unlock" /\ (Calls(t, "read") \/ Calls(t, "write"))
  BY Zenon DEF lock_release, InCall
<1>3. chan.lock = t /\ (Calls(t, "read") <=> ~Calls(t, "write"))
  <2>1. pc[t] \in ChannelLabels
    BY Zenon, <1>2, LabelsDiffer
  <2> QED BY Zenon, <1>1, <1>2, <2>1, RequestType DEF OneUser
<1>4. \/ Calls(t, "read") /\ Reading(t, r)
      \/ Calls(t, "write") /\ Writing(t, r)
  <2>1. CallProgress(t)
    BY ZenonT(40), <1>1, <1>3 DEF Progress
  <2> QED BY Zenon, <1>2, <2>1, Stages
<1> HIDE DEF r
<1>5. /\ Calls(t, "read") => data[t] = disk[r.disk][r.sector]
      /\ Calls(t, "write") => disk[r.disk][r.sector] = r.value
      /\ AtRest
  BY Zenon, <1>2, <1>3, <1>4 DEF Reading, Writing
<1> QED BY Zenon, <1>3, <1>5 DEF r

(* The lock is released and the caller goes on. *)
LEMMA ReleaseStep ==
  ASSUME PortTypeOK, ChannelInv, NEW t \in Thread, lock_release(t)
  PROVE  ChannelInv'
<1>1. ChannelTypeOK /\ Waiters /\ OneUser /\ Progress
  BY Zenon DEF ChannelInv
<1>2. /\ pc[t] = "unlock" /\ pc' = [pc EXCEPT ![t] = "call"]
      /\ chan' = [chan EXCEPT !.lock = NULL] /\ UNCHANGED <<txq, buffer, dev, disk, data>>
      /\ todo' = [todo EXCEPT ![t] = Tail(@)]
  BY Zenon DEF lock_release, InCall, Goto, Return, portVars
<1>3. /\ pc' \in [Thread -> CallLabels] /\ pc'[t] = "call"
      /\ \A u \in Thread \ {t} : pc'[u] = pc[u] /\ todo'[u] = todo[u]
  <2>1. /\ pc' \in [Thread -> CallLabels] /\ pc'[t] = "call"
        /\ \A u \in Thread \ {t} : pc'[u] = pc[u]
    BY Zenon, <1>1, <1>2, LabelsDiffer DEF ChannelTypeOK
  <2>2. \A u \in Thread \ {t} : todo'[u] = todo[u]
    BY Zenon, <1>2 DEF PortTypeOK
  <2> QED BY Zenon, <2>1, <2>2
<1>4. /\ chan' \in [lock : Holder, expecting_interrupt : BOOLEAN, completion_wait : Nat]
      /\ chan'.lock = NULL /\ chan'.completion_wait = chan.completion_wait
  BY Zenon, <1>1, <1>2 DEF ChannelTypeOK, Holder
<1>5. ChannelTypeOK'
  BY Zenon, <1>1, <1>2, <1>3, <1>4 DEF ChannelTypeOK
<1>6. Waiters'
  <2>1. pc[t] # "blocked"
    BY Zenon, <1>2, LabelsDiffer
  <2> QED BY Zenon, <1>1, <1>2, <1>3, <2>1, WaitersOfThread DEF Waiters
<1>7. chan.lock = t /\ AtRest
  BY Zenon, Transferred
<1>8. OneUser'
  <2>1. ASSUME NEW u \in Thread PROVE pc'[u] \notin ChannelLabels /\ chan'.lock # u
    <3>1. CASE u = t
      BY Zenon, <1>3, <1>4, <3>1, LabelsDiffer, ConsoleAssumption
    <3>2. CASE u # t
      BY Zenon, <1>1, <1>3, <1>4, <1>7, <3>2, ConsoleAssumption DEF OneUser
    <3> QED BY Zenon, <3>1, <3>2
  <2> QED BY Zenon, <2>1 DEF OneUser
<1>9. Progress'
  BY Zenon, <1>2, <1>4, <1>7, ConsoleAssumption DEF Progress, AtRest, Untold
<1> QED BY Zenon, <1>5, <1>6, <1>8, <1>9 DEF ChannelInv

(* A disk at work, or one whose interrupt is not yet handled, serves the   *)
(* thread that holds the channel's lock.                                   *)
LEMMA Served ==
  ASSUME PortTypeOK, ChannelInv, ~AtRest, UNCHANGED callVars
  PROVE  \E t \in Thread :
           /\ chan.lock = t /\ (Calls(t, "read") <=> ~Calls(t, "write"))
           /\ Request(t).disk \in Disk /\ Request(t).sector \in Sector
           /\ Request(t)' = Request(t) /\ (Calls(t, "read")' <=> Calls(t, "read"))
           /\ (Calls(t, "write")' <=> Calls(t, "write")) /\ pc'[t] = pc[t]
           /\ Calls(t, "write") => Request(t).value \in Char
           /\ \/ Calls(t, "read") /\ Reading(t, Request(t))
              \/ Calls(t, "write") /\ Writing(t, Request(t))
<1>1. ChannelTypeOK /\ OneUser /\ Progress
  BY Zenon DEF ChannelInv
<1>2. chan.lock \in Thread
  BY Zenon, <1>1 DEF Progress, ChannelTypeOK, Holder
<1>3. PICK t \in Thread : chan.lock = t
  BY Zenon, <1>2
<1>4. Calls(t, "read") \/ Calls(t, "write")
  BY Zenon, <1>1, <1>3 DEF OneUser
<1>5. CallProgress(t)
  BY Zenon, <1>1, <1>3 DEF Progress
<1>6. \/ Calls(t, "read") /\ Reading(t, Request(t))
      \/ Calls(t, "write") /\ Writing(t, Request(t))
  <2>1. pc[t] = "issue" => pc[t] \in {"select", "issue", "command"}
    BY Zenon
  <2> QED BY Zenon, <1>5, <2>1 DEF CallProgress
<1>7. /\ Request(t)' = Request(t) /\ (Calls(t, "read")' <=> Calls(t, "read"))
      /\ (Calls(t, "write")' <=> Calls(t, "write")) /\ pc'[t] = pc[t]
  BY Zenon DEF Request, Calls, callVars
<1>8. /\ Request(t).disk \in Disk /\ Request(t).sector \in Sector
      /\ (Calls(t, "read") <=> ~Calls(t, "write"))
      /\ Calls(t, "write") => Request(t).value \in Char
  BY Zenon, <1>4, RequestType
<1> QED BY Zenon, <1>3, <1>6, <1>7, <1>8

(* The disk and its interrupt handler leave the threads alone. *)
LEMMA DiskKeeps ==
  ASSUME ChannelInv, UNCHANGED <<callVars, portVars>>, chan'.lock = chan.lock,
         NEW t \in Thread, chan.lock = t, CallProgress(t)'
  PROVE  Waiters' /\ OneUser' /\ Progress' /\ pc' = pc
<1>1. Waiters /\ OneUser
  BY Zenon DEF ChannelInv
<1>2. pc' = pc /\ todo' = todo /\ txq' = txq /\ buffer' = buffer
  BY Zenon DEF callVars, portVars
<1>3. Waiters'
  BY Zenon, <1>1, <1>2 DEF Waiters, Calls
<1>4. OneUser'
  BY Zenon, <1>1, <1>2 DEF OneUser, Calls
<1>5. Progress'
  BY Zenon, ConsoleAssumption DEF Progress
<1> QED BY Zenon, <1>2, <1>3, <1>4, <1>5

(* The disk works on the command. *)
LEMMA DiskStep ==
  ASSUME PortTypeOK, ChannelInv, DiskWorks
  PROVE  ChannelInv'
<1> DEFINE d == dev.lba[1]
           s == dev.lba[2]
           Devs == [lba : (Disk \X Sector) \cup {NULL}, command : {"read", "write", NULL},
                    status : {"idle", "busy", "drq"}, intrq : BOOLEAN, data : Cell]
<1>1. ChannelTypeOK
  BY Zenon DEF ChannelInv
<1>2. UNCHANGED <<callVars, portVars, chan, data>> /\ dev.status = "busy"
  BY Zenon DEF DiskWorks
<1>3. \/ /\ dev.command = "read" /\ disk' = disk
         /\ dev' = [dev EXCEPT !.status = "drq", !.intrq = TRUE, !.data = disk[d][s]]
      \/ /\ dev.command = "write" /\ dev.data = NULL /\ disk' = disk
         /\ dev' = [dev EXCEPT !.status = "drq"]
      \/ /\ dev.command = "write" /\ dev.data # NULL
         /\ disk' = [disk EXCEPT ![d][s] = dev.data]
         /\ dev' = [dev EXCEPT !.status = "idle", !.intrq = TRUE, !.data = NULL]
  BY Zenon DEF DiskWorks
<1>4. ~AtRest
  <2>1. "busy" # "idle"
    OBVIOUS
  <2> QED BY Zenon, <1>2, <2>1 DEF AtRest
<1>5. PICK t \in Thread :
           /\ chan.lock = t /\ (Calls(t, "read") <=> ~Calls(t, "write"))
           /\ Request(t).disk \in Disk /\ Request(t).sector \in Sector
           /\ Request(t)' = Request(t) /\ (Calls(t, "read")' <=> Calls(t, "read"))
           /\ (Calls(t, "write")' <=> Calls(t, "write")) /\ pc'[t] = pc[t]
           /\ Calls(t, "write") => Request(t).value \in Char
           /\ \/ Calls(t, "read") /\ Reading(t, Request(t))
              \/ Calls(t, "write") /\ Writing(t, Request(t))
  <2>1. UNCHANGED callVars
    BY Zenon, <1>2
  <2> QED BY Zenon, <1>4, <2>1, Served
<1> DEFINE r == Request(t)
<1>6. chan' = chan /\ chan'.lock = chan.lock /\ data' = data
  BY Zenon, <1>2
<1>7. /\ dev.lba = <<r.disk, r.sector>> /\ dev.data \in Cell /\ dev \in Devs
      /\ disk \in [Disk -> [Sector -> Cell]]
      /\ \/ Calls(t, "read") /\ dev.command = "read"
         \/ Calls(t, "write") /\ dev.command = "write"
  <2>1. dev.data \in Cell /\ dev \in Devs /\ disk \in [Disk -> [Sector -> Cell]]
    BY ZenonT(40), <1>1 DEF ChannelTypeOK
  <2> QED BY Zenon, <1>5, <2>1 DEF Reading, Writing
<1>8. d = r.disk /\ s = r.sector
  BY <1>7
<1>9. r' = r
  BY Zenon, <1>5
<1> HIDE DEF d, s, r, Devs
<1>10. SUFFICES /\ dev' \in Devs /\ disk' \in [Disk -> [Sector -> Cell]]
                /\ CallProgress(t)'
  BY Zenon, <1>1, <1>2, <1>5, <1>6, <1>10, DiskKeeps DEF ChannelInv, ChannelTypeOK, Devs
<1>11. CASE /\ dev.command = "read" /\ disk' = disk
            /\ dev' = [dev EXCEPT !.status = "drq", !.intrq = TRUE, !.data = disk[d][s]]
  <2>1. disk[d][s] \in Cell
    BY Zenon, <1>5, <1>7, <1>8 DEF r
  <2>2. /\ dev' \in Devs /\ dev'.lba = dev.lba /\ dev'.status = "drq"
        /\ dev'.command = dev.command /\ dev'.intrq = TRUE /\ dev'.data = disk[d][s]
    BY Zenon, <1>7, <1>11, <2>1 DEF Devs
  <2>3. Calls(t, "read") /\ Reading(t, r)
    <3>1. "read" # "write"
      OBVIOUS
    <3> QED BY Zenon, <1>5, <1>7, <1>11, <3>1 DEF r
  <2>4. pc[t] = "sema_down" /\ Untold
    BY <1>2, <2>3, <1>4 DEF Reading
  <2>5. Told'
    BY Zenon, <1>6, <2>2, <2>4 DEF Told, Untold
  <2>6. Reading(t, r)'
    BY ZenonT(40), <1>5, <1>7, <1>8, <1>9, <1>11, <2>2, <2>4, <2>5 DEF Reading
  <2> QED BY Zenon, <1>5, <1>7, <1>11, <2>2, <2>3, <2>6 DEF CallProgress, r
<1>12. CASE /\ dev.command = "write" /\ dev.data = NULL /\ disk' = disk
            /\ dev' = [dev EXCEPT !.status = "drq"]
  <2>1. /\ dev' \in Devs /\ dev'.lba = dev.lba /\ dev'.status = "drq"
        /\ dev'.command = dev.command /\ dev'.intrq = dev.intrq /\ dev'.data = dev.data
    BY Zenon, <1>7, <1>12 DEF Devs
  <2>2. Calls(t, "write") /\ Writing(t, r) /\ r.value # NULL
    <3>1. "read" # "write"
      OBVIOUS
    <3> QED BY Zenon, <1>5, <1>7, <1>12, <3>1, ConsoleAssumption DEF r
  <2>3. pc[t] = "wait" /\ Untold
    BY <1>2, <1>4, <1>12, <2>2 DEF Writing
  <2>4. Untold'
    BY Zenon, <1>6, <2>1, <2>3 DEF Untold
  <2>5. Writing(t, r)'
    BY ZenonT(40), <1>5, <1>7, <1>9, <1>12, <2>1, <2>3, <2>4 DEF Writing
  <2> QED BY Zenon, <1>5, <1>7, <1>12, <2>1, <2>2, <2>5 DEF CallProgress, r
<1>13. CASE /\ dev.command = "write" /\ dev.data # NULL
            /\ disk' = [disk EXCEPT ![d][s] = dev.data]
            /\ dev' = [dev EXCEPT !.status = "idle", !.intrq = TRUE, !.data = NULL]
  <2>1. /\ dev' \in Devs /\ dev'.lba = dev.lba /\ dev'.status = "idle"
        /\ dev'.command = dev.command /\ dev'.intrq = TRUE /\ dev'.data = NULL
    BY Zenon, <1>7, <1>13 DEF Devs, Cell
  <2>2. disk' \in [Disk -> [Sector -> Cell]] /\ disk'[d][s] = dev.data
    <3>1. d \in Disk /\ s \in Sector
      BY Zenon, <1>5, <1>8 DEF r
    <3> QED BY Zenon, <1>7, <1>13, <3>1
  <2>3. Calls(t, "write") /\ Writing(t, r)
    <3>1. "read" # "write"
      OBVIOUS
    <3> QED BY Zenon, <1>5, <1>7, <1>13, <3>1 DEF r
  <2>4. pc[t] = "sema_down" /\ dev.data = r.value /\ Untold
    BY <1>2, <1>4, <1>13, <2>3 DEF Writing
  <2>5. Told'
    BY Zenon, <1>6, <2>1, <2>4 DEF Told, Untold
  <2>6. Writing(t, r)'
    BY ZenonT(40), <1>5, <1>7, <1>8, <1>9, <1>13, <2>1, <2>2, <2>4, <2>5 DEF Writing
  <2> QED BY ZenonT(40), <1>5, <1>7, <1>13, <2>1, <2>2, <2>3, <2>6 DEF CallProgress, r
<1> QED BY Zenon, <1>3, <1>11, <1>12, <1>13

(* The interrupt of the disk is handled. *)
LEMMA ExpectedStep ==
  ASSUME PortTypeOK, ChannelInv, dev.intrq, dev' = [dev EXCEPT !.intrq = FALSE],
         chan' = [chan EXCEPT !.completion_wait = @ + 1],
         UNCHANGED <<callVars, portVars, disk, data>>
  PROVE  ChannelInv'
<1>1. ChannelTypeOK
  BY Zenon DEF ChannelInv
<1>2. ~Untold /\ ~AtRest /\ UNCHANGED callVars /\ data' = data /\ disk' = disk
  BY Zenon DEF AtRest, Untold
<1>3. PICK t \in Thread :
           /\ chan.lock = t /\ (Calls(t, "read") <=> ~Calls(t, "write"))
           /\ Request(t).disk \in Disk /\ Request(t).sector \in Sector
           /\ Request(t)' = Request(t) /\ (Calls(t, "read")' <=> Calls(t, "read"))
           /\ (Calls(t, "write")' <=> Calls(t, "write")) /\ pc'[t] = pc[t]
           /\ Calls(t, "write") => Request(t).value \in Char
           /\ \/ Calls(t, "read") /\ Reading(t, Request(t))
              \/ Calls(t, "write") /\ Writing(t, Request(t))
  BY Zenon, <1>2, Served
<1> DEFINE r == Request(t)
<1>4. Told
  BY Zenon, <1>2, <1>3 DEF Reading, Writing, AtRest
<1>5. chan.completion_wait = 0
  BY Zenon, <1>4 DEF Told
<1>6. /\ chan' \in [lock : Holder, expecting_interrupt : BOOLEAN, completion_wait : Nat]
      /\ chan'.lock = chan.lock /\ chan'.completion_wait = 1
  <2>1. 0 + 1 = 1 /\ 1 \in Nat
    OBVIOUS
  <2> QED BY Zenon, <1>1, <1>5, <2>1 DEF ChannelTypeOK
<1>7. /\ dev' \in [lba : (Disk \X Sector) \cup {NULL}, command : {"read", "write", NULL},
                   status : {"idle", "busy", "drq"}, intrq : BOOLEAN, data : Cell]
      /\ dev'.lba = dev.lba /\ dev'.status = dev.status /\ dev'.command = dev.command
      /\ dev'.data = dev.data /\ ~dev'.intrq
  BY Zenon, <1>1 DEF ChannelTypeOK
<1>8. Told'
  BY Zenon, <1>6, <1>7 DEF Told
<1>9. CallProgress(t)'
  <2>1. CASE Calls(t, "read")
    <3>1. Reading(t, r)'
      BY Zenon, <1>2, <1>3, <1>7, <1>8, <2>1 DEF Reading, AtRest
    <3> QED BY Zenon, <1>3, <2>1, <3>1 DEF CallProgress
  <2>2. CASE Calls(t, "write")
    <3>1. Writing(t, r)'
      BY Zenon, <1>2, <1>3, <1>7, <1>8, <2>2 DEF Writing, AtRest
    <3> QED BY Zenon, <1>3, <2>2, <3>1 DEF CallProgress
  <2> QED BY Zenon, <1>3, <2>1, <2>2
<1>10. Waiters' /\ OneUser' /\ Progress' /\ pc' = pc
  BY Zenon, <1>3, <1>6, <1>9, DiskKeeps
<1> QED BY Zenon, <1>1, <1>2, <1>6, <1>7, <1>10 DEF ChannelInv, ChannelTypeOK

(* The channel as ide_init leaves it. *)
LEMMA ChannelInit == Init => ChannelInv
<1> SUFFICES ASSUME Init PROVE ChannelInv
  BY Zenon
<1> USE DEF Init, ConsoleInit, IdeInit
<1>1. \A t \in Thread : pc[t] = "call" /\ pc[t] \notin ChannelLabels
  BY Zenon, LabelsDiffer
<1>2. ChannelTypeOK
  <2>1. pc \in [Thread -> CallLabels] /\ disk \in [Disk -> [Sector -> Cell]] /\ data \in [Thread -> Cell]
    BY Zenon, LabelsDiffer DEF Cell
  <2>2. chan \in [lock : Holder, expecting_interrupt : BOOLEAN, completion_wait : Nat]
    BY DEF Holder
  <2>3. dev \in [lba : (Disk \X Sector) \cup {NULL}, command : {"read", "write", NULL},
                 status : {"idle", "busy", "drq"}, intrq : BOOLEAN, data : Cell]
    BY Zenon DEF Cell
  <2> QED BY Zenon, <2>1, <2>2, <2>3 DEF ChannelTypeOK
<1>3. Waiters
  BY Zenon, ConsoleAssumption DEF Waiters, intq_init
<1>4. chan.lock = NULL /\ chan.completion_wait = 0
  BY Zenon
<1>5. OneUser
  BY Zenon, <1>1, <1>4, ConsoleAssumption DEF OneUser
<1>6. AtRest
  BY Zenon, <1>4 DEF AtRest, Untold
<1>7. Progress
  BY Zenon, <1>4, <1>6, ConsoleAssumption DEF Progress
<1> QED BY Zenon, <1>2, <1>3, <1>5, <1>7 DEF ChannelInv

(* A step of the port. *)
LEMMA PortMoveInv ==
  ASSUME ChannelInv, PortMove, Waiters'
  PROVE  ChannelInv'
<1>1. ChannelTypeOK /\ OneUser /\ Progress
  BY Zenon DEF ChannelInv
<1>2. ChannelTypeOK' /\ OneUser' /\ Progress'
  BY Zenon, <1>1, PortMoveKeeps
<1> QED BY Zenon, <1>2 DEF ChannelInv

(* Every step keeps the invariant of the channel. *)
LEMMA ChannelKept == PortInv /\ ChannelInv /\ [Next]_vars => ChannelInv'
<1> SUFFICES ASSUME PortInv, ChannelInv, [Next]_vars PROVE ChannelInv'
  BY Zenon
<1>1. PortTypeOK /\ ChannelTypeOK /\ Waiters
  BY Zenon DEF PortInv, ChannelInv
<1>2. ASSUME UNCHANGED <<callVars, txq, buffer, ideVars>> PROVE ChannelInv'
  <2>1. pc' = pc /\ todo' = todo /\ txq' = txq /\ buffer' = buffer
    BY Zenon, <1>2 DEF callVars
  <2>2. PortMove
    BY Zenon, <1>1, <1>2, <2>1 DEF PortMove, ChannelTypeOK
  <2>3. Waiters'
    BY Zenon, <1>1, <2>1 DEF Waiters, Calls
  <2> QED BY Zenon, <2>2, <2>3, PortMoveInv
<1>3. ASSUME NEW t \in Thread, ThreadStep(t) PROVE ChannelInv'
  <2>1. CASE (putbuf(t) \/ release_console(t)) /\ UNCHANGED ideVars
    BY Zenon, <1>1, <2>1, ConsoleMoves, PortMoveInv
  <2>2. CASE serial_putc(t) /\ UNCHANGED ideVars
    BY Zenon, <1>1, <2>2, PutcMoves, PortMoveInv
  <2>3. CASE serial_flush(t) /\ UNCHANGED ideVars
    BY Zenon, <1>1, <2>3, FlushMoves, PortMoveInv
  <2>4. CASE input_getc(t) /\ UNCHANGED ideVars
    BY Zenon, <1>1, <2>4, GetcMoves, PortMoveInv
  <2>5. CASE block_op(t)
    BY Zenon, <1>1, <2>5, BlockOpStep
  <2>6. CASE select_sector(t) \/ Expect(t)
    BY ZenonT(40), <1>1, <2>6, SelectStep
  <2>7. CASE issue_pio_command(t)
    BY Zenon, <1>1, <2>7, IssueStep
  <2>8. CASE sema_down(t)
    BY Zenon, <1>1, <2>8, SemaDownStep
  <2>9. CASE Transfer(t)
    BY Zenon, <1>1, <2>9, TransferStep
  <2>10. CASE lock_release(t)
    BY Zenon, <1>1, <2>10, ReleaseStep
  <2> QED BY Zenon, <1>3, <2>1, <2>2, <2>3, <2>4, <2>5, <2>6, <2>7, <2>8, <2>9, <2>10
          DEF ThreadStep
<1>4. CASE UartStep
  BY Zenon, <1>2, <1>4 DEF UartStep, Transmit, Receive
<1>5. CASE SerialInterrupt
  BY Zenon, <1>1, <1>5, InterruptMoves, PortMoveInv DEF SerialInterrupt
<1>6. CASE DiskWorks
  BY Zenon, <1>1, <1>6, DiskStep
<1>7. CASE interrupt_handler
  <2>1. CASE /\ dev.intrq /\ dev' = [dev EXCEPT !.intrq = FALSE]
             /\ chan' = [chan EXCEPT !.completion_wait = @ + 1]
             /\ UNCHANGED <<callVars, portVars, disk, data>>
    BY Zenon, <1>1, <2>1, ExpectedStep
  <2>2. CASE PrintOff(Message) /\ UNCHANGED <<todo, buffer, ideVars>>
    BY Zenon, <1>1, <2>2, MessageMoves, PortMoveInv
  <2> QED BY Zenon, <1>7, <2>1, <2>2 DEF interrupt_handler
<1>8. CASE UNCHANGED vars
  BY Zenon, <1>2, <1>8 DEF vars, consoleVars, portVars
<1> QED BY Zenon, <1>3, <1>4, <1>5, <1>6, <1>7, <1>8 DEF Next

(* ide_read returns the sector it was asked for and ide_write returns once *)
(* the disk holds the data, whatever other threads and interrupts do.      *)
THEOREM SpecTransferMeetsCall == Spec => TransferMeetsCall
<1> DEFINE Meets == \A t \in Thread :
                      lock_release(t) =>
                        LET r == Request(t)
                        IN  IF r.op = "read" THEN data[t] = disk[r.disk][r.sector]
                            ELSE disk[r.disk][r.sector] = r.value
<1>1. PortInv /\ ChannelInv => [Meets]_vars
  <2> SUFFICES ASSUME PortInv, ChannelInv, NEW t \in Thread, lock_release(t)
               PROVE  LET r == Request(t)
                      IN  IF r.op = "read" THEN data[t] = disk[r.disk][r.sector]
                          ELSE disk[r.disk][r.sector] = r.value
    BY Zenon
  <2>1. PortTypeOK
    BY Zenon DEF PortInv
  <2>2. Calls(t, "read") \/ Calls(t, "write")
    BY Zenon DEF lock_release, InCall
  <2>3. IF Request(t).op = "read" THEN Calls(t, "read") ELSE Calls(t, "write")
    BY Zenon, <2>2 DEF Calls, Request
  <2> QED BY Zenon, <2>1, <2>3, Transferred
<1> HIDE DEF Meets
<1>2. [](PortInv /\ ChannelInv) => [][Meets]_vars
  BY <1>1, PTL
<1>3. [][Meets]_vars => TransferMeetsCall
  BY DEF Meets, TransferMeetsCall
<1> QED BY <1>2, <1>3, PortInit, PortStep, ChannelInit, ChannelKept, PTL DEF Spec
-----------------------------------------------------------------------------
(* Printing.  The texts are printed one after the other, each by the       *)
(* holder of console_lock.                                                 *)
PrintInv ==
  /\ console \in Holder
  /\ console = NULL => BetweenTexts(written)
  /\ Mixless(written)
  /\ \A t \in Thread : Standing(todo[t], pc[t], console, t, written)

(* The call a thread is in. *)
LEMMA CallOf ==
  ASSUME PortTypeOK, NEW t \in Thread
  PROVE  /\ todo[t] \in Seq(ConsoleCall \cup DiskCall)
         /\ \A op : Calls(t, op) <=> todo[t] # <<>> /\ todo[t][1].op = op
         /\ todo[t] # <<>> => Text(t) = todo[t][1].text
         /\ Calls(t, "putbuf") <=> Prints(todo[t])
<1>1. todo[t] \in Seq(ConsoleCall \cup DiskCall)
  BY Zenon DEF PortTypeOK
<1>2. todo[t] # <<>> => Head(todo[t]) = todo[t][1]
  BY Zenon, <1>1, HeadFirst
<1> QED BY Zenon, <1>1, <1>2 DEF Calls, Text, Prints

(* A step that prints no byte of a text and leaves console_lock alone. *)
LEMMA PrintKept ==
  ASSUME PortTypeOK, PrintInv, console' = console,
         written' = written \/ written' = Append(written, Message),
         \A t \in Thread : Standing(todo'[t], pc'[t], console, t, written)
  PROVE  PrintInv'
<1>1. written \in Seq(Char)
  BY Zenon DEF PortTypeOK
<1>2. console' \in Holder /\ (console' = NULL => BetweenTexts(written'))
  BY Zenon, <1>1, RestKept DEF PrintInv
<1>3. Mixless(written')
  BY Zenon, <1>1, MessageAppended DEF PrintInv
<1>4. \A t \in Thread : Standing(todo'[t], pc'[t], console', t, written')
  BY Zenon, <1>1, StandingKept
<1> QED BY Zenon, <1>2, <1>3, <1>4 DEF PrintInv

(* A step of thread t alone, in a call that prints nothing: it moves, or   *)
(* the call returns.                                                       *)
LEMMA OtherCall ==
  ASSUME PortTypeOK, ChannelTypeOK, PrintInv, NEW t \in Thread, NEW l,
         todo[t] # <<>>, ~Calls(t, "putbuf"), UNCHANGED <<console, written>>,
         pc' = [pc EXCEPT ![t] = l],
         todo' = todo \/ (todo' = [todo EXCEPT ![t] = Tail(@)] /\ l = "call")
  PROVE  PrintInv'
<1>1. todo[t] \in Seq(ConsoleCall \cup DiskCall) /\ ~Prints(todo[t])
  BY Zenon, CallOf
<1>2. \A u \in Thread : Standing(todo[u], pc[u], console, u, written)
  BY Zenon DEF PrintInv
<1>3. console # t
  BY Zenon, <1>1, <1>2 DEF Standing
<1>4. \A u \in Thread \ {t} : pc'[u] = pc[u] /\ todo'[u] = todo[u]
  BY Zenon DEF PortTypeOK, ChannelTypeOK
<1>5. pc'[t] = l /\ (todo'[t] = todo[t] \/ (todo'[t] = Tail(todo[t]) /\ l = "call"))
  BY Zenon DEF PortTypeOK, ChannelTypeOK
<1>6. Standing(todo'[t], pc'[t], console, t, written)
  <2>1. CASE todo'[t] = todo[t]
    BY Zenon, <1>1, <1>2, <1>5, <2>1, StandingMoves
  <2>2. CASE todo'[t] = Tail(todo[t]) /\ l = "call"
    <3>1. Standing(Tail(todo[t]), "call", console, t, written)
      BY Zenon, <1>1, <1>2, <1>3, StandingReturns
    <3> QED BY Zenon, <1>5, <2>2, <3>1
  <2> QED BY Zenon, <1>5, <2>1, <2>2
<1>7. \A u \in Thread : Standing(todo'[u], pc'[u], console, u, written)
  BY Zenon, <1>2, <1>4, <1>6
<1> QED BY Zenon, <1>7, PrintKept

(* Threads that are woken were asleep in a call, and stay in it. *)
LEMMA WokenInCall ==
  ASSUME PortTypeOK, ChannelTypeOK, Waiters,
         NEW x \in {txq.not_full, NULL}, NEW y \in {buffer.not_empty, NULL},
         NEW u \in Thread
  PROVE  Wake(x, Wake(y, pc))[u] = "call" <=> pc[u] = "call"
<1>1. /\ x \in Holder /\ y \in Holder /\ pc \in [Thread -> CallLabels]
  BY Zenon, QueueHolders DEF PortTypeOK, ChannelTypeOK
<1>2. (x = u \/ y = u) => pc[u] = "blocked"
  BY Zenon, ConsoleAssumption DEF Waiters
<1> DEFINE P == Wake(y, pc)
<1>3. P \in [Thread -> CallLabels] /\ P[u] = IF u = y THEN "woken" ELSE pc[u]
  BY Zenon, <1>1, Wakes
<1> HIDE DEF P
<1>4. Wake(x, P)[u] = IF u = x THEN "woken" ELSE P[u]
  BY Zenon, <1>1, <1>3, Wakes
<1>5. "woken" # "call" /\ "blocked" # "call"
  BY Zenon
<1> QED BY Zenon, <1>2, <1>3, <1>4, <1>5 DEF P

(* A step that wakes threads, and may print a message. *)
LEMMA WakingPrints ==
  ASSUME PortTypeOK, ChannelTypeOK, Waiters, PrintInv,
         NEW x \in {txq.not_full, NULL}, NEW y \in {buffer.not_empty, NULL},
         pc' = Wake(x, Wake(y, pc)), UNCHANGED <<todo, console>>,
         written' = written \/ written' = Append(written, Message)
  PROVE  PrintInv'
<1>1. \A u \in Thread : Standing(todo[u], pc[u], console, u, written)
  BY Zenon DEF PrintInv
<1>2. \A u \in Thread : pc'[u] = "call" <=> pc[u] = "call"
  BY Zenon, WokenInCall
<1>3. \A u \in Thread : Standing(todo'[u], pc'[u], console, u, written)
  BY Zenon, <1>1, <1>2, StandingMoves
<1> QED BY Zenon, <1>3, PrintKept

(* A print begins. *)
LEMMA PutbufPrints ==
  ASSUME PortTypeOK, ChannelTypeOK, PrintInv, NEW t \in Thread, putbuf(t)
  PROVE  PrintInv'
<1>1. /\ Calls(t, "putbuf") /\ console = NULL /\ console' = t /\ pc' = [pc EXCEPT ![t] = "putc"]
      /\ todo' = todo /\ written' = written
  BY Zenon DEF putbuf, acquire_console, Goto, portVars
<1>2. /\ BetweenTexts(written) /\ Mixless(written)
      /\ \A u \in Thread : Standing(todo[u], pc[u], NULL, u, written) /\ u # NULL
  BY Zenon, <1>1, ConsoleAssumption DEF PrintInv
<1>3. todo[t] \in Seq(ConsoleCall \cup DiskCall) /\ Prints(todo[t])
  BY Zenon, <1>1, CallOf
<1>4. pc'[t] = "putc" /\ \A u \in Thread \ {t} : pc'[u] = pc[u]
  BY Zenon, <1>1 DEF ChannelTypeOK
<1>5. Standing(todo[t], "putc", t, t, written)
  BY Zenon, <1>2, <1>3, StandingTakes
<1>6. \A u \in Thread \ {t} : Standing(todo[u], pc[u], t, u, written)
  BY Zenon, <1>2, StandingKept
<1>7. \A u \in Thread : Standing(todo'[u], pc'[u], console', u, written')
  BY Zenon, <1>1, <1>4, <1>5, <1>6
<1>8. console' \in Holder /\ console' # NULL /\ Mixless(written')
  BY Zenon, <1>1, <1>2 DEF Holder
<1> QED BY Zenon, <1>7, <1>8 DEF PrintInv

(* A print ends. *)
LEMMA ReleasePrints ==
  ASSUME PortTypeOK, ChannelTypeOK, PrintInv, NEW t \in Thread, release_console(t)
  PROVE  PrintInv'
<1>1. /\ Calls(t, "putbuf") /\ Text(t) = <<>> /\ pc[t] # "call" /\ console' = NULL
      /\ pc' = [pc EXCEPT ![t] = "call"] /\ todo' = [todo EXCEPT ![t] = Tail(@)]
      /\ written' = written
  <2>1. "putc" # "call"
    BY Zenon
  <2> QED BY Zenon, <2>1 DEF release_console, Goto, Return, portVars
<1>2. Mixless(written) /\ \A u \in Thread : Standing(todo[u], pc[u], console, u, written)
  BY Zenon DEF PrintInv
<1>3. /\ todo[t] \in Seq(ConsoleCall \cup DiskCall) /\ Prints(todo[t]) /\ todo[t][1].text = <<>>
      /\ todo[t] # <<>>
  BY Zenon, <1>1, CallOf DEF Prints
<1>4. console = t /\ Rest(written, <<>>)
  BY Zenon, <1>1, <1>2, <1>3 DEF Standing
<1>5. BetweenTexts(written)
  BY Zenon, <1>4, RestEnds DEF PortTypeOK
<1>6. \A u \in Thread : u # NULL
  BY Zenon, ConsoleAssumption
<1>7. /\ pc'[t] = "call" /\ todo'[t] = Tail(todo[t])
      /\ \A u \in Thread \ {t} : pc'[u] = pc[u] /\ todo'[u] = todo[u]
  BY Zenon, <1>1 DEF ChannelTypeOK, PortTypeOK
<1>8. Standing(Tail(todo[t]), "call", NULL, t, written)
  BY Zenon, <1>2, <1>3, <1>6, StandingReturns
<1>9. \A u \in Thread \ {t} : Standing(todo[u], pc[u], NULL, u, written)
  BY Zenon, <1>2, <1>4, <1>6, StandingKept
<1>10. \A u \in Thread : Standing(todo'[u], pc'[u], console', u, written')
  <2>1. Standing(todo'[t], pc'[t], console', t, written')
    BY Zenon, <1>1, <1>7, <1>8
  <2>2. \A u \in Thread \ {t} : Standing(todo'[u], pc'[u], console', u, written')
    BY Zenon, <1>1, <1>7, <1>9
  <2> QED BY Zenon, <2>1, <2>2
<1> QED BY Zenon, <1>1, <1>2, <1>5, <1>10 DEF PrintInv, Holder

(* A byte is printed, or its thread waits. *)
LEMMA PutcPrints ==
  ASSUME PortTypeOK, ChannelTypeOK, Waiters, PrintInv, NEW t \in Thread, serial_putc(t)
  PROVE  PrintInv'
<1> DEFINE q == IF pc[t] = "woken" THEN Resume(txq, t) ELSE txq
           w == wait(q, t, "not_full")
           c == todo[t]
           d == <<Printed(Head(c))>> \o Tail(c)
<1>1. txq \in Queue(Char, Holder) /\ txq.not_empty = NULL
  BY Zenon DEF PortTypeOK, Waiters
<1>2. q \in Queue(Char, Holder) /\ q.not_empty = NULL
  BY Zenon, <1>1, ResumeKeeps, QueueWaiters
<1>3. /\ Calls(t, "putbuf") /\ Text(t) # <<>> /\ pc[t] \in {"putc", "woken", "lock"}
      /\ console' = console
      /\ \/ pc' = [pc EXCEPT ![t] = w.pc] /\ todo' = todo /\ written' = written
         \/ /\ pc' = Goto(t, "putc", Wake(q.not_empty, pc))
            /\ todo' = [todo EXCEPT ![t] = d]
            /\ written' = Append(written, Head(Text(t)))
  BY Zenon DEF serial_putc, Goto
<1>4. pc[t] # "call" /\ "putc" # "call"
  BY Zenon, <1>3
<1>5. /\ Mixless(written) /\ console \in Holder
      /\ \A u \in Thread : Standing(todo[u], pc[u], console, u, written)
  BY Zenon DEF PrintInv
<1>6. /\ c \in Seq(ConsoleCall \cup DiskCall) /\ Prints(c) /\ Text(t) = c[1].text
  BY Zenon, <1>3, CallOf DEF Prints
<1>7. console = t
  BY Zenon, <1>4, <1>5, <1>6 DEF Standing
<1>8. w.pc # "call"
  <2>1. w.pc = "lock" \/ w.pc = "blocked"
    BY Zenon, <1>2, QueueWaiters
  <2> QED BY Zenon, <2>1
<1> HIDE DEF q, w, d
<1>9. CASE pc' = [pc EXCEPT ![t] = w.pc] /\ todo' = todo /\ written' = written
  <2>1. pc'[t] = w.pc /\ \A u \in Thread \ {t} : pc'[u] = pc[u]
    BY Zenon, <1>9 DEF ChannelTypeOK
  <2>2. \A u \in Thread : pc'[u] = "call" <=> pc[u] = "call"
    BY Zenon, <1>4, <1>8, <2>1
  <2>3. \A u \in Thread : Standing(todo'[u], pc'[u], console, u, written)
    BY Zenon, <1>5, <1>9, <2>2, StandingMoves
  <2> QED BY Zenon, <1>3, <1>9, <2>3, PrintKept
<1>10. CASE /\ pc' = Goto(t, "putc", Wake(q.not_empty, pc)) /\ todo' = [todo EXCEPT ![t] = d]
            /\ written' = Append(written, Head(Text(t)))
  <2>1. pc' = [pc EXCEPT ![t] = "putc"]
    BY Zenon, <1>2, <1>10 DEF Wake, Goto
  <2>2. /\ pc'[t] = "putc" /\ todo'[t] = d
        /\ \A u \in Thread \ {t} : pc'[u] = pc[u] /\ todo'[u] = todo[u]
    BY Zenon, <1>10, <2>1 DEF ChannelTypeOK, PortTypeOK
  <2>3. /\ c[1].text \in Seq(Char) /\ Len(d) = Len(c) /\ d # <<>>
        /\ d[1].op = "putbuf" /\ d[1].text = Tail(c[1].text)
        /\ \A i \in 1..Len(c) : i # 1 => d[i] = c[i]
    BY Zenon, <1>6, PrintedCall DEF d
  <2>4. written \in Seq(Char) /\ c[1].text # <<>> /\ Standing(c, pc[t], t, t, written)
    BY ZenonT(40), <1>3, <1>5, <1>6, <1>7 DEF PortTypeOK
  <2>5. /\ Mixless(Append(written, Head(c[1].text)))
        /\ Standing(d, "putc", t, t, Append(written, Head(c[1].text)))
    BY Zenon, <1>5, <2>3, <2>4, StandingPrints
  <2>6. ASSUME NEW u \in Thread \ {t} PROVE Standing(todo[u], pc[u], t, u, written')
    <3>1. Standing(todo[u], pc[u], console, u, written) /\ console # u /\ t # u
      BY Zenon, <1>5, <1>7
    <3>2. \A g, v : console # u /\ g # u => Standing(todo[u], pc[u], g, u, v)
      BY Zenon, <3>1, StandingKept
    <3> QED BY Zenon, <3>1, <3>2
  <2>7. written' = Append(written, Head(c[1].text)) /\ console' = t
    BY Zenon, <1>3, <1>6, <1>7, <1>10
  <2>8. Standing(todo'[t], pc'[t], console', t, written')
    BY Zenon, <2>2, <2>5, <2>7
  <2>9. \A u \in Thread \ {t} : Standing(todo'[u], pc'[u], console', u, written')
    BY Zenon, <2>2, <2>6, <2>7
  <2>10. \A u \in Thread : Standing(todo'[u], pc'[u], console', u, written')
    BY Zenon, <2>8, <2>9
  <2>11. Mixless(written') /\ console' \in Holder /\ console' # NULL
    BY Zenon, <1>5, <2>5, <2>7, ConsoleAssumption DEF Holder
  <2> QED BY Zenon, <2>10, <2>11 DEF PrintInv
<1> QED BY Zenon, <1>3, <1>9, <1>10

(* The other calls print nothing. *)
LEMMA CallsDiffer ==
  ASSUME NEW t \in Thread,
         Calls(t, "flush") \/ Calls(t, "getc") \/ Calls(t, "read") \/ Calls(t, "write")
  PROVE  todo[t] # <<>> /\ ~Calls(t, "putbuf")
BY Zenon DEF Calls

(* Reading. *)
LEMMA GetcPrints ==
  ASSUME PortTypeOK, ChannelTypeOK, Waiters, PrintInv, NEW t \in Thread, input_getc(t)
  PROVE  PrintInv'
<1> DEFINE q == IF pc[t] = "woken" THEN Resume(buffer, t) ELSE buffer
           w == wait(q, t, "not_empty")
<1>1. buffer \in Queue(Char, Holder) /\ buffer.not_full = NULL
  BY Zenon DEF PortTypeOK, Waiters
<1>2. q.not_full = NULL
  BY Zenon, <1>1, QueueWaiters
<1>3. /\ Calls(t, "getc") /\ UNCHANGED <<console, written>>
      /\ \/ pc' = [pc EXCEPT ![t] = w.pc] /\ todo' = todo
         \/ /\ pc' = Goto(t, "call", Wake(q.not_full, pc))
            /\ todo' = [todo EXCEPT ![t] = Tail(@)]
  BY Zenon DEF input_getc, Goto, Return
<1> HIDE DEF q, w
<1>4. todo[t] # <<>> /\ ~Calls(t, "putbuf")
  BY Zenon, <1>3, CallsDiffer
<1>5. CASE pc' = [pc EXCEPT ![t] = w.pc] /\ todo' = todo
  BY Zenon, <1>3, <1>4, <1>5, OtherCall
<1>6. CASE /\ pc' = Goto(t, "call", Wake(q.not_full, pc))
           /\ todo' = [todo EXCEPT ![t] = Tail(@)]
  <2>1. pc' = [pc EXCEPT ![t] = "call"]
    BY Zenon, <1>2, <1>6 DEF Wake, Goto
  <2> QED BY Zenon, <1>3, <1>4, <1>6, <2>1, OtherCall
<1> QED BY Zenon, <1>3, <1>5, <1>6

(* serial_flush wakes a thread and returns. *)
LEMMA FlushPrints ==
  ASSUME PortTypeOK, ChannelTypeOK, Waiters, PrintInv, NEW t \in Thread, serial_flush(t)
  PROVE  PrintInv'
<1> DEFINE x == IF intq_empty(txq) THEN NULL ELSE txq.not_full
<1>1. /\ Calls(t, "flush") /\ pc[t] = "call" /\ UNCHANGED <<console, written>>
      /\ todo' = [todo EXCEPT ![t] = Tail(@)] /\ pc' = Wake(x, Wake(NULL, pc))
  BY Zenon DEF serial_flush, Return, Wake
<1>2. x \in {txq.not_full, NULL}
  BY Zenon
<1> HIDE DEF x
<1>3. todo[t] # <<>> /\ ~Calls(t, "putbuf") /\ todo[t] \in Seq(ConsoleCall \cup DiskCall)
  BY Zenon, <1>1, CallsDiffer, CallOf
<1>4. \A u \in Thread : Standing(todo[u], pc[u], console, u, written)
  BY Zenon DEF PrintInv
<1>5. console # t
  BY Zenon, <1>1, <1>4 DEF Standing
<1>6. \A u \in Thread : pc'[u] = "call" <=> pc[u] = "call"
  BY Zenon, <1>1, <1>2, WokenInCall
<1>7. todo'[t] = Tail(todo[t]) /\ \A u \in Thread \ {t} : todo'[u] = todo[u]
  BY Zenon, <1>1 DEF PortTypeOK
<1>8. Standing(todo'[t], pc'[t], console, t, written)
  <2>1. Standing(Tail(todo[t]), "call", console, t, written)
    BY Zenon, <1>3, <1>4, <1>5, StandingReturns
  <2> QED BY Zenon, <1>1, <1>6, <1>7, <2>1
<1>9. \A u \in Thread \ {t} : Standing(todo'[u], pc'[u], console, u, written)
  BY Zenon, <1>4, <1>6, <1>7, StandingMoves
<1>10. \A u \in Thread : Standing(todo'[u], pc'[u], console, u, written)
  BY Zenon, <1>8, <1>9
<1> QED BY Zenon, <1>1, <1>10, PrintKept

(* The calls on disks. *)
LEMMA DiskCallPrints ==
  ASSUME PortTypeOK, ChannelTypeOK, PrintInv, NEW t \in Thread,
         \/ block_op(t) \/ select_sector(t) \/ Expect(t) \/ issue_pio_command(t)
         \/ sema_down(t) \/ Transfer(t) \/ lock_release(t)
  PROVE  PrintInv'
<1>1. PICK l :
        /\ Calls(t, "read") \/ Calls(t, "write")
        /\ UNCHANGED <<console, written>> /\ pc' = [pc EXCEPT ![t] = l]
        /\ todo' = todo \/ (todo' = [todo EXCEPT ![t] = Tail(@)] /\ l = "call")
  BY Zenon DEF block_op, select_sector, Expect, issue_pio_command, sema_down, Transfer,
               lock_release, InCall, Goto, Return, portVars
<1>2. todo[t] # <<>> /\ ~Calls(t, "putbuf")
  BY Zenon, <1>1, CallsDiffer
<1> QED BY Zenon, <1>1, <1>2, OtherCall

(* Before the threads have made a call. *)
LEMMA PrintInit == Init => PrintInv
<1> SUFFICES ASSUME Init PROVE PrintInv
  BY Zenon
<1>1. console = NULL /\ written = <<>> /\ todo = Script /\ \A t \in Thread : pc[t] = "call"
  BY Zenon DEF Init, ConsoleInit
<1>2. Silent(<<>>) /\ Mixless(<<>>)
  BY DEF Silent, Mixless
<1>3. ASSUME NEW t \in Thread PROVE Standing(todo[t], pc[t], console, t, written)
  <2>1. t # NULL
    BY Zenon, ConsoleAssumption
  <2> QED BY Zenon, <1>1, <2>1, ScriptTexts DEF Standing, Whole
<1> QED BY Zenon, <1>1, <1>2, <1>3 DEF PrintInv, BetweenTexts, Holder

(* Every step keeps the invariant of printing. *)
LEMMA PrintStep == PortInv /\ ChannelInv /\ PrintInv /\ [Next]_vars => PrintInv'
<1> SUFFICES ASSUME PortInv, ChannelInv, PrintInv, [Next]_vars PROVE PrintInv'
  BY Zenon
<1>1. PortTypeOK /\ ChannelTypeOK /\ Waiters
  BY Zenon DEF PortInv, ChannelInv
<1>2. ASSUME UNCHANGED <<callVars, written>> PROVE PrintInv'
  BY Zenon, <1>2 DEF callVars, PrintInv
<1>3. ASSUME NEW t \in Thread, ThreadStep(t) PROVE PrintInv'
  BY Zenon, <1>1, <1>3, PutbufPrints, PutcPrints, ReleasePrints, FlushPrints, GetcPrints,
     DiskCallPrints DEF ThreadStep
<1>4. CASE UartStep
  BY Zenon, <1>2, <1>4 DEF UartStep, Transmit, Receive
<1>5. CASE SerialInterrupt
  <2> DEFINE x == IF ~intq_empty(txq) /\ uart.thr = NULL THEN txq.not_full ELSE NULL
             y == IF ~intq_full(buffer) /\ uart.rbr # NULL THEN buffer.not_empty ELSE NULL
  <2>1. pc' = Wake(x, Wake(y, pc)) /\ UNCHANGED <<todo, console, written>>
    BY Zenon, <1>5 DEF SerialInterrupt, serial_interrupt
  <2>2. x \in {txq.not_full, NULL} /\ y \in {buffer.not_empty, NULL}
    BY Zenon
  <2> HIDE DEF x, y
  <2> QED BY Zenon, <1>1, <2>1, <2>2, WakingPrints
<1>6. CASE DiskWorks
  BY Zenon, <1>2, <1>6 DEF DiskWorks, portVars
<1>7. CASE interrupt_handler
  <2>1. CASE UNCHANGED <<callVars, portVars>>
    BY Zenon, <1>2, <2>1 DEF portVars
  <2>2. CASE PrintOff(Message) /\ UNCHANGED <<todo, console>>
    <3> DEFINE x == IF intq_full(txq) THEN txq.not_full ELSE NULL
    <3>1. pc' = Wake(x, Wake(NULL, pc)) /\ written' = Append(written, Message)
      BY Zenon, <2>2 DEF PrintOff, Wake
    <3>2. x \in {txq.not_full, NULL}
      BY Zenon
    <3> HIDE DEF x
    <3> QED BY Zenon, <1>1, <2>2, <3>1, <3>2, WakingPrints
  <2> QED BY Zenon, <1>7, <2>1, <2>2 DEF interrupt_handler
<1>8. CASE UNCHANGED vars
  BY Zenon, <1>2, <1>8 DEF vars, consoleVars, portVars
<1> QED BY ZenonT(40), <1>3, <1>4, <1>5, <1>6, <1>7, <1>8 DEF Next

(* console_lock keeps the output of one putbuf together, though its thread *)
(* sleeps in the middle of it and interrupt handlers print without it.     *)
THEOREM SpecNotMixed == Spec => []NotMixed
<1>1. PrintInv => NotMixed
  BY Zenon DEF PrintInv, Mixless, NotMixed
<1> QED BY <1>1, PortInit, PortStep, ChannelInit, ChannelKept, PrintInit, PrintStep, PTL DEF Spec
=============================================================================
