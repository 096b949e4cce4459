------------------------------ MODULE CString ------------------------------
(***************************************************************************)
(* lib/string.c and filesys/path.c over a memory of characters.            *)
(*                                                                         *)
(* A memory is a function from the addresses 0..n-1 to characters, and a   *)
(* string is an address: it extends to the first NUL.  Loops that stop at  *)
(* the first position with some property are given by that position; loops *)
(* that write to memory are recursive operators.                           *)
(***************************************************************************)
EXTENDS Integers, Sequences
LOCAL INSTANCE FiniteSetsExt

NUL == 0            \* '\0'
SLASH == 1          \* '/'
NIL == -1          \* the null pointer

First(S) == IF S = {} THEN NIL ELSE Min(S)
Last(S) == IF S = {} THEN NIL ELSE Max(S)

strlen(m, p) == Min({q \in DOMAIN m : q >= p /\ m[q] = NUL}) - p
strnlen(m, p, maxlen) == Min({strlen(m, p), maxlen})

(* The addresses of a string's characters, without and with the NUL. *)
Chars(m, p) == p..(p + strlen(m, p) - 1)
Bytes(m, p) == p..(p + strlen(m, p))

(* The string at p as a sequence, for the reference definitions. *)
Text(m, p) == [i \in 1..strlen(m, p) |-> m[p + i - 1]]

memchr(m, p, c, size) == First({q \in p..(p + size - 1) : m[q] = c})
strchr(m, p, c) == First({q \in Bytes(m, p) : m[q] = c})
strrchr(m, p, c) == Last({q \in Chars(m, p) : m[q] = c})

(* strspn, strcspn and strpbrk; the set is the characters of their second  *)
(* string, which strchr looks up.                                          *)
strspn(m, p, skip) == Min({q \in Bytes(m, p) : m[q] \notin skip \ {NUL}}) - p
strcspn(m, p, stop) == Min({q \in Bytes(m, p) : m[q] \in stop \cup {NUL}}) - p
strpbrk(m, p, stop) == First({q \in Chars(m, p) : m[q] \in stop})

Sign(x, y) == IF x < y THEN -1 ELSE IF x > y THEN 1 ELSE 0

memcmp(m, a, b, size) ==
  LET i == First({k \in 0..(size - 1) : m[a + k] # m[b + k]})
  IN  IF i = NIL THEN 0 ELSE Sign(m[a + i], m[b + i])

strcmp(m, a, b) ==
  LET i == Min({k \in 0..Min({strlen(m, a), strlen(m, b)}) :
                  m[a + k] = NUL \/ m[a + k] # m[b + k]})
  IN  Sign(m[a + i], m[b + i])

strstr(m, haystack, needle) ==
  LET hl == strlen(m, haystack)
      nl == strlen(m, needle)
  IN  First({q \in haystack..(haystack + hl - nl) :
               memcmp(m, q, needle, nl) = 0})

RECURSIVE memcpy(_, _, _, _)
memcpy(m, dst, src, size) ==
  IF size = 0 THEN m
  ELSE memcpy([m EXCEPT ![dst] = m[src]], dst + 1, src + 1, size - 1)

(* The backward loop of memmove. *)
RECURSIVE copy_down(_, _, _, _)
copy_down(m, dst, src, size) ==
  IF size = 0 THEN m
  ELSE copy_down([m EXCEPT ![dst + size - 1] = m[src + size - 1]],
                 dst, src, size - 1)

(* memmove that always copies upwards. *)
memmove_up(m, dst, src, size) == memcpy(m, dst, src, size)

memmove(m, dst, src, size) ==
  IF dst < src THEN memcpy(m, dst, src, size) ELSE copy_down(m, dst, src, size)

strlcpy(m, dst, src, size) ==
  IF size = 0 THEN m
  ELSE LET n == Min({size - 1, strlen(m, src)})
       IN  [memcpy(m, dst, src, n) EXCEPT ![dst + n] = NUL]

strlcat(m, dst, src, size) ==
  IF size = 0 \/ strlen(m, dst) >= size THEN m
  ELSE LET d == strlen(m, dst)
           n == Min({size - d - 1, strlen(m, src)})
       IN  [memcpy(m, dst + d, src, n) EXCEPT ![dst + d + n] = NUL]

strtok_r(m, s, delims) ==
  LET t == s + strspn(m, s, delims)
      e == t + strcspn(m, t, delims)
  IN  IF m[t] = NUL THEN [mem |-> m, token |-> NIL, save |-> t]
      ELSE IF m[e] # NUL
           THEN [mem |-> [m EXCEPT ![e] = NUL], token |-> t, save |-> e + 1]
           ELSE [mem |-> m, token |-> t, save |-> e]

(* The loop of strtok_r's callers, as in process_execute. *)
RECURSIVE Tokens(_, _, _)
Tokens(m, s, delims) ==
  LET r == strtok_r(m, s, delims)
  IN  IF r.token = NIL THEN <<>>
      ELSE <<Text(r.mem, r.token)>> \o Tokens(r.mem, r.save, delims)
-----------------------------------------------------------------------------
(* filesys/path.c *)
path_is_relative(m, p) == m[p] # SLASH

(* path_next_entry at p: the entry's first address and length, and the     *)
(* address after the slashes that follow it.                               *)
path_next_entry(m, p, max) ==
  LET s == p + strspn(m, p, {SLASH})
      n == Min({max, strcspn(m, s, {SLASH})})
  IN  [at |-> s, len |-> n, next |-> s + n + strspn(m, s + n, {SLASH})]

Part(m, e) == [i \in 1..e.len |-> m[e.at + i - 1]]

(* What the loop of dir_open_from_path visits. *)
RECURSIVE Entries(_, _, _)
Entries(m, p, max) ==
  IF m[p] = NUL THEN <<>>
  ELSE LET e == path_next_entry(m, p, max)
       IN  <<Part(m, e)>> \o Entries(m, e.next, max)

(* The loop of path_split_last: the last entry and where it was looked for. *)
RECURSIVE last_part(_, _, _)
last_part(m, p, max) ==
  LET e == path_next_entry(m, p, max)
  IN  IF m[e.next] = NUL THEN [from |-> p, entry |-> e]
      ELSE last_part(m, e.next, max)

(* path_split_last, of a path that is not empty: strlcpy cuts the entry at *)
(* max - 1 characters and the prefix before the character at "from".       *)
path_split_last(m, p, max) ==
  LET l   == last_part(m, p, max)
      cut == IF l.from = p THEN p + 1 ELSE l.from
      e   == [l.entry EXCEPT !.len = Min({@, max - 1})]
  IN  [prefix |-> [i \in 1..(cut - p - 1) |-> m[p + i - 1]],
       last   |-> Part(m, e)]
-----------------------------------------------------------------------------
(* References. *)
RECURSIVE Words(_, _)
Words(s, delims) ==         \* the maximal stretches without a delimiter
  IF s = <<>> THEN <<>>
  ELSE IF Head(s) \in delims THEN Words(Tail(s), delims)
  ELSE LET ends == {i \in 1..Len(s) : s[i] \in delims} \cup {Len(s) + 1}
       IN  <<SubSeq(s, 1, Min(ends) - 1)>>
             \o Words(SubSeq(s, Min(ends), Len(s)), delims)

RECURSIVE Before(_, _)
Before(s, t) ==             \* lexicographic order
  \/ s = <<>> /\ t # <<>>
  \/ s # <<>> /\ t # <<>> /\ Head(s) < Head(t)
  \/ s # <<>> /\ t # <<>> /\ Head(s) = Head(t) /\ Before(Tail(s), Tail(t))
-----------------------------------------------------------------------------
(* What is checked of a memory m whose last byte is NUL; Library states    *)
(* these as invariants over all memories.                                  *)
Size(m) == Max(DOMAIN m) + 1

TokensAreWords(m) ==
  \A D \in SUBSET {1, 2} : Tokens(m, 0, D) = Words(Text(m, 0), D)

MovesBytes(m) ==
  \A dst, src \in DOMAIN m :
    \A size \in 0..(Size(m) - Max({dst, src})) :
      memmove(m, dst, src, size) =
        [q \in DOMAIN m |-> IF q \in dst..(dst + size - 1)
                           THEN m[q - dst + src] ELSE m[q]]

(* The string at 0 copied or appended to a buffer that starts after it. *)
CopiesBounded(m) ==
  LET src == 0
      dst == strlen(m, 0) + 1
      kept(r, size) == \A q \in DOMAIN m :
                         q \notin dst..(dst + size - 1) => r[q] = m[q]
      cut(t, n) == SubSeq(t, 1, Min({n, Len(t)}))
  IN  dst < Size(m) => \A size \in 0..(Size(m) - dst) :
        /\ LET r == strlcpy(m, dst, src, size)
           IN  /\ kept(r, size)
               /\ size > 0 => Text(r, dst) = cut(Text(m, src), size - 1)
        /\ LET r == strlcat(m, dst, src, size)
           IN  /\ kept(r, size)
               /\ size > strlen(m, dst) =>
                    Text(r, dst) = cut(Text(m, dst) \o Text(m, src), size - 1)

SearchesAgree(m) ==
  \A a, b \in DOMAIN m :
    LET s == Text(m, a)
        t == Text(m, b)
        occurs(i) == SubSeq(s, i, i + Len(t) - 1) = t
    IN  /\ strcmp(m, a, b) = IF s = t THEN 0 ELSE IF Before(s, t) THEN -1 ELSE 1
        /\ strstr(m, a, b) =
             First({a + i - 1 : i \in {j \in 1..(Len(s) - Len(t) + 1) :
                                        occurs(j)}})
        /\ strpbrk(m, a, {m[b]}) =
             (IF m[b] = NUL THEN NIL ELSE strchr(m, a, m[b]))
        /\ a + strcspn(m, a, {m[b]}) =
             (IF strchr(m, a, m[b]) = NIL THEN strchr(m, a, NUL)
              ELSE strchr(m, a, m[b]))
        /\ (strrchr(m, a, m[b]) = NIL) =
             (m[b] = NUL \/ strchr(m, a, m[b]) = NIL)

(* Walking the prefix and then the last entry visits the entries of the    *)
(* path, if every entry is shorter than the limit max.                     *)
SplitsPath(m, max) ==
  LET es == Words(Text(m, 0), {SLASH})
      r  == path_split_last(m, 0, max)
  IN  es # <<>> /\ (\A i \in DOMAIN es : Len(es[i]) < max) =>
        /\ Append(Words(r.prefix, {SLASH}), r.last) = es
        /\ Entries(m, 0, max) = es
=============================================================================
