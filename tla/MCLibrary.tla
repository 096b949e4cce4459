----------------------------- MODULE MCLibrary -----------------------------
(* Library on small data. *)
EXTENDS Library, TLC

CONSTANTS e1, e2, e3, e4, e5

(* Two elements compare equal, and three share a bucket of any table. *)
MCKey == (e1 :> 1) @@ (e2 :> 1) @@ (e3 :> 2) @@ (e4 :> 3) @@ (e5 :> 4)
MCHash == (e1 :> 5) @@ (e2 :> 5) @@ (e3 :> 5) @@ (e4 :> 2) @@ (e5 :> 4)

MCBits == [CHAR |-> 3, SHORT |-> 5, INT |-> 13, LONG |-> 8, LONGLONG |-> 16,
           INTMAX |-> 16, PTRDIFFT |-> 8, SIZET |-> 8]

(* Memories of five bytes: NUL, '/' and two letters, the last byte NUL. *)
Memories == {[i \in 0..4 |-> IF i = 4 THEN 0 ELSE s[i]] : s \in [0..3 -> 0..3]}

FlagSets == {{}, {"-"}, {"+"}, {"0"}, {" ", "0"}, {"#"}, {"#", "0"},
             {"+", "0"}, {"'"}, {"-", "0", "+"}, {"'", "#", "-"}}

Case(fl, st, w, p, t, c, a) ==
  [flags |-> fl, star |-> st, width |-> w, precision |-> p, type |-> t,
   conv |-> c, arg |-> a]

Conversions ==
  {Case(fl, TRUE, w, p, t, c, a) : fl \in FlagSets, w \in {-5, 0, 7}, p \in {-1, 3},
     t \in {<<>>, <<"h", "h">>}, c \in {"d", "o", "x"}, a \in {0, -2, 4000}}
  \cup {Case(fl, FALSE, w, p, <<"h">>, c, 13) : fl \in FlagSets, w \in {0, 7},
     p \in {-1, 0, 3}, c \in {"d", "u", "o", "x"}}
  \cup {Case(fl, FALSE, w, p, <<>>, "s", a) : fl \in {{}, {"-"}}, w \in {0, 7},
     p \in {-1, 0, 3}, a \in {<<"a", "b", "c", "d">>, <<"NULL">>}}

(* Names of dots, slashes and a letter, some too long for the name field. *)
Names == UNION {[1..n -> {46, 47, 97}] : n \in 0..4}

MCInputs ==
  [string     |-> Memories,
   array      |-> UNION {[1..n -> 1..3] : n \in 0..5},
   divisor    |-> 1..255,
   seed       |-> (0..4) \X (0..4),
   conversion |-> Conversions,
   file       |-> [name : Names, type : {48, 53}, size : {0, 8, -1}]]
=============================================================================
