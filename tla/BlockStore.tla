----------------------------- MODULE BlockStore -----------------------------
(***************************************************************************)
(* What the buffer cache promises its callers: it is not there.  A write   *)
(* changes the sector at once, for every thread, and a read returns what   *)
(* was written last (design-documents/os-module-4-design.tex, "the         *)
(* read/write functions user doesn't know anything about it").             *)
(***************************************************************************)
CONSTANTS Client, Sector, Offset, Val, Zero, Old

VARIABLES
  store,   \* the contents of each sector, by offset
  buffer   \* the buffer each thread reads into

Init ==
  /\ store = [s \in Sector |-> [o \in Offset |-> Old]]
  /\ buffer = [t \in Client |-> Zero]

Read(t, s, o) ==
  /\ buffer' = [buffer EXCEPT ![t] = store[s][o]]
  /\ UNCHANGED store

Write(s, o, v) ==
  /\ store' = [store EXCEPT ![s][o] = v]
  /\ UNCHANGED buffer

Next ==
  \E s \in Sector, o \in Offset :
    \/ \E t \in Client : Read(t, s, o)
    \/ \E v \in Val : Write(s, o, v)

Spec == Init /\ [][Next]_<<store, buffer>>
=============================================================================
