---------------------------- MODULE CacheProofs ----------------------------
(***************************************************************************)
(* Proofs about Cache, for any number of clients, entries and sectors.     *)
(*                                                                         *)
(* The argument for DirtyIsPresent: an entry loses its sector only in      *)
(* cache_evict, after it was found clean or was written.  An entry becomes *)
(* dirty only when an operation writes its copy back, which takes ss_lock, *)
(* and the evicting thread holds ss_lock meanwhile.                        *)
(*                                                                         *)
(* With one client and without read-ahead nothing is lost, and the cache   *)
(* implements BlockStore.  SerialInv says why: a sector is in one entry at *)
(* most, that of the operation under way in no entry but its own, and      *)
(* whoever writes an entry to the disk holds its s_lock.                   *)
(* View then reads each sector of the store from the entry that holds it,  *)
(* or from the disk.                                                       *)
(***************************************************************************)
EXTENDS Cache, TLAPS

Using == {"hit", "copy", "asynch", "unpin"}

Evicting == {"evict", "evict_write", "spin"}

(* An operation's copy says that the entry is pinned, and a request stays  *)
(* in the list while the read-ahead thread serves it.                      *)
LocalInv ==
  /\ \A t \in Thread : pc[t] \in Using \cup {"fill"} => info[t].pinned > 0
  /\ pc[ReadAhead] \in Using \cup Evicting \cup {"fill"} => gReadAheadList # <<>>

TypeInv == TypeOK /\ LocalInv

(* Who evicts holds ss_lock, and the entry it writes is marked clean. *)
EvictInv ==
  \A t \in Thread :
    /\ pc[t] \in Evicting => ss_lock = t
    /\ pc[t] = "evict_write" => ~aux[slot[t]].dirty

(* An operation that has its data will write a present entry back. *)
CopyInv == \A t \in Thread : pc[t] \in Using => info[t].present

PresentInv == DirtyIsPresent /\ EvictInv /\ CopyInv
----------------------------------------------------------------------------
(* What the assumptions say of the sets of threads, entries and sectors.   *)
LEMMA Members ==
  /\ Client \subseteq Thread /\ Dumper \in Thread /\ ReadAhead \in Thread
  /\ 0 \in Entry /\ Entry \subseteq Nat /\ Sector \subseteq Nat
  /\ NULL \notin Thread /\ FREED \notin Thread
BY CacheAssumption DEF Thread, Entry, Sector

(* A cleared aux_data is of its type.                                      *)
LEMMA ZeroAuxType == ZeroAux \in Aux
BY DEF ZeroAux, Aux

(* The state after cache_init has its type.                                *)
LEMMA InitType == Init => TypeInv
<1> SUFFICES ASSUME Init PROVE TypeInv
  OBVIOUS
<1>0. pc \in [Thread -> Labels]
  BY Members DEF Init, Labels
<1>3. /\ data \in [Entry -> [Offset -> Byte]] /\ disk \in [Sector -> [Offset -> Byte]]
      /\ buffer \in [Thread -> Byte]
  BY CacheAssumption DEF Init
<1>4. /\ aux \in [Entry -> Aux] /\ slot \in [Thread -> Entry] /\ info \in [Thread -> Aux]
      /\ op \in [Thread -> Op \cup {NULL}] /\ s_lock \in [Entry -> Thread \cup {NULL, FREED}]
      /\ gReadAheadList \in Seq(Nat) /\ gReadAheadWakeUpSema \in Nat
  BY Members, ZeroAuxType DEF Init
<1>1. TypeOK
  BY <1>0, <1>3, <1>4, Members DEF Init, TypeOK
<1>2. LocalInv
  BY Members DEF Init, LocalInv, Using, Evicting
<1> QED
  BY <1>1, <1>2 DEF TypeInv

(* The list of requests as it grows and shrinks. *)
LEMMA ListUpdates ==
  ASSUME NEW s \in Seq(Nat), NEW n \in Nat
  PROVE  /\ Append(s, n) \in Seq(Nat) /\ Append(s, n) # <<>>
         /\ s # <<>> => Tail(s) \in Seq(Nat) /\ Head(s) \in Nat
OBVIOUS

(* Updates of an entry's bookkeeping. *)
LEMMA AuxUpdates ==
  ASSUME NEW a \in Aux, NEW b \in BOOLEAN
  PROVE  /\ [a EXCEPT !.present = b] \in Aux /\ [a EXCEPT !.present = b].present = b
         /\ [a EXCEPT !.present = b].dirty = a.dirty
         /\ [a EXCEPT !.accessed = b] \in Aux
         /\ [a EXCEPT !.accessed = b].present = a.present
         /\ [a EXCEPT !.accessed = b].dirty = a.dirty
         /\ [a EXCEPT !.dirty = b] \in Aux /\ [a EXCEPT !.dirty = b].dirty = b
         /\ [a EXCEPT !.pinned = @ + 1] \in Aux
         /\ [a EXCEPT !.pinned = @ + 1].pinned > 0
         /\ [a EXCEPT !.pinned = @ + 1].present = a.present
         /\ [a EXCEPT !.pinned = @ + 1].dirty = a.dirty
         /\ a.pinned > 0 => [a EXCEPT !.pinned = @ - 1] \in Aux
         /\ [a EXCEPT !.pinned = @ - 1].present = a.present
         /\ [a EXCEPT !.pinned = @ - 1].dirty = a.dirty
BY DEF Aux

(* The parts of TypeOK that a step of thread t at its labels can disturb. *)
LEMMA OpsTyped ==
  ASSUME TypeOK, NEW t \in Thread, NEW l \in Labels, pc' = [pc EXCEPT ![t] = l],
         op' \in [Thread -> Op \cup {NULL}], op'[t] \in Op,
         \A u \in Thread \ {t} : op'[u] = op[u]
  PROVE  /\ pc' \in [Thread -> Labels]
         /\ \A u \in Thread :
              pc'[u] \in {"evict", "evict_write", "spin", "fill", "hit", "copy",
                          "asynch", "unpin"} => op'[u] \in Op
BY DEF TypeOK

(* The start of an operation keeps the types. *)
LEMMA GetType ==
  ASSUME TypeInv, NEW t \in Thread, NEW o \in Op, Get(t, o), UNCHANGED aheadVars,
         t = ReadAhead => gReadAheadList # <<>>
  PROVE  TypeInv'
<1> USE Members
<1>1. /\ op' \in [Thread -> Op \cup {NULL}] /\ op'[t] = o
      /\ \A u \in Thread \ {t} : op'[u] = op[u]
  BY DEF Get, TypeInv, TypeOK
<1>2. UNCHANGED <<data, disk, s_lock, gIsCacheThreadRunning, buffer, gReadAheadLock,
                  gReadAheadList, gReadAheadWakeUpSema>>
  BY DEF Get, aheadVars
<1>3. CASE \E e \in Entry : Lookup(e, o.sector) /\ Pin(t, e, aux[e])
  <2> PICK e \in Entry : Pin(t, e, aux[e])
    BY <1>3
  <2> DEFINE i == [aux[e] EXCEPT !.pinned = @ + 1]
  <2>1. i \in Aux /\ i.pinned > 0
    <3>1. aux[e] \in Aux
      BY DEF TypeInv, TypeOK
    <3> QED
      BY ZenonT(30), <3>1, AuxUpdates
  <2>2. /\ aux' = [aux EXCEPT ![e] = i] /\ info' = [info EXCEPT ![t] = i]
        /\ slot' = [slot EXCEPT ![t] = e] /\ ss_lock' = NULL /\ panicked' = panicked
        /\ \E l \in {"hit", "fill"} : pc' = [pc EXCEPT ![t] = l]
    BY ZenonT(30) DEF Pin, Goto
  <2> HIDE DEF i
  <2>3. TypeOK'
    <3>1. PICK l \in {"hit", "fill"} : pc' = [pc EXCEPT ![t] = l]
      BY ZenonT(30), <2>2
    <3>2. l \in Labels
      BY DEF Labels
    <3> QED
      BY Zenon, <1>1, <1>2, <2>1, <2>2, <3>1, <3>2, OpsTyped DEF TypeInv, TypeOK
  <2>4. LocalInv'
    BY <1>2, <2>1, <2>2 DEF TypeInv, TypeOK, LocalInv, Using, Evicting
  <2> QED
    BY <2>3, <2>4 DEF TypeInv
<1>4. CASE ~\E e \in Entry : Lookup(e, o.sector) /\ Pin(t, e, aux[e])
  <2>1. aux' \in [Entry -> Aux] /\ slot' \in [Thread -> Entry]
    <3>1. \A e \in Entry : aux[e] \in Aux
      BY DEF TypeInv, TypeOK
    <3>2. \A e \in Entry : [aux[e] EXCEPT !.accessed = FALSE] \in Aux
      BY ZenonT(30), <3>1, AuxUpdates
    <3>3. \/ UNCHANGED <<aux, slot>>
          \/ \E v \in Entry, passed \in SUBSET Entry :
               /\ aux' = [e \in Entry |-> IF e \in passed
                           THEN [aux[e] EXCEPT !.accessed = FALSE] ELSE aux[e]]
               /\ slot' = [slot EXCEPT ![t] = v]
      BY ZenonT(30), <1>4 DEF Get
    <3>4. aux \in [Entry -> Aux] /\ slot \in [Thread -> Entry]
      BY DEF TypeInv, TypeOK
    <3> QED
      BY SMTT(30), <3>1, <3>2, <3>3, <3>4
  <2>2. /\ info' = info /\ ss_lock' = t /\ panicked' = panicked
        /\ \E l \in {"evict", "spin"} : pc' = [pc EXCEPT ![t] = l]
    BY <1>4 DEF Get, Goto
  <2>3. TypeOK'
    <3>1. PICK l \in {"evict", "spin"} : pc' = [pc EXCEPT ![t] = l]
      BY ZenonT(30), <2>2
    <3>2. l \in Labels
      BY DEF Labels
    <3> QED
      BY <1>1, <1>2, <2>1, <2>2, <3>1, <3>2, OpsTyped DEF TypeInv, TypeOK
  <2>4. LocalInv'
    BY <1>2, <2>2 DEF TypeInv, TypeOK, LocalInv, Using, Evicting
  <2> QED
    BY <2>3, <2>4 DEF TypeInv
<1> QED
  BY <1>3, <1>4

(* The end of an eviction does, too. *)
LEMMA EvictedType ==
  ASSUME TypeInv, NEW t \in Thread, pc[t] \in {"evict", "evict_write"},
         Evicted(t, aux[slot[t]]),
         UNCHANGED <<data, aheadVars, gIsCacheThreadRunning, op, buffer>>,
         disk' \in [Sector -> [Offset -> Byte]],
         s_lock' \in [Entry -> Thread \cup {NULL, FREED}]
  PROVE  TypeInv'
<1> USE Members
<1> DEFINE e == slot[t]
           a == [aux[e] EXCEPT !.present = FALSE]
           i == [a EXCEPT !.pinned = @ + 1]
<1>1. e \in Entry /\ a \in Aux /\ i \in Aux /\ i.pinned > 0 /\ ~a.present
  <2>1. e \in Entry /\ aux[e] \in Aux
    BY ZenonT(30) DEF TypeInv, TypeOK
  <2>2. a \in Aux /\ a.present = FALSE
    BY ZenonT(30), <2>1, AuxUpdates
  <2> QED
    BY ZenonT(30), <2>1, <2>2, AuxUpdates
<1>2. UNCHANGED <<gReadAheadLock, gReadAheadList, gReadAheadWakeUpSema, data,
                  gIsCacheThreadRunning, op, buffer>>
  BY DEF aheadVars
<1>3. CASE Pin(t, e, a)
  <2>1. /\ aux' = [aux EXCEPT ![e] = i] /\ info' = [info EXCEPT ![t] = i]
        /\ slot' = [slot EXCEPT ![t] = e] /\ ss_lock' = NULL /\ panicked' = panicked
        /\ pc' = [pc EXCEPT ![t] = "fill"]
    BY <1>1, <1>3 DEF Pin, Goto
  <2> HIDE DEF e, a, i
  <2>2. TypeOK'
    BY <1>1, <1>2, <2>1 DEF TypeInv, TypeOK, Labels
  <2>3. LocalInv'
    BY <1>1, <1>2, <2>1 DEF TypeInv, TypeOK, LocalInv, Using, Evicting
  <2> QED
    BY <2>2, <2>3 DEF TypeInv
<1>4. CASE /\ panicked' = TRUE /\ aux' = [aux EXCEPT ![e] = a]
           /\ UNCHANGED <<ss_lock, slot, info, pc>>
  <2> HIDE DEF e, a, i
  <2>1. TypeOK'
    BY <1>1, <1>2, <1>4 DEF TypeInv, TypeOK
  <2>2. LocalInv'
    BY <1>2, <1>4 DEF TypeInv, LocalInv
  <2> QED
    BY <2>1, <2>2 DEF TypeInv
<1> QED
  BY ZenonT(30), <1>3, <1>4 DEF Evicted, Panic

(* A dump of an entry starts. *)
LEMMA StartDumpType ==
  ASSUME TypeInv, NEW t \in Thread, NEW l \in {"evict_write", "dump_write"},
         pc[t] = (IF l = "evict_write" THEN "evict" ELSE "dump"), StartDump(t, l),
         UNCHANGED <<data, disk, ss_lock, aheadVars, gIsCacheThreadRunning, op,
                     slot, buffer>>
  PROVE  TypeInv'
<1> USE Members
<1> DEFINE e == slot[t]
           a == [aux[e] EXCEPT !.dirty = FALSE]
<1>1. e \in Entry /\ aux[e] \in Aux
  BY ZenonT(30) DEF TypeInv, TypeOK
<1>2. a \in Aux
  BY ZenonT(30), <1>1, AuxUpdates
<1>3. /\ aux' = [aux EXCEPT ![e] = a] /\ info' = [info EXCEPT ![t] = aux[e]]
      /\ s_lock' = [s_lock EXCEPT ![e] = t] /\ pc' = [pc EXCEPT ![t] = l]
      /\ panicked' = ~aux[e].present
  BY DEF StartDump, Goto
<1>4. UNCHANGED <<gReadAheadLock, gReadAheadList, gReadAheadWakeUpSema>>
  BY DEF aheadVars
<1>5. panicked' \in BOOLEAN
  BY <1>3
<1>6. /\ pc' \in [Thread -> Labels]
      /\ \A u \in Thread :
           pc'[u] \in {"evict", "evict_write", "spin", "fill", "hit", "copy",
                       "asynch", "unpin"} => op'[u] \in Op
  BY <1>3 DEF TypeInv, TypeOK, Labels
<1> HIDE DEF e, a
<1>7. TypeOK'
  BY <1>1, <1>2, <1>3, <1>4, <1>5, <1>6 DEF TypeInv, TypeOK
<1>8. LocalInv'
  BY <1>3, <1>4 DEF TypeInv, TypeOK, LocalInv, Using, Evicting
<1> QED
  BY <1>7, <1>8 DEF TypeInv

(* Each step of an operation keeps the types. *)
LEMMA AccessType ==
  ASSUME TypeInv, NEW t \in Thread, Access(t)
  PROVE  TypeInv'
<1> USE Members
<1>0. /\ slot[t] \in Entry /\ info[t] \in Aux /\ aux[slot[t]] \in Aux
      /\ panicked \in BOOLEAN /\ pc[t] \in Labels
  BY ZenonT(30) DEF TypeInv, TypeOK
<1>1. CASE EvictDirty(t)
  BY <1>1, StartDumpType DEF EvictDirty
<1>2. CASE EvictWrite(t)
  <2>1. /\ disk' \in [Sector -> [Offset -> Byte]]
        /\ s_lock' \in [Entry -> Thread \cup {NULL, FREED}]
    BY ZenonT(30), <1>0, <1>2 DEF EvictWrite, TypeInv, TypeOK
  <2> QED
    BY <1>2, <2>1, EvictedType DEF EvictWrite
<1>3. CASE EvictClean(t)
  <2>1. /\ disk' \in [Sector -> [Offset -> Byte]]
        /\ s_lock' \in [Entry -> Thread \cup {NULL, FREED}]
    BY <1>3 DEF EvictClean, TypeInv, TypeOK
  <2> QED
    BY <1>3, <2>1, EvictedType DEF EvictClean
<1>4. CASE Fill(t)
  <2> USE <1>4 DEF Fill
  <2>1. op[t] \in Op
    BY DEF TypeInv, TypeOK
  <2>2. CASE op[t].sector \in Sector
    <3> DEFINE i == [info[t] EXCEPT !.present = TRUE, !.accessed = TRUE,
                                    !.sector_index = op[t].sector, !.dirty = op[t].write]
    <3>1. i \in Aux /\ i.pinned = info[t].pinned
      BY ZenonT(30), <1>0, <2>1, <2>2 DEF Aux, Op
    <3>2. /\ data' = [data EXCEPT ![slot[t]] = disk[op[t].sector]]
          /\ info' = [info EXCEPT ![t] = i] /\ pc' = [pc EXCEPT ![t] = "copy"]
          /\ panicked' = panicked
      BY ZenonT(30), <2>2 DEF Goto, Loaded, TypeInv, TypeOK
    <3> HIDE DEF i
    <3>3. TypeOK'
      BY <1>0, <2>1, <2>2, <3>1, <3>2 DEF TypeInv, TypeOK, aheadVars, locks, Labels
    <3>4. LocalInv'
      BY <3>1, <3>2 DEF TypeInv, TypeOK, LocalInv, aheadVars, Using, Evicting
    <3> QED
      BY <3>3, <3>4 DEF TypeInv
  <2>3. CASE op[t].sector \notin Sector
    BY ZenonT(30), <2>3 DEF Panic, TypeInv, TypeOK, LocalInv, aheadVars, locks
  <2> QED
    BY <2>2, <2>3
<1>5. CASE Copy(t)
  <2> USE <1>5 DEF Copy
  <2>1. op[t] \in Op
    BY DEF TypeInv, TypeOK
  <2>2. CASE UNCHANGED panicked /\ ~UNCHANGED pc
    <3> DEFINE i == [info[t] EXCEPT !.accessed = TRUE, !.dirty = DirtyAfter(@, op[t])]
    <3>1. i \in Aux /\ i.pinned = info[t].pinned
      BY ZenonT(30), <1>0, <2>1 DEF Aux, Op, DirtyAfter
    <3>2. PICK l \in {"asynch", "unpin"} :
            info' = [info EXCEPT ![t] = i] /\ pc' = [pc EXCEPT ![t] = l]
      BY ZenonT(30), <2>2 DEF Goto, Panic, TypeInv, TypeOK
    <3>3. data' \in [Entry -> [Offset -> Byte]]
      <4>1. data[slot[t]] \in [Offset -> Byte] /\ op[t].val \in Byte
        BY <1>0, <2>1 DEF TypeInv, TypeOK, Op
      <4>2. \/ data' = data
            \/ data' = [data EXCEPT ![slot[t]] = [data[slot[t]] EXCEPT ![op[t].offset] = op[t].val]]
        BY <2>2
      <4>3. [data[slot[t]] EXCEPT ![op[t].offset] = op[t].val] \in [Offset -> Byte]
        BY ZenonT(30), <4>1
      <4>4. data \in [Entry -> [Offset -> Byte]]
        BY DEF TypeInv, TypeOK
      <4> QED
        BY ONLY <1>0, <4>2, <4>3, <4>4
    <3>4. buffer' \in [Thread -> Byte]
      <4>1. data[slot[t]][op[t].offset] \in Byte
        BY <1>0, <2>1 DEF TypeInv, TypeOK, Op
      <4>2. buffer' = buffer \/ buffer' = [buffer EXCEPT ![t] = data[slot[t]][op[t].offset]]
        BY <2>2
      <4> QED
        BY ZenonT(30), <4>1, <4>2 DEF TypeInv, TypeOK
    <3> HIDE DEF i
    <3>5. TypeOK'
      BY ZenonT(30), <1>0, <2>1, <2>2, <3>1, <3>2, <3>3, <3>4 DEF TypeInv, TypeOK, aheadVars, locks, Labels
    <3>6. LocalInv'
      BY <3>1, <3>2 DEF TypeInv, TypeOK, LocalInv, aheadVars, Using, Evicting
    <3> QED
      BY <3>5, <3>6 DEF TypeInv
  <2>3. CASE panicked' = TRUE /\ UNCHANGED <<data, buffer, info, pc>>
    BY <2>3 DEF TypeInv, TypeOK, LocalInv, aheadVars, locks
  <2>4. UNCHANGED pc => panicked' = TRUE /\ UNCHANGED <<data, buffer, info, pc>>
    BY <1>0 DEF Goto, Panic, TypeInv, TypeOK
  <2> QED
    BY ZenonT(30), <2>2, <2>3, <2>4 DEF Panic
<1>6. CASE Asynch(t)
  <2> USE <1>6 DEF Asynch
  <2>1. op[t] \in Op
    BY DEF TypeInv, TypeOK
  <2>2. op[t].sector + 1 \in Nat
    BY <2>1 DEF Op
  <2>3. gReadAheadList' \in Seq(Nat) /\ gReadAheadWakeUpSema' \in Nat
    <3>1. gReadAheadList \in Seq(Nat) /\ gReadAheadWakeUpSema \in Nat
      BY DEF TypeInv, TypeOK
    <3>2. \/ UNCHANGED <<gReadAheadList, gReadAheadWakeUpSema>>
          \/ /\ gReadAheadList' = Append(gReadAheadList, op[t].sector + 1)
             /\ gReadAheadWakeUpSema' = gReadAheadWakeUpSema + 1
      OBVIOUS
    <3>3. gReadAheadList' \in Seq(Nat)
      BY ZenonT(30), <2>2, <3>1, <3>2, ListUpdates
    <3>4. gReadAheadWakeUpSema' \in Nat
      BY <3>1, <3>2
    <3> QED
      BY <3>3, <3>4
  <2>4. gReadAheadList # <<>> => gReadAheadList' # <<>>
    <3>1. gReadAheadList \in Seq(Nat)
      BY DEF TypeInv, TypeOK
    <3> QED
      BY <2>2, <3>1
  <2>5. panicked' \in BOOLEAN /\ (pc' = pc \/ pc' = [pc EXCEPT ![t] = "unpin"])
    BY ZenonT(30), <1>0 DEF Panic, Goto
  <2>6. /\ UNCHANGED <<aux, data, disk, ss_lock, s_lock, gReadAheadLock,
                       gIsCacheThreadRunning, op, slot, info, buffer>>
        /\ pc[t] = "asynch"
    BY DEF locks, localVars
  <2>7. TypeOK'
    BY ZenonT(30), <2>1, <2>3, <2>5, <2>6 DEF TypeInv, TypeOK, Labels
  <2>8. LocalInv'
    BY <2>4, <2>5, <2>6 DEF TypeInv, TypeOK, LocalInv, Using, Evicting
  <2> QED
    BY <2>7, <2>8 DEF TypeInv
<1>7. CASE Unpin(t)
  <2> USE <1>7 DEF Unpin
  <2>1. CASE aux[slot[t]].pinned = 0
    BY SMTT(30), <2>1 DEF Panic, TypeInv, TypeOK, LocalInv, aheadVars, locks, localVars
  <2>2. CASE aux[slot[t]].pinned # 0
    <3> DEFINE i == Unpinned(info[t])
    <3>1. i \in Aux
      <4>1. info[t].pinned > 0
        BY DEF TypeInv, LocalInv, Using
      <4> QED
        BY ZenonT(30), <1>0, <4>1, AuxUpdates DEF Unpinned
    <3>2. /\ aux' = [aux EXCEPT ![slot[t]] = i] /\ panicked' = panicked
          /\ op' = [op EXCEPT ![t] = NULL] /\ slot' = [slot EXCEPT ![t] = 0]
          /\ info' = [info EXCEPT ![t] = ZeroAux]
          /\ \E l \in {"next", "idle"} : pc' = [pc EXCEPT ![t] = l]
      BY <2>2 DEF Forget, Goto
    <3>3. gReadAheadList' \in Seq(Nat)
      <4>1. t = ReadAhead => gReadAheadList # <<>>
        BY DEF TypeInv, LocalInv, Using
      <4>2. gReadAheadList \in Seq(Nat)
        BY DEF TypeInv, TypeOK
      <4>3. gReadAheadList' = IF t = ReadAhead THEN Tail(gReadAheadList)
                              ELSE gReadAheadList
        BY <2>2
      <4> QED
        BY <4>1, <4>2, <4>3, ListUpdates
    <3>4. t # ReadAhead => gReadAheadList' = gReadAheadList
      BY SMTT(30), <2>2
    <3> HIDE DEF i
    <3>5. TypeOK'
      BY <1>0, <3>1, <3>2, <3>3, ZeroAuxType DEF TypeInv, TypeOK, aheadVars, locks, Labels
    <3>6. LocalInv'
      BY <3>2, <3>4 DEF TypeInv, TypeOK, LocalInv, Using, Evicting
    <3> QED
      BY <3>5, <3>6 DEF TypeInv
  <2> QED
    BY <2>1, <2>2
<1> QED
  BY <1>1, <1>2, <1>3, <1>4, <1>5, <1>6, <1>7 DEF Access

(* The steps of cache_dump_all keep the types. *)
LEMMA DumpType ==
  ASSUME TypeInv, NEW t \in Thread, t # ReadAhead, cache_dump_all(t)
  PROVE  TypeInv'
<1> USE Members
<1>0. slot[t] \in Entry /\ info[t] \in Aux /\ panicked \in BOOLEAN
  BY Zenon DEF TypeInv, TypeOK
<1>1. CASE DumpDirty(t)
  BY <1>1, StartDumpType DEF DumpDirty
<1>2. ASSUME NextEntry(t)
      PROVE  /\ slot' \in [Thread -> Entry]
             /\ \E l \in {"dump", "sleep", "close"} : pc' = [pc EXCEPT ![t] = l]
  BY ZenonT(30), <1>2, <1>0 DEF NextEntry, MoreEntries, Goto, TypeInv, TypeOK
<1>6. ASSUME op' = op,
             pc' = pc \/ \E l \in {"dump", "sleep", "close"} : pc' = [pc EXCEPT ![t] = l]
      PROVE  /\ pc' \in [Thread -> Labels] /\ op' \in [Thread -> Op \cup {NULL}]
             /\ \A u \in Thread :
                  pc'[u] \in {"evict", "evict_write", "spin", "fill", "hit", "copy",
                              "asynch", "unpin"} => op'[u] \in Op
  BY <1>6 DEF TypeInv, TypeOK, Labels
<1>3. CASE DumpWrite(t)
  <2> USE <1>3 DEF DumpWrite
  <2>0. disk' \in [Sector -> [Offset -> Byte]] /\ panicked' \in BOOLEAN
    BY ZenonT(30), <1>0 DEF Panic, TypeInv, TypeOK
  <2>1. /\ s_lock' \in [Entry -> Thread \cup {NULL, FREED}]
        /\ info' \in [Thread -> Aux]
    <3>1. /\ s_lock \in [Entry -> Thread \cup {NULL, FREED}]
          /\ info \in [Thread -> Aux]
      BY DEF TypeInv, TypeOK
    <3>2. /\ s_lock' = s_lock \/ s_lock' = [s_lock EXCEPT ![slot[t]] = NULL]
          /\ info' = info \/ info' = [info EXCEPT ![t] = ZeroAux]
      OBVIOUS
    <3> QED
      BY ONLY <1>0, <3>1, <3>2, ZeroAuxType
  <2>2. /\ slot' \in [Thread -> Entry]
        /\ pc' = pc \/ \E l \in {"dump", "sleep", "close"} : pc' = [pc EXCEPT ![t] = l]
    BY <1>2 DEF TypeInv, TypeOK
  <2>3. TypeOK'
    BY ZenonT(30), <1>6, <2>0, <2>1, <2>2 DEF TypeInv, TypeOK, aheadVars
  <2>4. info' = info \/ info' = [info EXCEPT ![t] = ZeroAux]
    OBVIOUS
  <2>5. LocalInv'
    BY <2>2, <2>4 DEF TypeInv, TypeOK, LocalInv, aheadVars, Using, Evicting
  <2> QED
    BY <2>3, <2>5 DEF TypeInv
<1>4. CASE DumpClean(t)
  <2> USE <1>4 DEF DumpClean
  <2>1. /\ slot' \in [Thread -> Entry] /\ panicked' \in BOOLEAN
        /\ pc' = pc \/ \E l \in {"dump", "sleep", "close"} : pc' = [pc EXCEPT ![t] = l]
    BY ZenonT(30), <1>0, <1>2 DEF Panic, TypeInv, TypeOK
  <2>2. TypeOK'
    BY ZenonT(30), <1>6, <2>1 DEF TypeInv, TypeOK, aheadVars, locks
  <2>3. LocalInv'
    BY <2>1 DEF TypeInv, TypeOK, LocalInv, aheadVars, Using, Evicting
  <2> QED
    BY <2>2, <2>3 DEF TypeInv
<1> QED
  BY <1>1, <1>3, <1>4 DEF cache_dump_all

(* Every step keeps the types.                                             *)
LEMMA NextType == TypeInv /\ [Next]_vars => TypeInv'
<1> SUFFICES ASSUME TypeInv, [Next]_vars PROVE TypeInv'
  OBVIOUS
<1> USE Members
<1>0. panicked \in BOOLEAN /\ gIsCacheThreadRunning \in BOOLEAN
  BY DEF TypeInv, TypeOK
<1>1. CASE UNCHANGED vars
  BY <1>1 DEF vars, locks, aheadVars, localVars, TypeInv, TypeOK, LocalInv
<1>2. ASSUME NEW t \in Client, Call(t) PROVE TypeInv'
  <2>0. t \in Thread /\ t # ReadAhead
    BY CacheAssumption
  <2>1. ASSUME NEW s \in Sector, NEW o \in Offset, cache_read(t, s, o) PROVE TypeInv'
    <3>1. ReadOp(s, o) \in Op
      BY CacheAssumption DEF ReadOp, Op
    <3> QED
      BY <2>0, <2>1, <3>1, GetType DEF cache_read
  <2>2. ASSUME NEW s \in Sector, NEW o \in Offset, NEW v \in Val, cache_write(t, s, o, v)
        PROVE TypeInv'
    <3>1. [write |-> TRUE, sector |-> s, offset |-> o, val |-> v] \in Op
      BY CacheAssumption DEF Op
    <3> QED
      BY <2>0, <2>2, <3>1, GetType DEF cache_write
  <2>3. CASE cache_close(t)
    BY <2>0, <2>3 DEF cache_close, Goto, locks, aheadVars, localVars, TypeInv, TypeOK,
                      LocalInv, Labels, Using, Evicting
  <2> QED
    BY <1>2, <2>1, <2>2, <2>3 DEF Call
<1>3. ASSUME NEW t \in Client, Continue(t) PROVE TypeInv'
  <2>0. t \in Thread /\ t # ReadAhead
    BY CacheAssumption
  <2>1. CASE CloseStop(t)
    BY ZenonT(30), <2>0, <2>1 DEF CloseStop, Goto, locks, aheadVars, localVars, TypeInv, TypeOK,
                      LocalInv, Labels, Using, Evicting
  <2>2. CASE CloseFree(t)
    BY <2>0, <2>2, ZeroAuxType
    DEF CloseFree, Goto, aheadVars, localVars, TypeInv, TypeOK, LocalInv, Labels,
        Using, Evicting
  <2> QED
    BY <1>3, <2>0, <2>1, <2>2, AccessType, DumpType DEF Continue
<1>4. CASE Dump
  <2>1. CASE DumperWakes
    <3>1. panicked' \in BOOLEAN /\ (pc' = pc \/ pc' = [pc EXCEPT ![Dumper] = "dump"])
      BY ZenonT(30), <1>0, <2>1 DEF DumperWakes, LeaveLoop, Panic, Goto
    <3> QED
      BY SMTT(30), <2>1, <3>1, CacheAssumption
      DEF DumperWakes, locks, aheadVars, localVars, TypeInv, TypeOK, LocalInv, Labels,
          Using, Evicting
  <2> QED
    BY Zenon, <1>4, <2>1, DumpType, CacheAssumption DEF Dump
<1>5. CASE Ahead
  <2>1. CASE ReadAheadWakes
    <3>1. gReadAheadWakeUpSema' \in Nat
      BY <2>1 DEF ReadAheadWakes, TypeInv, TypeOK
    <3> QED
      BY <2>1, <3>1 DEF ReadAheadWakes, Goto, locks, localVars, TypeInv, TypeOK, LocalInv,
                        Labels, Using, Evicting
  <2>2. CASE ReadAheadNext
    <3>1. Head(gReadAheadList) \in Nat
      BY <2>2, ListUpdates DEF ReadAheadNext, TypeInv, TypeOK
    <3>2. PICK o \in Offset : Get(ReadAhead, ReadOp(Head(gReadAheadList), o))
      BY <2>2 DEF ReadAheadNext
    <3>3. ReadOp(Head(gReadAheadList), o) \in Op
      BY Zenon, <3>1, CacheAssumption DEF ReadOp, Op
    <3> QED
      BY <2>2, <3>2, <3>3, GetType DEF ReadAheadNext
  <2>3. CASE ReadAheadDone
    <3>1. panicked' \in BOOLEAN /\ (pc' = pc \/ pc' = [pc EXCEPT ![ReadAhead] = "down"])
      BY ZenonT(30), <1>0, <2>3 DEF ReadAheadDone, LeaveLoop, Panic, Goto
    <3> QED
      BY <2>3, <3>1 DEF ReadAheadDone, locks, localVars, TypeInv, TypeOK, LocalInv,
                        Labels, Using, Evicting
  <2> QED
    BY <1>5, <2>1, <2>2, <2>3, AccessType DEF Ahead
<1> QED
  BY <1>1, <1>2, <1>3, <1>4, <1>5 DEF Next

(* Whatever the threads do, the state keeps its type: the pin counts never *)
(* go below zero (the stale copy an operation writes back counts itself),  *)
(* and every thread inside an operation has one.                           *)
THEOREM TypeCorrect == Spec => []TypeOK
<1>1. TypeInv => TypeOK
  BY DEF TypeInv
<1> QED
  BY <1>1, InitType, NextType, PTL DEF Spec
----------------------------------------------------------------------------
(* After cache_init nothing is dirty.                                      *)
LEMMA InitPresent == Init => PresentInv
BY Members DEF Init, PresentInv, DirtyIsPresent, EvictInv, CopyInv, ZeroAux, Using, Evicting

(* The lookup, and the choice of a victim. *)
LEMMA GetPresent ==
  ASSUME TypeOK, PresentInv, NEW t \in Thread, NEW o \in Op, Get(t, o)
  PROVE  PresentInv'
<1> USE Members
<1>0. \A e \in Entry : aux[e] \in Aux
  BY DEF TypeOK
<1>1. \A u \in Thread : pc[u] \notin Evicting
  BY Zenon DEF Get, PresentInv, EvictInv
<1>2. CASE \E e \in Entry : Lookup(e, o.sector) /\ Pin(t, e, aux[e])
  <2> PICK e \in Entry : Pin(t, e, aux[e])
    BY <1>2
  <2> DEFINE i == [aux[e] EXCEPT !.pinned = @ + 1]
  <2>1. i.present = aux[e].present /\ i.dirty = aux[e].dirty
    BY <1>0, AuxUpdates
  <2>2. /\ aux' = [aux EXCEPT ![e] = i] /\ info' = [info EXCEPT ![t] = i]
        /\ pc' = [pc EXCEPT ![t] = IF aux[e].present THEN "hit" ELSE "fill"]
    BY DEF Pin, Goto
  <2> HIDE DEF i
  <2> QED
    BY Zenon, <1>1, <2>1, <2>2 DEF PresentInv, DirtyIsPresent, EvictInv, CopyInv, TypeOK, Using,
                            Evicting
<1>3. CASE ~\E e \in Entry : Lookup(e, o.sector) /\ Pin(t, e, aux[e])
  <2>1. \/ aux' = aux
        \/ \E passed \in SUBSET Entry :
             aux' = [e \in Entry |-> IF e \in passed
                       THEN [aux[e] EXCEPT !.accessed = FALSE] ELSE aux[e]]
    BY Zenon, <1>3 DEF Get
  <2>2. \A e \in Entry : aux'[e].present = aux[e].present /\ aux'[e].dirty = aux[e].dirty
    <3>1. \A e \in Entry : /\ [aux[e] EXCEPT !.accessed = FALSE].present = aux[e].present
                           /\ [aux[e] EXCEPT !.accessed = FALSE].dirty = aux[e].dirty
      BY <1>0, AuxUpdates
    <3> QED
      BY ZenonT(30), <2>1, <3>1
  <2>3. /\ info' = info /\ ss_lock' = t
        /\ \E l \in {"evict", "spin"} : pc' = [pc EXCEPT ![t] = l]
    BY <1>3 DEF Get, Goto
  <2> QED
    BY ZenonT(30), <1>1, <2>2, <2>3 DEF PresentInv, DirtyIsPresent, EvictInv, CopyInv, TypeOK, Using,
                            Evicting
<1> QED
  BY <1>2, <1>3

(* The entry that cache_evict takes away is clean. *)
LEMMA EvictedPresent ==
  ASSUME TypeOK, PresentInv, NEW t \in Thread, pc[t] \in {"evict", "evict_write"},
         ~aux[slot[t]].dirty, Evicted(t, aux[slot[t]])
  PROVE  PresentInv'
<1> USE Members
<1> DEFINE e == slot[t]
           a == [aux[e] EXCEPT !.present = FALSE]
           i == [a EXCEPT !.pinned = @ + 1]
<1>1. /\ e \in Entry /\ ~a.present /\ ~a.dirty /\ ~i.dirty
      /\ \A u \in Thread \ {t} : pc[u] \notin Evicting
  <2>1. e \in Entry /\ aux[e] \in Aux
    BY ZenonT(30) DEF TypeOK
  <2>2. a \in Aux /\ a.present = FALSE /\ a.dirty = aux[e].dirty
    BY ZenonT(30), <2>1, AuxUpdates
  <2>3. i.dirty = a.dirty
    BY Zenon, <2>2, AuxUpdates
  <2> QED
    BY <2>1, <2>2, <2>3 DEF PresentInv, EvictInv, Evicting
<1>2. CASE Pin(t, e, a)
  <2>1. /\ aux' = [aux EXCEPT ![e] = i] /\ info' = [info EXCEPT ![t] = i]
        /\ pc' = [pc EXCEPT ![t] = "fill"]
    BY Zenon, <1>1, <1>2 DEF Pin, Goto
  <2> HIDE DEF e, a, i
  <2> QED
    BY ZenonT(30), <1>1, <2>1 DEF PresentInv, DirtyIsPresent, EvictInv, CopyInv, TypeOK, Using, Evicting
<1>3. CASE aux' = [aux EXCEPT ![e] = a] /\ UNCHANGED <<ss_lock, slot, info, pc>>
  <2> HIDE DEF a, i
  <2> QED
    BY <1>1, <1>3 DEF PresentInv, DirtyIsPresent, EvictInv, CopyInv, TypeOK
<1> QED
  BY <1>2, <1>3 DEF Evicted

(* A dump clears a dirty bit. *)
LEMMA StartDumpPresent ==
  ASSUME TypeOK, PresentInv, NEW t \in Thread, NEW l \in {"evict_write", "dump_write"},
         pc[t] = (IF l = "evict_write" THEN "evict" ELSE "dump"), StartDump(t, l),
         UNCHANGED <<ss_lock, slot>>
  PROVE  PresentInv'
<1> DEFINE e == slot[t]
           a == [aux[e] EXCEPT !.dirty = FALSE]
<1>1. e \in Entry /\ aux[e] \in Aux
  BY DEF TypeOK
<1>2. ~a.dirty
  BY <1>1, AuxUpdates
<1>3. /\ aux' = [aux EXCEPT ![e] = a] /\ pc' = [pc EXCEPT ![t] = l]
      /\ \A u \in Thread \ {t} : info'[u] = info[u]
  BY DEF StartDump, Goto, TypeOK
<1> HIDE DEF a
<1> QED
  BY <1>1, <1>2, <1>3 DEF PresentInv, DirtyIsPresent, EvictInv, CopyInv, TypeOK, Using,
                          Evicting

(* A client or the read-ahead thread in the cache keeps PresentInv.        *)
LEMMA AccessPresent ==
  ASSUME TypeOK, PresentInv, NEW t \in Thread, Access(t)
  PROVE  PresentInv'
<1>0. slot[t] \in Entry /\ info[t] \in Aux /\ pc[t] \in Labels
  BY DEF TypeOK
<1>1. CASE EvictDirty(t)
  BY ZenonT(30), <1>1, StartDumpPresent DEF EvictDirty
<1>2. CASE EvictWrite(t)
  BY SMTT(30), <1>2, EvictedPresent DEF EvictWrite, PresentInv, EvictInv
<1>3. CASE EvictClean(t)
  BY <1>3, EvictedPresent DEF EvictClean
<1>4. CASE Fill(t)
  <2>1. \/ pc' = pc /\ info' = info
        \/ /\ pc' = [pc EXCEPT ![t] = "copy"]
           /\ info' = [info EXCEPT ![t] = [info[t] EXCEPT
                         !.present = TRUE, !.accessed = TRUE,
                         !.sector_index = op[t].sector, !.dirty = op[t].write]]
    BY ZenonT(30), <1>4 DEF Fill, Goto, TypeOK
  <2>2. /\ pc' = pc => info' = info
        /\ pc' # pc => info'[t].present
        /\ \A u \in Thread \ {t} : info'[u] = info[u]
        /\ pc' = pc \/ pc' = [pc EXCEPT ![t] = "copy"]
    BY <1>0, <1>4, <2>1 DEF Fill, TypeOK, Aux
  <2> QED
    BY ZenonT(30), <1>4, <2>2 DEF Fill, locks, PresentInv, DirtyIsPresent, EvictInv, CopyInv, TypeOK,
                      Using, Evicting
<1>5. CASE Copy(t)
  <2>1. info[t].present
    BY <1>5 DEF Copy, PresentInv, CopyInv, Using
  <2>2. /\ \/ info' = info
           \/ info' = [info EXCEPT ![t] = [info[t] EXCEPT
                         !.accessed = TRUE, !.dirty = DirtyAfter(@, op[t])]]
        /\ pc' = pc \/ \E l \in {"asynch", "unpin"} : pc' = [pc EXCEPT ![t] = l]
    BY ZenonT(30), <1>5 DEF Copy, Goto, TypeOK
  <2>3. \A u \in Thread : info'[u].present = info[u].present
    <3>1. [info[t] EXCEPT !.accessed = TRUE, !.dirty = DirtyAfter(@, op[t])].present
            = info[t].present
      BY Zenon, <1>0 DEF Aux
    <3> QED
      BY ZenonT(30), <2>2, <3>1 DEF TypeOK
  <2> QED
    BY <1>5, <2>1, <2>2, <2>3 DEF Copy, locks, PresentInv, DirtyIsPresent, EvictInv, CopyInv,
                                  TypeOK, Using, Evicting
<1>6. CASE Asynch(t)
  <2>1. pc' = pc \/ pc' = [pc EXCEPT ![t] = "unpin"]
    BY <1>6 DEF Asynch, Goto
  <2> QED
    BY <1>6, <2>1 DEF Asynch, locks, localVars, PresentInv, DirtyIsPresent, EvictInv, CopyInv,
                      TypeOK, Using, Evicting
<1>7. CASE Unpin(t)
  <2>1. info[t].present /\ \A u \in Thread : pc[u] \notin Evicting
    BY ZenonT(30), <1>7, Members DEF Unpin, PresentInv, CopyInv, EvictInv, Using
  <2>2. Unpinned(info[t]).present
    BY <1>0, <2>1, AuxUpdates DEF Unpinned
  <2>3. \/ UNCHANGED <<aux, pc, info>>
        \/ /\ aux' = [aux EXCEPT ![slot[t]] = Unpinned(info[t])]
           /\ \E l \in {"next", "idle"} : pc' = [pc EXCEPT ![t] = l]
           /\ \A u \in Thread \ {t} : info'[u] = info[u]
    BY <1>7 DEF Unpin, Goto, Forget, localVars, TypeOK
  <2> QED
    BY ZenonT(30), <1>0, <2>1, <2>2, <2>3 DEF PresentInv, DirtyIsPresent, EvictInv, CopyInv, TypeOK,
                                  Using, Evicting
<1> QED
  BY <1>1, <1>2, <1>3, <1>4, <1>5, <1>6, <1>7 DEF Access

(* So does cache_dump_all.                                                 *)
LEMMA DumpPresent ==
  ASSUME TypeOK, PresentInv, NEW t \in Thread, cache_dump_all(t)
  PROVE  PresentInv'
<1>1. CASE DumpDirty(t)
  BY Zenon, <1>1, StartDumpPresent DEF DumpDirty
<1>2. ASSUME NextEntry(t)
      PROVE  /\ \E l \in {"dump", "sleep", "close"} : pc' = [pc EXCEPT ![t] = l]
             /\ \A u \in Thread \ {t} : slot'[u] = slot[u]
  BY <1>2 DEF NextEntry, Goto, TypeOK
<1>3. CASE DumpWrite(t)
  <2>1. /\ UNCHANGED <<pc, slot>> \/ /\ \E l \in {"dump", "sleep", "close"} : pc' = [pc EXCEPT ![t] = l]
                                     /\ \A u \in Thread \ {t} : slot'[u] = slot[u]
        /\ \A u \in Thread \ {t} : info'[u] = info[u]
        /\ pc[t] = "dump_write" /\ UNCHANGED <<aux, ss_lock>>
    BY <1>2, <1>3 DEF DumpWrite, TypeOK
  <2> QED
    BY ZenonT(60), <2>1 DEF PresentInv, DirtyIsPresent, EvictInv, CopyInv, TypeOK, Using, Evicting
<1>4. CASE DumpClean(t)
  <2>1. /\ UNCHANGED <<pc, slot>> \/ /\ \E l \in {"dump", "sleep", "close"} : pc' = [pc EXCEPT ![t] = l]
                                     /\ \A u \in Thread \ {t} : slot'[u] = slot[u]
        /\ pc[t] = "dump" /\ UNCHANGED <<aux, ss_lock, info>>
    BY <1>2, <1>4 DEF DumpClean, locks
  <2> QED
    BY <2>1 DEF PresentInv, DirtyIsPresent, EvictInv, CopyInv, TypeOK, Using, Evicting
<1> QED
  BY SMTT(30), <1>1, <1>3, <1>4 DEF cache_dump_all

(* PresentInv is inductive relative to the types.                          *)
LEMMA NextPresent == TypeOK /\ PresentInv /\ [Next]_vars => PresentInv'
<1> SUFFICES ASSUME TypeOK, PresentInv, [Next]_vars PROVE PresentInv'
  OBVIOUS
<1> USE Members
<1>1. CASE UNCHANGED vars
  BY <1>1 DEF vars, locks, localVars, PresentInv, DirtyIsPresent, EvictInv, CopyInv
<1>2. ASSUME NEW t \in Client, Call(t) PROVE PresentInv'
  <2>1. ASSUME NEW s \in Sector, NEW o \in Offset, cache_read(t, s, o) PROVE PresentInv'
    <3>1. ReadOp(s, o) \in Op
      BY CacheAssumption DEF ReadOp, Op
    <3> QED
      BY <2>1, <3>1, GetPresent DEF cache_read
  <2>2. ASSUME NEW s \in Sector, NEW o \in Offset, NEW v \in Val, cache_write(t, s, o, v)
        PROVE PresentInv'
    <3>1. [write |-> TRUE, sector |-> s, offset |-> o, val |-> v] \in Op
      BY Zenon, CacheAssumption DEF Op
    <3> QED
      BY <2>2, <3>1, GetPresent DEF cache_write
  <2>3. CASE cache_close(t)
    BY <2>3 DEF cache_close, Goto, locks, localVars, PresentInv, DirtyIsPresent, EvictInv,
                CopyInv, TypeOK, Using, Evicting
  <2> QED
    BY <1>2, <2>1, <2>2, <2>3 DEF Call
<1>3. ASSUME NEW t \in Client, Continue(t) PROVE PresentInv'
  <2>1. CASE CloseStop(t)
    BY ZenonT(30), <2>1 DEF CloseStop, Goto, locks, localVars, PresentInv, DirtyIsPresent, EvictInv,
                CopyInv, TypeOK, Using, Evicting
  <2>2. CASE CloseFree(t)
    BY <2>2 DEF CloseFree, Goto, localVars, ZeroAux, PresentInv, DirtyIsPresent, EvictInv,
                CopyInv, TypeOK, Using, Evicting
  <2> QED
    BY Zenon, <1>3, <2>1, <2>2, AccessPresent, DumpPresent DEF Continue
<1>4. CASE Dump
  <2>1. CASE DumperWakes
    BY <2>1 DEF DumperWakes, LeaveLoop, Goto, locks, localVars, PresentInv, DirtyIsPresent,
                EvictInv, CopyInv, TypeOK, Using, Evicting
  <2> QED
    BY ZenonT(30), <1>4, <2>1, DumpPresent DEF Dump
<1>5. CASE Ahead
  <2>1. CASE ReadAheadWakes
    BY <2>1 DEF ReadAheadWakes, Goto, locks, localVars, PresentInv, DirtyIsPresent, EvictInv,
                CopyInv, TypeOK, Using, Evicting
  <2>2. CASE ReadAheadNext
    <3>1. Head(gReadAheadList) \in Nat
      BY <2>2, ListUpdates DEF ReadAheadNext, TypeOK
    <3>2. PICK o \in Offset : Get(ReadAhead, ReadOp(Head(gReadAheadList), o))
      BY Zenon, <2>2 DEF ReadAheadNext
    <3>3. ReadOp(Head(gReadAheadList), o) \in Op
      BY ZenonT(30), <3>1, CacheAssumption DEF ReadOp, Op
    <3> QED
      BY Zenon, <3>2, <3>3, GetPresent
  <2>3. CASE ReadAheadDone
    BY <2>3 DEF ReadAheadDone, LeaveLoop, Goto, locks, localVars, PresentInv, DirtyIsPresent,
                EvictInv, CopyInv, TypeOK, Using, Evicting
  <2> QED
    BY ZenonT(30), <1>5, <2>1, <2>2, <2>3, AccessPresent DEF Ahead
<1> QED
  BY <1>1, <1>2, <1>3, <1>4, <1>5 DEF Next

(* The assertion of cache_dump_entry holds for any number of clients, with *)
(* the dump thread, the read-ahead thread and a shutdown in any order: a   *)
(* dirty entry is present.  The races on an entry's bookkeeping that the   *)
(* cache has do not reach it, because cache_evict keeps ss_lock from the   *)
(* moment it cleans the entry until it takes the sector away.              *)
THEOREM DirtyPresent == Spec => []DirtyIsPresent
<1>1. PresentInv => DirtyIsPresent
  BY DEF PresentInv
<1> QED
  BY <1>1, InitPresent, NextPresent, TypeCorrect, PTL DEF Spec
----------------------------------------------------------------------------
(* One client.  With a second thread that reads or writes, CleanOnDisk is  *)
(* false; with one client and the dump thread, nothing is lost.            *)

OneClient == \A t, u \in Client : t = u

(* The places of an operation between its pin and its unpin. *)
Busy == Using \cup {"fill"}
Victim == {"evict", "evict_write"}
Writing == {"evict_write", "dump_write"}

InUse(e) == \E t \in Client : pc[t] \in Busy /\ slot[t] = e
Filled(e) == aux[e].present \/ InUse(e)

(* The read-ahead thread never starts, and the dump thread only dumps. *)
Roles == pc[ReadAhead] = "down" /\ pc[Dumper] \in {"sleep", "dump", "dump_write"}

(* Entries are filled in their order, so that an entry that was never used *)
(* cannot hide one that holds sector 0, the number memset gave it.         *)
Placed ==
  ~panicked =>
    /\ \A e \in Entry : Filled(e) \/ aux[e].sector_index = 0
    /\ \A e, f \in Entry : e < f /\ Filled(f) => Filled(e)
    /\ \A t \in Client : pc[t] \in Victim =>
         \A e \in Entry : e < slot[t] => aux[e].present

(* No sector is in two entries. *)
Distinct ==
  /\ \A e \in Entry : aux[e].present => aux[e].sector_index \in Sector
  /\ \A e, f \in Entry :
       aux[e].present /\ aux[f].present /\ aux[e].sector_index = aux[f].sector_index => e = f

(* The operation's sector is in no entry but its own. *)
OwnOf(t) ==
  /\ pc[t] \in Busy \cup Victim =>
       /\ op[t].sector \in Sector /\ (op[t].write => op[t].val \in Val)
       /\ \A e \in Entry : aux[e].present /\ aux[e].sector_index = op[t].sector =>
            pc[t] \in Using /\ e = slot[t]
  /\ pc[t] \in {"fill", "copy"} => ~aux[slot[t]].present
  /\ pc[t] = "hit" => aux[slot[t]].present
  /\ pc[t] \in Using =>
       /\ info[t].sector_index = op[t].sector
       /\ aux[slot[t]].present => aux[slot[t]].sector_index = op[t].sector

Own == \A t \in Client : OwnOf(t)

(* Who writes an entry to the disk holds its lock, and knows its sector.   *)
Held ==
  \A e \in Entry, t \in Thread : s_lock[e] = t =>
    /\ pc[t] \in Writing /\ slot[t] = e /\ aux[e].present
    /\ info[t].sector_index = aux[e].sector_index

Holding == \A t \in Thread : pc[t] \in Writing => s_lock[slot[t]] = t \/ panicked

Freed == \A t \in Client, e \in Entry : pc[t] = "closed" <=> s_lock[e] = FREED

Locked == Held /\ Holding /\ Freed

(* An entry with nothing to write holds what the disk holds: one that an   *)
(* operation uses, ...                                                     *)
CopiedOf(t) ==
  /\ pc[t] = "copy" => data[slot[t]] = disk[op[t].sector]
  /\ pc[t] \in Using /\ ~info[t].dirty /\ s_lock[slot[t]] = NULL =>
       data[slot[t]] = disk[op[t].sector]

Copied == \A t \in Client : CopiedOf(t)

(* ... and any other. *)
CleanEntry(e) ==
  aux[e].present /\ ~aux[e].dirty /\ s_lock[e] = NULL /\ ~InUse(e) =>
    data[e] = disk[aux[e].sector_index]

Clean == \A e \in Entry : CleanEntry(e)

(* cache_close has written the entries its cache_dump_all has passed. *)
ClosingOf(t) ==
  /\ \A e \in Entry :
       \/ pc[t] \in {"dump", "dump_write"} /\ e < slot[t]
       \/ pc[t] \in {"close", "free"}
       => ~aux[e].dirty /\ s_lock[e] = NULL
  /\ pc[t] = "idle" => slot[t] = 0
  /\ pc[t] = "dump_write" => ~aux[slot[t]].dirty

Closing == \A t \in Client : ClosingOf(t)

SerialInv ==
  Roles /\ Placed /\ Distinct /\ Own /\ Locked /\ Copied /\ Clean /\ Closing

(* The places are different strings. *)
LEMMA Places ==
  /\ \A l \in Using : l \in Busy /\ l \notin Victim \cup Writing
  /\ \A l \in Busy : l \notin Victim \cup Writing
                     /\ l \notin {"idle", "dump", "dump_write", "close", "free", "closed"}
  /\ \A l \in Victim : l \notin Busy
                     /\ l \notin {"idle", "dump", "dump_write", "close", "free", "closed"}
  /\ \A l \in Writing : l \notin Busy /\ l \notin {"idle", "dump", "close", "free", "closed", "sleep"}
  /\ \A l \in {"idle", "spin", "dump", "dump_write", "close", "free", "closed", "sleep"} :
       l \notin Busy \cup Victim
  /\ "fill" \in Busy /\ "fill" \notin Using
  /\ "hit" \in Using /\ "copy" \in Using /\ "asynch" \in Using /\ "unpin" \in Using
  /\ "evict" \in Victim /\ "evict_write" \in Victim /\ "evict_write" \in Writing
  /\ "dump_write" \in Writing
  BY DEF Using, Busy, Victim, Writing

(* The cache as cache_init leaves it. *)
LEMMA InitSerial == Init => SerialInv
<1> SUFFICES ASSUME Init PROVE SerialInv
  BY Zenon
<1> USE Members
<1>1. /\ \A e \in Entry : /\ aux[e] = ZeroAux /\ ~aux[e].present /\ ~aux[e].dirty
                          /\ aux[e].sector_index = 0 /\ s_lock[e] = NULL
      /\ pc[ReadAhead] = "down" /\ pc[Dumper] = "sleep"
      /\ \A t \in Client : pc[t] = "idle" /\ slot[t] = 0
  <2>1. \A e \in Entry : aux[e] = ZeroAux /\ s_lock[e] = NULL
    BY Zenon DEF Init
  <2>2. ~ZeroAux.present /\ ~ZeroAux.dirty /\ ZeroAux.sector_index = 0
    BY Zenon DEF ZeroAux
  <2>3. pc[ReadAhead] = "down" /\ pc[Dumper] = "sleep"
    BY Zenon, CacheAssumption DEF Init
  <2>4. \A t \in Client : pc[t] = "idle" /\ slot[t] = 0
    BY Zenon, CacheAssumption DEF Init
  <2> QED BY Zenon, <2>1, <2>2, <2>3, <2>4
<1>2. \A t \in Client : pc[t] \notin Busy \cup Victim /\ pc[t] \notin Using
  BY Zenon, <1>1, Places
<1>3. Roles /\ Placed /\ Distinct
  BY Zenon, <1>1, <1>2 DEF Roles, Placed, Distinct, Filled, InUse
<1>4. Own /\ Copied
  <2>1. \A t \in Client : pc[t] \notin {"fill", "copy", "hit"}
    BY Zenon, <1>2, Places
  <2> QED BY Zenon, <1>2, <2>1 DEF Own, OwnOf, Copied, CopiedOf
<1>5. Clean /\ Closing
  <2>1. \A t \in Client : pc[t] \notin {"dump", "dump_write", "close", "free"}
    BY Zenon, <1>1
  <2> QED BY Zenon, <1>1, <2>1 DEF Clean, CleanEntry, Closing, ClosingOf
<1>6. Locked
  <2>1. \A t \in Thread : pc[t] \in {"sleep", "down", "idle"}
    BY Zenon DEF Init
  <2>2. \A t \in Thread : pc[t] \notin Writing /\ pc[t] # "closed"
    BY <2>1 DEF Writing
  <2>3. NULL # FREED
    BY CacheAssumption
  <2>4. NULL \notin Thread /\ Client \subseteq Thread
    BY Zenon, Members
  <2> QED BY Zenon, <1>1, <2>2, <2>3, <2>4 DEF Locked, Held, Holding, Freed
<1> QED BY Zenon, <1>3, <1>4, <1>5, <1>6 DEF SerialInv
NamesKept ==
  \A e \in Entry : aux'[e].present = aux[e].present /\ aux'[e].sector_index = aux[e].sector_index

(* The entries keep their sectors. *)
LEMMA DistinctKept ==
  ASSUME Distinct, NamesKept
  PROVE  Distinct'
<1>1. \A e \in Entry : aux'[e].present => aux'[e].sector_index \in Sector
  BY Zenon DEF Distinct, NamesKept
<1>2. ASSUME NEW e \in Entry, NEW f \in Entry, aux'[e].present, aux'[f].present,
             aux'[e].sector_index = aux'[f].sector_index
      PROVE  e = f
  <2>1. aux[e].present /\ aux[f].present /\ aux[e].sector_index = aux[f].sector_index
    BY Zenon, <1>2 DEF NamesKept
  <2> QED BY Zenon, <2>1 DEF Distinct
<1> QED BY Zenon, <1>1, <1>2 DEF Distinct

(* A client that does nothing. *)
LEMMA OwnKept ==
  ASSUME NamesKept, NEW u, slot[u] \in Entry, OwnOf(u), pc'[u] = pc[u], op'[u] = op[u],
         slot'[u] = slot[u], info'[u] = info[u]
  PROVE  OwnOf(u)'
<1>1. /\ pc[u] \in {"fill", "copy"} => ~aux'[slot[u]].present
      /\ pc[u] = "hit" => aux'[slot[u]].present
  BY Zenon DEF OwnOf, NamesKept
<1>2. pc[u] \in Using =>
        /\ info[u].sector_index = op[u].sector
        /\ aux'[slot[u]].present => aux'[slot[u]].sector_index = op[u].sector
  BY Zenon DEF OwnOf, NamesKept
<1>3. pc[u] \in Busy \cup Victim =>
        /\ op[u].sector \in Sector /\ (op[u].write => op[u].val \in Val)
        /\ \A e \in Entry : aux'[e].present /\ aux'[e].sector_index = op[u].sector =>
             pc[u] \in Using /\ e = slot[u]
  BY Zenon DEF OwnOf, NamesKept
<1> QED BY Zenon, <1>1, <1>2, <1>3 DEF OwnOf

(* A thread that is in no operation, and stays out of one. *)
LEMMA Aside ==
  ASSUME TypeOK, Placed, Distinct, Own, ~panicked, NamesKept, NEW t \in Thread,
         pc[t] \notin Busy \cup Victim, pc'[t] \notin Busy \cup Victim,
         \A u \in Client \ {t} : /\ pc'[u] = pc[u] /\ op'[u] = op[u]
                                 /\ slot'[u] = slot[u] /\ info'[u] = info[u]
  PROVE  Placed' /\ Distinct' /\ Own' /\ \A e : InUse(e)' <=> InUse(e)
<1>1. \A e : InUse(e)' <=> InUse(e)
  BY Zenon DEF InUse
<1>2. \A e \in Entry : Filled(e)' <=> Filled(e)
  BY Zenon, <1>1 DEF Filled, NamesKept
<1>3. Placed'
  <2>1. \A u \in Client : pc'[u] \in Victim => pc[u] \in Victim /\ slot'[u] = slot[u]
    BY Zenon
  <2> QED BY Zenon, <1>2, <2>1 DEF Placed, NamesKept
<1>4. Distinct'
  BY Zenon, DistinctKept
<1>5. ASSUME NEW u \in Client, u # t PROVE OwnOf(u)'
  <2>1. slot[u] \in Entry
    BY Zenon, Members DEF TypeOK
  <2> QED BY Zenon, <1>5, <2>1, OwnKept DEF Own
<1>6. ASSUME t \in Client PROVE OwnOf(t)'
  <2>1. pc'[t] \notin {"fill", "copy", "hit"} /\ pc'[t] \notin Using
    BY Zenon, Places
  <2> QED BY Zenon, <2>1 DEF OwnOf
<1>7. Own'
  BY Zenon, <1>5, <1>6 DEF Own
<1> QED BY Zenon, <1>1, <1>3, <1>4, <1>7
(* Updates keep the number of the sector. *)
LEMMA AuxSector ==
  ASSUME NEW a \in Aux, NEW b \in BOOLEAN
  PROVE  /\ [a EXCEPT !.present = b].sector_index = a.sector_index
         /\ [a EXCEPT !.accessed = b].sector_index = a.sector_index
         /\ [a EXCEPT !.dirty = b].sector_index = a.sector_index
         /\ [a EXCEPT !.dirty = b].present = a.present
         /\ [a EXCEPT !.pinned = @ + 1].sector_index = a.sector_index
         /\ [a EXCEPT !.pinned = @ - 1].sector_index = a.sector_index
  BY Zenon DEF Aux

(* cache_dump_entry takes the lock of a dirty entry. *)
LEMMA StartDumpEffect ==
  ASSUME TypeOK, DirtyIsPresent, NEW t \in Thread, NEW l, StartDump(t, l)
  PROVE  /\ slot[t] \in Entry /\ aux[slot[t]].dirty /\ aux[slot[t]].present /\ ~panicked'
         /\ NamesKept /\ ~aux'[slot[t]].dirty
         /\ \A f \in Entry \ {slot[t]} : aux'[f] = aux[f] /\ s_lock'[f] = s_lock[f]
         /\ s_lock'[slot[t]] = t /\ pc'[t] = l /\ info'[t] = aux[slot[t]]
         /\ \A u \in Thread \ {t} : pc'[u] = pc[u] /\ info'[u] = info[u]
<1> DEFINE e == slot[t]
           a == [aux[e] EXCEPT !.dirty = FALSE]
<1>1. /\ e \in Entry /\ aux[e] \in Aux /\ aux \in [Entry -> Aux] /\ pc \in [Thread -> Labels]
      /\ info \in [Thread -> Aux] /\ s_lock \in [Entry -> Thread \cup {NULL, FREED}]
  BY Zenon DEF TypeOK
<1>2. /\ aux[e].dirty /\ aux' = [aux EXCEPT ![e] = a] /\ info' = [info EXCEPT ![t] = aux[e]]
      /\ s_lock' = [s_lock EXCEPT ![e] = t] /\ pc' = [pc EXCEPT ![t] = l]
      /\ panicked' = ~aux[e].present
  BY Zenon DEF StartDump, Goto
<1>3. aux[e].present
  BY Zenon, <1>1, <1>2 DEF DirtyIsPresent
<1>4. a.sector_index = aux[e].sector_index /\ a.present = aux[e].present /\ ~a.dirty
  BY ZenonT(40), <1>1, AuxSector, AuxUpdates
<1> HIDE DEF a, e
<1>5. aux'[e] = a /\ \A f \in Entry \ {e} : aux'[f] = aux[f]
  BY Zenon, <1>1, <1>2
<1>6. s_lock'[e] = t /\ \A f \in Entry \ {e} : s_lock'[f] = s_lock[f]
  BY Zenon, <1>1, <1>2
<1>7. /\ pc'[t] = l /\ info'[t] = aux[e]
      /\ \A u \in Thread \ {t} : pc'[u] = pc[u] /\ info'[u] = info[u]
  BY Zenon, <1>1, <1>2
<1>8. NamesKept
  BY Zenon, <1>4, <1>5 DEF NamesKept
<1> QED BY Zenon, <1>1, <1>2, <1>3, <1>4, <1>5, <1>6, <1>7, <1>8 DEF e

(* It keeps the locks in order, ... *)
LEMMA StartDumpLocked ==
  ASSUME TypeOK, DirtyIsPresent, Locked, ~panicked, NEW t \in Thread, NEW l \in Writing, StartDump(t, l),
         pc[t] \in {"evict", "dump"}, s_lock[slot[t]] = NULL, slot' = slot
  PROVE  Locked'
<1> DEFINE e == slot[t]
<1>1. /\ e \in Entry /\ aux[e].dirty /\ aux[e].present /\ ~panicked'
      /\ NamesKept /\ ~aux'[e].dirty
      /\ \A f \in Entry \ {e} : aux'[f] = aux[f] /\ s_lock'[f] = s_lock[f]
      /\ s_lock'[e] = t /\ pc'[t] = l /\ info'[t] = aux[e]
      /\ \A u \in Thread \ {t} : pc'[u] = pc[u] /\ info'[u] = info[u]
  BY Zenon, StartDumpEffect DEF e
<1>0. e = slot[t]
  BY DEF e
<1> HIDE DEF e
<1>2. pc[t] \notin Writing /\ pc[t] # "closed" /\ l # "closed"
  BY DEF Writing
<1>3. ASSUME NEW f \in Entry, NEW u \in Thread, s_lock'[f] = u
      PROVE  /\ pc'[u] \in Writing /\ slot'[u] = f /\ aux'[f].present
             /\ info'[u].sector_index = aux'[f].sector_index
  <2>1. CASE f = e
    <3>1. u = t
      BY Zenon, <1>1, <1>3, <2>1
    <3>2. aux'[e].present /\ aux'[e].sector_index = aux[e].sector_index
      BY Zenon, <1>1 DEF NamesKept
    <3> QED BY Zenon, <1>0, <1>1, <2>1, <3>1, <3>2
  <2>2. CASE f # e
    <3>1. s_lock[f] = u
      BY Zenon, <1>1, <1>3, <2>2
    <3>2. u # t
      BY Zenon, <1>2, <3>1 DEF Locked, Held
    <3>3. /\ pc[u] \in Writing /\ slot[u] = f /\ aux[f].present
          /\ info[u].sector_index = aux[f].sector_index
      BY Zenon, <3>1 DEF Locked, Held
    <3> QED BY Zenon, <1>1, <2>2, <3>2, <3>3
  <2> QED BY Zenon, <2>1, <2>2
<1>4. ASSUME NEW u \in Thread, pc'[u] \in Writing PROVE s_lock'[slot'[u]] = u \/ panicked'
  <2>1. CASE u = t
    BY Zenon, <1>0, <1>1, <2>1
  <2>2. CASE u # t
    <3>1. pc[u] \in Writing
      BY Zenon, <1>1, <1>4, <2>2
    <3>2. s_lock[slot[u]] = u \/ panicked
      BY Zenon, <3>1 DEF Locked, Holding
    <3>3. slot[u] \in Entry /\ ~panicked
      BY Zenon DEF TypeOK
    <3>4. slot[u] # e
      BY Zenon, <1>0, <3>2, <3>3, Members
    <3> QED BY Zenon, <1>1, <3>2, <3>3, <3>4
  <2> QED BY Zenon, <2>1, <2>2
<1>5. ASSUME NEW u \in Client, NEW f \in Entry PROVE pc'[u] = "closed" <=> s_lock'[f] = FREED
  <2>1. pc[u] # "closed" /\ s_lock[f] # FREED
    <3>1. pc[u] = "closed" <=> s_lock[e] = FREED
      BY Zenon, <1>1 DEF Locked, Freed
    <3>2. NULL # FREED
      BY Zenon, CacheAssumption
    <3> QED BY Zenon, <1>0, <3>1, <3>2 DEF Locked, Freed
  <2>2. pc'[u] # "closed"
    <3>1. u \in Thread
      BY Zenon, Members
    <3> QED BY Zenon, <1>1, <1>2, <2>1, <3>1
  <2>3. s_lock'[f] # FREED
    <3>1. t # FREED
      BY Zenon, Members
    <3>2. CASE f = e
      BY Zenon, <1>1, <3>1, <3>2
    <3>3. CASE f # e
      BY Zenon, <1>1, <2>1, <3>3
    <3> QED BY Zenon, <3>2, <3>3
  <2> QED BY Zenon, <2>2, <2>3
<1> QED BY Zenon, <1>3, <1>4, <1>5 DEF Locked, Held, Holding, Freed
(* ... and every entry in step with the disk. *)
LEMMA StartDumpClean ==
  ASSUME TypeOK, DirtyIsPresent, SerialInv, ~panicked, NEW t \in Thread, NEW l \in Writing,
         StartDump(t, l), pc[t] = (IF l = "evict_write" THEN "evict" ELSE "dump"),
         s_lock[slot[t]] = NULL, UNCHANGED <<data, disk, slot, op>>
  PROVE  Locked' /\ Copied' /\ Clean' /\ Closing'
<1> DEFINE e == slot[t]
<1>1. /\ e \in Entry /\ aux[e].dirty /\ aux[e].present /\ ~panicked'
      /\ NamesKept /\ ~aux'[e].dirty
      /\ \A f \in Entry \ {e} : aux'[f] = aux[f] /\ s_lock'[f] = s_lock[f]
      /\ s_lock'[e] = t /\ pc'[t] = l /\ info'[t] = aux[e]
      /\ \A u \in Thread \ {t} : pc'[u] = pc[u] /\ info'[u] = info[u]
  BY Zenon, StartDumpEffect DEF e
<1>0. e = slot[t] /\ slot' = slot /\ data' = data /\ disk' = disk /\ op' = op
  BY Zenon DEF e
<1> HIDE DEF e
<1>2. pc[t] \in {"evict", "dump"}
  BY Zenon
<1>3. Locked'
  <2>1. Locked
    BY Zenon DEF SerialInv
  <2> QED BY Zenon, <1>0, <1>2, <2>1, StartDumpLocked
<1>4. /\ pc[t] \notin Busy /\ pc[t] \notin Using /\ pc'[t] \notin Busy /\ pc'[t] \notin Using
      /\ t # NULL /\ Client \subseteq Thread
  <2>1. t # NULL /\ Client \subseteq Thread
    BY Zenon, Members
  <2>2. \A k : k \in {"evict", "dump"} \/ k \in Writing => k \notin Busy
    BY Zenon, Places
  <2>3. \A k : k \notin Busy => k \notin Using
    BY Zenon, Places
  <2> QED BY Zenon, <1>1, <1>2, <2>1, <2>2, <2>3
<1>5. \A f \in Entry : InUse(f)' <=> InUse(f)
  BY ZenonT(40), <1>0, <1>1, <1>4 DEF InUse
<1>6. \A f \in Entry : s_lock'[f] = NULL => s_lock[f] = NULL /\ f # e
  BY Zenon, <1>1, <1>4
<1>7. ASSUME NEW u \in Client PROVE CopiedOf(u)'
  <2>1. CASE u = t
    BY Zenon, <1>4, <2>1, Places DEF CopiedOf
  <2>2. CASE u # t
    <3>1. CopiedOf(u) /\ slot[u] \in Entry /\ pc'[u] = pc[u] /\ info'[u] = info[u]
      BY Zenon, <1>1, <1>4, <2>2 DEF SerialInv, Copied, TypeOK
    <3> QED BY Zenon, <1>0, <1>6, <3>1 DEF CopiedOf
  <2> QED BY Zenon, <2>1, <2>2
<1>8. ASSUME NEW f \in Entry PROVE CleanEntry(f)'
  <2>1. CASE f = e
    BY Zenon, <1>6, <2>1 DEF CleanEntry
  <2>2. CASE f # e
    <3>1. CleanEntry(f) /\ aux'[f] = aux[f] /\ s_lock'[f] = s_lock[f]
      BY Zenon, <1>1, <2>2 DEF SerialInv, Clean
    <3> QED BY Zenon, <1>0, <1>5, <3>1 DEF CleanEntry
  <2> QED BY Zenon, <2>1, <2>2
<1>9. ASSUME NEW u \in Client PROVE ClosingOf(u)'
  <2>0. ClosingOf(u) /\ slot'[u] = slot[u] /\ slot[u] \in Entry
    BY Zenon, <1>0, <1>4 DEF SerialInv, Closing, TypeOK
  <2>1. ASSUME NEW f \in Entry, f # e, ~aux[f].dirty, s_lock[f] = NULL
        PROVE  ~aux'[f].dirty /\ s_lock'[f] = NULL
    BY Zenon, <1>1, <2>1
  <2>2. CASE u = t
    <3>1. pc'[u] \notin {"idle", "dump", "close", "free"}
      BY Zenon, <1>1, <2>2, Places
    <3>2. ASSUME NEW f \in Entry, pc'[u] = "dump_write", f < slot[u]
          PROVE  ~aux'[f].dirty /\ s_lock'[f] = NULL
      <4>1. pc[u] = "dump"
        <5>1. "dump_write" # "evict_write"
          OBVIOUS
        <5> QED BY Zenon, <1>1, <2>2, <3>2, <5>1
      <4>2. ~aux[f].dirty /\ s_lock[f] = NULL
        BY Zenon, <2>0, <3>2, <4>1 DEF ClosingOf
      <4>3. f # e
        BY Zenon, <1>1, <4>2
      <4> QED BY Zenon, <2>1, <4>2, <4>3
    <3>3. ~aux'[slot[u]].dirty
      BY Zenon, <1>0, <1>1, <2>2
    <3> QED BY Zenon, <2>0, <3>1, <3>2, <3>3 DEF ClosingOf
  <2>3. CASE u # t
    <3>1. pc'[u] = pc[u]
      BY Zenon, <1>1, <1>4, <2>3
    <3>2. ASSUME NEW f \in Entry,
                 \/ pc[u] \in {"dump", "dump_write"} /\ f < slot[u]
                 \/ pc[u] \in {"close", "free"}
          PROVE  ~aux'[f].dirty /\ s_lock'[f] = NULL
      <4>2. ~aux[f].dirty /\ s_lock[f] = NULL
        BY Zenon, <2>0, <3>2 DEF ClosingOf
      <4>3. f # e
        BY Zenon, <1>1, <4>2
      <4> QED BY Zenon, <2>1, <4>2, <4>3
    <3>3. pc[u] = "idle" => slot[u] = 0
      BY Zenon, <2>0 DEF ClosingOf
    <3>4. pc[u] = "dump_write" => ~aux'[slot[u]].dirty
      <4>1. CASE slot[u] = e
        BY Zenon, <1>1, <4>1
      <4>2. CASE slot[u] # e
        BY Zenon, <1>1, <2>0, <4>2 DEF ClosingOf
      <4> QED BY Zenon, <4>1, <4>2
    <3> QED BY Zenon, <2>0, <3>1, <3>2, <3>3, <3>4 DEF ClosingOf
  <2> QED BY Zenon, <2>2, <2>3
<1> QED BY Zenon, <1>3, <1>7, <1>8, <1>9 DEF Copied, Clean, Closing

(* cache_dump_all takes the lock of an entry. *)
LEMMA DumpDirtySerial ==
  ASSUME TypeOK, DirtyIsPresent, SerialInv, ~panicked, NEW t \in Client \cup {Dumper}, DumpDirty(t)
  PROVE  SerialInv'
<1>1. /\ StartDump(t, "dump_write") /\ pc[t] = "dump" /\ s_lock[slot[t]] = NULL
      /\ data' = data /\ disk' = disk /\ slot' = slot /\ op' = op
  BY Zenon DEF DumpDirty
<1>2. t \in Thread /\ Client \subseteq Thread /\ ReadAhead \in Thread /\ Dumper \in Thread
  BY Zenon, Members
<1>3. "dump_write" \in Writing /\ "dump_write" # "evict_write"
  BY DEF Writing
<1>4. Locked' /\ Copied' /\ Clean' /\ Closing'
  BY Zenon, <1>1, <1>2, <1>3, StartDumpClean
<1>5. /\ NamesKept /\ pc'[t] = "dump_write"
      /\ \A u \in Thread \ {t} : pc'[u] = pc[u] /\ info'[u] = info[u]
  BY ZenonT(40), <1>1, <1>2, StartDumpEffect
<1>6. pc[t] \notin Busy \cup Victim /\ pc'[t] \notin Busy \cup Victim
  BY Zenon, <1>1, <1>5, Places
<1>7. Placed' /\ Distinct' /\ Own'
  BY Zenon, <1>1, <1>2, <1>5, <1>6, Aside DEF SerialInv
<1>8. Roles'
  BY Zenon, <1>2, <1>5, CacheAssumption DEF SerialInv, Roles
<1> QED BY Zenon, <1>4, <1>7, <1>8 DEF SerialInv

(* cache_evict takes the lock of its victim. *)
LEMMA EvictDirtySerial ==
  ASSUME TypeOK, DirtyIsPresent, SerialInv, OneClient, ~panicked, NEW t \in Client, EvictDirty(t)
  PROVE  SerialInv'
<1>1. /\ StartDump(t, "evict_write") /\ pc[t] = "evict" /\ s_lock[slot[t]] = NULL
      /\ data' = data /\ disk' = disk /\ slot' = slot /\ op' = op
  BY Zenon DEF EvictDirty
<1>2. t \in Thread /\ Client \subseteq Thread /\ ReadAhead \in Thread /\ Dumper \in Thread
  BY Zenon, Members
<1>3. "evict_write" \in Writing
  BY DEF Writing
<1>4. Locked' /\ Copied' /\ Clean' /\ Closing'
  BY Zenon, <1>1, <1>2, <1>3, StartDumpClean
<1>5. /\ NamesKept /\ pc'[t] = "evict_write"
      /\ \A u \in Thread \ {t} : pc'[u] = pc[u] /\ info'[u] = info[u]
  BY ZenonT(40), <1>1, <1>2, StartDumpEffect
<1>6. /\ pc[t] \in Victim /\ pc'[t] \in Victim /\ pc[t] \notin Busy /\ pc'[t] \notin Busy
      /\ pc[t] \notin Using /\ pc'[t] \notin Using /\ pc'[t] \notin {"fill", "copy", "hit"}
  BY Zenon, <1>1, <1>5, Places
<1>7. \A u \in Client : u = t
  BY Zenon DEF OneClient
<1>8. \A e \in Entry : Filled(e)' <=> Filled(e)
  BY Zenon, <1>5, <1>6, <1>7 DEF Filled, InUse, NamesKept
<1>9. Placed'
  BY Zenon, <1>1, <1>5, <1>6, <1>7, <1>8 DEF SerialInv, Placed, NamesKept
<1>10. Distinct'
  BY Zenon, <1>5, DistinctKept DEF SerialInv
<1>11. OwnOf(t)'
  BY ZenonT(40), <1>1, <1>5, <1>6 DEF SerialInv, Own, OwnOf, NamesKept
<1>12. Roles'
  BY Zenon, <1>2, <1>5, CacheAssumption DEF SerialInv, Roles
<1> QED BY Zenon, <1>4, <1>7, <1>9, <1>10, <1>11, <1>12 DEF SerialInv, Own
(* The entry is written to its sector, and to no other. *)
LEMMA WriteEffect ==
  ASSUME TypeOK, Locked, Distinct, ~panicked, NEW t \in Thread, pc[t] \in Writing,
         disk' = [disk EXCEPT ![info[t].sector_index] = data[slot[t]]]
  PROVE  /\ slot[t] \in Entry /\ s_lock[slot[t]] = t /\ aux[slot[t]].present
         /\ aux[slot[t]].sector_index \in Sector
         /\ disk'[aux[slot[t]].sector_index] = data[slot[t]]
         /\ \A x \in Sector \ {aux[slot[t]].sector_index} : disk'[x] = disk[x]
<1>1. slot[t] \in Entry /\ disk \in [Sector -> [Offset -> Byte]]
  BY Zenon DEF TypeOK
<1>2. s_lock[slot[t]] = t
  BY Zenon DEF Locked, Holding
<1>3. aux[slot[t]].present /\ info[t].sector_index = aux[slot[t]].sector_index
  <2>1. Held
    BY Zenon DEF Locked
  <2> QED BY ZenonT(40), <1>1, <1>2, <2>1 DEF Held
<1>4. aux[slot[t]].sector_index \in Sector
  BY Zenon, <1>1, <1>3 DEF Distinct
<1> QED BY Zenon, <1>1, <1>2, <1>3, <1>4

(* The lock of the entry is released. *)
LEMMA UnlockLocked ==
  ASSUME TypeOK, Locked, ~panicked, NEW t \in Thread, s_lock[slot[t]] \in {t, NULL},
         s_lock' = [s_lock EXCEPT ![slot[t]] = NULL],
         \A u \in Thread \ {t} : pc'[u] = pc[u] /\ info'[u] = info[u] /\ slot'[u] = slot[u],
         \A f \in Entry \ {slot[t]} : aux'[f] = aux[f],
         pc'[t] \notin Writing \/ panicked', pc'[t] # "closed"
  PROVE  Locked'
<1> DEFINE e == slot[t]
<1>1. /\ e \in Entry /\ s_lock'[e] = NULL /\ NULL \notin Thread /\ FREED \notin Thread
      /\ \A f \in Entry \ {e} : s_lock'[f] = s_lock[f]
  BY Zenon, Members DEF TypeOK
<1>0. e = slot[t] /\ s_lock[e] \in {t, NULL}
  BY Zenon
<1> HIDE DEF e
<1>2. ASSUME NEW f \in Entry, NEW u \in Thread, s_lock'[f] = u
      PROVE  /\ pc'[u] \in Writing /\ slot'[u] = f /\ aux'[f].present
             /\ info'[u].sector_index = aux'[f].sector_index
  <2>1. f # e /\ s_lock[f] = u
    <3>1. f # e
      <4>1. ASSUME f = e PROVE FALSE
        <5>1. s_lock'[f] = NULL
          BY Zenon, <1>1, <4>1
        <5>2. u = NULL
          BY Zenon, <1>2, <5>1
        <5> QED BY Zenon, <1>1, <5>2
      <4> QED BY Zenon, <4>1
    <3> QED BY Zenon, <1>1, <1>2, <3>1
  <2>2. /\ pc[u] \in Writing /\ slot[u] = f /\ aux[f].present
        /\ info[u].sector_index = aux[f].sector_index
    BY ZenonT(40), <2>1 DEF Locked, Held
  <2>3. u # t
    BY Zenon, <1>0, <2>1, <2>2
  <2>4. aux'[f] = aux[f] /\ pc'[u] = pc[u] /\ info'[u] = info[u] /\ slot'[u] = slot[u]
    BY Zenon, <1>0, <2>1, <2>3
  <2> QED BY Zenon, <2>2, <2>4
<1>3. ASSUME NEW u \in Thread, pc'[u] \in Writing PROVE s_lock'[slot'[u]] = u \/ panicked'
  <2>1. CASE u = t
    BY Zenon, <1>3, <2>1
  <2>2. CASE u # t
    <3>1. pc[u] \in Writing /\ slot'[u] = slot[u] /\ slot[u] \in Entry
      BY Zenon, <1>3, <2>2 DEF TypeOK
    <3>2. s_lock[slot[u]] = u
      BY Zenon, <3>1 DEF Locked, Holding
    <3>3. slot[u] # e
      <4>1. u # NULL
        BY Zenon, <1>1
      <4>2. ASSUME slot[u] = e PROVE FALSE
        <5>1. s_lock[e] = u
          BY Zenon, <3>2, <4>2
        <5>2. s_lock[e] = t \/ s_lock[e] = NULL
          BY Zenon, <1>0
        <5> QED BY Zenon, <2>2, <4>1, <5>1, <5>2
      <4> QED BY Zenon, <4>2
    <3>4. s_lock'[slot[u]] = s_lock[slot[u]]
      BY Zenon, <1>1, <3>1, <3>3
    <3> QED BY Zenon, <3>1, <3>2, <3>4
  <2> QED BY Zenon, <2>1, <2>2
<1>4. ASSUME NEW u \in Client, NEW f \in Entry PROVE pc'[u] = "closed" <=> s_lock'[f] = FREED
  <2>0. s_lock[e] # FREED /\ NULL # FREED
    BY Zenon, <1>0, <1>1, CacheAssumption
  <2>1. pc[u] # "closed"
    BY Zenon, <1>1, <2>0 DEF Locked, Freed
  <2>2. s_lock[f] # FREED
    BY Zenon, <2>1 DEF Locked, Freed
  <2>3. s_lock'[f] # FREED
    BY Zenon, <1>1, <2>0, <2>2
  <2>4. pc'[u] # "closed"
    BY Zenon, <2>1, Members
  <2> QED BY Zenon, <2>3, <2>4
<1> QED BY Zenon, <1>2, <1>3, <1>4 DEF Locked, Held, Holding, Freed

(* The loop of cache_dump_all. *)
LEMMA NextEntryEffect ==
  ASSUME TypeOK, NEW t \in Thread, NextEntry(t)
  PROVE  /\ \A u \in Thread \ {t} : pc'[u] = pc[u] /\ slot'[u] = slot[u]
         /\ pc'[t] \in {"dump", "sleep", "close"}
         /\ t = Dumper => pc'[t] \in {"dump", "sleep"}
         /\ \/ pc'[t] = "dump" /\ \A e \in Entry : e < slot'[t] => e < slot[t] \/ e = slot[t]
            \/ pc'[t] = "sleep"
            \/ pc'[t] = "close" /\ \A e \in Entry : e < slot[t] \/ e = slot[t]
<1>1. slot[t] \in Entry /\ slot \in [Thread -> Entry] /\ pc \in [Thread -> Labels]
  BY Zenon DEF TypeOK
<1>2. CASE MoreEntries(t)
  <2>1. slot' = [slot EXCEPT ![t] = slot[t] + 1] /\ pc' = [pc EXCEPT ![t] = "dump"]
    BY Zenon, <1>2 DEF NextEntry, Goto
  <2>2. /\ slot'[t] = slot[t] + 1 /\ pc'[t] = "dump"
        /\ \A u \in Thread \ {t} : pc'[u] = pc[u] /\ slot'[u] = slot[u]
    BY Zenon, <1>1, <2>1
  <2>3. \A e, n \in Nat : e < n + 1 => e < n \/ e = n
    OBVIOUS
  <2>4. \A e \in Entry : e < slot[t] + 1 => e < slot[t] \/ e = slot[t]
    BY Zenon, <1>1, <2>3, Members
  <2> QED BY Zenon, <2>2, <2>4
<1>3. CASE ~MoreEntries(t)
  <2>1. /\ slot' = [slot EXCEPT ![t] = 0]
        /\ pc' = [pc EXCEPT ![t] = IF t = Dumper THEN "sleep" ELSE "close"]
    BY Zenon, <1>3 DEF NextEntry, Goto
  <2>2. /\ pc'[t] = (IF t = Dumper THEN "sleep" ELSE "close")
        /\ \A u \in Thread \ {t} : pc'[u] = pc[u] /\ slot'[u] = slot[u]
    BY Zenon, <1>1, <2>1
  <2>3. \A e \in Entry : e < slot[t] \/ e = slot[t]
    BY <1>1, <1>3, CacheAssumption DEF MoreEntries, Entry
  <2> QED BY Zenon, <2>2, <2>3
<1> QED BY Zenon, <1>2, <1>3

(* cache_dump_all goes on to the next entry: the entry is clean. *)
LEMMA NextEntryClosing ==
  ASSUME TypeOK, Closing, NEW t \in Thread, pc[t] \in {"dump", "dump_write"}, NextEntry(t),
         UNCHANGED aux, ~aux[slot[t]].dirty \/ t \notin Client, s_lock'[slot[t]] = NULL,
         \A f \in Entry : s_lock'[f] = s_lock[f] \/ s_lock'[f] = NULL
  PROVE  Closing'
<1>1. aux' = aux
  BY Zenon
<1>2. ASSUME NEW u \in Client, u # t PROVE ClosingOf(u)'
  <2>1. ClosingOf(u) /\ pc'[u] = pc[u] /\ slot'[u] = slot[u]
    BY Zenon, <1>2, NextEntryEffect, Members DEF Closing
  <2>2. ASSUME NEW f \in Entry,
               \/ pc[u] \in {"dump", "dump_write"} /\ f < slot[u]
               \/ pc[u] \in {"close", "free"}
        PROVE  ~aux'[f].dirty /\ s_lock'[f] = NULL
    <3>1. ~aux[f].dirty /\ s_lock[f] = NULL
      BY Zenon, <2>1, <2>2 DEF ClosingOf
    <3> QED BY Zenon, <1>1, <3>1
  <2>3. /\ pc[u] = "idle" => slot[u] = 0
        /\ pc[u] = "dump_write" => ~aux'[slot[u]].dirty
    BY Zenon, <1>1, <2>1 DEF ClosingOf
  <2> QED BY Zenon, <2>1, <2>2, <2>3 DEF ClosingOf
<1>3. ASSUME t \in Client PROVE ClosingOf(t)'
  <2>1. ASSUME NEW f \in Entry, f < slot[t] \/ f = slot[t]
        PROVE  ~aux'[f].dirty /\ s_lock'[f] = NULL
    <3>1. CASE f = slot[t]
      BY Zenon, <1>1, <1>3, <3>1
    <3>2. CASE f < slot[t]
      <4>1. ~aux[f].dirty /\ s_lock[f] = NULL
        BY Zenon, <1>3, <3>2 DEF Closing, ClosingOf
      <4> QED BY Zenon, <1>1, <4>1
    <3> QED BY Zenon, <2>1, <3>1, <3>2
  <2>2. \/ pc'[t] = "dump" /\ \A e \in Entry : e < slot'[t] => e < slot[t] \/ e = slot[t]
        \/ pc'[t] = "sleep"
        \/ pc'[t] = "close" /\ \A e \in Entry : e < slot[t] \/ e = slot[t]
    BY Zenon, NextEntryEffect
  <2>3. pc'[t] \notin {"idle", "dump_write", "free"}
    BY <2>2
  <2>4. pc'[t] = "close" => \A e \in Entry : e < slot[t] \/ e = slot[t]
    BY <2>2
  <2>5. pc'[t] = "dump" => \A e \in Entry : e < slot'[t] => e < slot[t] \/ e = slot[t]
    BY <2>2
  <2> QED BY Zenon, <2>1, <2>3, <2>4, <2>5 DEF ClosingOf
<1> QED BY Zenon, <1>2, <1>3 DEF Closing
(* cache_dump_all writes an entry. *)
LEMMA DumpWriteSerial ==
  ASSUME TypeOK, SerialInv, ~panicked, NEW t \in Client \cup {Dumper}, DumpWrite(t)
  PROVE  SerialInv'
<1> DEFINE e == slot[t]
           x == aux[e].sector_index
<1>0. t \in Thread /\ Client \subseteq Thread /\ ReadAhead \in Thread /\ Dumper \in Thread
  BY Zenon, Members
<1>1. /\ pc[t] = "dump_write" /\ aux' = aux /\ data' = data /\ op' = op
      /\ disk' = [disk EXCEPT ![info[t].sector_index] = data[slot[t]]]
  BY Zenon DEF DumpWrite
<1>2. pc[t] \in Writing /\ Locked /\ Distinct /\ Placed /\ Own /\ Copied /\ Clean /\ Closing
  BY Zenon, <1>1, Places DEF SerialInv
<1>3. /\ e \in Entry /\ s_lock[e] = t /\ aux[e].present /\ x \in Sector
      /\ disk'[x] = data[e] /\ \A y \in Sector \ {x} : disk'[y] = disk[y]
  BY Zenon, <1>0, <1>1, <1>2, WriteEffect
<1>4. /\ s_lock' = [s_lock EXCEPT ![slot[t]] = NULL] /\ NextEntry(t)
      /\ info' = [info EXCEPT ![t] = ZeroAux] /\ panicked' = panicked
  <2>1. t # FREED
    BY Zenon, <1>0, Members
  <2>2. s_lock[slot[t]] # FREED
    BY Zenon, <1>3, <2>1
  <2> QED BY Zenon, <2>2 DEF DumpWrite
<1>5. /\ \A u \in Thread \ {t} : pc'[u] = pc[u] /\ slot'[u] = slot[u] /\ info'[u] = info[u]
      /\ pc'[t] \in {"dump", "sleep", "close"}
      /\ t = Dumper => pc'[t] \in {"dump", "sleep"}
  <2>1. \A u \in Thread \ {t} : info'[u] = info[u]
    BY Zenon, <1>4 DEF TypeOK
  <2> QED BY Zenon, <1>0, <1>4, <2>1, NextEntryEffect
<1>6. /\ s_lock'[e] = NULL /\ \A f \in Entry \ {e} : s_lock'[f] = s_lock[f]
  BY Zenon, <1>3, <1>4 DEF TypeOK
<1>7. /\ pc[t] \notin Busy \cup Victim /\ pc'[t] \notin Busy \cup Victim
      /\ pc'[t] \notin Writing /\ pc'[t] # "closed" /\ pc'[t] \notin Using
  <2>1. pc[t] \notin Busy \cup Victim /\ pc'[t] \notin Busy \cup Victim
    BY Zenon, <1>1, <1>5, Places
  <2>2. pc'[t] \notin Writing /\ pc'[t] # "closed"
    BY <1>5 DEF Writing
  <2> QED BY Zenon, <2>1, <2>2, Places
<1>8. Placed' /\ Distinct' /\ Own' /\ \A f : InUse(f)' <=> InUse(f)
  <2>1. NamesKept
    BY Zenon, <1>1 DEF NamesKept
  <2> QED BY Zenon, <1>0, <1>1, <1>2, <1>5, <1>7, <2>1, Aside
<1>9. Locked'
  BY ZenonT(40), <1>0, <1>1, <1>2, <1>3, <1>4, <1>5, <1>7, UnlockLocked
<1>10. Closing'
  <2>1. ~aux[slot[t]].dirty \/ t \notin Client
    BY Zenon, <1>1, <1>2 DEF Closing, ClosingOf
  <2> QED BY Zenon, <1>0, <1>1, <1>2, <1>4, <1>6, <2>1, NextEntryClosing
<1>11. Roles'
  <2>1. t # ReadAhead /\ Dumper # ReadAhead
    BY Zenon, CacheAssumption
  <2> QED BY Zenon, <1>0, <1>5, <2>1 DEF SerialInv, Roles
<1> HIDE DEF e, x
<1>12. ASSUME NEW f \in Entry PROVE CleanEntry(f)'
  <2>1. CASE f = e
    BY Zenon, <1>1, <1>3, <2>1 DEF CleanEntry, x
  <2>2. CASE f # e
    <3>1. CleanEntry(f) /\ s_lock'[f] = s_lock[f] /\ (InUse(f)' <=> InUse(f))
      BY Zenon, <1>2, <1>6, <1>8, <2>2 DEF Clean
    <3>2. aux[f].present => disk'[aux[f].sector_index] = disk[aux[f].sector_index]
      <4>1. ASSUME aux[f].present PROVE aux[f].sector_index \in Sector \ {x}
        BY Zenon, <1>2, <1>3, <2>2, <4>1 DEF Distinct, x
      <4> QED BY Zenon, <1>3, <4>1
    <3> QED BY Zenon, <1>1, <3>1, <3>2 DEF CleanEntry
  <2> QED BY Zenon, <2>1, <2>2
<1>13. ASSUME NEW u \in Client PROVE CopiedOf(u)'
  <2>1. CASE u = t
    BY Zenon, <1>7, <2>1, Places DEF CopiedOf
  <2>2. CASE u # t /\ pc[u] \in Using
    <3>1. /\ pc'[u] = pc[u] /\ slot'[u] = slot[u] /\ info'[u] = info[u] /\ slot[u] \in Entry
          /\ CopiedOf(u) /\ OwnOf(u) /\ pc[u] \in Busy
      BY Zenon, <1>0, <1>2, <1>5, <2>2, Places DEF Copied, Own, TypeOK
    <3>2. CASE slot[u] = e
      <4>1. pc[u] # "copy" /\ op[u].sector = x
        BY Zenon, <1>3, <2>2, <3>1, <3>2 DEF OwnOf, x
      <4> QED BY Zenon, <1>1, <1>3, <3>1, <3>2, <4>1 DEF CopiedOf
    <3>3. CASE slot[u] # e
      <4>1. op[u].sector \in Sector \ {x}
        BY Zenon, <1>3, <3>1, <3>3 DEF OwnOf, x
      <4>2. disk'[op[u].sector] = disk[op[u].sector] /\ s_lock'[slot[u]] = s_lock[slot[u]]
        BY Zenon, <1>3, <1>6, <3>1, <3>3, <4>1
      <4> QED BY Zenon, <1>1, <3>1, <4>2 DEF CopiedOf
    <3> QED BY Zenon, <3>2, <3>3
  <2>3. CASE u # t /\ pc[u] \notin Using
    <3>1. pc'[u] \notin Using
      BY Zenon, <1>0, <1>5, <2>3
    <3> QED BY Zenon, <3>1, Places DEF CopiedOf
  <2> QED BY Zenon, <2>1, <2>2, <2>3
<1> QED BY Zenon, <1>8, <1>9, <1>10, <1>11, <1>12, <1>13 DEF SerialInv, Clean, Copied

(* Steps that move a thread outside the operations and touch no entry.     *)
LEMMA QuietSerial ==
  ASSUME TypeOK, SerialInv, ~panicked, NEW t \in Client \cup {Dumper},
         UNCHANGED <<aux, data, disk, s_lock, op, info>>,
         \A u \in Thread \ {t} : pc'[u] = pc[u] /\ slot'[u] = slot[u],
         pc[t] \notin Busy \cup Victim \cup Writing, pc'[t] \notin Busy \cup Victim \cup Writing,
         pc'[t] = "closed" <=> pc[t] = "closed",
         t = Dumper => pc'[t] \in {"sleep", "dump"}, Closing'
  PROVE  SerialInv'
<1>0. t \in Thread /\ Client \subseteq Thread /\ ReadAhead \in Thread /\ Dumper \in Thread
  BY Zenon, Members
<1>1. aux' = aux /\ data' = data /\ disk' = disk /\ s_lock' = s_lock /\ op' = op /\ info' = info
  BY Zenon
<1>2. Locked /\ Distinct /\ Placed /\ Own /\ Copied /\ Clean
  BY Zenon DEF SerialInv
<1>3. Placed' /\ Distinct' /\ Own' /\ \A f : InUse(f)' <=> InUse(f)
  <2>1. NamesKept
    BY Zenon, <1>1 DEF NamesKept
  <2>2. pc[t] \notin Busy \cup Victim /\ pc'[t] \notin Busy \cup Victim
    BY Zenon
  <2> QED BY Zenon, <1>0, <1>1, <1>2, <2>1, <2>2, Aside
<1>4. Clean'
  BY Zenon, <1>1, <1>2, <1>3 DEF Clean, CleanEntry
<1>5. Roles'
  <2>1. t # ReadAhead /\ Dumper # ReadAhead
    BY Zenon, CacheAssumption
  <2> QED BY Zenon, <1>0, <2>1 DEF SerialInv, Roles
<1>6. ASSUME NEW u \in Client PROVE CopiedOf(u)'
  <2>1. CASE u = t
    BY Zenon, <2>1, Places DEF CopiedOf
  <2>2. CASE u # t
    <3>1. pc'[u] = pc[u] /\ slot'[u] = slot[u] /\ CopiedOf(u)
      BY Zenon, <1>0, <1>2, <2>2 DEF Copied
    <3> QED BY Zenon, <1>1, <3>1 DEF CopiedOf
  <2> QED BY Zenon, <2>1, <2>2
<1>7. Held'
  <2>1. ASSUME NEW f \in Entry, NEW u \in Thread, s_lock'[f] = u
        PROVE  /\ pc'[u] \in Writing /\ slot'[u] = f /\ aux'[f].present
               /\ info'[u].sector_index = aux'[f].sector_index
    <3>0. s_lock[f] = u
      BY Zenon, <1>1, <2>1
    <3>1. /\ pc[u] \in Writing /\ slot[u] = f /\ aux[f].present
          /\ info[u].sector_index = aux[f].sector_index
      BY Zenon, <1>2, <3>0 DEF Locked, Held
    <3>2. u # t
      BY Zenon, <3>1
    <3> QED BY Zenon, <1>1, <3>1, <3>2
  <2> QED BY Zenon, <2>1 DEF Held
<1>8. Holding'
  <2>1. ASSUME NEW u \in Thread, pc'[u] \in Writing PROVE s_lock[slot'[u]] = u
    <3>1. pc[u] \in Writing /\ slot'[u] = slot[u]
      BY Zenon, <2>1
    <3> QED BY Zenon, <1>2, <3>1 DEF Locked, Holding
  <2> QED BY Zenon, <1>1, <2>1 DEF Holding
<1>9. Freed'
  <2>1. \A u \in Client : pc'[u] = "closed" <=> pc[u] = "closed"
    BY Zenon, <1>0
  <2> QED BY Zenon, <1>1, <1>2, <2>1 DEF Locked, Freed
<1> QED BY Zenon, <1>3, <1>4, <1>5, <1>6, <1>7, <1>8, <1>9 DEF SerialInv, Copied, Locked
(* cache_dump_all passes a clean entry, or finds the cache closed. *)
LEMMA DumpCleanSerial ==
  ASSUME TypeOK, SerialInv, ~panicked, NEW t \in Client \cup {Dumper}, DumpClean(t)
  PROVE  SerialInv'
<1>0. t \in Thread /\ Client \subseteq Thread
  BY Zenon, Members
<1>1. pc[t] = "dump" /\ UNCHANGED <<aux, data, disk, s_lock, op, info>>
  BY Zenon DEF DumpClean, locks
<1>2. aux' = aux /\ s_lock' = s_lock /\ Closing
  BY Zenon, <1>1 DEF SerialInv
<1>3. pc[t] \notin Busy \cup Victim \cup Writing /\ pc[t] # "closed"
  <2>1. pc[t] \notin Busy \cup Victim
    BY Zenon, <1>1, Places
  <2>2. pc[t] \notin Writing /\ pc[t] # "closed"
    BY <1>1 DEF Writing
  <2> QED BY Zenon, <2>1, <2>2
<1>4. CASE s_lock[slot[t]] = NULL /\ ~aux[slot[t]].dirty /\ NextEntry(t)
  <2>1. /\ \A u \in Thread \ {t} : pc'[u] = pc[u] /\ slot'[u] = slot[u]
        /\ pc'[t] \in {"dump", "sleep", "close"}
        /\ t = Dumper => pc'[t] \in {"dump", "sleep"}
    BY Zenon, <1>0, <1>4, NextEntryEffect
  <2>2. Closing'
    BY Zenon, <1>0, <1>1, <1>2, <1>4, NextEntryClosing
  <2>3. pc'[t] \notin Busy \cup Victim \cup Writing /\ pc'[t] # "closed"
    <3>1. pc'[t] \notin Busy \cup Victim
      BY Zenon, <2>1, Places
    <3>2. pc'[t] \notin Writing /\ pc'[t] # "closed"
      BY <2>1 DEF Writing
    <3> QED BY Zenon, <3>1, <3>2
  <2> QED BY Zenon, <1>1, <1>3, <2>1, <2>2, <2>3, QuietSerial
<1>5. CASE UNCHANGED <<slot, pc>>
  <2>1. pc' = pc /\ slot' = slot
    BY Zenon, <1>5
  <2>2. Closing'
    BY Zenon, <1>2, <2>1 DEF Closing, ClosingOf
  <2>3. t = Dumper => pc'[t] \in {"sleep", "dump"}
    BY Zenon, <1>1, <2>1
  <2> QED BY Zenon, <1>1, <1>3, <2>1, <2>2, <2>3, QuietSerial
<1> QED BY Zenon, <1>4, <1>5 DEF DumpClean

(* The dump thread wakes, cache_close starts, and cache_close stops the    *)
(* threads.                                                                *)
LEMMA MovesSerial ==
  ASSUME TypeOK, SerialInv, ~panicked, NEW t \in Client \cup {Dumper},
         \/ DumperWakes /\ t = Dumper
         \/ t \in Client /\ (cache_close(t) \/ CloseStop(t))
  PROVE  SerialInv'
<1>0. t \in Thread /\ Client \subseteq Thread /\ Dumper \notin Client
  BY Zenon, Members, CacheAssumption
<1>1. UNCHANGED <<aux, data, disk, s_lock, op, info>> /\ slot' = slot
  BY Zenon DEF DumperWakes, cache_close, CloseStop, locks, localVars
<1>2. PICK l :
        /\ pc' = pc \/ pc' = [pc EXCEPT ![t] = l]
        /\ \/ pc[t] = "sleep" /\ l = "dump" /\ t = Dumper
           \/ pc[t] = "idle" /\ l = "dump" /\ t \in Client
           \/ pc[t] = "close" /\ l = "free" /\ t \in Client
  BY Zenon DEF DumperWakes, cache_close, CloseStop, LeaveLoop, Goto
<1>3. /\ pc'[t] = pc[t] \/ pc'[t] = l
      /\ \A u \in Thread \ {t} : pc'[u] = pc[u] /\ slot'[u] = slot[u]
  BY Zenon, <1>0, <1>1, <1>2 DEF TypeOK
<1>4. \A k \in {"sleep", "idle", "close", "dump", "free"} :
        k \notin Busy \cup Victim \cup Writing /\ k # "closed"
  BY DEF Busy, Using, Victim, Writing
<1>5. /\ pc[t] \in {"sleep", "idle", "close", "dump", "free"}
      /\ pc'[t] \in {"sleep", "idle", "close", "dump", "free"}
      /\ t = Dumper => pc'[t] \in {"sleep", "dump"}
  BY Zenon, <1>0, <1>2, <1>3
<1>6. ASSUME NEW u \in Client PROVE ClosingOf(u)'
  <2>1. ClosingOf(u) /\ aux' = aux /\ s_lock' = s_lock /\ slot' = slot
    BY Zenon, <1>1 DEF SerialInv, Closing
  <2>2. CASE pc'[u] = pc[u]
    BY Zenon, <2>1, <2>2 DEF ClosingOf
  <2>3. CASE pc'[u] # pc[u]
    <3>1. u = t /\ pc'[u] = l
      BY Zenon, <1>0, <1>3, <2>3
    <3>2. CASE pc[u] = "idle" /\ l = "dump"
      <4>1. slot[u] = 0
        BY Zenon, <2>1, <3>2 DEF ClosingOf
      <4>2. \A f \in Entry : ~(f < 0)
        BY Members
      <4>3. pc'[u] \notin {"close", "free", "idle", "dump_write"}
        BY <3>1, <3>2
      <4> QED BY Zenon, <2>1, <4>1, <4>2, <4>3 DEF ClosingOf
    <3>3. CASE pc[u] = "close" /\ l = "free"
      <4>1. \A f \in Entry : ~aux[f].dirty /\ s_lock[f] = NULL
        BY Zenon, <2>1, <3>3 DEF ClosingOf
      <4>2. pc'[u] \notin {"idle", "dump_write"}
        BY <3>1, <3>3
      <4> QED BY Zenon, <2>1, <4>1, <4>2 DEF ClosingOf
    <3> QED BY Zenon, <1>0, <1>2, <3>1, <3>2, <3>3
  <2> QED BY Zenon, <2>2, <2>3
<1>7. Closing'
  BY Zenon, <1>6 DEF Closing
<1>8. /\ pc[t] \notin Busy \cup Victim \cup Writing /\ pc'[t] \notin Busy \cup Victim \cup Writing
      /\ pc[t] # "closed" /\ pc'[t] # "closed"
  BY Zenon, <1>4, <1>5
<1> QED BY Zenon, <1>1, <1>3, <1>5, <1>7, <1>8, QuietSerial

(* cache_close drops the entries. *)
LEMMA CloseFreeSerial ==
  ASSUME TypeOK, SerialInv, OneClient, ~panicked, NEW t \in Client, CloseFree(t)
  PROVE  SerialInv'
<1>0. /\ t \in Thread /\ Client \subseteq Thread /\ ReadAhead \in Thread /\ Dumper \in Thread
      /\ t # ReadAhead /\ t # Dumper /\ NULL \notin Thread /\ FREED \notin Thread
  BY Zenon, Members, CacheAssumption
<1>1. /\ pc[t] = "free" /\ pc' = [pc EXCEPT ![t] = "closed"] /\ slot' = slot /\ panicked' = panicked
      /\ s_lock' = [e \in Entry |-> FREED] /\ aux' = [e \in Entry |-> ZeroAux]
  BY Zenon DEF CloseFree, Goto, localVars
<1>2. /\ pc'[t] = "closed" /\ \A u \in Thread \ {t} : pc'[u] = pc[u]
      /\ \A u \in Client : u = t
  BY Zenon, <1>0, <1>1 DEF TypeOK, OneClient
<1>3. \A e \in Entry : /\ s_lock'[e] = FREED /\ ~aux'[e].present /\ ~aux'[e].dirty
                       /\ aux'[e].sector_index = 0
  <2>1. ~ZeroAux.present /\ ~ZeroAux.dirty /\ ZeroAux.sector_index = 0
    BY Zenon DEF ZeroAux
  <2> QED BY Zenon, <1>1, <2>1
<1>4. /\ "closed" \notin Busy \cup Victim /\ "closed" \notin Using
      /\ "closed" \notin {"fill", "copy", "hit", "idle", "dump", "dump_write", "close", "free"}
      /\ "closed" \notin Writing
  BY DEF Busy, Using, Victim, Writing
<1>5. \A u \in Client : pc'[u] = "closed"
  BY Zenon, <1>2
<1>6. Placed' /\ Distinct'
  BY Zenon, <1>3, <1>4, <1>5 DEF Placed, Distinct, Filled, InUse
<1>7. Own' /\ Copied'
  BY Zenon, <1>4, <1>5 DEF Own, OwnOf, Copied, CopiedOf
<1>8. Clean'
  BY Zenon, <1>3 DEF Clean, CleanEntry
<1>9. Closing'
  BY Zenon, <1>4, <1>5 DEF Closing, ClosingOf
<1>10. Roles'
  BY Zenon, <1>0, <1>2 DEF SerialInv, Roles
<1>11. Held' /\ Freed'
  <2>1. \A e \in Entry, u \in Thread : s_lock'[e] # u
    BY Zenon, <1>0, <1>3
  <2> QED BY Zenon, <1>3, <1>5, <2>1 DEF Held, Freed
<1>12. Holding'
  <2>1. ASSUME NEW u \in Thread, pc'[u] \in Writing PROVE FALSE
    <3>1. u # t /\ pc[u] \in Writing /\ slot[u] \in Entry
      BY Zenon, <1>2, <1>4, <2>1 DEF TypeOK
    <3>2. s_lock[slot[u]] = u
      BY Zenon, <3>1 DEF SerialInv, Locked, Holding
    <3>3. s_lock[slot[u]] = NULL
      BY Zenon, <1>1, <3>1 DEF SerialInv, Closing, ClosingOf
    <3>4. u = NULL
      BY Zenon, <3>2, <3>3
    <3> QED BY Zenon, <1>0, <3>4
  <2> QED BY Zenon, <2>1 DEF Holding
<1> QED BY Zenon, <1>6, <1>7, <1>8, <1>9, <1>10, <1>11, <1>12 DEF SerialInv, Locked
(* A step of the one client. *)
LEMMA OneStep ==
  ASSUME OneClient, NEW t \in Client
  PROVE  /\ \A e : InUse(e) <=> pc[t] \in Busy /\ slot[t] = e
         /\ \A e : InUse(e)' <=> pc'[t] \in Busy /\ slot'[t] = e
         /\ OwnOf(t)' => Own'
         /\ CopiedOf(t)' => Copied'
         /\ ClosingOf(t)' => Closing'
<1>1. \A u \in Client : u = t
  BY Zenon DEF OneClient
<1>2. \A e : InUse(e) <=> pc[t] \in Busy /\ slot[t] = e
  BY Zenon, <1>1 DEF InUse
<1>3. \A e : InUse(e)' <=> pc'[t] \in Busy /\ slot'[t] = e
  BY Zenon, <1>1 DEF InUse
<1>4. /\ OwnOf(t)' => Own'
      /\ CopiedOf(t)' => Copied'
      /\ ClosingOf(t)' => Closing'
  BY Zenon, <1>1 DEF Own, Copied, Closing
<1> QED BY Zenon, <1>2, <1>3, <1>4

(* In an operation, there is nothing to say of cache_close. *)
LEMMA NotClosing ==
  ASSUME NEW t, \/ pc'[t] \in Busy \cup Victim \cup {"spin"}
                \/ pc'[t] = "idle" /\ slot'[t] = 0
  PROVE  ClosingOf(t)'
<1>1. pc'[t] \notin {"dump", "dump_write", "close", "free"}
  BY DEF Busy, Using, Victim
<1>2. pc'[t] = "idle" => slot'[t] = 0
  BY DEF Busy, Using, Victim
<1> QED BY Zenon, <1>1, <1>2 DEF ClosingOf

(* A step that touches no lock of an entry. *)
LEMMA LocksKept ==
  ASSUME Locked, ~panicked, NEW t \in Thread, s_lock' = s_lock,
         pc[t] \notin Writing, pc[t] # "closed", pc'[t] \notin Writing, pc'[t] # "closed",
         \A u \in Thread \ {t} : pc'[u] = pc[u] /\ info'[u] = info[u] /\ slot'[u] = slot[u],
         \A e \in Entry : aux[e].present =>
           aux'[e].present /\ aux'[e].sector_index = aux[e].sector_index
  PROVE  Locked'
<1>1. Held'
  <2>1. ASSUME NEW f \in Entry, NEW u \in Thread, s_lock'[f] = u
        PROVE  /\ pc'[u] \in Writing /\ slot'[u] = f /\ aux'[f].present
               /\ info'[u].sector_index = aux'[f].sector_index
    <3>0. s_lock[f] = u
      BY Zenon, <2>1
    <3>1. /\ pc[u] \in Writing /\ slot[u] = f /\ aux[f].present
          /\ info[u].sector_index = aux[f].sector_index
      BY ZenonT(40), <3>0 DEF Locked, Held
    <3>2. u # t
      BY Zenon, <3>1
    <3> QED BY Zenon, <3>1, <3>2
  <2> QED BY Zenon, <2>1 DEF Held
<1>2. Holding'
  <2>1. ASSUME NEW u \in Thread, pc'[u] \in Writing PROVE s_lock'[slot'[u]] = u
    <3>1. pc[u] \in Writing /\ slot'[u] = slot[u]
      BY Zenon, <2>1
    <3> QED BY Zenon, <3>1 DEF Locked, Holding
  <2> QED BY Zenon, <2>1 DEF Holding
<1>3. Freed'
  <2>1. \A u \in Client : pc'[u] = "closed" <=> pc[u] = "closed"
    BY Zenon, Members
  <2> QED BY Zenon, <2>1 DEF Locked, Freed
<1> QED BY Zenon, <1>1, <1>2, <1>3 DEF Locked

(* The lookup finds an entry with the sector's number. *)
LEMMA PinSerial ==
  ASSUME TypeOK, SerialInv, OneClient, ~panicked, NEW t \in Client, NEW o \in Op, NEW e \in Entry,
         pc[t] = "idle", o.sector \in Sector, o.write => o.val \in Val,
         op' = [op EXCEPT ![t] = o], Lookup(e, o.sector), Pin(t, e, aux[e]),
         UNCHANGED <<data, disk, s_lock>>
  PROVE  SerialInv'
<1> DEFINE i == [aux[e] EXCEPT !.pinned = @ + 1]
           l == IF aux[e].present THEN "hit" ELSE "fill"
<1>0. /\ t \in Thread /\ ReadAhead \in Thread /\ Dumper \in Thread
      /\ t # ReadAhead /\ t # Dumper
  BY Zenon, Members, CacheAssumption
<1>1. /\ aux' = [aux EXCEPT ![e] = i] /\ info' = [info EXCEPT ![t] = i] /\ panicked' = panicked
      /\ slot' = [slot EXCEPT ![t] = e] /\ pc' = [pc EXCEPT ![t] = l]
      /\ data' = data /\ disk' = disk /\ s_lock' = s_lock
  BY Zenon DEF Pin, Goto
<1>2. i.present = aux[e].present /\ i.dirty = aux[e].dirty /\ i.sector_index = aux[e].sector_index
  <2>1. aux[e] \in Aux
    BY Zenon DEF TypeOK
  <2> QED BY Zenon, <2>1, AuxUpdates, AuxSector
<1>3. aux[e].sector_index = o.sector /\ \A f \in Entry : f < e => aux[f].sector_index # o.sector
  BY Zenon DEF Lookup
<1> HIDE DEF i
<1>4. aux'[e] = i /\ \A f \in Entry \ {e} : aux'[f] = aux[f]
  BY Zenon, <1>1 DEF TypeOK
<1>5. /\ info'[t] = i /\ slot'[t] = e /\ pc'[t] = l /\ op'[t] = o
      /\ \A u \in Thread \ {t} : pc'[u] = pc[u] /\ info'[u] = info[u] /\ slot'[u] = slot[u]
  <2>1. /\ info \in [Thread -> Aux] /\ slot \in [Thread -> Entry] /\ pc \in [Thread -> Labels]
        /\ op \in [Thread -> Op \cup {NULL}]
    BY Zenon DEF TypeOK
  <2> QED BY Zenon, <1>0, <1>1, <2>1
<1>6. NamesKept /\ \A f \in Entry : aux'[f].dirty = aux[f].dirty
  BY Zenon, <1>2, <1>4 DEF NamesKept
<1>7. Placed /\ Distinct /\ Locked /\ Clean
  BY Zenon DEF SerialInv
<1>8. l \in Busy /\ pc[t] \notin Busy /\ l # "copy" /\ l \notin Writing /\ l # "closed"
      /\ pc[t] \notin Writing /\ pc[t] # "closed"
  <2>1. l \in {"hit", "fill"}
    BY Zenon
  <2> QED BY <2>1 DEF Busy, Using, Writing
<1>9. \A f : ~InUse(f) /\ (InUse(f)' <=> f = e)
  BY Zenon, <1>5, <1>8, OneStep
<1>10. \A f \in Entry : f < e => Filled(f)
  <2>1. ASSUME NEW f \in Entry, f < e, ~Filled(f) PROVE FALSE
    <3>1. aux[f].sector_index = 0
      BY Zenon, <1>7, <2>1 DEF Placed
    <3>2. ~Filled(e)
      BY Zenon, <1>7, <2>1 DEF Placed
    <3>3. aux[e].sector_index = 0
      BY Zenon, <1>7, <3>2 DEF Placed
    <3> QED BY Zenon, <1>3, <2>1, <3>1, <3>3
  <2> QED BY Zenon, <2>1
<1>11. Placed'
  <2>1. \A f \in Entry : Filled(f)' <=> Filled(f) \/ f = e
    BY Zenon, <1>6, <1>9 DEF Filled, NamesKept
  <2>2. \A f \in Entry : Filled(f)' \/ aux'[f].sector_index = 0
    BY Zenon, <1>6, <1>7, <2>1 DEF Placed, NamesKept
  <2>3. ASSUME NEW f \in Entry, NEW g \in Entry, f < g, Filled(g)' PROVE Filled(f)'
    <3>1. CASE g = e
      BY Zenon, <1>10, <2>1, <2>3, <3>1
    <3>2. CASE g # e
      <4>1. Filled(g)
        BY Zenon, <2>1, <2>3, <3>2
      <4>2. Filled(f)
        BY Zenon, <1>7, <2>3, <4>1 DEF Placed
      <4> QED BY Zenon, <2>1, <4>2
    <3> QED BY Zenon, <3>1, <3>2
  <2>4. \A u \in Client : pc'[u] \notin Victim
    <3>1. pc'[t] \in Busy /\ \A u \in Client : u = t
      BY Zenon, <1>5, <1>8 DEF OneClient
    <3> QED BY Zenon, <3>1, Places
  <2> QED BY Zenon, <2>2, <2>3, <2>4 DEF Placed
<1>12. Distinct'
  BY Zenon, <1>6, <1>7, DistinctKept
<1>13. OwnOf(t)'
  <2>1. ASSUME NEW f \in Entry, aux'[f].present, aux'[f].sector_index = o.sector
        PROVE  aux[e].present /\ f = e
    <3>1. aux[f].present /\ aux[f].sector_index = o.sector
      BY Zenon, <1>6, <2>1 DEF NamesKept
    <3>2. CASE f = e
      BY Zenon, <3>1, <3>2
    <3>3. CASE f # e
      <4>1. e < f
        <5>1. \A m, n \in Nat : m # n /\ ~(m < n) => n < m
          OBVIOUS
        <5>2. e \in Nat /\ f \in Nat
          BY Zenon, Members
        <5> QED BY Zenon, <1>3, <3>1, <3>3, <5>1, <5>2
      <4>2. Filled(e)
        BY Zenon, <1>7, <3>1, <4>1 DEF Placed, Filled
      <4>3. aux[e].present
        BY Zenon, <1>9, <4>2 DEF Filled
      <4> QED BY Zenon, <1>3, <1>7, <3>1, <4>3 DEF Distinct
    <3> QED BY Zenon, <3>2, <3>3
  <2>2. aux'[e].present = aux[e].present /\ aux'[e].sector_index = o.sector
        /\ info'[t].sector_index = o.sector
    BY Zenon, <1>2, <1>3, <1>4, <1>5
  <2>3. aux[e].present => pc'[t] = "hit" /\ pc'[t] \in Using /\ pc'[t] \notin {"fill", "copy"}
    BY Zenon, <1>5, Places
  <2>4. ~aux[e].present => pc'[t] = "fill" /\ pc'[t] \notin Using /\ pc'[t] # "hit"
    BY Zenon, <1>5, Places
  <2> QED BY Zenon, <1>5, <2>1, <2>2, <2>3, <2>4 DEF OwnOf
<1>14. Locked'
  <2>1. \A f \in Entry : aux[f].present =>
          aux'[f].present /\ aux'[f].sector_index = aux[f].sector_index
    BY Zenon, <1>6 DEF NamesKept
  <2>2. pc'[t] \notin Writing /\ pc'[t] # "closed" /\ s_lock' = s_lock
    BY ZenonT(40), <1>1, <1>5, <1>8
  <2>3. \A u \in Thread \ {t} : pc'[u] = pc[u] /\ info'[u] = info[u] /\ slot'[u] = slot[u]
    BY Zenon, <1>5
  <2> HIDE DEF l
  <2> QED BY Zenon, <1>0, <1>7, <1>8, <2>1, <2>2, <2>3, LocksKept
<1>15. CopiedOf(t)'
  <2>1. pc'[t] # "copy"
    BY Zenon, <1>5, <1>8
  <2>2. ASSUME pc'[t] \in Using, ~info'[t].dirty, s_lock[e] = NULL PROVE data[e] = disk[o.sector]
    <3>1. aux[e].present
      BY Zenon, <1>5, <2>2, Places
    <3> QED BY ZenonT(40), <1>2, <1>3, <1>5, <1>7, <1>9, <2>2, <3>1 DEF Clean, CleanEntry
  <2> QED BY Zenon, <1>1, <1>5, <2>1, <2>2 DEF CopiedOf
<1>16. Clean'
  <2>1. ASSUME NEW f \in Entry PROVE CleanEntry(f)'
    <3>1. CASE f = e
      BY Zenon, <1>9, <3>1 DEF CleanEntry
    <3>2. CASE f # e
      BY Zenon, <1>1, <1>4, <1>7, <1>9, <3>2 DEF Clean, CleanEntry
    <3> QED BY Zenon, <3>1, <3>2
  <2> QED BY Zenon, <2>1 DEF Clean
<1>17. ClosingOf(t)'
  <2>1. pc'[t] \in Busy \cup Victim \cup {"spin"}
    BY Zenon, <1>5, <1>8
  <2> QED BY Zenon, <2>1, NotClosing
<1>18. Roles'
  BY Zenon, <1>0, <1>5 DEF SerialInv, Roles
<1> QED BY Zenon, <1>11, <1>12, <1>13, <1>14, <1>15, <1>16, <1>17, <1>18, OneStep DEF SerialInv
(* A miss: cache_lru chooses a victim, or never returns. *)
LEMMA MissSerial ==
  ASSUME TypeOK, SerialInv, OneClient, ~panicked, NEW t \in Client, NEW o \in Op, NEW l,
         pc[t] = "idle", o.sector \in Sector, o.write => o.val \in Val,
         op' = [op EXCEPT ![t] = o], \A e \in Entry : aux[e].sector_index # o.sector,
         \A e \in Entry : aux'[e] = aux[e] \/ aux'[e] = [aux[e] EXCEPT !.accessed = FALSE],
         pc' = [pc EXCEPT ![t] = l], UNCHANGED <<data, disk, s_lock, info, panicked>>,
         \A u \in Thread \ {t} : slot'[u] = slot[u],
         \/ l = "spin"
         \/ l = "evict" /\ \A e \in Entry : e < slot'[t] => aux[e].present
  PROVE  SerialInv'
<1>0. /\ t \in Thread /\ ReadAhead \in Thread /\ Dumper \in Thread
      /\ t # ReadAhead /\ t # Dumper
  BY Zenon, Members, CacheAssumption
<1>1. data' = data /\ disk' = disk /\ s_lock' = s_lock /\ info' = info /\ panicked' = panicked
  BY Zenon
<1>2. /\ pc'[t] = l /\ op'[t] = o
      /\ \A u \in Thread \ {t} : pc'[u] = pc[u] /\ info'[u] = info[u] /\ slot'[u] = slot[u]
  BY Zenon, <1>0, <1>1 DEF TypeOK
<1>3. NamesKept /\ \A f \in Entry : aux'[f].dirty = aux[f].dirty
  <2>1. ASSUME NEW f \in Entry
        PROVE  /\ aux'[f].present = aux[f].present /\ aux'[f].dirty = aux[f].dirty
               /\ aux'[f].sector_index = aux[f].sector_index
    <3>1. aux[f] \in Aux
      BY Zenon DEF TypeOK
    <3>2. CASE aux'[f] = aux[f]
      BY Zenon, <3>2
    <3>3. CASE aux'[f] = [aux[f] EXCEPT !.accessed = FALSE]
      <4> DEFINE i == [aux[f] EXCEPT !.accessed = FALSE]
      <4>1. i.present = aux[f].present /\ i.dirty = aux[f].dirty
        BY Zenon, <3>1, AuxUpdates
      <4>2. i.sector_index = aux[f].sector_index
        BY Zenon, <3>1, AuxSector
      <4>3. aux'[f] = i
        BY Zenon, <3>3
      <4> HIDE DEF i
      <4> QED BY Zenon, <4>1, <4>2, <4>3
    <3> QED BY Zenon, <3>2, <3>3
  <2> QED BY Zenon, <2>1 DEF NamesKept
<1>4. Placed /\ Distinct /\ Locked /\ Clean
  BY Zenon DEF SerialInv
<1>5. /\ l \notin Busy /\ pc[t] \notin Busy /\ pc[t] \notin Writing /\ pc[t] # "closed"
      /\ l \notin Using /\ l \notin Writing /\ l \notin {"closed", "hit", "fill", "copy"}
      /\ l \in Victim \cup {"spin"}
  <2>1. l \in {"spin", "evict"}
    BY Zenon
  <2> QED BY <2>1 DEF Busy, Using, Writing, Victim
<1>6. \A f : ~InUse(f) /\ ~InUse(f)'
  BY ZenonT(40), <1>2, <1>5, OneStep
<1>7. Placed'
  <2>1. \A f \in Entry : Filled(f)' <=> Filled(f)
    BY Zenon, <1>3, <1>6 DEF Filled, NamesKept
  <2>2. ASSUME NEW u \in Client, pc'[u] \in Victim, NEW f \in Entry, f < slot'[u]
        PROVE  aux'[f].present
    <3>1. u = t
      BY Zenon DEF OneClient
    <3>2. "spin" \notin Victim
      BY DEF Victim
    <3>3. l = "evict"
      BY Zenon, <1>2, <2>2, <3>1, <3>2
    <3> QED BY Zenon, <1>3, <2>2, <3>1, <3>2, <3>3 DEF NamesKept
  <2> QED BY Zenon, <1>3, <1>4, <2>1, <2>2 DEF Placed, NamesKept
<1>8. Distinct'
  BY Zenon, <1>3, <1>4, DistinctKept
<1>9. OwnOf(t)'
  <2>1. \A f \in Entry : aux'[f].sector_index # o.sector
    BY Zenon, <1>3 DEF NamesKept
  <2> QED BY Zenon, <1>2, <1>5, <2>1 DEF OwnOf
<1>10. Locked'
  <2>1. \A f \in Entry : aux[f].present =>
          aux'[f].present /\ aux'[f].sector_index = aux[f].sector_index
    BY Zenon, <1>3 DEF NamesKept
  <2>2. pc'[t] \notin Writing /\ pc'[t] # "closed"
    BY Zenon, <1>2, <1>5
  <2> QED BY Zenon, <1>0, <1>1, <1>2, <1>4, <1>5, <2>1, <2>2, LocksKept
<1>11. CopiedOf(t)'
  BY Zenon, <1>2, <1>5 DEF CopiedOf
<1>12. Clean'
  <2>1. ASSUME NEW f \in Entry PROVE CleanEntry(f)'
    <3>1. /\ CleanEntry(f) /\ aux'[f].dirty = aux[f].dirty /\ aux'[f].present = aux[f].present
          /\ aux'[f].sector_index = aux[f].sector_index
      BY Zenon, <1>3, <1>4 DEF Clean, NamesKept
    <3> QED BY Zenon, <1>1, <1>6, <3>1 DEF CleanEntry
  <2> QED BY Zenon, <2>1 DEF Clean
<1>13. ClosingOf(t)'
  <2>1. pc'[t] \in Busy \cup Victim \cup {"spin"}
    BY Zenon, <1>2, <1>5
  <2> QED BY Zenon, <2>1, NotClosing
<1>14. Roles'
  BY Zenon, <1>0, <1>2 DEF SerialInv, Roles
<1> QED BY Zenon, <1>7, <1>8, <1>9, <1>10, <1>11, <1>12, <1>13, <1>14, OneStep DEF SerialInv

(* cache_read and cache_write start. *)
LEMMA GetSerial ==
  ASSUME TypeOK, SerialInv, OneClient, ~panicked, NEW t \in Client, NEW o \in Op,
         pc[t] = "idle", o.sector \in Sector, o.write => o.val \in Val, Get(t, o)
  PROVE  SerialInv'
<1>1. op' = [op EXCEPT ![t] = o] /\ UNCHANGED <<data, disk, s_lock>>
  BY Zenon DEF Get
<1>2. CASE \E e \in Entry : Lookup(e, o.sector) /\ Pin(t, e, aux[e])
  BY Zenon, <1>1, <1>2, PinSerial
<1>3. ASSUME \A e \in Entry : aux[e].sector_index # o.sector,
             NEW v \in Entry, NEW passed \in SUBSET Entry, cache_lru(v, passed),
             aux' = [e \in Entry |-> IF e \in passed
                       THEN [aux[e] EXCEPT !.accessed = FALSE] ELSE aux[e]],
             slot' = [slot EXCEPT ![t] = v], Goto(t, "evict"), UNCHANGED <<info, panicked>>
      PROVE  SerialInv'
  <2>1. \A e \in Entry : e < v => aux[e].present
    <3>1. ASSUME NEW e \in Entry, e < v, ~aux[e].present PROVE FALSE
      <4>1. Least(v, {f \in Entry : ~aux[f].present})
        BY Zenon, <1>3, <3>1 DEF cache_lru
      <4>2. v <= e
        BY Zenon, <3>1, <4>1 DEF Least
      <4>3. \A m, n \in Nat : ~(m < n /\ n <= m)
        OBVIOUS
      <4> QED BY Zenon, <3>1, <4>2, <4>3, Members
    <3> QED BY Zenon, <3>1
  <2>2. slot'[t] = v /\ \A u \in Thread \ {t} : slot'[u] = slot[u]
    BY Zenon, <1>3, Members DEF TypeOK
  <2>3. \A e \in Entry : aux'[e] = aux[e] \/ aux'[e] = [aux[e] EXCEPT !.accessed = FALSE]
    BY Zenon, <1>3
  <2>4. pc' = [pc EXCEPT ![t] = "evict"]
    BY Zenon, <1>3 DEF Goto
  <2>5. \A e \in Entry : e < slot'[t] => aux[e].present
    BY Zenon, <2>1, <2>2
  <2>6. \A u \in Thread \ {t} : slot'[u] = slot[u]
    BY Zenon, <2>2
  <2>7. UNCHANGED <<data, disk, s_lock, info, panicked>>
    BY Zenon, <1>1, <1>3
  <2> QED BY Zenon, <1>1, <1>3, <2>3, <2>4, <2>5, <2>6, <2>7, MissSerial
<1>4. ASSUME \A e \in Entry : aux[e].sector_index # o.sector, Goto(t, "spin"),
             UNCHANGED <<aux, slot, info, panicked>>
      PROVE  SerialInv'
  <2>1. aux' = aux /\ slot' = slot /\ pc' = [pc EXCEPT ![t] = "spin"]
    BY Zenon, <1>4 DEF Goto
  <2> QED BY Zenon, <1>1, <1>4, <2>1, MissSerial
<1> QED BY Zenon, <1>2, <1>3, <1>4 DEF Get
(* cache_evict takes the sector away from the entry. *)
LEMMA EvictedEffect ==
  ASSUME TypeOK, NEW t \in Thread, Evicted(t, aux[slot[t]])
  PROVE  /\ slot' = slot /\ ~aux'[slot[t]].present
         /\ \A f \in Entry \ {slot[t]} : aux'[f] = aux[f]
         /\ \A u \in Thread \ {t} : pc'[u] = pc[u] /\ info'[u] = info[u]
         /\ pc'[t] = "fill" \/ (panicked' /\ pc'[t] = pc[t])
<1> DEFINE e == slot[t]
           a == [aux[e] EXCEPT !.present = FALSE]
           i == [a EXCEPT !.pinned = @ + 1]
<1>1. /\ e \in Entry /\ aux \in [Entry -> Aux] /\ aux[e] \in Aux /\ slot \in [Thread -> Entry]
      /\ pc \in [Thread -> Labels] /\ info \in [Thread -> Aux]
  BY Zenon DEF TypeOK
<1>2. ~a.present /\ a \in Aux
  BY Zenon, <1>1, AuxUpdates
<1> HIDE DEF a
<1>3. ~i.present
  BY Zenon, <1>2, AuxUpdates
<1>4. CASE Pin(t, slot[t], a)
  <2>1. /\ aux' = [aux EXCEPT ![e] = i] /\ info' = [info EXCEPT ![t] = i]
        /\ slot' = [slot EXCEPT ![t] = slot[t]] /\ pc' = [pc EXCEPT ![t] = "fill"]
    BY Zenon, <1>2, <1>4 DEF Pin, Goto
  <2>2. slot' = slot
    BY <1>1, <2>1
  <2>3. /\ aux'[e] = i /\ \A f \in Entry \ {e} : aux'[f] = aux[f]
        /\ pc'[t] = "fill" /\ \A u \in Thread \ {t} : pc'[u] = pc[u] /\ info'[u] = info[u]
    BY Zenon, <1>1, <2>1
  <2> QED BY Zenon, <1>3, <2>2, <2>3
<1>5. CASE Panic /\ aux' = [aux EXCEPT ![e] = a] /\ UNCHANGED <<ss_lock, slot, info, pc>>
  <2>1. aux'[e] = a /\ \A f \in Entry \ {e} : aux'[f] = aux[f]
    BY Zenon, <1>1, <1>5
  <2> QED BY Zenon, <1>2, <1>5, <2>1 DEF Panic
<1> QED BY Zenon, <1>4, <1>5 DEF Evicted, a

(* The entry was clean, or was written: nothing is lost. *)
LEMMA EvictedSerial ==
  ASSUME TypeOK, SerialInv, OneClient, ~panicked, NEW t \in Client, pc[t] \in Victim,
         s_lock[slot[t]] \in {t, NULL}, s_lock' = [s_lock EXCEPT ![slot[t]] = NULL],
         Evicted(t, aux[slot[t]]), UNCHANGED <<data, op>>,
         \A f \in Entry \ {slot[t]} :
           aux[f].present => disk'[aux[f].sector_index] = disk[aux[f].sector_index]
  PROVE  SerialInv'
<1> DEFINE e == slot[t]
<1>0. /\ t \in Thread /\ ReadAhead \in Thread /\ Dumper \in Thread
      /\ t # ReadAhead /\ t # Dumper
  BY Zenon, Members, CacheAssumption
<1>1. /\ slot' = slot /\ ~aux'[e].present /\ \A f \in Entry \ {e} : aux'[f] = aux[f]
      /\ \A u \in Thread \ {t} : pc'[u] = pc[u] /\ info'[u] = info[u]
      /\ pc'[t] = "fill" \/ (panicked' /\ pc'[t] = pc[t])
  BY Zenon, <1>0, EvictedEffect
<1>2. e \in Entry /\ e = slot[t] /\ data' = data /\ op' = op
  BY Zenon, <1>0 DEF TypeOK
<1>3. \A f \in Entry \ {e} : s_lock'[f] = s_lock[f]
  BY Zenon, <1>2 DEF TypeOK
<1>4. Placed /\ Distinct /\ Locked /\ Clean /\ OwnOf(t)
  BY Zenon DEF SerialInv, Own
<1>5. Locked'
  <2>1. (pc'[t] \notin Writing \/ panicked') /\ pc'[t] # "closed"
    BY Zenon, <1>1, Places
  <2>2. \A u \in Thread \ {t} : pc'[u] = pc[u] /\ info'[u] = info[u] /\ slot'[u] = slot[u]
    BY Zenon, <1>1
  <2>3. \A f \in Entry \ {slot[t]} : aux'[f] = aux[f]
    BY Zenon, <1>1
  <2> QED BY Zenon, <1>0, <1>4, <2>1, <2>2, <2>3, UnlockLocked
<1> HIDE DEF e
<1>6. /\ pc[t] \notin Busy /\ pc'[t] \notin Using /\ pc'[t] \notin {"hit", "copy"}
      /\ pc'[t] \in Busy \cup Victim /\ "fill" \in Busy /\ "fill" \notin Victim
  <2>1. pc'[t] \in {"fill"} \cup Victim
    BY Zenon, <1>1
  <2> QED BY <2>1 DEF Busy, Using, Victim
<1>7. /\ \A f : ~InUse(f)
      /\ pc'[t] = "fill" => \A f : InUse(f)' <=> f = e
      /\ \A f \in Entry : InUse(f)' => f = e
  BY ZenonT(40), <1>1, <1>2, <1>6, OneStep
<1>8. Placed'
  <2>1. CASE pc'[t] = "fill"
    <3>1. \A f \in Entry : f < e => aux[f].present
      BY Zenon, <1>2, <1>4 DEF Placed
    <3>2. \A f \in Entry : Filled(f)' <=> Filled(f) \/ f = e
      <4>1. ASSUME NEW f \in Entry, f # e PROVE Filled(f)' <=> Filled(f)
        BY Zenon, <1>1, <1>7, <2>1, <4>1 DEF Filled
      <4>2. ASSUME NEW f \in Entry, f = e PROVE Filled(f)'
        BY Zenon, <1>7, <2>1, <4>2 DEF Filled
      <4> QED BY Zenon, <4>1, <4>2
    <3>3. \A f \in Entry : Filled(f)' \/ aux'[f].sector_index = 0
      <4>1. \A f \in Entry : Filled(f) \/ aux[f].sector_index = 0
        BY Zenon, <1>4 DEF Placed
      <4> QED BY Zenon, <1>1, <3>2, <4>1
    <3>4. ASSUME NEW f \in Entry, NEW g \in Entry, f < g, Filled(g)' PROVE Filled(f)'
      <4>1. CASE g = e
        BY Zenon, <3>1, <3>2, <3>4, <4>1 DEF Filled
      <4>2. CASE g # e
        <5>1. Filled(g)
          BY Zenon, <3>2, <3>4, <4>2
        <5>2. Filled(f)
          BY Zenon, <1>4, <3>4, <5>1 DEF Placed
        <5> QED BY Zenon, <3>2, <5>2
      <4> QED BY Zenon, <4>1, <4>2
    <3>5. \A u \in Client : pc'[u] \notin Victim
      BY Zenon, <1>6, <2>1 DEF OneClient
    <3> QED BY Zenon, <3>3, <3>4, <3>5 DEF Placed
  <2>2. CASE panicked'
    BY Zenon, <2>2 DEF Placed
  <2> QED BY Zenon, <1>1, <2>1, <2>2
<1>9. \A f \in Entry : aux'[f].present => f # e /\ aux'[f] = aux[f]
  BY Zenon, <1>1
<1>10. Distinct'
  BY Zenon, <1>4, <1>9 DEF Distinct
<1>11. OwnOf(t)'
  <2>1. \A f \in Entry : aux[f].present => aux[f].sector_index # op[t].sector
    BY Zenon, <1>4, Places DEF OwnOf
  <2>2. \A f \in Entry : aux'[f].present => aux'[f].sector_index # op[t].sector
    BY Zenon, <1>9, <2>1
  <2>3. op[t].sector \in Sector /\ (op[t].write => op[t].val \in Val)
    BY Zenon, <1>4 DEF OwnOf
  <2> QED BY Zenon, <1>1, <1>2, <1>6, <2>2, <2>3 DEF OwnOf
<1>12. CopiedOf(t)'
  BY Zenon, <1>6 DEF CopiedOf
<1>13. Clean'
  <2>1. ASSUME NEW f \in Entry PROVE CleanEntry(f)'
    <3>1. CASE f = e
      BY Zenon, <1>1, <3>1 DEF CleanEntry
    <3>2. CASE f # e
      <4>1. CleanEntry(f) /\ aux'[f] = aux[f] /\ s_lock'[f] = s_lock[f]
        BY Zenon, <1>1, <1>3, <1>4, <3>2 DEF Clean
      <4>2. aux[f].present => disk'[aux[f].sector_index] = disk[aux[f].sector_index]
        BY Zenon, <1>2, <3>2
      <4> QED BY Zenon, <1>2, <1>7, <4>1, <4>2 DEF CleanEntry
    <3> QED BY Zenon, <3>1, <3>2
  <2> QED BY Zenon, <2>1 DEF Clean
<1>14. ClosingOf(t)'
  BY Zenon, <1>6, NotClosing
<1>15. Roles'
  BY Zenon, <1>0, <1>1 DEF SerialInv, Roles
<1> QED BY Zenon, <1>5, <1>8, <1>10, <1>11, <1>12, <1>13, <1>14, <1>15, OneStep DEF SerialInv

(* The two ends of cache_evict. *)
LEMMA EvictSerial ==
  ASSUME TypeOK, SerialInv, OneClient, ~panicked, NEW t \in Client, EvictWrite(t) \/ EvictClean(t)
  PROVE  SerialInv'
<1>0. t \in Thread /\ slot[t] \in Entry
  BY Zenon, Members DEF TypeOK
<1>1. Evicted(t, aux[slot[t]]) /\ UNCHANGED <<data, op>> /\ pc[t] \in Victim
  BY Zenon DEF EvictWrite, EvictClean, Victim
<1>2. CASE EvictWrite(t)
  <2>1. /\ pc[t] = "evict_write" /\ s_lock' = [s_lock EXCEPT ![slot[t]] = NULL]
        /\ disk' = [disk EXCEPT ![info[t].sector_index] = data[slot[t]]]
    BY Zenon, <1>2 DEF EvictWrite
  <2>2. pc[t] \in Writing /\ Locked /\ Distinct
    BY Zenon, <2>1, Places DEF SerialInv
  <2>3. /\ s_lock[slot[t]] = t /\ aux[slot[t]].present
        /\ \A x \in Sector \ {aux[slot[t]].sector_index} : disk'[x] = disk[x]
    BY Zenon, <1>0, <2>1, <2>2, WriteEffect
  <2>4. \A f \in Entry \ {slot[t]} :
          aux[f].present => aux[f].sector_index \in Sector \ {aux[slot[t]].sector_index}
    BY Zenon, <1>0, <2>2, <2>3 DEF Distinct
  <2>5. \A f \in Entry \ {slot[t]} :
          aux[f].present => disk'[aux[f].sector_index] = disk[aux[f].sector_index]
    BY Zenon, <2>3, <2>4
  <2> QED BY Zenon, <1>1, <2>1, <2>3, <2>5, EvictedSerial
<1>3. CASE EvictClean(t)
  <2>1. s_lock[slot[t]] = NULL /\ UNCHANGED <<disk, s_lock>>
    BY Zenon, <1>3 DEF EvictClean
  <2>2. s_lock' = [s_lock EXCEPT ![slot[t]] = NULL]
    <3>1. s_lock \in [Entry -> Thread \cup {NULL, FREED}] /\ s_lock' = s_lock
      BY Zenon, <2>1 DEF TypeOK
    <3> QED BY <1>0, <2>1, <3>1
  <2>3. disk' = disk
    BY Zenon, <2>1
  <2> QED BY Zenon, <1>1, <2>1, <2>2, <2>3, EvictedSerial
<1> QED BY Zenon, <1>2, <1>3
(* Nothing changes, or the kernel stops and nothing else is different. *)
LEMMA StopSerial ==
  ASSUME SerialInv, panicked' \/ panicked' = panicked,
         UNCHANGED <<aux, data, disk, s_lock, op, slot, info, pc>>
  PROVE  SerialInv'
<1>1. /\ aux' = aux /\ data' = data /\ disk' = disk /\ s_lock' = s_lock /\ op' = op
      /\ slot' = slot /\ info' = info /\ pc' = pc
  BY Zenon
<1>2. \A e : InUse(e)' <=> InUse(e)
  BY Zenon, <1>1 DEF InUse
<1>3. Roles' /\ Placed' /\ Distinct' /\ Own'
  <2>1. Roles' /\ Placed'
    <3>1. Roles'
      BY Zenon, <1>1 DEF SerialInv, Roles
    <3>2. \A e : Filled(e)' <=> Filled(e)
      BY Zenon, <1>1, <1>2 DEF Filled
    <3>3. panicked' \/ (~panicked <=> ~panicked')
      BY Zenon
    <3> QED BY Zenon, <1>1, <3>1, <3>2, <3>3 DEF SerialInv, Placed
  <2>2. Distinct'
    BY Zenon, <1>1 DEF SerialInv, Distinct
  <2>3. Own'
    <3>1. \A t \in Client : OwnOf(t)
      BY Zenon DEF SerialInv, Own
    <3>2. \A t \in Client : OwnOf(t)' <=> OwnOf(t)
      BY <1>1 DEF OwnOf
    <3> QED BY Zenon, <3>1, <3>2 DEF Own
  <2> QED BY Zenon, <2>1, <2>2, <2>3
<1>4. Locked'
  <2>1. Held'
    <3>1. ASSUME NEW e \in Entry, NEW t \in Thread, s_lock'[e] = t
          PROVE  /\ pc'[t] \in Writing /\ slot'[t] = e /\ aux'[e].present
                 /\ info'[t].sector_index = aux'[e].sector_index
      <4>1. s_lock[e] = t
        BY Zenon, <1>1, <3>1
      <4>2. /\ pc[t] \in Writing /\ slot[t] = e /\ aux[e].present
            /\ info[t].sector_index = aux[e].sector_index
        BY Zenon, <4>1 DEF SerialInv, Locked, Held
      <4> QED BY Zenon, <1>1, <4>2
    <3> QED BY Zenon, <3>1 DEF Held
  <2>2. Holding'
    <3>1. panicked => panicked'
      BY Zenon
    <3>2. ASSUME NEW t \in Thread, pc'[t] \in Writing PROVE s_lock'[slot'[t]] = t \/ panicked'
      BY Zenon, <1>1, <3>1, <3>2 DEF SerialInv, Locked, Holding
    <3> QED BY Zenon, <3>2 DEF Holding
  <2>3. Freed'
    BY Zenon, <1>1 DEF SerialInv, Locked, Freed
  <2> QED BY Zenon, <2>1, <2>2, <2>3 DEF Locked
<1>5. Copied' /\ Clean' /\ Closing'
  BY ZenonT(40), <1>1, <1>2 DEF SerialInv, Copied, CopiedOf, Clean, CleanEntry, Closing, ClosingOf
<1> QED BY Zenon, <1>3, <1>4, <1>5 DEF SerialInv

(* A step of an operation between its pin and its unpin. *)
LEMMA WorkSerial ==
  ASSUME SerialInv, OneClient, ~panicked, NEW t \in Client, pc[t] \in Busy, pc'[t] \in Using,
         UNCHANGED <<aux, disk, s_lock, op, slot>>,
         \A u \in Thread \ {t} : pc'[u] = pc[u] /\ info'[u] = info[u],
         \A f \in Entry \ {slot[t]} : data'[f] = data[f],
         panicked' = panicked, OwnOf(t)', CopiedOf(t)'
  PROVE  SerialInv'
<1>0. /\ t \in Thread /\ ReadAhead \in Thread /\ Dumper \in Thread
      /\ t # ReadAhead /\ t # Dumper
  BY Zenon, Members, CacheAssumption
<1>1. aux' = aux /\ disk' = disk /\ s_lock' = s_lock /\ op' = op /\ slot' = slot
  BY Zenon
<1>2. Roles /\ Placed /\ Distinct /\ Locked /\ Clean
  BY Zenon DEF SerialInv
<1>3. /\ pc'[t] \in Busy /\ pc[t] \notin Writing /\ pc'[t] \notin Writing
      /\ pc[t] # "closed" /\ pc'[t] # "closed" /\ pc'[t] \notin Victim
  BY Zenon, Places
<1>4. /\ \A f : InUse(f)' <=> InUse(f)
      /\ InUse(slot[t])
  <2>1. \A f : InUse(f) <=> pc[t] \in Busy /\ slot[t] = f
    BY Zenon, OneStep
  <2>2. \A f : InUse(f)' <=> pc'[t] \in Busy /\ slot'[t] = f
    BY Zenon, OneStep
  <2> QED BY Zenon, <1>1, <1>3, <2>1, <2>2
<1>5. Roles'
  BY Zenon, <1>0, <1>2 DEF Roles
<1>6. Placed'
  <2>1. \A u \in Client : pc'[u] \notin Victim
    BY Zenon, <1>3 DEF OneClient
  <2>2. \A f : Filled(f)' <=> Filled(f)
    BY Zenon, <1>1, <1>4 DEF Filled
  <2>3. /\ \A e \in Entry : Filled(e) \/ aux[e].sector_index = 0
        /\ \A e, f \in Entry : e < f /\ Filled(f) => Filled(e)
    BY Zenon, <1>2 DEF Placed
  <2> QED BY Zenon, <1>1, <2>1, <2>2, <2>3 DEF Placed
<1>7. Distinct'
  BY Zenon, <1>1, <1>2 DEF Distinct
<1>8. Locked'
  <2>1. \A u \in Thread \ {t} : pc'[u] = pc[u] /\ info'[u] = info[u] /\ slot'[u] = slot[u]
    BY Zenon, <1>1
  <2>2. \A e \in Entry : aux[e].present =>
           aux'[e].present /\ aux'[e].sector_index = aux[e].sector_index
    BY Zenon, <1>1
  <2> QED BY Zenon, <1>0, <1>1, <1>2, <1>3, <2>1, <2>2, LocksKept
<1>9. Clean'
  <2>1. ASSUME NEW f \in Entry PROVE CleanEntry(f)'
    <3>1. CASE f = slot[t]
      <4>1. InUse(f)'
        BY Zenon, <1>4, <3>1
      <4> QED BY Zenon, <4>1 DEF CleanEntry
    <3>2. CASE f # slot[t]
      <4>1. CleanEntry(f) /\ data'[f] = data[f]
        BY Zenon, <1>2, <3>2 DEF Clean
      <4> QED BY Zenon, <1>1, <1>4, <4>1 DEF CleanEntry
    <3> QED BY Zenon, <3>1, <3>2
  <2> QED BY Zenon, <2>1 DEF Clean
<1>10. ClosingOf(t)'
  BY Zenon, <1>3, NotClosing
<1> QED BY Zenon, <1>5, <1>6, <1>7, <1>8, <1>9, <1>10, OneStep DEF SerialInv

(* What the load of a sector changes. *)
LEMMA FillEffect ==
  ASSUME TypeOK, NEW t \in Thread, Fill(t), op[t].sector \in Sector
  PROVE  /\ pc[t] = "fill" /\ pc'[t] = "copy" /\ info'[t].sector_index = op[t].sector
         /\ \A u \in Thread \ {t} : pc'[u] = pc[u] /\ info'[u] = info[u]
         /\ data'[slot[t]] = disk[op[t].sector]
         /\ \A f \in Entry \ {slot[t]} : data'[f] = data[f]
         /\ UNCHANGED <<aux, disk, s_lock, op, slot, buffer, panicked>>
<1> DEFINE i == [info[t] EXCEPT !.present = TRUE, !.accessed = TRUE,
                                !.sector_index = op[t].sector, !.dirty = op[t].write]
<1>1. /\ pc \in [Thread -> Labels] /\ info \in [Thread -> Aux] /\ slot[t] \in Entry
      /\ data \in [Entry -> [Offset -> Byte]] /\ info[t] \in Aux
  BY Zenon DEF TypeOK
<1>2. /\ data' = [data EXCEPT ![slot[t]] = disk[op[t].sector]]
      /\ info' = [info EXCEPT ![t] = i] /\ pc' = [pc EXCEPT ![t] = "copy"] /\ panicked' = panicked
      /\ pc[t] = "fill" /\ UNCHANGED <<aux, disk, s_lock, op, slot, buffer>>
  BY ZenonT(30) DEF Fill, Goto, Loaded, TypeOK, locks
<1>3. i.sector_index = op[t].sector
  BY Zenon, <1>1 DEF Aux
<1> HIDE DEF i
<1> QED BY Zenon, <1>1, <1>2, <1>3

(* The load leaves the entry with the disk's data. *)
LEMMA FillSerial ==
  ASSUME TypeOK, SerialInv, OneClient, ~panicked, NEW t \in Client, Fill(t)
  PROVE  SerialInv'
<1>0. t \in Thread /\ pc[t] = "fill" /\ OwnOf(t)
  BY Zenon, Members DEF Fill, SerialInv, Own
<1>1. /\ op[t].sector \in Sector /\ (op[t].write => op[t].val \in Val)
      /\ \A e \in Entry : aux[e].present => aux[e].sector_index # op[t].sector
      /\ ~aux[slot[t]].present
  <2>1. pc[t] \in Busy \cup Victim /\ pc[t] \notin Using /\ pc[t] \in {"fill", "copy"}
    BY Zenon, <1>0, Places
  <2> QED BY Zenon, <1>0, <2>1 DEF OwnOf
<1>2. /\ pc[t] = "fill" /\ pc'[t] = "copy" /\ info'[t].sector_index = op[t].sector
      /\ \A u \in Thread \ {t} : pc'[u] = pc[u] /\ info'[u] = info[u]
      /\ data'[slot[t]] = disk[op[t].sector]
      /\ \A f \in Entry \ {slot[t]} : data'[f] = data[f]
      /\ UNCHANGED <<aux, disk, s_lock, op, slot, buffer, panicked>>
  BY Zenon, <1>0, <1>1, FillEffect
<1>3. aux' = aux /\ disk' = disk /\ s_lock' = s_lock /\ op' = op /\ slot' = slot
  BY Zenon, <1>2
<1>4. pc[t] \in Busy /\ pc'[t] \in Using /\ pc'[t] # "hit"
  BY Zenon, <1>2, Places
<1>5. OwnOf(t)'
  BY Zenon, <1>1, <1>2, <1>3, <1>4 DEF OwnOf
<1>6. CopiedOf(t)'
  BY Zenon, <1>2, <1>3 DEF CopiedOf
<1> QED BY Zenon, <1>2, <1>4, <1>5, <1>6, WorkSerial

(* What the copy changes. *)
LEMMA CopyEffect ==
  ASSUME TypeOK, NEW t \in Thread, Copy(t), s_lock[slot[t]] # FREED
  PROVE  /\ pc[t] \in {"hit", "copy"} /\ pc'[t] \in {"asynch", "unpin"}
         /\ s_lock[slot[t]] = NULL
         /\ info'[t].sector_index = info[t].sector_index
         /\ info'[t].dirty <=> info[t].dirty \/ op[t].write
         /\ \A u \in Thread \ {t} : pc'[u] = pc[u] /\ info'[u] = info[u]
         /\ ~op[t].write => /\ data' = data
                            /\ buffer' = [buffer EXCEPT ![t] = data[slot[t]][op[t].offset]]
         /\ op[t].write => /\ data'[slot[t]] = [data[slot[t]] EXCEPT ![op[t].offset] = op[t].val]
                           /\ buffer' = buffer
         /\ \A f \in Entry \ {slot[t]} : data'[f] = data[f]
         /\ UNCHANGED <<aux, disk, s_lock, op, slot, panicked>>
<1> DEFINE i == [info[t] EXCEPT !.accessed = TRUE, !.dirty = DirtyAfter(@, op[t])]
           b == [data[slot[t]] EXCEPT ![op[t].offset] = op[t].val]
<1>1. /\ pc \in [Thread -> Labels] /\ info \in [Thread -> Aux] /\ slot[t] \in Entry
      /\ data \in [Entry -> [Offset -> Byte]] /\ info[t] \in Aux
  BY Zenon DEF TypeOK
<1>2. /\ data' = IF op[t].write THEN [data EXCEPT ![slot[t]][op[t].offset] = op[t].val] ELSE data
      /\ buffer' = IF op[t].write THEN buffer
                   ELSE [buffer EXCEPT ![t] = data[slot[t]][op[t].offset]]
      /\ info' = [info EXCEPT ![t].accessed = TRUE, ![t].dirty = DirtyAfter(@, op[t])]
      /\ pc' = [pc EXCEPT ![t] = IF pc[t] = "copy" /\ ~op[t].write THEN "asynch" ELSE "unpin"]
      /\ panicked' = panicked
      /\ pc[t] \in {"hit", "copy"} /\ s_lock[slot[t]] = NULL
      /\ UNCHANGED <<aux, disk, s_lock, op, slot>>
  BY ZenonT(30) DEF Copy, Goto, locks
<1>3. info'[t] = i /\ \A u \in Thread \ {t} : info'[u] = info[u]
  BY ZenonT(30), <1>1, <1>2
<1>4. i.sector_index = info[t].sector_index /\ (i.dirty <=> info[t].dirty \/ op[t].write)
  BY ZenonT(30), <1>1 DEF Aux, DirtyAfter
<1>5. op[t].write => data'[slot[t]] = b
  BY ZenonT(30), <1>1, <1>2
<1>6. \A f \in Entry \ {slot[t]} : data'[f] = data[f]
  BY ZenonT(30), <1>1, <1>2
<1>7. pc'[t] \in {"asynch", "unpin"} /\ \A u \in Thread \ {t} : pc'[u] = pc[u]
  BY Zenon, <1>1, <1>2
<1> HIDE DEF i, b
<1>8. /\ ~op[t].write => /\ data' = data
                         /\ buffer' = [buffer EXCEPT ![t] = data[slot[t]][op[t].offset]]
      /\ op[t].write => buffer' = buffer
  BY Zenon, <1>2
<1> QED BY Zenon, <1>2, <1>3, <1>4, <1>5, <1>6, <1>7, <1>8 DEF b
(* The copy marks the entry when it changes it. *)
LEMMA CopySerial ==
  ASSUME TypeOK, SerialInv, OneClient, ~panicked, NEW t \in Client, Copy(t)
  PROVE  SerialInv'
<1>0. t \in Thread /\ pc[t] \in {"hit", "copy"} /\ OwnOf(t) /\ CopiedOf(t) /\ slot[t] \in Entry
  BY Zenon, Members DEF Copy, SerialInv, Own, Copied, TypeOK
<1>1. pc[t] \in Using /\ pc[t] \in Busy /\ pc[t] # "closed"
  BY Zenon, <1>0, Places
<1>2. s_lock[slot[t]] # FREED
  BY Zenon, <1>0, <1>1 DEF SerialInv, Locked, Freed
<1>3. /\ pc'[t] \in {"asynch", "unpin"} /\ s_lock[slot[t]] = NULL
      /\ info'[t].sector_index = info[t].sector_index
      /\ info'[t].dirty <=> info[t].dirty \/ op[t].write
      /\ \A u \in Thread \ {t} : pc'[u] = pc[u] /\ info'[u] = info[u]
      /\ ~op[t].write => data' = data
      /\ \A f \in Entry \ {slot[t]} : data'[f] = data[f]
      /\ UNCHANGED <<aux, disk, s_lock, op, slot, panicked>>
  BY Zenon, <1>0, <1>2, CopyEffect
<1>4. aux' = aux /\ disk' = disk /\ s_lock' = s_lock /\ op' = op /\ slot' = slot
  BY Zenon, <1>3
<1>5. pc'[t] \in Using /\ pc'[t] \in Busy /\ pc'[t] \notin {"hit", "fill", "copy"}
  <2>1. pc'[t] \notin {"hit", "fill", "copy"}
    BY Zenon, <1>3
  <2> QED BY ZenonT(40), <1>3, <2>1, Places
<1>6. OwnOf(t)'
  <2>1. /\ op[t].sector \in Sector /\ (op[t].write => op[t].val \in Val)
        /\ \A e \in Entry : aux[e].present /\ aux[e].sector_index = op[t].sector => e = slot[t]
        /\ info[t].sector_index = op[t].sector
        /\ aux[slot[t]].present => aux[slot[t]].sector_index = op[t].sector
    BY Zenon, <1>0, <1>1 DEF OwnOf
  <2> QED BY Zenon, <1>3, <1>4, <1>5, <2>1 DEF OwnOf
<1>7. CopiedOf(t)'
  <2>1. ASSUME ~info'[t].dirty PROVE data'[slot[t]] = disk[op[t].sector]
    <3>1. ~info[t].dirty /\ data' = data
      BY Zenon, <1>3, <2>1
    <3> QED BY Zenon, <1>0, <1>1, <1>3, <3>1 DEF CopiedOf
  <2> QED BY Zenon, <1>4, <1>5, <2>1 DEF CopiedOf
<1> QED BY Zenon, <1>1, <1>3, <1>5, <1>6, <1>7, WorkSerial

(* The request for the next sector. *)
LEMMA AsynchSerial ==
  ASSUME TypeOK, SerialInv, OneClient, ~panicked, NEW t \in Client, Asynch(t)
  PROVE  SerialInv'
<1>0. t \in Thread /\ pc[t] = "asynch" /\ OwnOf(t) /\ CopiedOf(t)
  BY Zenon, Members DEF Asynch, SerialInv, Own, Copied
<1>1. /\ UNCHANGED <<aux, data, disk, s_lock, op, slot, info>>
      /\ \/ pc' = [pc EXCEPT ![t] = "unpin"] /\ panicked' = panicked
         \/ panicked' /\ pc' = pc
  BY Zenon DEF Asynch, Goto, Panic, locks, localVars
<1>2. /\ aux' = aux /\ data' = data /\ disk' = disk /\ s_lock' = s_lock /\ op' = op
      /\ slot' = slot /\ info' = info
  BY Zenon, <1>1
<1>3. CASE pc' = [pc EXCEPT ![t] = "unpin"] /\ panicked' = panicked
  <2>1. pc'[t] = "unpin" /\ \A u \in Thread \ {t} : pc'[u] = pc[u]
    BY Zenon, <1>0, <1>3 DEF TypeOK
  <2>2. /\ pc[t] \in Using /\ pc[t] \in Busy /\ pc'[t] \in Using /\ pc'[t] \in Busy
        /\ pc'[t] \notin {"hit", "fill", "copy"}
    BY Zenon, <1>0, <2>1, Places
  <2>3. OwnOf(t)'
    <3>1. /\ op[t].sector \in Sector /\ (op[t].write => op[t].val \in Val)
          /\ \A e \in Entry : aux[e].present /\ aux[e].sector_index = op[t].sector => e = slot[t]
          /\ info[t].sector_index = op[t].sector
          /\ aux[slot[t]].present => aux[slot[t]].sector_index = op[t].sector
      BY Zenon, <1>0, <2>2 DEF OwnOf
    <3> QED BY Zenon, <1>2, <2>2, <3>1 DEF OwnOf
  <2>4. CopiedOf(t)'
    <3>1. ~info[t].dirty /\ s_lock[slot[t]] = NULL => data[slot[t]] = disk[op[t].sector]
      BY Zenon, <1>0, <2>2 DEF CopiedOf
    <3> QED BY Zenon, <1>2, <2>2, <3>1 DEF CopiedOf
  <2> QED BY Zenon, <1>2, <1>3, <2>1, <2>2, <2>3, <2>4, WorkSerial
<1>4. CASE panicked' /\ pc' = pc
  BY Zenon, <1>1, <1>4, StopSerial
<1> QED BY Zenon, <1>1, <1>3, <1>4

(* What the end of an operation changes. *)
LEMMA UnpinEffect ==
  ASSUME TypeOK, PresentInv, NEW t \in Client, Unpin(t), aux[slot[t]].pinned # 0
  PROVE  /\ pc[t] = "unpin" /\ pc'[t] = "idle" /\ slot'[t] = 0
         /\ aux'[slot[t]].present /\ aux'[slot[t]].sector_index = info[t].sector_index
         /\ aux'[slot[t]].dirty <=> info[t].dirty
         /\ \A f \in Entry \ {slot[t]} : aux'[f] = aux[f]
         /\ \A u \in Thread \ {t} : /\ pc'[u] = pc[u] /\ info'[u] = info[u] /\ slot'[u] = slot[u]
                                    /\ op'[u] = op[u]
         /\ UNCHANGED <<data, disk, s_lock, buffer, panicked>>
<1> DEFINE i == Unpinned(info[t])
<1>0. t \in Thread /\ t # ReadAhead
  BY Zenon, Members, CacheAssumption
<1>1. /\ pc \in [Thread -> Labels] /\ info \in [Thread -> Aux] /\ slot[t] \in Entry
      /\ slot \in [Thread -> Entry] /\ aux \in [Entry -> Aux] /\ info[t] \in Aux
      /\ op \in [Thread -> Op \cup {NULL}]
  BY Zenon, <1>0 DEF TypeOK
<1>2. /\ aux' = [aux EXCEPT ![slot[t]] = i] /\ pc' = [pc EXCEPT ![t] = "idle"]
      /\ op' = [op EXCEPT ![t] = NULL] /\ slot' = [slot EXCEPT ![t] = 0]
      /\ info' = [info EXCEPT ![t] = ZeroAux] /\ panicked' = panicked
      /\ pc[t] = "unpin" /\ UNCHANGED <<data, disk, s_lock, buffer>>
  BY Zenon, <1>0 DEF Unpin, Goto, Forget, locks
<1>3. pc[t] \in Using
  BY Zenon, <1>2, Places
<1>4. info[t].present
  BY Zenon, <1>0, <1>3 DEF PresentInv, CopyInv
<1>5. i.present /\ i.sector_index = info[t].sector_index /\ (i.dirty <=> info[t].dirty)
  <2>1. i.sector_index = info[t].sector_index
    BY Zenon, <1>1, AuxSector DEF Unpinned
  <2>2. i.present = info[t].present /\ i.dirty = info[t].dirty
    BY <1>1, AuxUpdates DEF Unpinned
  <2> QED BY Zenon, <1>4, <2>1, <2>2
<1> HIDE DEF i
<1>6. aux'[slot[t]] = i /\ \A f \in Entry \ {slot[t]} : aux'[f] = aux[f]
  BY Zenon, <1>1, <1>2
<1>7. pc'[t] = "idle" /\ slot'[t] = 0
  BY Zenon, <1>0, <1>1, <1>2
<1>8. \A u \in Thread \ {t} : /\ pc'[u] = pc[u] /\ info'[u] = info[u] /\ slot'[u] = slot[u]
                              /\ op'[u] = op[u]
  BY Zenon, <1>1, <1>2
<1> QED BY Zenon, <1>2, <1>5, <1>6, <1>7, <1>8

(* The end of an operation. *)
LEMMA UnpinSerial ==
  ASSUME TypeOK, PresentInv, SerialInv, OneClient, ~panicked, NEW t \in Client, Unpin(t)
  PROVE  SerialInv'
<1>0. /\ t \in Thread /\ ReadAhead \in Thread /\ Dumper \in Thread /\ slot[t] \in Entry
      /\ t # ReadAhead /\ t # Dumper /\ pc[t] = "unpin"
  BY Zenon, Members, CacheAssumption DEF Unpin, TypeOK
<1>1. CASE aux[slot[t]].pinned = 0
  <2>1. panicked' /\ UNCHANGED <<aux, data, disk, s_lock, op, slot, info, pc>>
    BY Zenon, <1>1 DEF Unpin, Panic, locks, localVars
  <2> QED BY Zenon, <2>1, StopSerial
<1>2. CASE aux[slot[t]].pinned # 0
  <2> DEFINE e == slot[t]
  <2>0. e = slot[t] /\ e \in Entry
    BY Zenon, <1>0
  <2>1. /\ pc'[t] = "idle" /\ slot'[t] = 0
        /\ aux'[e].present /\ aux'[e].sector_index = info[t].sector_index
        /\ aux'[e].dirty <=> info[t].dirty
        /\ \A f \in Entry \ {e} : aux'[f] = aux[f]
        /\ \A u \in Thread \ {t} : pc'[u] = pc[u] /\ info'[u] = info[u] /\ slot'[u] = slot[u]
        /\ UNCHANGED <<data, disk, s_lock, buffer, panicked>>
    BY Zenon, <1>0, <1>2, UnpinEffect
  <2>2. data' = data /\ disk' = disk /\ s_lock' = s_lock /\ panicked' = panicked
    BY Zenon, <2>1
  <2>3. Roles /\ Placed /\ Distinct /\ Locked /\ Clean /\ OwnOf(t) /\ CopiedOf(t)
    BY Zenon DEF SerialInv, Own, Copied
  <2> HIDE DEF e
  <2>4. /\ pc[t] \in Using /\ pc[t] \in Busy /\ pc[t] \notin Writing /\ pc[t] # "closed"
        /\ pc'[t] \notin Busy \cup Victim \cup Writing /\ pc'[t] # "closed"
    BY Zenon, <1>0, <2>1, Places
  <2>5. pc'[t] \notin Using /\ pc'[t] \notin {"fill", "copy", "hit"}
    BY Zenon, <2>4, Places
  <2>6. /\ op[t].sector \in Sector /\ info[t].sector_index = op[t].sector
        /\ aux[e].present => aux[e].sector_index = op[t].sector
        /\ \A f \in Entry : aux[f].present /\ aux[f].sector_index = op[t].sector => f = e
    BY Zenon, <2>0, <2>3, <2>4 DEF OwnOf
  <2>7. \A f : (InUse(f) <=> f = e) /\ ~InUse(f)'
    BY Zenon, <2>0, <2>4, OneStep
  <2>8. Placed'
    <3>1. \A u \in Client : pc'[u] \notin Victim
      BY Zenon, <2>4 DEF OneClient
    <3>2. \A f \in Entry : Filled(f)' <=> Filled(f)
      BY Zenon, <2>0, <2>1, <2>7 DEF Filled
    <3>3. /\ \A f \in Entry : Filled(f) \/ aux[f].sector_index = 0
          /\ \A f, g \in Entry : f < g /\ Filled(g) => Filled(f)
      BY Zenon, <2>3 DEF Placed
    <3>4. \A f \in Entry : Filled(f)' \/ aux'[f].sector_index = 0
      <4>1. \A f \in Entry : f = e => Filled(f)'
        BY Zenon, <2>1 DEF Filled
      <4> QED BY ZenonT(40), <2>1, <3>2, <3>3, <4>1
    <3>5. \A f, g \in Entry : f < g /\ Filled(g)' => Filled(f)'
      BY Zenon, <3>2, <3>3
    <3> QED BY Zenon, <3>1, <3>4, <3>5 DEF Placed
  <2>9. Distinct'
    <3>1. ASSUME NEW f \in Entry, aux'[f].present PROVE aux'[f].sector_index \in Sector
      BY ZenonT(40), <2>1, <2>3, <2>6, <3>1 DEF Distinct
    <3>2. ASSUME NEW f \in Entry, aux'[f].present, aux'[f].sector_index = op[t].sector PROVE f = e
      BY Zenon, <2>1, <2>6, <3>2
    <3>3. ASSUME NEW f \in Entry, NEW g \in Entry, aux'[f].present, aux'[g].present,
                 aux'[f].sector_index = aux'[g].sector_index
          PROVE  f = g
      <4>1. CASE f = e \/ g = e
        <5>1. aux'[f].sector_index = op[t].sector /\ aux'[g].sector_index = op[t].sector
          BY Zenon, <2>1, <2>6, <3>3, <4>1
        <5> QED BY Zenon, <3>2, <3>3, <5>1
      <4>2. CASE f # e /\ g # e
        <5>1. aux'[f] = aux[f] /\ aux'[g] = aux[g]
          BY Zenon, <2>1, <4>2
        <5> QED BY Zenon, <2>3, <3>3, <5>1 DEF Distinct
      <4> QED BY Zenon, <4>1, <4>2
    <3> QED BY Zenon, <3>1, <3>3 DEF Distinct
  <2>10. OwnOf(t)' /\ CopiedOf(t)'
    BY Zenon, <2>4, <2>5 DEF OwnOf, CopiedOf
  <2>11. Locked'
    <3>1. \A f \in Entry : aux[f].present =>
            aux'[f].present /\ aux'[f].sector_index = aux[f].sector_index
      BY Zenon, <2>1, <2>6
    <3>2. pc'[t] \notin Writing
      BY Zenon, <2>4
    <3> QED BY Zenon, <1>0, <2>1, <2>2, <2>3, <2>4, <3>1, <3>2, LocksKept
  <2>12. Clean'
    <3>1. ASSUME NEW f \in Entry PROVE CleanEntry(f)'
      <4>1. CASE f = e
        <5>1. ~info[t].dirty /\ s_lock[e] = NULL => data[e] = disk[op[t].sector]
          BY Zenon, <2>0, <2>3, <2>4 DEF CopiedOf
        <5> QED BY ZenonT(40), <2>1, <2>2, <2>6, <4>1, <5>1 DEF CleanEntry
      <4>2. CASE f # e
        <5>1. CleanEntry(f) /\ aux'[f] = aux[f] /\ ~InUse(f)
          BY Zenon, <2>1, <2>3, <2>7, <4>2 DEF Clean
        <5> QED BY Zenon, <2>2, <5>1 DEF CleanEntry
      <4> QED BY Zenon, <4>1, <4>2
    <3> QED BY Zenon, <3>1 DEF Clean
  <2>13. ClosingOf(t)'
    BY Zenon, <2>1, NotClosing
  <2>14. Roles'
    BY Zenon, <1>0, <2>1, <2>3 DEF Roles
  <2> QED BY Zenon, <2>8, <2>9, <2>10, <2>11, <2>12, <2>13, <2>14, OneStep DEF SerialInv
<1> QED BY Zenon, <1>1, <1>2
(* Every step of one client and of the dump thread keeps the invariant. *)
LEMMA NextSerial ==
  ASSUME OneClient, ReadAhead \notin Scheduled, TypeOK, PresentInv, SerialInv, [Next]_vars
  PROVE  SerialInv'
<1>0. DirtyIsPresent
  BY Zenon DEF PresentInv
<1>1. CASE UNCHANGED vars
  <2>1. panicked' = panicked /\ UNCHANGED <<aux, data, disk, s_lock, op, slot, info, pc>>
    BY <1>1 DEF vars, locks, localVars
  <2> QED BY Zenon, <2>1, StopSerial
<1>2. ASSUME NEW t \in Client, Call(t) PROVE SerialInv'
  <2>0. ~panicked
    BY Zenon, <1>2 DEF Call
  <2>1. ASSUME NEW s \in Sector, NEW o \in Offset, cache_read(t, s, o) PROVE SerialInv'
    <3>1. ReadOp(s, o) \in Op /\ ReadOp(s, o).sector = s /\ ~ReadOp(s, o).write
      BY Zenon, CacheAssumption, Members DEF ReadOp, Op
    <3> QED BY Zenon, <2>0, <2>1, <3>1, GetSerial DEF cache_read
  <2>2. ASSUME NEW s \in Sector, NEW o \in Offset, NEW v \in Val, cache_write(t, s, o, v)
        PROVE  SerialInv'
    <3> DEFINE w == [write |-> TRUE, sector |-> s, offset |-> o, val |-> v]
    <3>1. w \in Op /\ w.sector = s /\ w.val = v
      BY Zenon, CacheAssumption, Members DEF Op
    <3>2. Get(t, w) /\ pc[t] = "idle"
      BY Zenon, <2>2 DEF cache_write
    <3> HIDE DEF w
    <3> QED BY Zenon, <2>0, <3>1, <3>2, GetSerial
  <2>3. CASE cache_close(t)
    BY Zenon, <2>0, <2>3, MovesSerial
  <2> QED BY Zenon, <1>2, <2>1, <2>2, <2>3 DEF Call
<1>3. ASSUME NEW t \in Client \cup {Dumper}, ~panicked, cache_dump_all(t) PROVE SerialInv'
  BY Zenon, <1>0, <1>3, DumpDirtySerial, DumpWriteSerial, DumpCleanSerial DEF cache_dump_all
<1>4. ASSUME NEW t \in Client, Continue(t) PROVE SerialInv'
  <2>0. ~panicked
    BY Zenon, <1>4 DEF Continue
  <2>1. CASE Access(t)
    <3>1. EvictDirty(t) => SerialInv'
      BY Zenon, <1>0, <2>0, EvictDirtySerial
    <3>2. EvictWrite(t) \/ EvictClean(t) => SerialInv'
      BY Zenon, <2>0, EvictSerial
    <3>3. Fill(t) \/ Copy(t) \/ Asynch(t) => SerialInv'
      BY Zenon, <2>0, FillSerial, CopySerial, AsynchSerial
    <3>4. Unpin(t) => SerialInv'
      BY Zenon, <2>0, UnpinSerial
    <3> QED BY Zenon, <2>1, <3>1, <3>2, <3>3, <3>4 DEF Access
  <2>2. CASE CloseStop(t) \/ CloseFree(t)
    BY Zenon, <2>0, <2>2, MovesSerial, CloseFreeSerial
  <2> QED BY Zenon, <1>3, <1>4, <2>0, <2>1, <2>2 DEF Continue
<1>5. CASE Dump
  BY Zenon, <1>3, <1>5, MovesSerial DEF Dump
<1> QED BY Zenon, <1>1, <1>2, <1>4, <1>5 DEF Next

(* An entry that no thread uses is one that the client does not use. *)
LEMMA CleanEntries == Clean => CleanOnDisk
<1> SUFFICES ASSUME Clean, NEW e \in Entry, aux[e].present, ~aux[e].dirty, s_lock[e] = NULL,
                    Users(e) = {}
             PROVE  data[e] = disk[aux[e].sector_index]
  BY Zenon DEF CleanOnDisk
<1>1. \A t \in Thread : pc[t] \in {"hit", "fill", "copy", "asynch", "unpin"} => slot[t] # e
  BY Zenon DEF Users
<1>2. Busy = {"hit", "fill", "copy", "asynch", "unpin"}
  BY DEF Busy, Using
<1>3. ~InUse(e)
  BY Zenon, <1>1, <1>2, Members DEF InUse
<1> QED BY Zenon, <1>3 DEF Clean, CleanEntry

(* With one client that reads, writes and closes the cache while the dump  *)
(* thread runs, no write is lost: an entry that is not marked for writing, *)
(* that nobody writes to the disk and nobody uses holds what the disk      *)
(* holds, whatever was evicted, dumped or loaded before.  The run that     *)
(* lets a second thread in shows that this is as far as it goes.           *)
THEOREM NothingLost ==
  ASSUME OneClient, ReadAhead \notin Scheduled
  PROVE  Spec => []CleanOnDisk
<1>1. Init => PresentInv /\ SerialInv
  BY Zenon, InitPresent, InitSerial
<1>2. TypeOK /\ PresentInv /\ SerialInv /\ [Next]_vars => PresentInv' /\ SerialInv'
  BY Zenon, NextPresent, NextSerial
<1>3. SerialInv => CleanOnDisk
  BY Zenon, CleanEntries DEF SerialInv
<1> QED
  BY <1>1, <1>2, <1>3, TypeCorrect, PTL DEF Spec----------------------------------------------------------------------------
(* The cache is not there.  With one client, what BlockStore keeps for a   *)
(* sector is the data of the entry that holds it, or what the disk has.    *)

StoreVars == <<[s \in Sector |-> Contents(s)], [t \in Client |-> buffer[t]]>>

View ==
  \A s \in Sector :
    /\ \A e \in Entry : Holds(e, s) => Contents(s) = data[e]
    /\ (\A e \in Entry : ~Holds(e, s)) => Contents(s) = disk[s]

(* One entry at most holds a sector. *)
LEMMA Viewed ==
  ASSUME OneClient
  PROVE  SerialInv => View
<1> SUFFICES ASSUME SerialInv PROVE View
  BY Zenon
<1>1. Roles /\ Distinct /\ Own
  BY Zenon DEF SerialInv
<1>2. ASSUME NEW u \in Thread, pc[u] \in {"asynch", "unpin"}
      PROVE  u \in Client /\ pc[u] \in Using /\ OwnOf(u)
  <2>1. u # ReadAhead /\ u # Dumper
    BY <1>1, <1>2 DEF Roles
  <2>2. u \in Client
    BY Zenon, <2>1 DEF Thread
  <2> QED BY Zenon, <1>1, <1>2, <2>2, Places DEF Own
<1>3. ASSUME NEW s \in Sector, NEW e \in Entry, NEW f \in Entry, NEW u \in Thread,
             pc[u] \in {"asynch", "unpin"}, slot[u] = e, op[u].sector = s, Holds(f, s)
      PROVE  f = e
  <2>1. u \in Client /\ pc[u] \in Using /\ OwnOf(u)
    BY Zenon, <1>2, <1>3
  <2>2. CASE aux[f].present /\ aux[f].sector_index = s
    <3>1. pc[u] \in Busy \cup Victim
      BY Zenon, <2>1, Places
    <3> QED BY Zenon, <1>3, <2>1, <2>2, <3>1 DEF OwnOf
  <2>3. ASSUME NEW w \in Thread, pc[w] \in {"asynch", "unpin"}, slot[w] = f PROVE f = e
    BY Zenon, <1>2, <1>3, <2>1, <2>3 DEF OneClient
  <2> QED BY Zenon, <1>3, <2>2, <2>3 DEF Holds
<1>4. ASSUME NEW s \in Sector, NEW e \in Entry, NEW f \in Entry, Holds(e, s), Holds(f, s)
      PROVE  e = f
  <2>1. CASE \E u \in Thread : pc[u] \in {"asynch", "unpin"} /\ slot[u] = e /\ op[u].sector = s
    BY Zenon, <1>3, <1>4, <2>1
  <2>2. CASE \E u \in Thread : pc[u] \in {"asynch", "unpin"} /\ slot[u] = f /\ op[u].sector = s
    BY Zenon, <1>3, <1>4, <2>2
  <2>3. CASE /\ aux[e].present /\ aux[e].sector_index = s
             /\ aux[f].present /\ aux[f].sector_index = s
    BY Zenon, <1>1, <2>3 DEF Distinct
  <2> QED BY Zenon, <1>4, <2>1, <2>2, <2>3 DEF Holds
<1>5. ASSUME NEW s \in Sector, NEW e \in Entry, Holds(e, s) PROVE Contents(s) = data[e]
  <2> DEFINE c == CHOOSE f \in Entry : Holds(f, s)
  <2>1. c \in Entry /\ Holds(c, s)
    BY Zenon, <1>5
  <2>2. Contents(s) = data[c]
    BY Zenon, <1>5 DEF Contents
  <2> HIDE DEF c
  <2>3. c = e
    BY Zenon, <1>4, <1>5, <2>1
  <2> QED BY Zenon, <2>2, <2>3
<1>6. ASSUME NEW s \in Sector, \A e \in Entry : ~Holds(e, s) PROVE Contents(s) = disk[s]
  BY Zenon, <1>6 DEF Contents
<1> QED BY Zenon, <1>5, <1>6 DEF View

(* A step that leaves every sector's contents alone. *)
LEMMA SameStore ==
  ASSUME \A s \in Sector : Contents(s)' = Contents(s), buffer' = buffer
  PROVE  UNCHANGED StoreVars
<1>1. [s \in Sector |-> Contents(s)]' = [s \in Sector |-> Contents(s)]
  BY Zenon
<1>2. [t \in Client |-> buffer[t]]' = [t \in Client |-> buffer[t]]
  BY Zenon
<1> QED BY Zenon, <1>1, <1>2 DEF StoreVars

(* A step that moves no sector. *)
LEMMA QuietStore ==
  ASSUME View, View', buffer' = buffer,
         \A e \in Entry, s \in Sector : Holds(e, s)' <=> Holds(e, s),
         \A e \in Entry, s \in Sector : Holds(e, s) => data'[e] = data[e],
         \A s \in Sector : (\A e \in Entry : ~Holds(e, s)) => disk'[s] = disk[s]
  PROVE  UNCHANGED StoreVars
<1>1. ASSUME NEW s \in Sector PROVE Contents(s)' = Contents(s)
  <2>1. ASSUME NEW e \in Entry, Holds(e, s) PROVE Contents(s)' = Contents(s)
    <3>1. Contents(s) = data[e] /\ data'[e] = data[e]
      BY Zenon, <2>1 DEF View
    <3>2. Holds(e, s)'
      BY Zenon, <2>1
    <3>3. Contents(s)' = data'[e]
      BY Zenon, <3>2 DEF View
    <3> QED BY Zenon, <3>1, <3>3
  <2>2. ASSUME \A e \in Entry : ~Holds(e, s) PROVE Contents(s)' = Contents(s)
    <3>1. Contents(s) = disk[s] /\ disk'[s] = disk[s]
      BY Zenon, <2>2 DEF View
    <3>2. \A e \in Entry : ~Holds(e, s)'
      BY Zenon, <2>2
    <3>3. Contents(s)' = disk'[s]
      BY Zenon, <3>2 DEF View
    <3> QED BY Zenon, <3>1, <3>3
  <2> QED BY Zenon, <2>1, <2>2
<1> QED BY Zenon, <1>1, SameStore

(* Who holds a sector depends on the entries' names and on the operation   *)
(* that has copied.                                                        *)
LEMMA HoldsKept ==
  ASSUME NEW t \in Thread, NamesKept,
         pc[t] \notin {"asynch", "unpin"}, pc'[t] \notin {"asynch", "unpin"},
         \A u \in Thread \ {t} : pc'[u] = pc[u] /\ slot'[u] = slot[u] /\ op'[u] = op[u]
  PROVE  \A e \in Entry, s \in Sector : Holds(e, s)' <=> Holds(e, s)
<1> SUFFICES ASSUME NEW e \in Entry, NEW s \in Sector PROVE Holds(e, s)' <=> Holds(e, s)
  BY Zenon
<1>1. aux'[e].present /\ aux'[e].sector_index = s <=> aux[e].present /\ aux[e].sector_index = s
  BY Zenon DEF NamesKept
<1>2. \A u \in Thread :
        pc'[u] \in {"asynch", "unpin"} /\ slot'[u] = e /\ op'[u].sector = s
          <=> pc[u] \in {"asynch", "unpin"} /\ slot[u] = e /\ op[u].sector = s
  <2>1. ASSUME NEW u \in Thread
        PROVE  pc'[u] \in {"asynch", "unpin"} /\ slot'[u] = e /\ op'[u].sector = s
                 <=> pc[u] \in {"asynch", "unpin"} /\ slot[u] = e /\ op[u].sector = s
    <3>1. CASE u = t
      BY ZenonT(40), <3>1
    <3>2. CASE u # t
      <4>1. pc'[u] = pc[u] /\ slot'[u] = slot[u] /\ op'[u] = op[u]
        BY Zenon, <3>2
      <4> QED BY Zenon, <4>1
    <3> QED BY Zenon, <3>1, <3>2
  <2> QED BY Zenon, <2>1
<1> QED BY Zenon, <1>1, <1>2 DEF Holds
(* The steps that find an entry, or choose a victim. *)
LEMMA GetStore ==
  ASSUME TypeOK, View, View', NEW t \in Thread, NEW o, pc[t] = "idle", Get(t, o)
  PROVE  UNCHANGED StoreVars
<1>0. /\ aux \in [Entry -> Aux] /\ pc \in [Thread -> Labels] /\ slot \in [Thread -> Entry]
      /\ op \in [Thread -> Op \cup {NULL}]
  BY Zenon DEF TypeOK
<1>1. /\ data' = data /\ disk' = disk /\ buffer' = buffer
      /\ \A u \in Thread \ {t} : op'[u] = op[u]
  BY Zenon, <1>0 DEF Get
<1>2. /\ NamesKept /\ pc'[t] \in {"hit", "fill", "evict", "spin"}
      /\ \A u \in Thread \ {t} : pc'[u] = pc[u] /\ slot'[u] = slot[u]
  <2>1. ASSUME NEW e \in Entry, Pin(t, e, aux[e])
        PROVE  /\ NamesKept /\ pc'[t] \in {"hit", "fill", "evict", "spin"}
               /\ \A u \in Thread \ {t} : pc'[u] = pc[u] /\ slot'[u] = slot[u]
    <3> DEFINE i == [aux[e] EXCEPT !.pinned = @ + 1]
               l == IF aux[e].present THEN "hit" ELSE "fill"
    <3>1. /\ aux' = [aux EXCEPT ![e] = i] /\ slot' = [slot EXCEPT ![t] = e]
          /\ pc' = [pc EXCEPT ![t] = l]
      BY Zenon, <2>1 DEF Pin, Goto
    <3>2. i.present = aux[e].present /\ i.sector_index = aux[e].sector_index
      BY <1>0, AuxUpdates, AuxSector
    <3>3. l \in {"hit", "fill", "evict", "spin"}
      BY Zenon
    <3> HIDE DEF i, l
    <3>4. aux'[e] = i /\ \A f \in Entry \ {e} : aux'[f] = aux[f]
      BY Zenon, <1>0, <3>1
    <3>5. NamesKept
      BY Zenon, <3>2, <3>4 DEF NamesKept
    <3>6. pc'[t] = l /\ \A u \in Thread \ {t} : pc'[u] = pc[u] /\ slot'[u] = slot[u]
      BY Zenon, <1>0, <3>1
    <3> QED BY Zenon, <3>3, <3>5, <3>6
  <2>2. ASSUME NEW v \in Entry, NEW passed \in SUBSET Entry,
               aux' = [e \in Entry |-> IF e \in passed
                         THEN [aux[e] EXCEPT !.accessed = FALSE] ELSE aux[e]],
               slot' = [slot EXCEPT ![t] = v], Goto(t, "evict")
        PROVE  /\ NamesKept /\ pc'[t] \in {"hit", "fill", "evict", "spin"}
               /\ \A u \in Thread \ {t} : pc'[u] = pc[u] /\ slot'[u] = slot[u]
    <3>1. ASSUME NEW f \in Entry
          PROVE  aux'[f].present = aux[f].present /\ aux'[f].sector_index = aux[f].sector_index
      <4> DEFINE i == [aux[f] EXCEPT !.accessed = FALSE]
      <4>1. aux'[f] = i \/ aux'[f] = aux[f]
        BY Zenon, <2>2
      <4>2. i.present = aux[f].present /\ i.sector_index = aux[f].sector_index
        BY <1>0, AuxUpdates, AuxSector
      <4> HIDE DEF i
      <4> QED BY Zenon, <4>1, <4>2
    <3>2. pc'[t] = "evict" /\ \A u \in Thread \ {t} : pc'[u] = pc[u] /\ slot'[u] = slot[u]
      BY Zenon, <1>0, <2>2 DEF Goto
    <3> QED BY Zenon, <3>1, <3>2 DEF NamesKept
  <2>3. ASSUME Goto(t, "spin"), aux' = aux, slot' = slot
        PROVE  /\ NamesKept /\ pc'[t] \in {"hit", "fill", "evict", "spin"}
               /\ \A u \in Thread \ {t} : pc'[u] = pc[u] /\ slot'[u] = slot[u]
    <3>1. pc'[t] = "spin" /\ \A u \in Thread \ {t} : pc'[u] = pc[u]
      BY ZenonT(40), <1>0, <2>3 DEF Goto
    <3> QED BY Zenon, <2>3, <3>1 DEF NamesKept
  <2> QED BY Zenon, <2>1, <2>2, <2>3 DEF Get
<1>3. pc[t] \notin {"asynch", "unpin"} /\ pc'[t] \notin {"asynch", "unpin"}
  BY Zenon, <1>2
<1>4. \A e \in Entry, s \in Sector : Holds(e, s)' <=> Holds(e, s)
  BY Zenon, <1>1, <1>2, <1>3, HoldsKept
<1> QED BY Zenon, <1>1, <1>4, QuietStore

(* The steps that mark an entry clean before it is written. *)
LEMMA StartDumpStore ==
  ASSUME TypeOK, DirtyIsPresent, View, View', NEW t \in Thread, EvictDirty(t) \/ DumpDirty(t)
  PROVE  UNCHANGED StoreVars
<1>1. StartDump(t, "evict_write") \/ StartDump(t, "dump_write")
  BY Zenon DEF EvictDirty, DumpDirty
<1>2. /\ data' = data /\ disk' = disk /\ buffer' = buffer /\ op' = op /\ slot' = slot
      /\ pc[t] \in {"evict", "dump"}
  BY Zenon DEF EvictDirty, DumpDirty
<1>3. /\ NamesKept /\ pc'[t] \in {"evict_write", "dump_write"}
      /\ \A u \in Thread \ {t} : pc'[u] = pc[u] /\ info'[u] = info[u]
  <2>1. ASSUME NEW l, StartDump(t, l)
        PROVE  /\ NamesKept /\ pc'[t] = l
               /\ \A u \in Thread \ {t} : pc'[u] = pc[u] /\ info'[u] = info[u]
    BY ZenonT(40), <2>1, StartDumpEffect
  <2> QED BY Zenon, <1>1, <2>1
<1>4. pc[t] \notin {"asynch", "unpin"} /\ pc'[t] \notin {"asynch", "unpin"}
  BY <1>2, <1>3
<1>5. \A u \in Thread \ {t} : pc'[u] = pc[u] /\ slot'[u] = slot[u] /\ op'[u] = op[u]
  BY Zenon, <1>2, <1>3
<1>6. \A e \in Entry, s \in Sector : Holds(e, s)' <=> Holds(e, s)
  BY Zenon, <1>3, <1>4, <1>5, HoldsKept
<1> QED BY Zenon, <1>2, <1>6, QuietStore

(* The write of an entry changes the sector the entry holds. *)
LEMMA DumpWriteStore ==
  ASSUME TypeOK, SerialInv, ~panicked, View, View', NEW t \in Thread, DumpWrite(t)
  PROVE  UNCHANGED StoreVars
<1> DEFINE x == aux[slot[t]].sector_index
<1>1. /\ pc[t] = "dump_write" /\ disk' = [disk EXCEPT ![info[t].sector_index] = data[slot[t]]]
      /\ aux' = aux /\ data' = data /\ op' = op /\ buffer' = buffer
      /\ NextEntry(t) \/ UNCHANGED <<slot, pc>>
  BY Zenon DEF DumpWrite
<1>2. pc[t] \in Writing /\ Locked /\ Distinct
  BY Zenon, <1>1, Places DEF SerialInv
<1>3. /\ slot[t] \in Entry /\ aux[slot[t]].present /\ x \in Sector
      /\ \A s \in Sector \ {x} : disk'[s] = disk[s]
  BY Zenon, <1>1, <1>2, WriteEffect
<1>4. Holds(slot[t], x)
  BY Zenon, <1>3 DEF Holds
<1>5. NamesKept
  BY Zenon, <1>1 DEF NamesKept
<1>6. /\ pc'[t] \in {"dump", "sleep", "close", "dump_write"}
      /\ \A u \in Thread \ {t} : pc'[u] = pc[u] /\ slot'[u] = slot[u]
  BY Zenon, <1>1, NextEntryEffect
<1>7. pc[t] \notin {"asynch", "unpin"} /\ pc'[t] \notin {"asynch", "unpin"}
  BY <1>1, <1>6
<1>8. \A u \in Thread \ {t} : pc'[u] = pc[u] /\ slot'[u] = slot[u] /\ op'[u] = op[u]
  BY Zenon, <1>1, <1>6
<1>9. \A e \in Entry, s \in Sector : Holds(e, s)' <=> Holds(e, s)
  BY Zenon, <1>5, <1>7, <1>8, HoldsKept
<1> HIDE DEF x
<1>10. \A s \in Sector : (\A e \in Entry : ~Holds(e, s)) => disk'[s] = disk[s]
  BY Zenon, <1>3, <1>4
<1> QED BY Zenon, <1>1, <1>9, <1>10, QuietStore

(* The steps that only move on. *)
LEMMA MovesStore ==
  ASSUME TypeOK, View, View', NEW t \in Thread,
         DumpClean(t) \/ (DumperWakes /\ t = Dumper) \/ cache_close(t) \/ CloseStop(t)
  PROVE  UNCHANGED StoreVars
<1>1. aux' = aux /\ data' = data /\ disk' = disk /\ op' = op /\ buffer' = buffer
  BY Zenon DEF DumpClean, DumperWakes, cache_close, CloseStop, localVars
<1>2. /\ pc[t] \in {"dump", "sleep", "idle", "close"}
      /\ pc'[t] \in {"dump", "sleep", "close", "free"}
      /\ \A u \in Thread \ {t} : pc'[u] = pc[u] /\ slot'[u] = slot[u]
  <2>0. pc \in [Thread -> Labels]
    BY Zenon DEF TypeOK
  <2>1. CASE DumpClean(t)
    <3>1. pc[t] = "dump" /\ (NextEntry(t) \/ UNCHANGED <<slot, pc>>)
      BY Zenon, <2>1 DEF DumpClean
    <3> QED BY Zenon, <3>1, NextEntryEffect
  <2>2. CASE DumperWakes /\ t = Dumper
    <3>1. /\ pc[t] = "sleep" /\ slot' = slot
          /\ pc' = pc \/ pc' = [pc EXCEPT ![t] = "dump"]
      BY Zenon, <2>2 DEF DumperWakes, LeaveLoop, Goto, localVars
    <3> QED BY Zenon, <2>0, <3>1
  <2>3. CASE cache_close(t) \/ CloseStop(t)
    <3>1. /\ pc[t] \in {"idle", "close"} /\ slot' = slot
          /\ pc' = [pc EXCEPT ![t] = "dump"] \/ pc' = [pc EXCEPT ![t] = "free"]
      BY Zenon, <2>3 DEF cache_close, CloseStop, Goto, localVars
    <3> QED BY Zenon, <2>0, <3>1
  <2> QED BY Zenon, <2>1, <2>2, <2>3
<1>3. pc[t] \notin {"asynch", "unpin"} /\ pc'[t] \notin {"asynch", "unpin"}
  BY <1>2
<1>4. NamesKept /\ \A u \in Thread \ {t} : pc'[u] = pc[u] /\ slot'[u] = slot[u] /\ op'[u] = op[u]
  BY Zenon, <1>1, <1>2 DEF NamesKept
<1>5. \A e \in Entry, s \in Sector : Holds(e, s)' <=> Holds(e, s)
  BY Zenon, <1>3, <1>4, HoldsKept
<1> QED BY Zenon, <1>1, <1>5, QuietStore

(* The entry holds the sector, by its name or in the operation of thread t. *)
HoldsFor(t, e, s) ==
  \/ aux[e].present /\ aux[e].sector_index = s
  \/ pc[t] \in {"asynch", "unpin"} /\ slot[t] = e /\ op[t].sector = s

(* With one client, it is that client's operation that may hold a sector. *)
LEMMA HeldByOne ==
  ASSUME OneClient, Roles, Roles', NEW t \in Client, NEW e \in Entry, NEW s \in Sector
  PROVE  (Holds(e, s) <=> HoldsFor(t, e, s)) /\ (Holds(e, s)' <=> HoldsFor(t, e, s)')
<1>1. t \in Thread
  BY Zenon, Members
<1>2. \A u \in Thread : pc[u] \in {"asynch", "unpin"} => u = t
  <2>1. pc[ReadAhead] \notin {"asynch", "unpin"} /\ pc[Dumper] \notin {"asynch", "unpin"}
    BY DEF Roles
  <2> QED BY Zenon, <2>1 DEF OneClient, Thread
<1>3. \A u \in Thread : pc'[u] \in {"asynch", "unpin"} => u = t
  <2>1. pc'[ReadAhead] \notin {"asynch", "unpin"} /\ pc'[Dumper] \notin {"asynch", "unpin"}
    BY DEF Roles
  <2> QED BY Zenon, <2>1 DEF OneClient, Thread
<1> QED BY Zenon, <1>1, <1>2, <1>3 DEF Holds, HoldsFor

(* The load of a sector fills an entry that holds none. *)
LEMMA FillStore ==
  ASSUME TypeOK, SerialInv, OneClient, View, View', NEW t \in Client, Fill(t)
  PROVE  UNCHANGED StoreVars
<1>0. t \in Thread /\ pc[t] = "fill" /\ OwnOf(t) /\ slot[t] \in Entry
  BY Zenon, Members DEF Fill, SerialInv, Own, TypeOK
<1>1. op[t].sector \in Sector /\ ~aux[slot[t]].present
  <2>1. pc[t] \in Busy \cup Victim /\ pc[t] \in {"fill", "copy"}
    BY Zenon, <1>0, Places
  <2> QED BY Zenon, <1>0, <2>1 DEF OwnOf
<1>2. /\ pc'[t] = "copy" /\ \A u \in Thread \ {t} : pc'[u] = pc[u] /\ info'[u] = info[u]
      /\ \A f \in Entry \ {slot[t]} : data'[f] = data[f]
      /\ UNCHANGED <<aux, disk, s_lock, op, slot, buffer, panicked>>
  BY Zenon, <1>0, <1>1, FillEffect
<1>3. aux' = aux /\ disk' = disk /\ op' = op /\ slot' = slot /\ buffer' = buffer
  BY ZenonT(40), <1>2
<1>4. pc[t] \notin {"asynch", "unpin"} /\ pc'[t] \notin {"asynch", "unpin"}
  BY Zenon, <1>0, <1>2
<1>5. NamesKept /\ \A u \in Thread \ {t} : pc'[u] = pc[u] /\ slot'[u] = slot[u] /\ op'[u] = op[u]
  BY Zenon, <1>2, <1>3 DEF NamesKept
<1>6. \A e \in Entry, s \in Sector : Holds(e, s)' <=> Holds(e, s)
  BY Zenon, <1>0, <1>4, <1>5, HoldsKept
<1>7. \A s : ~Holds(slot[t], s)
  <2>1. \A u \in Thread : pc[u] \in {"asynch", "unpin"} => u = t
    <3>1. pc[ReadAhead] \notin {"asynch", "unpin"} /\ pc[Dumper] \notin {"asynch", "unpin"}
      BY DEF SerialInv, Roles
    <3> QED BY Zenon, <3>1 DEF OneClient, Thread
  <2> QED BY Zenon, <1>1, <1>4, <2>1 DEF Holds
<1>8. \A e \in Entry, s \in Sector : Holds(e, s) => data'[e] = data[e]
  BY Zenon, <1>2, <1>7
<1> QED BY Zenon, <1>3, <1>6, <1>8, QuietStore

(* The victim's sector goes back to the disk, which has what the entry had. *)
LEMMA EvictStore ==
  ASSUME TypeOK, SerialInv, SerialInv', OneClient, ~panicked, View, View', NEW t \in Client,
         EvictWrite(t) \/ EvictClean(t)
  PROVE  UNCHANGED StoreVars
<1> DEFINE e == slot[t]
           x == aux[e].sector_index
<1>0. /\ t \in Thread /\ e \in Entry /\ Evicted(t, aux[e]) /\ data' = data /\ buffer' = buffer
      /\ pc[t] \in Victim
  BY Zenon, Members DEF EvictWrite, EvictClean, TypeOK, Victim
<1>1. /\ ~aux'[e].present /\ \A f \in Entry \ {e} : aux'[f] = aux[f]
      /\ pc'[t] = "fill" \/ (panicked' /\ pc'[t] = pc[t])
  BY Zenon, <1>0, EvictedEffect
<1>2. Roles /\ Roles' /\ Locked /\ Distinct /\ Clean
  BY Zenon DEF SerialInv
<1>3. pc[t] \notin Busy /\ pc[t] \notin {"asynch", "unpin"} /\ pc'[t] \notin {"asynch", "unpin"}
  <2>1. pc'[t] \in Victim \cup {"fill"}
    BY Zenon, <1>0, <1>1
  <2> QED BY <1>0, <2>1 DEF Victim, Busy, Using
<1>4. /\ aux[e].present => disk'[x] = data[e]
      /\ \A s \in Sector : ~(aux[e].present /\ x = s) => disk'[s] = disk[s]
  <2>1. CASE EvictWrite(t)
    <3>1. pc[t] \in Writing /\ disk' = [disk EXCEPT ![info[t].sector_index] = data[slot[t]]]
      BY Zenon, <2>1, Places DEF EvictWrite
    <3>2. /\ aux[slot[t]].present /\ disk'[aux[slot[t]].sector_index] = data[slot[t]]
          /\ \A s \in Sector \ {aux[slot[t]].sector_index} : disk'[s] = disk[s]
      BY Zenon, <1>0, <1>2, <3>1, WriteEffect
    <3> QED BY Zenon, <3>2
  <2>2. CASE EvictClean(t)
    <3>1. disk' = disk /\ ~aux[e].dirty /\ s_lock[e] = NULL
      BY Zenon, <2>2 DEF EvictClean
    <3>2. ~InUse(e)
      BY Zenon, <1>3, OneStep
    <3> QED BY Zenon, <1>0, <1>2, <3>1, <3>2 DEF Clean, CleanEntry
  <2> QED BY Zenon, <2>1, <2>2
<1> HIDE DEF x
<1> HIDE DEF e
<1>5. \A f \in Entry, s \in Sector : /\ Holds(f, s) <=> aux[f].present /\ aux[f].sector_index = s
                                     /\ Holds(f, s)' <=> aux'[f].present /\ aux'[f].sector_index = s
  <2>1. ASSUME NEW f \in Entry, NEW s \in Sector
        PROVE  /\ Holds(f, s) <=> aux[f].present /\ aux[f].sector_index = s
               /\ Holds(f, s)' <=> aux'[f].present /\ aux'[f].sector_index = s
    <3>1. (Holds(f, s) <=> HoldsFor(t, f, s)) /\ (Holds(f, s)' <=> HoldsFor(t, f, s)')
      BY Zenon, <1>2, HeldByOne
    <3> QED BY Zenon, <1>3, <3>1 DEF HoldsFor
  <2> QED BY Zenon, <2>1
<1>6. \A f \in Entry \ {e}, s \in Sector : Holds(f, s)' <=> Holds(f, s)
  BY Zenon, <1>1, <1>5
<1>7. \A s \in Sector, f \in Entry : f = e => ~Holds(f, s)'
  BY Zenon, <1>1, <1>5
<1>8. ASSUME NEW s \in Sector PROVE Contents(s)' = Contents(s)
  <2>1. CASE aux[e].present /\ x = s
    <3>1. Holds(e, s)
      BY Zenon, <1>0, <1>5, <2>1 DEF x
    <3>2. \A f \in Entry : Holds(f, s) => f = e
      <4>1. aux[e].present /\ aux[e].sector_index = s
        BY Zenon, <1>0, <1>5, <3>1
      <4>2. ASSUME NEW f \in Entry, Holds(f, s) PROVE f = e
        <5>1. aux[f].present /\ aux[f].sector_index = s
          BY Zenon, <1>5, <4>2
        <5> QED BY Zenon, <1>0, <1>2, <4>1, <5>1 DEF Distinct
      <4> QED BY Zenon, <4>2
    <3>3. \A f \in Entry : ~Holds(f, s)'
      BY Zenon, <1>6, <1>7, <3>2
    <3>4. Contents(s) = data[e]
      BY Zenon, <1>0, <3>1 DEF View
    <3>5. Contents(s)' = disk'[s]
      BY Zenon, <3>3 DEF View
    <3> QED BY Zenon, <1>4, <2>1, <3>4, <3>5
  <2>2. CASE ~(aux[e].present /\ x = s)
    <3>1. ~Holds(e, s) /\ disk'[s] = disk[s]
      BY Zenon, <1>0, <1>4, <1>5, <2>2 DEF x
    <3>2. \A f \in Entry : Holds(f, s)' <=> Holds(f, s)
      BY Zenon, <1>6, <1>7, <3>1
    <3>3. ASSUME NEW f \in Entry, Holds(f, s) PROVE Contents(s)' = Contents(s)
      <4>1. Holds(f, s)'
        BY Zenon, <3>2, <3>3
      <4>2. Contents(s) = data[f] /\ Contents(s)' = data'[f]
        BY Zenon, <3>3, <4>1 DEF View
      <4> QED BY Zenon, <1>0, <4>2
    <3>4. ASSUME \A f \in Entry : ~Holds(f, s) PROVE Contents(s)' = Contents(s)
      <4>1. \A f \in Entry : ~Holds(f, s)'
        BY Zenon, <3>2, <3>4
      <4>2. Contents(s) = disk[s] /\ Contents(s)' = disk'[s]
        BY Zenon, <3>4, <4>1 DEF View
      <4> QED BY Zenon, <3>1, <4>2
    <3> QED BY Zenon, <3>3, <3>4
  <2> QED BY Zenon, <2>1, <2>2
<1> QED BY Zenon, <1>0, <1>8, SameStore
(* The request for the next sector moves none. *)
LEMMA AsynchStore ==
  ASSUME TypeOK, SerialInv, SerialInv', OneClient, View, View', NEW t \in Client, Asynch(t)
  PROVE  UNCHANGED StoreVars
<1>0. t \in Thread /\ Roles /\ Roles'
  BY Zenon, Members DEF SerialInv
<1>1. /\ aux' = aux /\ data' = data /\ disk' = disk /\ op' = op /\ slot' = slot /\ buffer' = buffer
      /\ pc[t] = "asynch" /\ (pc' = pc \/ pc' = [pc EXCEPT ![t] = "unpin"])
  BY Zenon DEF Asynch, Goto, localVars
<1>2. pc'[t] \in {"asynch", "unpin"}
  BY Zenon, <1>0, <1>1 DEF TypeOK
<1>3. ASSUME NEW e \in Entry, NEW s \in Sector PROVE Holds(e, s)' <=> Holds(e, s)
  <2>1. (Holds(e, s) <=> HoldsFor(t, e, s)) /\ (Holds(e, s)' <=> HoldsFor(t, e, s)')
    BY Zenon, <1>0, HeldByOne
  <2>2. HoldsFor(t, e, s)' <=> HoldsFor(t, e, s)
    BY Zenon, <1>1, <1>2 DEF HoldsFor
  <2> QED BY Zenon, <2>1, <2>2
<1> QED BY Zenon, <1>1, <1>3, QuietStore

(* At the end of the operation the entry holds the sector by its name. *)
LEMMA UnpinStore ==
  ASSUME TypeOK, PresentInv, SerialInv, SerialInv', OneClient, View, View', NEW t \in Client, Unpin(t)
  PROVE  UNCHANGED StoreVars
<1>0. /\ t \in Thread /\ slot[t] \in Entry /\ Roles /\ Roles' /\ OwnOf(t) /\ pc[t] = "unpin"
      /\ data' = data /\ disk' = disk /\ buffer' = buffer
  BY Zenon, Members DEF SerialInv, Own, Unpin, TypeOK
<1>1. pc[t] \in Using
  BY Zenon, <1>0, Places
<1>2. /\ info[t].sector_index = op[t].sector
      /\ aux[slot[t]].present => aux[slot[t]].sector_index = op[t].sector
  BY Zenon, <1>0, <1>1 DEF OwnOf
<1>3. ASSUME NEW e \in Entry, NEW s \in Sector PROVE HoldsFor(t, e, s)' <=> HoldsFor(t, e, s)
  <2>1. CASE aux[slot[t]].pinned = 0
    <3>1. aux' = aux /\ pc' = pc /\ slot' = slot /\ op' = op
      BY Zenon, <2>1 DEF Unpin, localVars
    <3> QED BY Zenon, <3>1 DEF HoldsFor
  <2>2. CASE aux[slot[t]].pinned # 0
    <3>1. /\ pc'[t] = "idle" /\ slot'[t] = 0
          /\ aux'[slot[t]].present /\ aux'[slot[t]].sector_index = info[t].sector_index
          /\ aux'[slot[t]].dirty <=> info[t].dirty
          /\ \A f \in Entry \ {slot[t]} : aux'[f] = aux[f]
      BY ZenonT(40), <2>2, UnpinEffect
    <3>2. pc'[t] \notin {"asynch", "unpin"}
      BY <3>1
    <3>3. HoldsFor(t, e, s)' <=> aux'[e].present /\ aux'[e].sector_index = s
      BY Zenon, <3>2 DEF HoldsFor
    <3>4. CASE e = slot[t]
      <4>1. HoldsFor(t, e, s) <=> op[t].sector = s
        BY Zenon, <1>0, <1>2, <3>4 DEF HoldsFor
      <4> QED BY Zenon, <1>2, <3>1, <3>3, <3>4, <4>1
    <3>5. CASE e # slot[t]
      <4>1. HoldsFor(t, e, s) <=> aux[e].present /\ aux[e].sector_index = s
        BY Zenon, <3>5 DEF HoldsFor
      <4> QED BY Zenon, <3>1, <3>3, <3>5, <4>1
    <3> QED BY Zenon, <3>4, <3>5
  <2> QED BY Zenon, <2>1, <2>2
<1>4. ASSUME NEW e \in Entry, NEW s \in Sector PROVE Holds(e, s)' <=> Holds(e, s)
  <2>1. (Holds(e, s) <=> HoldsFor(t, e, s)) /\ (Holds(e, s)' <=> HoldsFor(t, e, s)')
    BY Zenon, <1>0, HeldByOne
  <2> QED BY Zenon, <1>3, <2>1
<1> QED BY Zenon, <1>0, <1>4, QuietStore

(* cache_close frees the entries when the disk has all they hold. *)
LEMMA CloseFreeStore ==
  ASSUME TypeOK, SerialInv, SerialInv', OneClient, View, View', NEW t \in Client, CloseFree(t)
  PROVE  UNCHANGED StoreVars
<1>0. /\ t \in Thread /\ Roles /\ Roles' /\ ClosingOf(t) /\ Clean /\ pc[t] = "free"
      /\ disk' = disk /\ buffer' = buffer
  BY Zenon, Members DEF SerialInv, Closing, CloseFree
<1>1. /\ pc'[t] = "closed" /\ \A e \in Entry : ~aux'[e].present
  <2>1. ~ZeroAux.present
    BY Zenon DEF ZeroAux
  <2>2. pc' = [pc EXCEPT ![t] = "closed"] /\ aux' = [e \in Entry |-> ZeroAux]
    BY ZenonT(40) DEF CloseFree, Goto
  <2> QED BY Zenon, <1>0, <2>1, <2>2 DEF TypeOK
<1>2. /\ pc[t] \notin {"asynch", "unpin"} /\ pc'[t] \notin {"asynch", "unpin"}
      /\ pc[t] \in {"close", "free"}
  BY <1>0, <1>1
<1>3. ASSUME NEW s \in Sector PROVE Contents(s)' = Contents(s)
  <2>1. \A e \in Entry : /\ Holds(e, s) <=> HoldsFor(t, e, s)
                         /\ Holds(e, s)' <=> HoldsFor(t, e, s)'
    BY Zenon, <1>0, HeldByOne
  <2>2. \A e \in Entry : ~Holds(e, s)'
    BY Zenon, <1>1, <1>2, <2>1 DEF HoldsFor
  <2>3. Contents(s)' = disk'[s]
    BY Zenon, <2>2 DEF View
  <2>4. ASSUME NEW e \in Entry, Holds(e, s) PROVE Contents(s) = disk[s]
    <3>1. aux[e].present /\ aux[e].sector_index = s
      BY Zenon, <1>2, <2>1, <2>4 DEF HoldsFor
    <3>2. ~aux[e].dirty /\ s_lock[e] = NULL
      BY Zenon, <1>0, <1>2 DEF ClosingOf
    <3>3. ~InUse(e)
      BY Zenon, <1>2, OneStep, Places
    <3>4. data[e] = disk[s]
      BY Zenon, <1>0, <3>1, <3>2, <3>3 DEF Clean, CleanEntry
    <3>5. Contents(s) = data[e]
      BY Zenon, <2>4 DEF View
    <3> QED BY Zenon, <3>4, <3>5
  <2>5. (\A e \in Entry : ~Holds(e, s)) => Contents(s) = disk[s]
    BY Zenon DEF View
  <2> QED BY Zenon, <1>0, <2>3, <2>4, <2>5
<1> QED BY Zenon, <1>0, <1>3, SameStore

(* The copy is the read, or the write. *)
LEMMA CopyStore ==
  ASSUME TypeOK, SerialInv, SerialInv', OneClient, View, View', NEW t \in Client, Copy(t)
  PROVE  Store!Next
<1> DEFINE e == slot[t]
           x == op[t].sector
<1>0. /\ t \in Thread /\ e \in Entry /\ pc[t] \in {"hit", "copy"}
      /\ Roles /\ Roles' /\ OwnOf(t) /\ CopiedOf(t) /\ Locked
  BY Zenon, Members DEF Copy, SerialInv, Own, Copied, TypeOK
<1>1. pc[t] \in Using /\ pc[t] \in Busy /\ pc[t] # "closed"
  BY Zenon, <1>0, Places
<1>2. s_lock[slot[t]] # FREED
  BY Zenon, <1>0, <1>1 DEF Locked, Freed
<1>3. /\ pc'[t] \in {"asynch", "unpin"}
      /\ ~op[t].write => /\ data' = data
                         /\ buffer' = [buffer EXCEPT ![t] = data[e][op[t].offset]]
      /\ op[t].write => /\ data'[e] = [data[e] EXCEPT ![op[t].offset] = op[t].val]
                        /\ buffer' = buffer
      /\ \A f \in Entry \ {e} : data'[f] = data[f]
      /\ UNCHANGED <<aux, disk, s_lock, op, slot, panicked>>
  BY Zenon, <1>0, <1>2, CopyEffect
<1>4. aux' = aux /\ disk' = disk /\ op' = op /\ slot' = slot
  BY Zenon, <1>3
<1>5. /\ x \in Sector /\ (op[t].write => op[t].val \in Val)
      /\ aux[e].present => aux[e].sector_index = x
      /\ \A f \in Entry : aux[f].present /\ aux[f].sector_index = x => f = e
      /\ pc[t] = "copy" => ~aux[e].present /\ data[e] = disk[x]
      /\ pc[t] = "hit" => aux[e].present
  BY Zenon, <1>0, <1>1 DEF OwnOf, CopiedOf
<1>6. op[t].offset \in Offset
  <2>1. op[t] \in Op
    BY ZenonT(40), <1>0 DEF TypeOK
  <2> QED BY Zenon, <2>1 DEF Op
<1>7. pc[t] \notin {"asynch", "unpin"}
  BY <1>0
<1>8. e = slot[t] /\ x = op[t].sector
  BY Zenon
<1> HIDE DEF e, x
<1>9. ASSUME NEW f \in Entry, NEW s \in Sector
      PROVE  /\ Holds(f, s) <=> aux[f].present /\ aux[f].sector_index = s
             /\ Holds(f, s)' <=> \/ aux[f].present /\ aux[f].sector_index = s
                                 \/ f = e /\ s = x
  <2>1. (Holds(f, s) <=> HoldsFor(t, f, s)) /\ (Holds(f, s)' <=> HoldsFor(t, f, s)')
    BY Zenon, <1>0, HeldByOne
  <2> QED BY Zenon, <1>3, <1>4, <1>7, <1>8, <2>1 DEF HoldsFor
<1>10. ASSUME NEW s \in Sector, s = x PROVE Contents(s) = data[e] /\ Contents(s)' = data'[e]
  <2>1. \A f \in Entry : f = e => Holds(f, s)'
    BY Zenon, <1>9, <1>10
  <2>2. \A f \in Entry : f = e => Contents(s)' = data'[f]
    BY Zenon, <2>1 DEF View
  <2>3. CASE pc[t] = "hit"
    <3>1. Holds(e, s)
      BY Zenon, <1>0, <1>5, <1>9, <1>10, <2>3
    <3>2. Contents(s) = data[e]
      BY Zenon, <1>0, <3>1 DEF View
    <3> QED BY Zenon, <1>0, <2>2, <3>2
  <2>4. CASE pc[t] = "copy"
    <3>1. \A f \in Entry : ~Holds(f, s)
      BY Zenon, <1>5, <1>9, <1>10, <2>4
    <3>2. Contents(s) = disk[s]
      BY Zenon, <3>1 DEF View
    <3> QED BY Zenon, <1>0, <1>5, <1>10, <2>2, <2>4, <3>2
  <2> QED BY Zenon, <1>0, <2>3, <2>4
<1>11. ASSUME NEW s \in Sector, s # x PROVE Contents(s)' = Contents(s)
  <2>1. ASSUME NEW f \in Entry, Holds(f, s) PROVE Contents(s)' = Contents(s)
    <3>1. Holds(f, s)' /\ f # e
      BY Zenon, <1>5, <1>9, <1>11, <2>1
    <3>2. Contents(s) = data[f] /\ Contents(s)' = data'[f]
      BY Zenon, <2>1, <3>1 DEF View
    <3> QED BY Zenon, <1>3, <3>1, <3>2
  <2>2. ASSUME \A f \in Entry : ~Holds(f, s) PROVE Contents(s)' = Contents(s)
    <3>1. \A f \in Entry : ~Holds(f, s)'
      BY Zenon, <1>9, <1>11, <2>2
    <3>2. Contents(s) = disk[s] /\ Contents(s)' = disk'[s]
      BY Zenon, <2>2, <3>1 DEF View
    <3> QED BY Zenon, <1>4, <3>2
  <2> QED BY Zenon, <2>1, <2>2
<1> DEFINE c == [s \in Sector |-> Contents(s)]
           b == [u \in Client |-> buffer[u]]
<1>12. CASE ~op[t].write
  <2>1. c' = c
    <3>1. \A s \in Sector : Contents(s)' = Contents(s)
      BY Zenon, <1>3, <1>10, <1>11, <1>12
    <3> QED BY Zenon, <3>1
  <2>2. b' = [b EXCEPT ![t] = c[x][op[t].offset]]
    <3>1. c[x] = data[e]
      BY Zenon, <1>5, <1>10
    <3>2. buffer' = [buffer EXCEPT ![t] = data[e][op[t].offset]] /\ buffer \in [Thread -> Byte]
      BY Zenon, <1>3, <1>12 DEF TypeOK
    <3>3. b' = [u \in Client |-> buffer'[u]]
      BY Zenon
    <3> QED BY Zenon, <1>0, <3>1, <3>2, <3>3, Members
  <2>3. ASSUME NEW s \in Sector, NEW o \in Offset, s = x, o = op[t].offset PROVE Store!Read(t, s, o)
    BY Zenon, <2>1, <2>2, <2>3 DEF Store!Read
  <2> QED BY Zenon, <1>5, <1>6, <2>3 DEF Store!Next
<1>13. CASE op[t].write
  <2>1. b' = b
    BY Zenon, <1>3, <1>13
  <2>2. c' = [c EXCEPT ![x][op[t].offset] = op[t].val]
    <3> DEFINE d == [c[x] EXCEPT ![op[t].offset] = op[t].val]
    <3>1. c' = [s \in Sector |-> Contents(s)']
      BY Zenon
    <3>2. \A s \in Sector : s = x => Contents(s)' = d
      BY Zenon, <1>3, <1>10, <1>13
    <3>3. \A s \in Sector : s # x => Contents(s)' = Contents(s)
      BY Zenon, <1>11
    <3> QED BY Zenon, <1>5, <3>1, <3>2, <3>3
  <2>3. Store!Write(x, op[t].offset, op[t].val)
    BY Zenon, <2>1, <2>2 DEF Store!Write
  <2> QED BY Zenon, <1>5, <1>6, <1>13, <2>3 DEF Store!Next
<1> QED BY Zenon, <1>12, <1>13
(* Every step of the cache is a step of the store, or leaves it alone. *)
LEMMA NextStore ==
  ASSUME OneClient, ReadAhead \notin Scheduled, TypeOK, PresentInv, SerialInv, SerialInv',
         View, View', [Next]_vars
  PROVE  [Store!Next]_StoreVars
<1>0. DirtyIsPresent /\ Client \subseteq Thread /\ Dumper \in Thread
  BY Zenon, Members DEF PresentInv
<1>1. CASE UNCHANGED vars
  <2>1. /\ aux' = aux /\ data' = data /\ disk' = disk /\ op' = op /\ slot' = slot /\ pc' = pc
        /\ buffer' = buffer
    BY <1>1 DEF vars, localVars
  <2>2. \A e \in Entry, s \in Sector : Holds(e, s)' <=> Holds(e, s)
    BY Zenon, <2>1 DEF Holds
  <2>3. UNCHANGED StoreVars
    BY Zenon, <2>1, <2>2, QuietStore
  <2> QED BY Zenon, <2>3
<1>2. ASSUME NEW t \in Client, Call(t) PROVE UNCHANGED StoreVars
  <2>1. ASSUME NEW s \in Sector, NEW o \in Offset, cache_read(t, s, o) PROVE UNCHANGED StoreVars
    BY Zenon, <1>0, <2>1, GetStore DEF cache_read
  <2>2. ASSUME NEW s \in Sector, NEW o \in Offset, NEW v \in Val, cache_write(t, s, o, v)
        PROVE  UNCHANGED StoreVars
    BY Zenon, <1>0, <2>2, GetStore DEF cache_write
  <2>3. CASE cache_close(t)
    BY Zenon, <1>0, <2>3, MovesStore
  <2> QED BY Zenon, <1>2, <2>1, <2>2, <2>3 DEF Call
<1>3. ASSUME NEW t \in Thread, ~panicked, cache_dump_all(t) PROVE UNCHANGED StoreVars
  BY Zenon, <1>0, <1>3, StartDumpStore, DumpWriteStore, MovesStore DEF cache_dump_all
<1>4. ASSUME NEW t \in Client, Continue(t) PROVE [Store!Next]_StoreVars
  <2>0. ~panicked /\ t \in Thread
    BY Zenon, <1>0, <1>4 DEF Continue
  <2>1. EvictDirty(t) => UNCHANGED StoreVars
    BY Zenon, <1>0, <2>0, StartDumpStore
  <2>2. EvictWrite(t) \/ EvictClean(t) => UNCHANGED StoreVars
    BY Zenon, <2>0, EvictStore
  <2>3. Fill(t) \/ Asynch(t) \/ Unpin(t) => UNCHANGED StoreVars
    BY Zenon, FillStore, AsynchStore, UnpinStore
  <2>4. Copy(t) => Store!Next
    BY Zenon, CopyStore
  <2>5. CloseStop(t) \/ CloseFree(t) => UNCHANGED StoreVars
    BY Zenon, <2>0, MovesStore, CloseFreeStore
  <2>6. cache_dump_all(t) => UNCHANGED StoreVars
    BY Zenon, <1>3, <2>0
  <2>7. Access(t) \/ cache_dump_all(t) \/ CloseStop(t) \/ CloseFree(t)
    BY Zenon, <1>4 DEF Continue
  <2> QED BY Zenon, <2>1, <2>2, <2>3, <2>4, <2>5, <2>6, <2>7 DEF Access
<1>5. CASE Dump
  <2>1. UNCHANGED StoreVars
    BY Zenon, <1>0, <1>3, <1>5, MovesStore DEF Dump
  <2> QED BY Zenon, <2>1
<1> QED BY Zenon, <1>1, <1>2, <1>4, <1>5 DEF Next

(* The cache is empty, and the disk has the old contents. *)
LEMMA InitStore == Init => Store!Init
<1> SUFFICES ASSUME Init PROVE Store!Init
  BY Zenon
<1>1. ASSUME NEW s \in Sector PROVE Contents(s) = [o \in Offset |-> Old]
  <2>1. ~ZeroAux.present
    BY Zenon DEF ZeroAux
  <2>2. \A e \in Entry : ~aux[e].present
    BY Zenon, <2>1 DEF Init
  <2>3. \A u \in Thread : pc[u] \in {"sleep", "down", "idle"}
    BY Zenon DEF Init
  <2>4. \A u \in Thread : pc[u] \notin {"asynch", "unpin"}
    BY <2>3
  <2>5. \A e \in Entry : ~Holds(e, s)
    BY Zenon, <2>2, <2>4 DEF Holds
  <2> QED BY Zenon, <2>5 DEF Contents, Init
<1>2. [s \in Sector |-> Contents(s)] = [s \in Sector |-> [o \in Offset |-> Old]]
  BY Zenon, <1>1
<1>3. [t \in Client |-> buffer[t]] = [t \in Client |-> Zero]
  BY Zenon, Members DEF Init
<1> QED BY Zenon, <1>2, <1>3 DEF Store!Init

(* The cache implements BlockStore for one client, for any number of       *)
(* entries and sectors, while the dump thread runs and up to the end of    *)
(* cache_close: a read returns what was written last, and only the copy    *)
(* of a write changes what a sector holds.                                 *)
THEOREM CacheImplements ==
  ASSUME OneClient, ReadAhead \notin Scheduled
  PROVE  Spec => Implements
<1>1. Init => PresentInv /\ SerialInv
  BY Zenon, InitPresent, InitSerial
<1>2. TypeOK /\ PresentInv /\ SerialInv /\ [Next]_vars => PresentInv' /\ SerialInv'
  BY Zenon, NextPresent, NextSerial
<1>3. SerialInv => View
  BY Zenon, Viewed
<1>4. TypeOK /\ PresentInv /\ SerialInv /\ SerialInv' /\ View /\ View' /\ [Next]_vars
        => [Store!Next]_StoreVars
  BY Zenon, NextStore
<1>5. [Store!Next]_StoreVars
        => [Store!Next]_<<[s \in Sector |-> Contents(s)], [t \in Client |-> buffer[t]]>>
  BY Zenon DEF StoreVars
<1> QED
  BY <1>1, <1>2, <1>3, <1>4, <1>5, InitStore, TypeCorrect, PTL DEF Spec, Implements, Store!Spec
============================================================================
