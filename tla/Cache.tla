------------------------------- MODULE Cache -------------------------------
(***************************************************************************)
(* The buffer cache (filesys/cache.c): threads read and write sectors      *)
(* through a small table of entries, a dump thread writes dirty entries to *)
(* the disk periodically, and a read-ahead thread reads the sector after   *)
(* each one that was read from the disk.                                   *)
(*                                                                         *)
(* An operation pins its entry under ss_lock, works on a copy of the       *)
(* entry's bookkeeping (info) with ss_lock released, and writes the copy   *)
(* back when it unpins.  The data of an entry is copied under the entry's  *)
(* s_lock, but is filled from the disk under no lock.  A step here is a    *)
(* section of that code under one lock, or one transfer of the disk.       *)
(***************************************************************************)
EXTENDS Integers, Sequences

CONSTANTS
  Client,       \* the threads that use the cache
  Dumper,       \* cache_dump_t
  ReadAhead,    \* cache_rh_t
  Scheduled,    \* which of these two the scheduler runs
  NULL, FREED,
  CACHE_SIZE,   \* CACHE_SIZE_IN_SECTORS
  SECTORS,      \* sectors of the device
  Offset,       \* the parts of a sector that are read
  Writable,     \* those that are written
  Byte,         \* what a part of a sector may hold
  Val,          \* the values that are written
  Zero,         \* the value memory starts with
  Old,          \* the value the disk starts with
  CanClose,     \* whether cache_close is called
  MaxRequests   \* bound: pending read-ahead requests; others are not queued

Entry == 0..(CACHE_SIZE - 1)

Sector == 0..(SECTORS - 1)

Thread == Client \cup {Dumper, ReadAhead}

ASSUME CacheAssumption ==
  /\ CACHE_SIZE \in Nat \ {0} /\ SECTORS \in Nat \ {0}
  /\ CanClose \in BOOLEAN /\ MaxRequests \in Nat
  /\ Scheduled \subseteq {Dumper, ReadAhead} /\ Dumper # ReadAhead
  /\ Dumper \notin Client /\ ReadAhead \notin Client
  /\ NULL \notin Thread /\ FREED \notin Thread /\ NULL # FREED
  /\ Offset # {} /\ Writable \subseteq Offset
  /\ Val \subseteq Byte /\ Zero \in Byte /\ Old \in Byte

VARIABLES
  aux,        \* cache_aux: what each entry holds
  data,       \* the data of each entry
  disk,       \* the data of each sector of fs_device
  ss_lock,    \* the holder of ss_lock
  s_lock,     \* the holder of each entry's lock; FREED after cache_close
  gReadAheadLock, gReadAheadList,
  gReadAheadWakeUpSema,
  gIsCacheThreadRunning,
  pc,         \* where each thread is
  op,         \* the operation it carries out
  slot,       \* sdataIndex, or the entry being dumped
  info,       \* its copy of the entry's bookkeeping
  buffer,     \* the caller's buffer
  panicked    \* an assertion failed

locks == <<ss_lock, s_lock>>
aheadVars == <<gReadAheadLock, gReadAheadList, gReadAheadWakeUpSema>>
localVars == <<op, slot, info>>
vars == <<aux, data, disk, locks, aheadVars, gIsCacheThreadRunning, pc,
          localVars, buffer, panicked>>

(* memset of a sector_supl_t. *)
ZeroAux ==
  [present |-> FALSE, accessed |-> FALSE, dirty |-> FALSE, pinned |-> 0,
   sector_index |-> 0]

(* cache_init: the two threads are there, and have not run. *)
Init ==
  /\ aux = [e \in Entry |-> ZeroAux]
  /\ disk = [s \in Sector |-> [o \in Offset |-> Old]]
  /\ data = [e \in Entry |-> [o \in Offset |-> Zero]]
  /\ ss_lock = NULL /\ s_lock = [e \in Entry |-> NULL]
  /\ gReadAheadLock = NULL /\ gReadAheadList = <<>>
  /\ gReadAheadWakeUpSema = 0
  /\ gIsCacheThreadRunning = TRUE
  /\ pc = [t \in Thread |-> IF t = Dumper THEN "sleep"
                            ELSE IF t = ReadAhead THEN "down" ELSE "idle"]
  /\ op = [t \in Thread |-> NULL]
  /\ slot = [t \in Thread |-> 0]
  /\ info = [t \in Thread |-> ZeroAux]
  /\ buffer = [t \in Thread |-> Zero]
  /\ panicked = FALSE

Goto(t, l) == pc' = [pc EXCEPT ![t] = l]

(* A thread fails an assertion. *)
Panic == panicked' = TRUE
----------------------------------------------------------------------------
(* Finding an entry.                                                       *)

(* The first entry with the sector's number, whether present or not. *)
Lookup(e, s) ==
  /\ aux[e].sector_index = s
  /\ \A i \in Entry : i < e => aux[i].sector_index # s

Least(e, E) == e \in E /\ \A i \in E : e <= i

(* cache_lru: an entry that is not present, or the first one of the clock  *)
(* that is neither pinned nor accessed; those it passes lose their         *)
(* accessed bit.  gLruCursor stays 0.                                      *)
cache_lru(v, passed) ==
  LET absent == {e \in Entry : ~aux[e].present}
      unpinned == {e \in Entry : aux[e].pinned = 0}
      cold == {e \in unpinned : ~aux[e].accessed}
  IN  \/ Least(v, absent) /\ passed = {}
      \/ absent = {} /\ Least(v, cold) /\ passed = 0..(v - 1)
      \/ absent = {} /\ cold = {} /\ Least(v, unpinned) /\ passed = Entry

(* cache_lru never returns: every entry is present and pinned. *)
LruSpins == \A e \in Entry : aux[e].present /\ aux[e].pinned # 0

(* The end of cache_atomic_get_supl_data_and_pin, on entry e. *)
Pin(t, e, a) ==
  LET i == [a EXCEPT !.pinned = @ + 1]
  IN  /\ aux' = [aux EXCEPT ![e] = i]
      /\ info' = [info EXCEPT ![t] = i]
      /\ slot' = [slot EXCEPT ![t] = e]
      /\ ss_lock' = NULL
      /\ Goto(t, IF a.present THEN "hit" ELSE "fill")
      /\ UNCHANGED panicked

(* cache_atomic_get_supl_data_and_pin: the lookup, and on a miss the       *)
(* choice of a victim.                                                     *)
Get(t, o) ==
  /\ ss_lock = NULL
  /\ op' = [op EXCEPT ![t] = o]
  /\ \/ \E e \in Entry : Lookup(e, o.sector) /\ Pin(t, e, aux[e])
     \/ /\ \A e \in Entry : aux[e].sector_index # o.sector
        /\ \E v \in Entry, passed \in SUBSET Entry :
             /\ cache_lru(v, passed)
             /\ aux' = [e \in Entry |-> IF e \in passed
                          THEN [aux[e] EXCEPT !.accessed = FALSE] ELSE aux[e]]
             /\ slot' = [slot EXCEPT ![t] = v]
        /\ ss_lock' = t
        /\ Goto(t, "evict")
        /\ UNCHANGED <<info, panicked>>
     \/ /\ \A e \in Entry : aux[e].sector_index # o.sector
        /\ LruSpins
        /\ ss_lock' = t
        /\ Goto(t, "spin")
        /\ UNCHANGED <<aux, slot, info, panicked>>
  /\ UNCHANGED <<data, disk, s_lock, gIsCacheThreadRunning, buffer>>

(* The end of cache_evict: its assertion, and the entry is the caller's. *)
Evicted(t, a) ==
  \/ a.pinned = 0 /\ Pin(t, slot[t], [a EXCEPT !.present = FALSE])
  \/ /\ a.pinned # 0
     /\ Panic
     /\ aux' = [aux EXCEPT ![slot[t]] = [a EXCEPT !.present = FALSE]]
     /\ UNCHANGED <<ss_lock, slot, info, pc>>

(* Mutant: the entry stays dirty. *)
StartDump_dirty(t, l) ==
  LET e == slot[t]
  IN  /\ aux[e].dirty
      /\ info' = [info EXCEPT ![t] = aux[e]]
      /\ s_lock' = [s_lock EXCEPT ![e] = t]
      /\ Goto(t, l)
      /\ panicked' = ~aux[e].present
      /\ UNCHANGED aux

(* cache_dump_entry, with the lock of the entry just acquired: a dirty     *)
(* entry is marked clean before it is written, and must be present.  Its   *)
(* sector is an argument of block_write.                                   *)
StartDump(t, l) ==
  LET e == slot[t]
  IN  /\ aux[e].dirty
      /\ aux' = [aux EXCEPT ![e].dirty = FALSE]
      /\ info' = [info EXCEPT ![t] = aux[e]]
      /\ s_lock' = [s_lock EXCEPT ![e] = t]
      /\ Goto(t, l)
      /\ panicked' = ~aux[e].present

(* cache_evict: its cache_dump_entry finds a dirty entry ... *)
EvictDirty(t) ==
  /\ pc[t] = "evict" /\ s_lock[slot[t]] = NULL
  /\ StartDump(t, "evict_write")
  /\ UNCHANGED <<data, disk, ss_lock, aheadVars, gIsCacheThreadRunning, op,
                 slot, buffer>>

(* ... and writes it, ... *)
EvictWrite(t) ==
  LET e == slot[t]
  IN  /\ pc[t] = "evict_write"
      /\ disk' = [disk EXCEPT ![info[t].sector_index] = data[e]]
      /\ s_lock' = [s_lock EXCEPT ![e] = NULL]
      /\ Evicted(t, aux[e])
      /\ UNCHANGED <<data, aheadVars, gIsCacheThreadRunning, op, buffer>>

(* ... or finds a clean one. *)
EvictClean(t) ==
  /\ pc[t] = "evict" /\ s_lock[slot[t]] = NULL
  /\ ~aux[slot[t]].dirty
  /\ Evicted(t, aux[slot[t]])
  /\ UNCHANGED <<data, disk, s_lock, aheadVars, gIsCacheThreadRunning, op,
                 buffer>>
----------------------------------------------------------------------------
(* Reading and writing.                                                    *)

ReadOp(s, o) == [write |-> FALSE, sector |-> s, offset |-> o, val |-> Zero]

cache_read(t, s, o) ==
  /\ t \in Client /\ pc[t] = "idle"
  /\ Get(t, ReadOp(s, o))
  /\ UNCHANGED aheadVars

cache_write(t, s, o, v) ==
  /\ t \in Client /\ pc[t] = "idle"
  /\ Get(t, [write |-> TRUE, sector |-> s, offset |-> o, val |-> v])
  /\ UNCHANGED aheadVars

(* Mutant: a write does not read the sector first. *)
Loaded_partly(t) == IF op[t].write THEN data[slot[t]] ELSE disk[op[t].sector]

(* What cache_read_internal reads. *)
Loaded(t) == disk[op[t].sector]

(* cache_read_internal, and the copy becomes the entry's new bookkeeping.  *)
(* block_read's check_sector refuses a sector past the end of the device.  *)
Fill(t) ==
  /\ pc[t] = "fill"
  /\ \/ /\ op[t].sector \in Sector
        /\ data' = [data EXCEPT ![slot[t]] = Loaded(t)]
        /\ info' = [info EXCEPT ![t].present = TRUE, ![t].accessed = TRUE,
                                ![t].sector_index = op[t].sector,
                                ![t].dirty = op[t].write]
        /\ Goto(t, "copy")
        /\ UNCHANGED panicked
     \/ /\ op[t].sector \notin Sector
        /\ Panic
        /\ UNCHANGED <<data, info, pc>>
  /\ UNCHANGED <<aux, disk, locks, aheadVars, gIsCacheThreadRunning, op, slot,
                 buffer>>

(* Mutant: a write does not mark the entry. *)
DirtyAfter_read(d, o) == d

(* An operation o leaves the entry's dirty bit d like this. *)
DirtyAfter(d, o) == d \/ o.write

(* The copy between the entry and the caller's buffer, under s_lock.  The  *)
(* lock of a closed cache is freed memory: whatever the bytes are now, the *)
(* copy goes ahead or the kernel stops.                                    *)
Copy(t) ==
  LET e == slot[t]
      o == op[t]
  IN  /\ pc[t] \in {"hit", "copy"}
      /\ s_lock[e] \in {NULL, FREED}
      /\ \/ /\ data' = IF o.write THEN [data EXCEPT ![e][o.offset] = o.val]
                       ELSE data
            /\ buffer' = IF o.write THEN buffer
                         ELSE [buffer EXCEPT ![t] = data[e][o.offset]]
            /\ info' = [info EXCEPT ![t].accessed = TRUE,
                                    ![t].dirty = DirtyAfter(@, o)]
            /\ Goto(t, IF pc[t] = "copy" /\ ~o.write THEN "asynch" ELSE "unpin")
            /\ UNCHANGED panicked
         \/ /\ s_lock[e] = FREED
            /\ Panic
            /\ UNCHANGED <<data, buffer, info, pc>>
      /\ UNCHANGED <<aux, disk, locks, aheadVars, gIsCacheThreadRunning, op,
                     slot>>

(* cache_read_ahead_asynch: queue the next sector and wake the read-ahead  *)
(* thread.  lock_acquire asserts that its caller does not hold the lock.   *)
Asynch(t) ==
  /\ pc[t] = "asynch"
  /\ \/ /\ gReadAheadLock = NULL
        /\ IF Len(gReadAheadList) < MaxRequests /\ gReadAheadWakeUpSema < MaxRequests
           THEN /\ gReadAheadList' = Append(gReadAheadList, op[t].sector + 1)
                /\ gReadAheadWakeUpSema' = gReadAheadWakeUpSema + 1
           ELSE UNCHANGED <<gReadAheadList, gReadAheadWakeUpSema>>
        /\ Goto(t, "unpin")
        /\ UNCHANGED panicked
     \/ /\ gReadAheadLock = t
        /\ Panic
        /\ UNCHANGED <<gReadAheadList, gReadAheadWakeUpSema, pc>>
  /\ UNCHANGED <<aux, data, disk, locks, gReadAheadLock, gIsCacheThreadRunning,
                 localVars, buffer>>

(* The operation returns, and its local variables are gone. *)
Forget(t) ==
  /\ op' = [op EXCEPT ![t] = NULL]
  /\ slot' = [slot EXCEPT ![t] = 0]
  /\ info' = [info EXCEPT ![t] = ZeroAux]

(* The bookkeeping that is written back. *)
Unpinned(i) == [i EXCEPT !.pinned = @ - 1]

(* cache_atomic_set_supl_data_and_unpin: the copy is written back whole.   *)
(* The read-ahead thread then drops the request it has served.             *)
Unpin(t) ==
  LET e == slot[t]
  IN  /\ pc[t] = "unpin"
      /\ ss_lock = NULL
      /\ \/ /\ aux[e].pinned # 0
            /\ aux' = [aux EXCEPT ![e] = Unpinned(info[t])]
            /\ Goto(t, IF t = ReadAhead THEN "next" ELSE "idle")
            /\ gReadAheadList' = IF t = ReadAhead THEN Tail(gReadAheadList)
                                 ELSE gReadAheadList
            /\ Forget(t)
            /\ UNCHANGED panicked
         \/ /\ aux[e].pinned = 0
            /\ Panic
            /\ UNCHANGED <<aux, pc, gReadAheadList, localVars>>
      /\ UNCHANGED <<data, disk, locks, gReadAheadLock, gReadAheadWakeUpSema,
                     gIsCacheThreadRunning, buffer>>
----------------------------------------------------------------------------
(* The background threads, and cache_close.                                *)

(* The loop of a kernel thread ends: thread_exit calls process_exit, which *)
(* asserts that the thread has a process.                                  *)
LeaveLoop(t, l) ==
  IF gIsCacheThreadRunning THEN Goto(t, l) /\ UNCHANGED panicked
                           ELSE Panic /\ UNCHANGED pc

(* cache_main_read_ahead: wait for a request, lock the list ... *)
ReadAheadWakes ==
  /\ pc[ReadAhead] = "down"
  /\ gReadAheadWakeUpSema > 0 /\ gReadAheadLock = NULL
  /\ gReadAheadWakeUpSema' = gReadAheadWakeUpSema - 1
  /\ gReadAheadLock' = ReadAhead
  /\ Goto(ReadAhead, "next")
  /\ UNCHANGED <<aux, data, disk, locks, gReadAheadList, gIsCacheThreadRunning,
                 localVars, buffer, panicked>>

(* ... and read the sectors, holding the lock ... *)
ReadAheadNext ==
  /\ pc[ReadAhead] = "next" /\ gReadAheadList # <<>>
  /\ \E o \in Offset : Get(ReadAhead, ReadOp(Head(gReadAheadList), o))
  /\ UNCHANGED aheadVars

(* ... until there are none. *)
ReadAheadDone ==
  /\ pc[ReadAhead] = "next" /\ gReadAheadList = <<>>
  /\ gReadAheadLock' = NULL
  /\ LeaveLoop(ReadAhead, "down")
  /\ UNCHANGED <<aux, data, disk, locks, gReadAheadList, gReadAheadWakeUpSema,
                 gIsCacheThreadRunning, localVars, buffer>>

(* cache_main_dump wakes up. *)
DumperWakes ==
  /\ pc[Dumper] = "sleep"
  /\ LeaveLoop(Dumper, "dump")
  /\ UNCHANGED <<aux, data, disk, locks, aheadVars, gIsCacheThreadRunning,
                 localVars, buffer>>

(* cache_close starts with cache_dump_all. *)
cache_close(t) ==
  /\ CanClose /\ t \in Client /\ pc[t] = "idle" /\ gIsCacheThreadRunning
  /\ Goto(t, "dump")
  /\ UNCHANGED <<aux, data, disk, locks, aheadVars, gIsCacheThreadRunning,
                 localVars, buffer, panicked>>

(* Mutant: the dump thread looks at the first entry only. *)
MoreEntries_first(t) == t # Dumper /\ slot[t] + 1 \in Entry

(* The loop test of cache_dump_all. *)
MoreEntries(t) == slot[t] + 1 \in Entry

(* The loop of cache_dump_all goes on. *)
NextEntry(t) ==
  IF MoreEntries(t)
  THEN slot' = [slot EXCEPT ![t] = @ + 1] /\ Goto(t, "dump")
  ELSE /\ Goto(t, IF t = Dumper THEN "sleep" ELSE "close")
       /\ slot' = [slot EXCEPT ![t] = 0]

(* cache_dump_all, at an entry that is dirty, ... *)
DumpDirty(t) ==
  /\ pc[t] = "dump" /\ s_lock[slot[t]] = NULL
  /\ StartDump(t, "dump_write")
  /\ UNCHANGED <<data, disk, ss_lock, aheadVars, gIsCacheThreadRunning, op,
                 slot, buffer>>

(* ... which it writes; lock_release asserts that the lock still exists, ... *)
DumpWrite(t) ==
  LET e == slot[t]
  IN  /\ pc[t] = "dump_write"
      /\ disk' = [disk EXCEPT ![info[t].sector_index] = data[e]]
      /\ \/ /\ s_lock[e] = t
            /\ s_lock' = [s_lock EXCEPT ![e] = NULL]
            /\ NextEntry(t)
            /\ info' = [info EXCEPT ![t] = ZeroAux]
            /\ UNCHANGED panicked
         \/ /\ s_lock[e] = FREED
            /\ Panic
            /\ UNCHANGED <<s_lock, slot, info, pc>>
      /\ UNCHANGED <<aux, data, ss_lock, aheadVars, gIsCacheThreadRunning, op,
                     buffer>>

(* ... at one that is clean, and at one whose lock is gone. *)
DumpClean(t) ==
  /\ pc[t] = "dump"
  /\ \/ /\ s_lock[slot[t]] = NULL
        /\ ~aux[slot[t]].dirty
        /\ NextEntry(t)
        /\ UNCHANGED panicked
     \/ /\ s_lock[slot[t]] = FREED
        /\ Panic
        /\ UNCHANGED <<slot, pc>>
  /\ UNCHANGED <<aux, data, disk, locks, aheadVars, gIsCacheThreadRunning, op,
                 info, buffer>>

(* cache_close then stops the two threads' loops ... *)
CloseStop(t) ==
  /\ pc[t] = "close"
  /\ gIsCacheThreadRunning' = FALSE
  /\ Goto(t, "free")
  /\ UNCHANGED <<aux, data, disk, locks, aheadVars, localVars, buffer, panicked>>

(* ... and frees the entries' locks. *)
CloseFree(t) ==
  /\ pc[t] = "free" /\ ss_lock = NULL
  /\ s_lock' = [e \in Entry |-> FREED]
  /\ aux' = [e \in Entry |-> ZeroAux]
  /\ Goto(t, "closed")
  /\ UNCHANGED <<data, disk, ss_lock, aheadVars, gIsCacheThreadRunning, localVars,
                 buffer, panicked>>
----------------------------------------------------------------------------
(* The steps of a read or a write that has started. *)
Access(t) ==
  \/ EvictDirty(t) \/ EvictWrite(t) \/ EvictClean(t)
  \/ Fill(t) \/ Copy(t) \/ Asynch(t) \/ Unpin(t)

(* The steps of cache_dump_all. *)
cache_dump_all(t) == DumpDirty(t) \/ DumpWrite(t) \/ DumpClean(t)

Dump == ~panicked /\ (DumperWakes \/ cache_dump_all(Dumper))

Ahead ==
  /\ ~panicked
  /\ ReadAheadWakes \/ ReadAheadNext \/ ReadAheadDone \/ Access(ReadAhead)

(* A client carries on with what it has begun. *)
Continue(t) ==
  /\ ~panicked
  /\ Access(t) \/ cache_dump_all(t) \/ CloseStop(t) \/ CloseFree(t)

Call(t) ==
  /\ ~panicked
  /\ \/ \E s \in Sector, o \in Offset :
          \/ cache_read(t, s, o)
          \/ \E v \in Val : o \in Writable /\ cache_write(t, s, o, v)
     \/ cache_close(t)

Next ==
  \/ \E t \in Client : Call(t) \/ Continue(t)
  \/ Dumper \in Scheduled /\ Dump
  \/ ReadAhead \in Scheduled /\ Ahead

Spec == Init /\ [][Next]_vars
----------------------------------------------------------------------------
(* Invariants.                                                             *)

Aux ==
  [present : BOOLEAN, accessed : BOOLEAN, dirty : BOOLEAN, pinned : Nat,
   sector_index : Nat]

Op ==
  [write : BOOLEAN, sector : Nat, offset : Offset, val : Byte]

Labels ==
  {"idle", "evict", "evict_write", "spin", "fill", "hit", "copy", "asynch",
   "unpin", "dump", "dump_write", "close", "free", "closed", "sleep", "down", "next"}

(* The type of the state: a lock's holder is a thread, and a thread inside *)
(* an operation has one.                                                   *)
TypeOK ==
  /\ aux \in [Entry -> Aux]
  /\ data \in [Entry -> [Offset -> Byte]]
  /\ disk \in [Sector -> [Offset -> Byte]]
  /\ ss_lock \in Thread \cup {NULL}
  /\ s_lock \in [Entry -> Thread \cup {NULL, FREED}]
  /\ gReadAheadLock \in {ReadAhead, NULL}
  /\ gReadAheadList \in Seq(Nat) /\ gReadAheadWakeUpSema \in Nat
  /\ gIsCacheThreadRunning \in BOOLEAN /\ panicked \in BOOLEAN
  /\ pc \in [Thread -> Labels]
  /\ op \in [Thread -> Op \cup {NULL}]
  /\ \A t \in Thread :
       pc[t] \in {"evict", "evict_write", "spin", "fill", "hit", "copy",
                  "asynch", "unpin"} => op[t] \in Op
  /\ slot \in [Thread -> Entry]
  /\ info \in [Thread -> Aux]
  /\ buffer \in [Thread -> Byte]

(* The assertion of cache_dump_entry (cache.c, ASSERT(present) of a dirty  *)
(* entry) never fails, however many threads use the cache at once: an      *)
(* entry is clean before cache_evict takes its sector away.                *)
DirtyIsPresent == \A e \in Entry : aux[e].dirty => aux[e].present

(* Users(e): the threads between their pin and their unpin of entry e. *)
Users(e) ==
  {t \in Thread : pc[t] \in {"hit", "fill", "copy", "asynch", "unpin"}
                  /\ slot[t] = e}

(* Nothing is lost by an eviction: an entry that is clean, and that nobody *)
(* uses, holds what the disk holds.                                        *)
CleanOnDisk ==
  \A e \in Entry :
    aux[e].present /\ ~aux[e].dirty /\ s_lock[e] = NULL /\ Users(e) = {} =>
      data[e] = disk[aux[e].sector_index]

(* Entry e holds the contents of sector s, although a thread that has just *)
(* loaded it may not have written its bookkeeping back.                    *)
Holds(e, s) ==
  \/ aux[e].present /\ aux[e].sector_index = s
  \/ \E t \in Thread :
       pc[t] \in {"asynch", "unpin"} /\ slot[t] = e /\ op[t].sector = s

Contents(s) ==
  IF \E e \in Entry : Holds(e, s)
  THEN data[CHOOSE e \in Entry : Holds(e, s)]
  ELSE disk[s]

(* The cache is transparent: every step of it is a read or a write of the  *)
(* sectors, or changes nothing a caller can see.  In particular            *)
(* cache_close, which drops all entries, loses nothing ("Will write        *)
(* unwritten data to disk", cache.h).                                      *)
Store ==
  INSTANCE BlockStore WITH store <- [s \in Sector |-> Contents(s)],
                           buffer <- [t \in Client |-> buffer[t]]

Implements == Store!Spec

(* Operations that have begun go on.  The dump thread has priority 0: that *)
(* the CPU is free for it again and again is assumed of the clients.  Then *)
(* it gets the lock of an entry in the end, since a client that takes it   *)
(* to evict an entry next waits for the disk with the lock released.       *)
LiveSpec ==
  /\ Spec
  /\ SF_vars(Dump) /\ WF_vars(Ahead)
  /\ \A t \in Client : WF_vars(Continue(t))

(* A dirty entry is written in the end (cache_main_dump), whatever the     *)
(* clients and the read-ahead thread do, unless an assertion stops the     *)
(* kernel.                                                                 *)
DirtyIsDumped ==
  \A e \in Entry : aux[e].dirty ~> ~aux[e].dirty \/ panicked
============================================================================
