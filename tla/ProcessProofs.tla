--------------------------- MODULE ProcessProofs ---------------------------
(***************************************************************************)
(* Theorems about Process, for any number of processes and files.  LifeInv *)
(* and Counts are inductive, the second relative to the first.             *)
(*                                                                         *)
(* Life relates where the thread of a process is to its process_t: who     *)
(* waits on its semaphore, and how many ups are pending there.  Counts     *)
(* relates the counters of the inodes and of the process_t to the          *)
(* descriptors and the programs that are there.                            *)
(***************************************************************************)
EXTENDS Process, FiniteSetTheorems, WellFoundedInduction, TLAPS

Types ==
  /\ proc \in [Pid -> ProcessRecord \cup {NULL}]
  /\ next_pid \in 2..(MaxPid + 1)
  /\ pc \in [Pid -> Labels]
  /\ child \in [Pid -> Pid \cup {NULL}]
  /\ path \in [Pid -> File \cup {NULL}]
  /\ eax \in [Pid -> Int]
  /\ open_cnt \in [File -> Int] /\ deny_write_cnt \in [File -> Int]
  /\ text \in [File -> 0..1]
  /\ panicked \in BOOLEAN

(* Some process is in process_execute for c. *)
Awaited(c) == \E q \in Pid : pc[q] = "exec" /\ child[q] = c

Loading == {"load", "stack", "loaded"}

(* The ups pending on the semaphore of p: the one of a load that           *)
(* process_execute has not taken yet, and the one of the exit.             *)
Ups(p) ==
  (IF Awaited(p) /\ proc[p].status = "ALIVE" /\ pc[p] \notin Loading THEN 1 ELSE 0)
  + (IF pc[p] = "gone" THEN 1 ELSE 0)

(* Where the thread of p is, and what this says of its process_t ... *)
LifeOf(p) ==
  /\ p >= next_pid => pc[p] = "none"
  /\ pc[p] = "none" => proc[p] = NULL
  /\ pc[p] \notin {"none", "gone"} => proc[p] # NULL
  /\ pc[p] \in {"exec", "wait"} =>
       child[p] \in Pid /\ proc[child[p]] # NULL /\ proc[child[p]].ppid = p
  /\ pc[p] = "wait" => proc[child[p]].status = "ALIVE"
  /\ pc[p] \in Loading => Awaited(p) /\ proc[p].status = "ALIVE"
  /\ pc[p] \in {"load", "stack"} => path[p] \in File /\ proc[p].exe_file = NULL

(* ... and of its semaphore, its program and its parent. *)
RecordOf(p) ==
  proc[p] # NULL =>
    /\ proc[p].value = Ups(p)
    /\ proc[p].status = "INVALID" =>
         Awaited(p) /\ pc[p] \in {"exit", "up", "gone"} /\ proc[p].exe_file = NULL
    /\ proc[p].status = "ALIVE" /\ pc[p] \notin {"load", "stack"} /\ p # Main
         => proc[p].exe_file \in File
    /\ p = Main => proc[p].ppid = PID_ERROR /\ proc[p].exe_file = NULL
    /\ proc[p].ppid # p

Life == \A p \in Pid : LifeOf(p) /\ RecordOf(p)

LifeInv == Types /\ Life
----------------------------------------------------------------------------
(* The types.                                                              *)

(* fd_create returns a descriptor above all that are in use. *)
LEMMA FdFresh ==
  ASSUME NEW fds \in SUBSET Link
  PROVE  fd_create(fds) \in 3..(MaxFd + 1) /\ \A l \in fds : l.fd < fd_create(fds)
<1> USE ProcessAssumption
<1> DEFINE Next3(n) == \/ fds = {} /\ n = 3
                       \/ /\ \E l \in fds : n = l.fd + 1
                          /\ \A l \in fds : l.fd < n
<1>1. ASSUME fds # {} PROVE \E n \in 3..(MaxFd + 1) : Next3(n)
  <2> DEFINE T == {MaxFd - l.fd : l \in fds}
  <2>1. T \subseteq Nat /\ T # {}
    BY <1>1 DEF Link
  <2>2. PICK x \in T : \A y \in T : ~(<<y, x>> \in OpToRel(<, Nat))
    BY Zenon, <2>1, WFMin, NatLessThanWellFounded
  <2>3. ASSUME NEW y \in T PROVE x <= y
    <3>1. x \in Nat /\ y \in Nat
      BY <2>1
    <3>2. ~(<<y, x>> \in OpToRel(<, Nat))
      BY Zenon, <2>2
    <3> HIDE DEF T
    <3> QED BY <3>1, <3>2 DEF OpToRel
  <2>4. PICK l \in fds : x = MaxFd - l.fd
    OBVIOUS
  <2>5. l.fd + 1 \in 3..(MaxFd + 1) /\ l.fd \in Int
    BY DEF Link
  <2>6. ASSUME NEW m \in fds PROVE m.fd < l.fd + 1
    <3>1. m.fd \in Int /\ MaxFd - m.fd \in T
      BY DEF Link
    <3>2. MaxFd - l.fd <= MaxFd - m.fd
      BY <2>3, <2>4, <3>1
    <3> QED BY <2>5, <3>1, <3>2
  <2> QED BY <2>5, <2>6
<1>2. \E n \in 3..(MaxFd + 1) : Next3(n)
  <2>1. CASE fds = {}
    <3>1. 3 \in 3..(MaxFd + 1)
      OBVIOUS
    <3> QED BY <2>1, <3>1
  <2> QED BY <1>1, <2>1
<1> QED BY <1>2, Zenon DEF fd_create

(* It is then none of them. *)
LEMMA FdNew ==
  ASSUME NEW fds \in SUBSET Link
  PROVE  \A l \in fds : l.fd # fd_create(fds)
<1>1. ASSUME NEW a \in Int, NEW b \in Int, a < b PROVE a # b
  BY <1>1
<1>2. ASSUME NEW l \in fds PROVE l.fd \in Int /\ fd_create(fds) \in Int /\ l.fd < fd_create(fds)
  BY FdFresh DEF Link
<1> QED BY Zenon, <1>1, <1>2

(* At most two ups are pending. *)
LEMMA UpsType == \A p \in Pid : Ups(p) \in 0..2
BY DEF Ups

(* A process that is counted makes the count positive.                     *)
LEMMA Positive ==
  ASSUME NEW S \in SUBSET Pid, NEW p \in S
  PROVE  Cardinality(S) > 0
<1>0. IsFiniteSet(Pid)
  BY FS_Interval, ProcessAssumption DEF Pid
<1>1. IsFiniteSet(S)
  BY Zenon, <1>0, FS_Subset
<1>2. Cardinality(S) \in Nat /\ Cardinality(S) # 0
  BY Zenon, <1>1, FS_CardinalityType, FS_EmptySet
<1> QED BY <1>2

(* Writers are denied by fewer than have the file open while it is loaded, *)
(* and by at least one while it runs.                                      *)
LEMMA Margin ==
  ASSUME NEW deny \in Int, NEW open \in Int, NEW links \in Nat, NEW loads \in Nat, NEW runs \in Nat,
         deny = runs, open >= links + loads + runs
  PROVE  /\ loads > 0 => ~(deny + 1 > open)
         /\ runs > 0 => deny \in 1..open
OBVIOUS

(* A process starts without files. *)
LEMMA NoFiles == IsFiniteSet({}) /\ Cardinality({}) = 0 /\ 0 \in 0..MAX_OPEN
BY FS_EmptySet, ProcessAssumption

(* A process_t r whose semaphore is taken, whose load fails, which gets    *)
(* its executable g and which gives up its files. *)
Lowered(new, r) == new = [r EXCEPT !.value = @ - 1]
Failed(new, r) == new = [r EXCEPT !.status = "INVALID"]
Executes(new, r, g) == new = [r EXCEPT !.exe_file = g]
Closed(new, r) == new = [r EXCEPT !.fds = {}]

(* The process_t new has the files fds and the executable g.               *)
HasFiles(new, fds, g) == new # NULL /\ new.fds = fds /\ new.exe_file = g

(* The files of these. *)
LEMMA RecordFiles ==
  ASSUME NEW r \in ProcessRecord, NEW new
  PROVE  /\ Lowered(new, r) => HasFiles(new, r.fds, r.exe_file)
         /\ Failed(new, r) => HasFiles(new, r.fds, r.exe_file)
         /\ \A g \in File : Executes(new, r, g) => HasFiles(new, r.fds, g)
         /\ Closed(new, r) => HasFiles(new, {}, r.exe_file)
<1>1. Lowered(new, r) => HasFiles(new, r.fds, r.exe_file)
  BY NullAssumption DEF ProcessRecord, Lowered, HasFiles
<1>2. Failed(new, r) => HasFiles(new, r.fds, r.exe_file)
  BY NullAssumption DEF ProcessRecord, Failed, HasFiles
<1>3. ASSUME NEW g \in File, Executes(new, r, g) PROVE HasFiles(new, r.fds, g)
  BY <1>3, NullAssumption DEF ProcessRecord, Executes, HasFiles
<1>4. Closed(new, r) => HasFiles(new, {}, r.exe_file)
  BY NullAssumption DEF ProcessRecord, Closed, HasFiles
<1> QED BY Zenon, <1>1, <1>2, <1>3, <1>4

(* The descriptors of a process. *)
LEMMA LinkFields ==
  ASSUME NEW r \in ProcessRecord, NEW l \in r.fds
  PROVE  /\ l \in Link /\ l.fd \in 3..MaxFd /\ l.file \in File
         /\ l = [fd |-> l.fd, file |-> l.file]
<1>1. l \in Link
  BY DEF ProcessRecord
<1> QED BY <1>1 DEF Link

(* What Life says of the process that takes a step, and of the child it    *)
(* waits for: only p can be waiting for a child of p.                      *)
LEMMA LifeFacts ==
  ASSUME Types, Life, NEW p \in Pid
  PROVE  /\ pc[p] \notin {"none", "gone"} => proc[p] \in ProcessRecord
         /\ pc[p] \in {"exec", "wait"} =>
              /\ child[p] \in Pid /\ child[p] # Main
              /\ proc[child[p]] \in ProcessRecord /\ proc[child[p]].ppid = p
              /\ \A q \in Pid : pc[q] \in {"exec", "wait"} /\ child[q] = child[p] => q = p
         /\ Awaited(p) => proc[p] # NULL
BY DEF Types, Life, LifeOf, RecordOf, Awaited, Main, PID_ERROR, Pid

(* process_execute, for the process that it makes and for the others.      *)
LEMMA ExecuteFacts ==
  ASSUME Types, Life, NEW p \in Pid, NEW f \in File, process_execute(p, f)
  PROVE  /\ next_pid \in Pid /\ pc[next_pid] = "none" /\ p # next_pid /\ proc[next_pid] = NULL
         /\ proc'[next_pid] = NewProcess(p) /\ \A q \in Pid : q # next_pid => proc'[q] = proc[q]
         /\ pc'[p] = "exec" /\ pc[p] = "run" /\ pc'[next_pid] = "load"
         /\ \A q \in Pid \ {p, next_pid} : pc'[q] = pc[q]
         /\ \A q \in Pid \ {next_pid} : path'[q] = path[q]
         /\ open_cnt' = open_cnt /\ deny_write_cnt' = deny_write_cnt
<1>1. next_pid \in Pid /\ pc[p] = "run"
  BY Zenon DEF process_execute
<1>2. next_pid >= next_pid
  BY <1>1 DEF Pid
<1>3. LifeOf(next_pid)
  BY Zenon, <1>1 DEF Life
<1>4. pc[next_pid] = "none" /\ proc[next_pid] = NULL
  BY Zenon, <1>2, <1>3 DEF LifeOf
<1>5. "run" # "none"
  OBVIOUS
<1>6. p # next_pid
  BY Zenon, <1>1, <1>4, <1>5
<1>7. proc'[next_pid] = NewProcess(p) /\ \A q \in Pid : q # next_pid => proc'[q] = proc[q]
  BY Zenon, <1>1 DEF process_execute, Types
<1>8. /\ pc'[p] = "exec" /\ pc'[next_pid] = "load"
      /\ \A q \in Pid \ {p, next_pid} : pc'[q] = pc[q]
  BY Zenon, <1>1, <1>6 DEF process_execute, Types
<1>9. \A q \in Pid \ {next_pid} : path'[q] = path[q]
  BY Zenon DEF process_execute, Types
<1>10. open_cnt' = open_cnt /\ deny_write_cnt' = deny_write_cnt
  BY Zenon DEF process_execute, fileVars
<1> QED BY Zenon, <1>1, <1>4, <1>6, <1>7, <1>8, <1>9, <1>10

(* A new process has no files. *)
LEMMA NewFiles ==
  \A p \in Pid : NewProcess(p).fds = {} /\ NewProcess(p).num_of_opened_files = 0
BY DEF NewProcess

(* The fields of the process_t of p that a step leaves alone. *)
Keeps(p, fields) == \A a \in fields : proc'[p][a] = proc[p][a]

(* The system calls on files. *)
FileCall(p) ==
  \/ \E f \in File : syscall_open(p, f)
  \/ proc[p] # NULL /\ \E l \in proc[p].fds : syscall_close(p, l) \/ syscall_write(p, l)

(* A call on a file changes only the descriptors and counts of its caller.  *)
LEMMA FileCallKeeps ==
  ASSUME Types, Life, NEW p \in Pid, FileCall(p)
  PROVE  /\ UNCHANGED <<pc, child, path, next_pid>>
         /\ \A q \in Pid : q # p => proc'[q] = proc[q]
         /\ proc[p] \in ProcessRecord /\ proc'[p] \in ProcessRecord
         /\ Keeps(p, {"ppid", "status", "value", "exe_file"})
<1>1. proc[p] \in ProcessRecord
  BY LifeFacts, Zenon DEF FileCall, syscall_open, syscall_close, syscall_write
<1> DEFINE G == /\ UNCHANGED <<pc, child, path, next_pid>>
                /\ \A q \in Pid : q # p => proc'[q] = proc[q]
                /\ proc'[p] \in ProcessRecord
                /\ Keeps(p, {"ppid", "status", "value", "exe_file"})
<1>2. ASSUME NEW f \in File, syscall_open(p, f) PROVE G
  <2> DEFINE fd == fd_create(proc[p].fds)
  <2>1. fd \in 3..(MaxFd + 1) /\ fd <= MaxFd
    BY <1>1, <1>2, FdFresh DEF ProcessRecord, syscall_open
  <2>2. [fd |-> fd, file |-> f] \in Link
    BY <2>1, ProcessAssumption DEF Link
  <2>3. proc'[p] = [proc[p] EXCEPT !.fds = @ \cup {[fd |-> fd, file |-> f]},
                                   !.num_of_opened_files = @ + 1]
    BY <1>2 DEF syscall_open, Types
  <2> HIDE DEF fd
  <2>4. proc'[p] \in ProcessRecord
    <3>1. /\ proc[p].fds \cup {[fd |-> fd, file |-> f]} \in SUBSET Link
          /\ proc[p].num_of_opened_files + 1 \in Int
      BY <1>1, <2>2 DEF ProcessRecord
    <3> QED BY <1>1, <2>3, <3>1, Zenon DEF ProcessRecord
  <2>5. Keeps(p, {"ppid", "status", "value", "exe_file"})
    BY <1>1, <2>3, Zenon DEF Keeps, ProcessRecord
  <2> QED BY <1>2, <2>4, <2>5 DEF syscall_open, Types
<1>3. ASSUME NEW l \in proc[p].fds, syscall_close(p, l) PROVE G
  <2>1. proc'[p] = [proc[p] EXCEPT !.fds = @ \ {l}, !.num_of_opened_files = @ - 1]
    BY <1>3 DEF syscall_close, Types
  <2>2. proc'[p] \in ProcessRecord
    <3>1. proc[p].fds \ {l} \in SUBSET Link /\ proc[p].num_of_opened_files - 1 \in Int
      BY <1>1 DEF ProcessRecord
    <3> QED BY <1>1, <2>1, <3>1, Zenon DEF ProcessRecord
  <2>3. Keeps(p, {"ppid", "status", "value", "exe_file"})
    BY <1>1, <2>1, Zenon DEF Keeps, ProcessRecord
  <2> QED BY <1>3, <2>2, <2>3 DEF syscall_close, Types
<1>4. ASSUME NEW l \in proc[p].fds, syscall_write(p, l) PROVE G
  BY <1>1, <1>4, Zenon DEF syscall_write, Keeps
<1> QED BY <1>1, <1>2, <1>3, <1>4 DEF FileCall

(* Every step keeps the types of the variables. *)
LEMMA TypesStep ==
  ASSUME Types, Life, Next
  PROVE  Types'
<1>1. PICK p \in Pid : Kernel(p) \/ Program(p)
  BY DEF Next
<1>2. /\ pc[p] \notin {"none", "gone"} => proc[p] \in ProcessRecord
      /\ pc[p] \in {"exec", "wait"} => child[p] \in Pid /\ proc[child[p]] \in ProcessRecord
      /\ pc[p] \in {"load", "stack"} => path[p] \in File
  BY DEF Life, LifeOf, Types
<1> USE ProcessAssumption DEF Types, Goto, fileVars, PID_ERROR
<1>3. CASE ExecuteFails(p) \/ ThreadCreateFails(p)
  <2>1. next_pid' \in 2..(MaxPid + 1)
    BY <1>3 DEF ExecuteFails, ThreadCreateFails, Pid
  <2>2. eax' \in [Pid -> Int]
    BY <1>3 DEF ExecuteFails, ThreadCreateFails
  <2>3. UNCHANGED <<proc, pc, child, path, fileVars, panicked>>
    BY Zenon, <1>3 DEF ExecuteFails, ThreadCreateFails
  <2> QED BY Zenon, <2>1, <2>2, <2>3
<1>4. ASSUME NEW f \in File, process_execute(p, f) PROVE Types'
  <2>1. NewProcess(p) \in ProcessRecord
    BY DEF NewProcess, ProcessRecord
  <2> QED BY <1>4, <2>1 DEF process_execute, Labels, Pid
<1>5. CASE ExecuteReturns(p)
  <2>1. [proc[child[p]] EXCEPT !.value = @ - 1] \in ProcessRecord
    BY <1>2, <1>5 DEF ExecuteReturns, ProcessRecord
  <2>2. child[p] \in Pid /\ proc' \in [Pid -> ProcessRecord \cup {NULL}]
    BY <1>2, <1>5, <2>1 DEF ExecuteReturns
  <2>3. eax' \in [Pid -> Int]
    <3>1. child[p] \in Int /\ -1 \in Int
      BY <2>2 DEF Pid
    <3> QED BY Zenon, <1>5, <3>1 DEF ExecuteReturns
  <2>4. /\ UNCHANGED <<next_pid, path, fileVars, panicked>>
        /\ pc' = [pc EXCEPT ![p] = "run"] /\ child' = [child EXCEPT ![p] = NULL]
    BY <1>5 DEF ExecuteReturns
  <2> QED BY <2>2, <2>3, <2>4 DEF Labels
<1>6. CASE LoadFails(p)
  BY <1>2, <1>6 DEF LoadFails, ProcessRecord, Labels
<1>7. CASE LoadSegments(p)
  BY <1>2, <1>7 DEF LoadSegments, Labels
<1>8. CASE StackFails(p)
  BY <1>2, <1>8 DEF StackFails, ProcessRecord, Labels
<1>9. CASE LoadDone(p)
  BY <1>2, <1>9 DEF LoadDone, ProcessRecord, Labels
<1>10. CASE StartProgram(p)
  BY <1>2, <1>10 DEF StartProgram, ProcessRecord, Labels
<1>11. ASSUME NEW code \in ExitCode, syscall_exit(p, code) PROVE Types'
  BY <1>2, <1>11 DEF syscall_exit, ProcessRecord, Labels
<1>12. CASE kill(p)
  BY <1>12 DEF kill, Labels
<1>13. CASE ExitFiles(p)
  <2>1. proc' \in [Pid -> ProcessRecord \cup {NULL}]
    BY <1>2, <1>13 DEF ExitFiles, ProcessRecord
  <2>2. proc[p].exe_file \in File \cup {NULL}
    BY <1>2, <1>13 DEF ExitFiles, ProcessRecord
  <2>3. open_cnt' \in [File -> Int] /\ deny_write_cnt' \in [File -> Int]
    BY <1>13, <2>2 DEF ExitFiles, AllowWrite
  <2>4. panicked' \in BOOLEAN
    BY <1>13, Zenon DEF ExitFiles
  <2> QED BY <1>13, <2>1, <2>3, <2>4 DEF ExitFiles, Labels
<1>14. CASE ExitUp(p)
  <2>1. panicked' \in BOOLEAN
    BY <1>14, Zenon DEF ExitUp
  <2>2. proc' \in [Pid -> ProcessRecord \cup {NULL}]
    BY <1>2, <1>14 DEF ExitUp, ProcessRecord
  <2> QED BY <1>14, <2>1, <2>2 DEF ExitUp, Labels
<1>15. ASSUME NEW c \in Pid, WaitFails(p, c) \/ process_wait(p, c) PROVE Types'
  BY <1>15 DEF WaitFails, process_wait, Labels
<1>16. CASE WaitReturns(p)
  <2>1. child[p] \in Pid /\ proc[child[p]] \in ProcessRecord
    BY <1>2, <1>16 DEF WaitReturns
  <2>2. ExitCode \cup {-1} \subseteq Int
    BY DEF ProcessRecord
  <2>3. proc[child[p]].exit_code \in Int
    BY <2>1, <2>2, Zenon DEF ProcessRecord
  <2> QED BY <1>16, <2>1, <2>3 DEF WaitReturns, Labels
<1>17. ASSUME NEW f \in File, syscall_open(p, f) PROVE Types'
  <2>3. proc'[p] \in ProcessRecord
    BY <1>17, FileCallKeeps DEF FileCall
  <2>4. proc' \in [Pid -> ProcessRecord \cup {NULL}]
    BY <1>17, <2>3 DEF syscall_open
  <2>5. open_cnt' \in [File -> Int]
    BY <1>17 DEF syscall_open, Opened
  <2>6. UNCHANGED <<next_pid, pc, child, path, eax, deny_write_cnt, text, panicked>>
    BY <1>17 DEF syscall_open
  <2> QED BY <2>4, <2>5, <2>6
<1>18. ASSUME proc[p] # NULL, NEW l \in proc[p].fds, syscall_close(p, l) \/ syscall_write(p, l)
       PROVE  Types'
  <2>1. proc[p] \in ProcessRecord /\ l.file \in File
    BY <1>2, <1>18 DEF syscall_close, syscall_write, ProcessRecord, Link
  <2>2. CASE syscall_close(p, l)
    <3>1. proc'[p] \in ProcessRecord
      BY <1>18, <2>2, FileCallKeeps DEF FileCall
    <3>2. proc' \in [Pid -> ProcessRecord \cup {NULL}]
      BY <2>2, <3>1 DEF syscall_close
    <3>3. open_cnt' \in [File -> Int]
      BY <2>1, <2>2 DEF syscall_close
    <3>4. UNCHANGED <<next_pid, pc, child, path, eax, deny_write_cnt, text, panicked>>
      BY <2>2 DEF syscall_close
    <3> QED BY <3>2, <3>3, <3>4
  <2> QED BY <1>18, <2>1, <2>2 DEF syscall_write
<1> QED BY ZenonT(30), <1>1, <1>3, <1>4, <1>5, <1>6, <1>7, <1>8, <1>9, <1>10, <1>11, <1>12, <1>13,
             <1>14, <1>15, <1>16, <1>17, <1>18 DEF Kernel, Program
----------------------------------------------------------------------------
(* The life of a process.                                                  *)

(* An awaited child has not loaded unless its semaphore was raised; the    *)
(* child of process_wait raises it when it ends.                           *)
LEMMA RaisedBy ==
  ASSUME Types, Life, NEW p \in Pid, pc[p] \in {"exec", "wait"}, proc[child[p]].value > 0
  PROVE  /\ pc[p] = "wait" \/ proc[child[p]].status = "INVALID" => pc[child[p]] = "gone"
         /\ pc[child[p]] \notin Loading
<1> DEFINE c == child[p]
<1>1. c \in Pid /\ proc[c] # NULL /\ proc[c].value = Ups(c) /\ LifeOf(c) /\ RecordOf(c) /\ LifeOf(p)
  BY LifeFacts, NullAssumption DEF Life, RecordOf
<1>2. pc[p] = "wait" => ~Awaited(c)
  BY LifeFacts DEF Awaited
<1>3. CASE pc[p] = "wait"
  BY SMTT(30), <1>1, <1>2, <1>3 DEF Ups, LifeOf, Loading
<1>4. CASE pc[p] = "exec"
  BY <1>1, <1>4 DEF Ups, LifeOf, RecordOf, Loading
<1> QED BY <1>3, <1>4

(* The steps a thread takes on its own way, from load to gone, and what    *)
(* they do to its process_t.                                               *)
Walk(p) ==
  \/ LoadFails(p) \/ LoadSegments(p) \/ StackFails(p) \/ LoadDone(p)
  \/ StartProgram(p) \/ kill(p) \/ ExitFiles(p) \/ ExitUp(p)
  \/ \E code \in ExitCode : syscall_exit(p, code)

Walked(p) ==
  /\ child' = child /\ next_pid' = next_pid /\ path' = path /\ eax' = eax
  /\ \A q \in Pid : q # p => pc'[q] = pc[q] /\ proc'[q] = proc[q]
  /\ proc[p] \in ProcessRecord /\ proc'[p] \in ProcessRecord
  /\ proc'[p].ppid = proc[p].ppid
  /\ proc'[p].num_of_opened_files = proc[p].num_of_opened_files

Way(p) ==
  \/ /\ pc[p] \in {"load", "stack"} /\ pc'[p] = "exit" /\ proc'[p].status = "INVALID"
     /\ Keeps(p, {"value", "exe_file", "fds"})
  \/ pc[p] = "load" /\ pc'[p] = "stack" /\ Keeps(p, {"status", "value", "exe_file", "fds"})
  \/ /\ pc[p] = "stack" /\ pc'[p] = "loaded" /\ proc'[p].exe_file = path[p]
     /\ Keeps(p, {"status", "value", "fds"})
  \/ /\ pc[p] = "loaded" /\ pc'[p] = "run" /\ proc'[p].value = proc[p].value + 1
     /\ Keeps(p, {"status", "exe_file", "fds"})
  \/ pc[p] = "run" /\ pc'[p] = "exit" /\ Keeps(p, {"status", "value", "exe_file", "fds"})
  \/ /\ pc[p] = "exit" /\ pc'[p] = "up" /\ proc'[p].fds = {}
     /\ Keeps(p, {"status", "value", "exe_file"})
  \/ /\ pc[p] = "up" /\ pc'[p] = "gone" /\ proc'[p].value = proc[p].value + 1
     /\ Keeps(p, {"status", "exe_file", "fds"})

(* Every step of a thread on its way through start_process and            *)
(* process_exit is one of the moves that Way lists.                        *)
LEMMA WalkWay ==
  ASSUME Types, Life, Types', NEW p \in Pid, Walk(p)
  PROVE  Walked(p) /\ Way(p)
<1> USE DEF Goto, fileVars
<1>1. proc[p] \in ProcessRecord
  BY LifeFacts, Zenon DEF Walk, LoadFails, LoadSegments, StackFails, LoadDone, StartProgram, kill,
                   ExitFiles, ExitUp, syscall_exit
<1>3. CASE LoadFails(p)
  <2>1. proc'[p] = [proc[p] EXCEPT !.status = "INVALID"]
    BY <1>3 DEF LoadFails, Types
  <2> QED BY <1>1, <1>3, <2>1 DEF LoadFails, Types, Walked, Way, Keeps, ProcessRecord
<1>4. CASE LoadSegments(p)
  BY <1>1, <1>4 DEF LoadSegments, Types, Walked, Way, Keeps
<1>5. CASE StackFails(p)
  <2>1. proc'[p] = [proc[p] EXCEPT !.status = "INVALID"]
    BY <1>5 DEF StackFails, Types
  <2> QED BY SMTT(30), <1>1, <1>5, <2>1 DEF StackFails, Types, Walked, Way, Keeps, ProcessRecord
<1>6. CASE LoadDone(p)
  <2>1. proc'[p] = [proc[p] EXCEPT !.exe_file = path[p]] /\ path[p] \in File
    BY <1>6 DEF LoadDone, Types, Life, LifeOf
  <2> QED BY <1>1, <1>6, <2>1 DEF LoadDone, Types, Walked, Way, Keeps, ProcessRecord
<1>7. CASE StartProgram(p)
  <2>1. proc'[p] = [proc[p] EXCEPT !.value = @ + 1]
    BY <1>7 DEF StartProgram, Types
  <2> QED BY <1>1, <1>7, <2>1 DEF StartProgram, Types, Walked, Way, Keeps, ProcessRecord
<1>8. CASE kill(p)
  BY <1>1, <1>8 DEF kill, Types, Walked, Way, Keeps
<1>9. CASE ExitFiles(p)
  <2>1. proc'[p] = [proc[p] EXCEPT !.fds = {}]
    BY <1>9 DEF ExitFiles, Types
  <2>2. /\ pc[p] = "exit" /\ pc' = [pc EXCEPT ![p] = "up"]
        /\ proc' = [proc EXCEPT ![p].fds = {}]
        /\ UNCHANGED <<next_pid, child, path, eax>>
    BY <1>9 DEF ExitFiles
  <2> QED BY <1>1, <2>1, <2>2 DEF Types, Walked, Way, Keeps, ProcessRecord
<1>10. CASE ExitUp(p)
  <2>1. proc'[p] = [proc[p] EXCEPT !.value = @ + 1]
    BY <1>10 DEF ExitUp, Types
  <2>2. /\ pc[p] = "up" /\ pc' = [pc EXCEPT ![p] = "gone"]
        /\ proc' = [proc EXCEPT ![p].value = @ + 1]
        /\ UNCHANGED <<next_pid, child, path, eax>>
    BY <1>10 DEF ExitUp
  <2> QED BY <1>1, <2>1, <2>2 DEF Types, Walked, Way, Keeps, ProcessRecord
<1>11. ASSUME NEW code \in ExitCode, syscall_exit(p, code) PROVE Walked(p) /\ Way(p)
  <2>1. proc'[p] = [proc[p] EXCEPT !.exit_code = code]
    BY <1>11 DEF syscall_exit, Types
  <2> QED BY <1>1, <1>11, <2>1 DEF syscall_exit, Types, Walked, Way, Keeps, ProcessRecord
<1> QED BY <1>3, <1>4, <1>5, <1>6, <1>7, <1>8, <1>9, <1>10, <1>11 DEF Walk

(* A step that leaves the processes alone. *)
LEMMA QuietLife ==
  ASSUME Types, Life, UNCHANGED <<proc, pc, child, path>>, next_pid' \in Int, next_pid' >= next_pid
  PROVE  Life'
<1>1. ASSUME NEW q \in Pid PROVE Awaited(q)' <=> Awaited(q)
  BY DEF Awaited
<1>2. ASSUME NEW q \in Pid PROVE LifeOf(q)' /\ RecordOf(q)'
  <2>1. LifeOf(q) /\ RecordOf(q) /\ next_pid \in Int /\ q \in Int
    BY DEF Life, Types, Pid
  <2>2. LifeOf(q)'
    BY <1>1, <2>1 DEF LifeOf
  <2>3. Ups(q)' = Ups(q)
    BY <1>1 DEF Ups
  <2> QED BY <1>1, <2>1, <2>2, <2>3 DEF RecordOf
<1> QED BY <1>2 DEF Life

(* A thread on its way. *)
LEMMA WalkLife ==
  ASSUME Types, Life, Types', NEW p \in Pid, Walk(p)
  PROVE  Life'
<1>1. Walked(p) /\ Way(p)
  BY WalkWay
<1>2. LifeOf(p) /\ RecordOf(p) /\ proc[p] # NULL /\ proc'[p] # NULL /\ proc[p].value \in Int
  BY <1>1, NullAssumption DEF Life, Walked, ProcessRecord
<1>3. /\ pc[p] \notin {"none", "gone", "exec", "wait"}
      /\ pc'[p] \notin {"none", "load", "exec", "wait"}
  BY <1>1 DEF Way
<1>4. ASSUME NEW q \in Pid PROVE Awaited(q)' <=> Awaited(q)
  BY <1>1, <1>3, Zenon DEF Awaited, Walked
<1>5. LifeOf(p)'
  BY ZenonT(30), <1>1, <1>2, <1>3, <1>4 DEF LifeOf, Walked, Way, Keeps, Loading
<1>6. Ups(p)' = proc'[p].value
  BY <1>1, <1>2, <1>4, SMTT(30) DEF LifeOf, RecordOf, Ups, Walked, Way, Keeps, Loading
<1>7. RecordOf(p)'
  <2>1. Awaited(p) => p # Main
    BY Zenon, LifeFacts DEF Awaited
  <2> QED BY ZenonT(30), <1>1, <1>2, <1>4, <1>6, <2>1 DEF LifeOf, RecordOf, Walked, Way, Keeps, Loading
<1>8. ASSUME NEW q \in Pid, q # p PROVE LifeOf(q)' /\ RecordOf(q)'
  <2>1. LifeOf(q) /\ RecordOf(q)
    BY ZenonT(30) DEF Life
  <2>2. pc[q] = "wait" /\ child[q] = p => ~Awaited(p) /\ proc[p].status = "ALIVE"
    BY <2>1, LifeFacts, SMTT(30) DEF LifeOf, Awaited
  <2>3. pc[q] = "wait" /\ child[q] = p => proc'[p].status = "ALIVE"
    BY Zenon, <1>1, <1>2, <2>2 DEF Way, Keeps, LifeOf, Loading
  <2>4. LifeOf(q)'
    BY ZenonT(30), <1>1, <1>2, <1>4, <1>8, <2>1, <2>3 DEF LifeOf, Walked
  <2>5. Ups(q)' = Ups(q)
    BY <1>1, <1>4, <1>8 DEF Ups, Walked
  <2> QED BY <1>1, <1>4, <1>8, <2>1, <2>4, <2>5 DEF RecordOf, Walked
<1> QED BY <1>5, <1>7, <1>8 DEF Life

(* process_execute starts a process. *)
LEMMA ExecuteLife ==
  ASSUME Types, Life, Types', NEW p \in Pid, NEW f \in File, process_execute(p, f)
  PROVE  Life'
<1> USE DEF Goto, fileVars
<1>0. LifeOf(p) /\ RecordOf(p)
  BY DEF Life
<1> PICK n \in Pid : n = next_pid
  BY ZenonT(30) DEF process_execute
<1>1. /\ n \in Pid /\ pc[n] = "none" /\ p # n /\ pc[p] = "run"
      /\ proc[n] = NULL /\ ~Awaited(n) /\ n # Main
  BY LifeFacts DEF process_execute, Life, LifeOf, Types, Pid, Main
<1>2. /\ proc'[n] = NewProcess(p) /\ pc'[p] = "exec" /\ pc'[n] = "load"
      /\ child'[p] = n /\ path'[n] = f /\ next_pid' = n + 1
      /\ \A q \in Pid \ {p} : child'[q] = child[q]
      /\ \A q \in Pid \ {n} : proc'[q] = proc[q] /\ path'[q] = path[q]
      /\ \A q \in Pid \ {p, n} : pc'[q] = pc[q]
  BY <1>1 DEF process_execute, Types
<1>3. /\ proc'[n] # NULL /\ proc'[n].value = 0 /\ proc'[n].status = "ALIVE"
      /\ proc'[n].exe_file = NULL /\ proc'[n].ppid = p
  <2>1. NewProcess(p) \in ProcessRecord
    BY ProcessAssumption DEF NewProcess, ProcessRecord
  <2>2. proc'[n] # NULL
    BY <1>2, <2>1, NullAssumption
  <2> QED BY <1>2, <2>2 DEF NewProcess
<1>4. ASSUME NEW q \in Pid PROVE Awaited(q)' <=> Awaited(q) \/ q = n
  BY <1>1, <1>2 DEF Awaited
<1>5. LifeOf(n)' /\ RecordOf(n)'
  <2>1. Awaited(n)' /\ n \in Int
    BY <1>1, <1>4 DEF Pid
  <2>2. LifeOf(n)'
    BY <1>1, <1>2, <1>3, <2>1 DEF LifeOf, Loading
  <2>3. Ups(n)' = 0
    BY <1>2 DEF Ups, Loading
  <2> QED BY <1>1, <1>2, <1>3, <2>1, <2>2, <2>3 DEF RecordOf
<1>6. LifeOf(p)' /\ RecordOf(p)'
  <2>1. LifeOf(p)'
    BY <1>0, <1>1, <1>2, <1>3, SMTT(30) DEF LifeOf, Loading, Pid
  <2>2. Ups(p)' = Ups(p)
    BY <1>1, <1>2, <1>4, Zenon DEF Ups, Loading
  <2> QED BY <1>0, <1>1, <1>2, <1>4, <2>1, <2>2, Zenon DEF RecordOf
<1>7. ASSUME NEW q \in Pid, q # p, q # n PROVE LifeOf(q)' /\ RecordOf(q)'
  <2>1. LifeOf(q) /\ RecordOf(q) /\ q \in Int /\ n \in Int
    BY <1>1 DEF Life, Pid
  <2>2. pc[q] \in {"exec", "wait"} => child[q] \in Pid /\ child[q] # n
    BY Zenon, <1>1, <2>1 DEF LifeOf
  <2>3. LifeOf(q)'
    <3>1. pc'[q] = pc[q] /\ child'[q] = child[q] /\ proc'[q] = proc[q] /\ path'[q] = path[q]
      BY <1>2, <1>7
    <3>2. pc[q] \in {"exec", "wait"} => proc'[child[q]] = proc[child[q]]
      BY <1>2, <2>2
    <3>3. q >= next_pid' => q >= next_pid
      BY <1>2, <2>1
    <3>4. Awaited(q)' <=> Awaited(q)
      BY Zenon, <1>4, <1>7
    <3> QED BY Zenon, <2>1, <3>1, <3>2, <3>3, <3>4 DEF LifeOf
  <2>4. Ups(q)' = Ups(q)
    BY Zenon, <1>2, <1>4, <1>7 DEF Ups
  <2> QED BY Zenon, <1>2, <1>4, <1>7, <2>1, <2>3, <2>4 DEF RecordOf
<1> QED BY <1>5, <1>6, <1>7 DEF Life

(* process_execute returns, and frees the process_t of a failed load. *)
LEMMA ExecuteReturnsLife ==
  ASSUME Types, Life, Types', NEW p \in Pid, ExecuteReturns(p)
  PROVE  Life'
<1> USE DEF Goto, fileVars
<1>0. LifeOf(p) /\ RecordOf(p)
  BY DEF Life
<1> PICK c \in Pid : c = child[p]
  BY LifeFacts DEF ExecuteReturns
<1>1. /\ c \in Pid /\ c # Main /\ proc[c] \in ProcessRecord /\ LifeOf(c) /\ RecordOf(c)
      /\ proc[c] # NULL
      /\ \A q \in Pid : pc[q] \in {"exec", "wait"} /\ child[q] = c => q = p
  BY LifeFacts, NullAssumption DEF ExecuteReturns, Life
<1>2. (proc[c].status = "INVALID" => pc[c] = "gone") /\ pc[c] \notin Loading
  BY RaisedBy DEF ExecuteReturns
<1>3. /\ pc[p] = "exec" /\ pc'[p] = "run" /\ path' = path /\ next_pid' = next_pid
      /\ \A q \in Pid \ {p} : pc'[q] = pc[q] /\ child'[q] = child[q]
      /\ \A q \in Pid \ {c} : proc'[q] = proc[q]
  BY <1>1 DEF ExecuteReturns, Types
<1>4. \/ proc[c].status = "INVALID" /\ proc'[c] = NULL
      \/ /\ proc[c].status = "ALIVE" /\ proc'[c] # NULL
         /\ proc'[c].value = proc[c].value - 1
         /\ Keeps(c, {"ppid", "status", "exe_file"})
  <2>1. CASE proc[c].status = "INVALID"
    BY <1>1, <2>1 DEF ExecuteReturns, Types
  <2>2. CASE proc[c].status # "INVALID"
    <3>1. proc'[c] = [proc[c] EXCEPT !.value = @ - 1]
      BY <1>1, <2>2 DEF ExecuteReturns, Types
    <3> QED BY <1>1, <2>2, <3>1, NullAssumption DEF ProcessRecord, Keeps
  <2> QED BY <2>1, <2>2
<1>5. ASSUME NEW q \in Pid PROVE Awaited(q)' <=> Awaited(q) /\ q # c
  BY <1>1, <1>3 DEF Awaited
<1>6. Awaited(c) /\ ~Awaited(c)'
  BY <1>1, <1>3, <1>5, Zenon DEF Awaited
<1>7. p # c
  BY <1>0, <1>1, <1>3, Zenon DEF LifeOf, RecordOf
<1>8. LifeOf(c)' /\ RecordOf(c)'
  <2>1. pc'[c] = pc[c] /\ child'[c] = child[c]
    BY Zenon, <1>1, <1>3, <1>7
  <2>2. proc'[c] # NULL => Ups(c)' = Ups(c) - 1
    <3> SUFFICES ASSUME proc'[c] # NULL PROVE Ups(c)' = Ups(c) - 1
      OBVIOUS
    <3>1. proc[c].status = "ALIVE"
      BY Zenon, <1>4
    <3>2. Ups(c) = 1 + (IF pc[c] = "gone" THEN 1 ELSE 0)
      BY Zenon, <1>2, <1>6, <3>1 DEF Ups
    <3>3. Ups(c)' = 0 + (IF pc[c] = "gone" THEN 1 ELSE 0)
      BY ZenonT(40), <1>6, <2>1 DEF Ups
    <3> QED BY <3>2, <3>3
  <2>3. LifeOf(c)'
    <3>1. pc[c] \in {"exec", "wait"} => child[c] \in Pid \ {c}
      BY <1>1, <1>7 DEF LifeOf
    <3>2. pc[c] \in {"exec", "wait"} => proc'[child[c]] = proc[child[c]]
      BY <1>3, <3>1
    <3> QED BY SMTT(30), <1>1, <1>2, <1>3, <1>4, <2>1, <3>1, <3>2 DEF LifeOf, Loading
  <2> QED BY <1>1, <1>3, <1>4, <1>6, <2>1, <2>2, <2>3, ZenonT(30) DEF RecordOf, Keeps
<1>9. ASSUME NEW q \in Pid, q # c PROVE LifeOf(q)' /\ RecordOf(q)'
  <2>1. LifeOf(q) /\ RecordOf(q) /\ proc'[q] = proc[q] /\ (Awaited(q)' <=> Awaited(q))
    BY <1>3, <1>5, <1>9, Zenon DEF Life
  <2>2. CASE q = p
    <3>1. LifeOf(q)'
      BY <1>3, <2>1, <2>2, Zenon DEF LifeOf, Loading
    <3>2. Ups(q)' = Ups(q)
      BY ZenonT(30), <1>3, <2>1, <2>2 DEF Ups, Loading
    <3> QED BY <1>3, <2>1, <2>2, <3>1, <3>2, Zenon DEF RecordOf
  <2>3. CASE q # p
    <3>1. pc'[q] = pc[q] /\ child'[q] = child[q]
      BY <1>3, <2>3, Zenon
    <3>2. pc[q] \in {"exec", "wait"} => child[q] \in Pid /\ child[q] # c
      BY Zenon, <1>1, <2>1, <2>3 DEF LifeOf
    <3>3. LifeOf(q)'
      BY Zenon, <1>3, <2>1, <3>1, <3>2 DEF LifeOf
    <3>4. Ups(q)' = Ups(q)
      BY Zenon, <2>1, <3>1 DEF Ups
    <3> QED BY <2>1, <3>1, <3>3, <3>4 DEF RecordOf
  <2> QED BY <2>2, <2>3
<1> QED BY <1>8, <1>9 DEF Life

(* process_wait starts to wait. *)
LEMMA WaitLife ==
  ASSUME Types, Life, Types', NEW p \in Pid, NEW k \in Pid, process_wait(p, k)
  PROVE  Life'
<1> USE DEF Goto, fileVars
<1>1. /\ proc' = proc /\ next_pid' = next_pid /\ path' = path
      /\ pc[p] = "run" /\ pc'[p] = "wait" /\ child'[p] = k
      /\ \A q \in Pid \ {p} : pc'[q] = pc[q] /\ child'[q] = child[q]
      /\ proc[k] # NULL /\ proc[k].ppid = p /\ proc[k].status = "ALIVE"
  BY ZenonT(40) DEF process_wait, IsChild, Types
<1>2. ASSUME NEW q \in Pid PROVE Awaited(q)' <=> Awaited(q)
  BY <1>1, Zenon DEF Awaited
<1>3. ASSUME NEW q \in Pid PROVE LifeOf(q)' /\ RecordOf(q)'
  <2>1. LifeOf(q) /\ RecordOf(q)
    BY Zenon DEF Life
  <2>2. Ups(q)' = Ups(q)
    BY Zenon, <1>1, <1>2 DEF Ups, Loading
  <2>3. LifeOf(q)'
    BY Zenon, <1>1, <1>2, <2>1 DEF LifeOf, Loading
  <2> QED BY <1>1, <1>2, <2>1, <2>2, <2>3 DEF RecordOf
<1> QED BY Zenon, <1>3 DEF Life

(* process_wait returns, and frees the process_t. *)
LEMMA WaitReturnsLife ==
  ASSUME Types, Life, Types', NEW p \in Pid, WaitReturns(p)
  PROVE  Life'
<1> USE DEF Goto, fileVars
<1> PICK c \in Pid : c = child[p]
  BY LifeFacts DEF WaitReturns
<1>1. /\ c \in Pid /\ pc[c] = "gone"
      /\ \A q \in Pid : pc[q] \in {"exec", "wait"} /\ child[q] = c => q = p
  BY Zenon, LifeFacts, RaisedBy DEF WaitReturns
<1>2. /\ proc'[c] = NULL /\ next_pid' = next_pid /\ path' = path
      /\ pc[p] = "wait" /\ pc'[p] = "run"
      /\ \A q \in Pid \ {p} : pc'[q] = pc[q] /\ child'[q] = child[q]
      /\ \A q \in Pid \ {c} : proc'[q] = proc[q]
  BY Zenon, <1>1 DEF WaitReturns, Types
<1>3. ASSUME NEW q \in Pid PROVE Awaited(q)' <=> Awaited(q)
  BY <1>2, Zenon DEF Awaited
<1>4. ASSUME NEW q \in Pid PROVE LifeOf(q)' /\ RecordOf(q)'
  <2>1. LifeOf(q) /\ RecordOf(q) /\ (q = c => q # p)
    BY <1>1, <1>2, Zenon DEF Life
  <2>2. q # c => Ups(q)' = Ups(q)
    BY Zenon, <1>2, <1>3 DEF Ups, Loading
  <2>3. q # p /\ pc[q] \in {"exec", "wait"} => child[q] # c
    BY <1>1, Zenon
  <2>4. LifeOf(q)'
    BY <1>1, <1>2, <1>3, <2>1, <2>3 DEF LifeOf, Loading
  <2> QED BY <1>2, <1>3, <2>1, <2>2, <2>4, Zenon DEF RecordOf
<1> QED BY Zenon, <1>4 DEF Life

(* The calls on files do not change where a process is. *)
LEMMA FileCallLife ==
  ASSUME Types, Life, Types', NEW p \in Pid, FileCall(p)
  PROVE  Life'
<1>1. /\ UNCHANGED <<pc, child, path, next_pid>>
      /\ \A q \in Pid : q # p => proc'[q] = proc[q]
      /\ Keeps(p, {"ppid", "status", "value", "exe_file"})
      /\ proc[p] # NULL /\ proc'[p] # NULL
  BY FileCallKeeps, NullAssumption
<1>2. ASSUME NEW q \in Pid PROVE Awaited(q)' <=> Awaited(q)
  BY <1>1 DEF Awaited
<1>3. ASSUME NEW q \in Pid
      PROVE  /\ proc'[q] # NULL <=> proc[q] # NULL
             /\ proc[q] # NULL => Keeps(q, {"ppid", "status", "value", "exe_file"})
  BY <1>1 DEF Keeps
<1>4. ASSUME NEW q \in Pid PROVE LifeOf(q)' /\ RecordOf(q)'
  <2>1. LifeOf(q) /\ RecordOf(q)
    BY DEF Life
  <2>2. proc[q] # NULL => Ups(q)' = Ups(q)
    BY Zenon, <1>1, <1>2, <1>3 DEF Ups, Keeps
  <2>3. LifeOf(q)'
    BY <1>1, <1>2, <1>3, <2>1, SMTT(30) DEF LifeOf, Keeps, Loading
  <2> QED BY Zenon, <1>1, <1>2, <1>3, <2>1, <2>2, <2>3 DEF RecordOf, Keeps
<1> QED BY <1>4 DEF Life

(* Life is an invariant. *)
LEMMA LifeStep ==
  ASSUME Types, Life, Next, Types'
  PROVE  Life'
<1>1. PICK p \in Pid : Kernel(p) \/ Program(p)
  BY Zenon DEF Next
<1>2. CASE ExecuteFails(p) \/ ThreadCreateFails(p)
  BY <1>2, QuietLife DEF ExecuteFails, ThreadCreateFails, Types
<1>3. ASSUME NEW f \in File, process_execute(p, f) PROVE Life'
  BY <1>3, ExecuteLife
<1>4. CASE ExecuteReturns(p)
  BY <1>4, ExecuteReturnsLife
<1>5. CASE Walk(p)
  BY Zenon, <1>5, WalkLife
<1>6. ASSUME NEW k \in Pid, WaitFails(p, k) PROVE Life'
  BY <1>6, QuietLife DEF WaitFails, Types
<1>7. ASSUME NEW k \in Pid, process_wait(p, k) PROVE Life'
  BY <1>7, WaitLife
<1>8. CASE WaitReturns(p)
  BY <1>8, WaitReturnsLife
<1>9. CASE FileCall(p)
  BY <1>9, FileCallLife
<1> QED BY <1>1, <1>2, <1>3, <1>4, <1>5, <1>6, <1>7, <1>8, <1>9, Zenon DEF Kernel, Program, Walk, FileCall
----------------------------------------------------------------------------
(* The theorems.                                                           *)

(* The initial state: the first process runs. *)
LEMMA InitLife == Init => LifeInv
<1> SUFFICES ASSUME Init PROVE LifeInv
  OBVIOUS
<1> USE ProcessAssumption, NullAssumption
<1>1. Types
  <2>1. NewProcess(PID_ERROR) \in ProcessRecord
    BY DEF NewProcess, ProcessRecord
  <2>2. proc \in [Pid -> ProcessRecord \cup {NULL}]
    BY <2>1 DEF Init
  <2>3. next_pid \in 2..(MaxPid + 1)
    BY DEF Init
  <2>4. pc \in [Pid -> Labels] /\ panicked \in BOOLEAN
    BY Zenon DEF Init, Labels
  <2>5. /\ child \in [Pid -> Pid \cup {NULL}] /\ path \in [Pid -> File \cup {NULL}]
        /\ eax \in [Pid -> Int]
    BY DEF Init
  <2>6. /\ open_cnt \in [File -> Int] /\ deny_write_cnt \in [File -> Int]
        /\ text \in [File -> 0..1]
    BY DEF Init
  <2> QED BY <2>2, <2>3, <2>4, <2>5, <2>6 DEF Types
<1>2. Life
  <2>1. ASSUME NEW q \in Pid PROVE ~Awaited(q) /\ Ups(q) = 0
    <3>1. \A r \in Pid : pc[r] \in {"run", "none"}
      BY DEF Init
    <3> QED BY <3>1 DEF Awaited, Ups
  <2>2. Main \in Pid /\ proc[Main] = NewProcess(PID_ERROR) /\ pc[Main] = "run"
    BY DEF Init, Main, Pid
  <2>3. NewProcess(PID_ERROR) # NULL
    BY DEF NewProcess, ProcessRecord
  <2>4. LifeOf(Main) /\ RecordOf(Main)
    BY <2>1, <2>2, <2>3 DEF Init, LifeOf, RecordOf, NewProcess, Main, Loading, PID_ERROR
  <2>5. ASSUME NEW q \in Pid, q # Main PROVE LifeOf(q) /\ RecordOf(q)
    BY <2>5 DEF Init, LifeOf, RecordOf, Loading
  <2> QED BY <2>4, <2>5 DEF Life
<1> QED BY <1>1, <1>2 DEF LifeInv

(* The invariant of the life of processes. *)
THEOREM LifeInvariant == Spec => []LifeInv
<1>1. LifeInv /\ [Next]_vars => LifeInv'
  <2> SUFFICES ASSUME LifeInv, [Next]_vars PROVE LifeInv'
    OBVIOUS
  <2>1. CASE Next
    <3>1. Types'
      BY <2>1, TypesStep DEF LifeInv
    <3>2. Life'
      BY <2>1, <3>1, LifeStep DEF LifeInv
    <3> QED BY <3>1, <3>2 DEF LifeInv
  <2>2. CASE UNCHANGED vars
    <3> USE <2>2 DEF vars, fileVars
    <3>1. Types'
      BY DEF LifeInv, Types
    <3>2. Life'
      BY QuietLife DEF LifeInv, Types
    <3> QED BY <3>1, <3>2 DEF LifeInv
  <2> QED BY <2>1, <2>2
<1> QED BY <1>1, InitLife, PTL DEF Spec

(* A process_t stays until neither its thread nor its parent needs it.     *)
THEOREM Kept == Spec => []ProcessKept
<1>1. LifeInv => ProcessKept
  <2> SUFFICES ASSUME LifeInv, NEW p \in Pid
               PROVE  /\ pc[p] \notin {"none", "gone"} => proc[p] # NULL
                      /\ pc[p] \in {"exec", "wait"} => proc[child[p]] # NULL
    BY DEF ProcessKept
  <2> QED BY DEF LifeInv, Life, LifeOf
<1> QED BY <1>1, LifeInvariant, PTL

(* Only the two ends of the waits on a child's semaphore bring its parent  *)
(* back to its program.                                                    *)
LEMMA Returns ==
  ASSUME LifeInv, Next, NEW p \in Pid, pc[p] \in {"exec", "wait"}, pc'[p] = "run"
  PROVE  ExecuteReturns(p) \/ WaitReturns(p)
<1>1. PICK r \in Pid : Kernel(r) \/ Program(r)
  BY Zenon DEF Next
<1> USE DEF Goto
<1>2. CASE Walk(r)
  <2>1. Walked(r) /\ Way(r)
    BY Zenon, <1>2, TypesStep, WalkWay DEF LifeInv
  <2> QED BY <2>1 DEF Walked, Way
<1>3. CASE FileCall(r)
  BY <1>3, FileCallKeeps DEF LifeInv
<1>4. ASSUME NEW f \in File, process_execute(r, f) PROVE FALSE
  <2>1. next_pid \in Pid /\ pc[next_pid] = "none"
    BY <1>4 DEF process_execute, LifeInv, Life, LifeOf, Types, Pid
  <2> QED BY ZenonT(30), <1>4, <2>1 DEF process_execute, LifeInv, Types
<1>5. ASSUME NEW c \in Pid, WaitFails(r, c) \/ process_wait(r, c) PROVE FALSE
  BY <1>5 DEF WaitFails, process_wait, LifeInv, Types
<1>6. CASE ExecuteFails(r) \/ ThreadCreateFails(r)
  BY <1>6 DEF ExecuteFails, ThreadCreateFails
<1>7. CASE ExecuteReturns(r) \/ WaitReturns(r)
  BY <1>7 DEF ExecuteReturns, WaitReturns, LifeInv, Types
<1> QED BY <1>1, <1>2, <1>3, <1>4, <1>5, <1>6, <1>7, Zenon DEF Kernel, Program, Walk, FileCall

(* process_execute and process_wait report what happened to the child,     *)
(* although both wait on its one semaphore.                                *)
THEOREM Reports == Spec => ReportsTrue
<1>1. LifeInv /\ [Next]_vars =>
        [\A p \in Pid : pc[p] = "wait" /\ pc'[p] = "run" => pc[child[p]] = "gone"]_vars
  <2> SUFFICES ASSUME LifeInv, Next, NEW p \in Pid, pc[p] = "wait", pc'[p] = "run"
               PROVE  pc[child[p]] = "gone"
    BY Zenon DEF vars
  <2>1. WaitReturns(p)
    BY Returns, Zenon DEF ExecuteReturns
  <2> QED BY <2>1, RaisedBy, Zenon DEF WaitReturns, LifeInv
<1>2. LifeInv /\ [Next]_vars =>
        [\A p \in Pid : pc[p] = "exec" /\ pc'[p] = "run" =>
           (eax'[p] # PID_ERROR <=> proc[child[p]].exe_file # NULL)]_vars
  <2> SUFFICES ASSUME LifeInv, Next, NEW p \in Pid, pc[p] = "exec", pc'[p] = "run"
               PROVE  eax'[p] # PID_ERROR <=> proc[child[p]].exe_file # NULL
    BY Zenon DEF vars
  <2>1. ExecuteReturns(p)
    BY ZenonT(30), Returns DEF WaitReturns
  <2> DEFINE c == child[p]
  <2>2. c \in Pid /\ c # Main /\ proc[c] \in ProcessRecord /\ proc[c] # NULL /\ RecordOf(c)
    BY LifeFacts, NullAssumption DEF LifeInv, Life
  <2>3. pc[c] \notin Loading
    BY <2>1, RaisedBy DEF ExecuteReturns, LifeInv
  <2>4. eax'[p] # PID_ERROR <=> proc[c].status # "INVALID"
    <3>1. CASE proc[c].status = "INVALID"
      BY Zenon, <2>1, <3>1 DEF ExecuteReturns, LifeInv, Types
    <3>2. CASE proc[c].status # "INVALID"
      <4>1. eax'[p] = c
        BY SMTT(30), <2>1, <3>2 DEF ExecuteReturns, LifeInv, Types
      <4> QED BY <2>2, <3>2, <4>1 DEF Pid, PID_ERROR
    <3> QED BY <3>1, <3>2
  <2>5. proc[c].status \in {"ALIVE", "INVALID"}
    BY <2>2 DEF ProcessRecord
  <2> QED BY Zenon, <2>2, <2>3, <2>4, <2>5, NullAssumption DEF RecordOf, Loading
<1> QED BY <1>1, <1>2, LifeInvariant, PTL DEF Spec, ReportsTrue, WaitsForExit, ExecReportsLoad
----------------------------------------------------------------------------
(* Files.                                                                  *)

(* The processes that have file f open for their stack to be set up. *)
Loaders(f) == {p \in Pid : pc[p] = "stack" /\ path[p] = f}

CountsOf(f) ==
  /\ deny_write_cnt[f] = Cardinality(Deniers(f))
  /\ open_cnt[f] >= Cardinality(Descriptors(f)) + Cardinality(Loaders(f))
                      + Cardinality(Deniers(f))

FdsOf(p) ==
  proc[p] # NULL =>
    /\ IsFiniteSet(proc[p].fds)
    /\ \A l, m \in proc[p].fds : l.fd = m.fd => l = m
    /\ pc[p] \notin {"up", "gone"} => proc[p].num_of_opened_files = Cardinality(proc[p].fds)
    /\ proc[p].num_of_opened_files \in 0..MAX_OPEN

Counts == (\A f \in File : CountsOf(f)) /\ (\A p \in Pid : FdsOf(p))

IInv == LifeInv /\ Counts
----------------------------------------------------------------------------
(* The counters.                                                           *)

(* The sets that are counted are finite. *)
LEMMA Finite ==
  /\ \A S \in SUBSET Pid : IsFiniteSet(S) /\ Cardinality(S) \in Nat
  /\ \A S \in SUBSET (Pid \X (3..MaxFd)) : IsFiniteSet(S) /\ Cardinality(S) \in Nat
<1>1. IsFiniteSet(Pid) /\ IsFiniteSet(3..MaxFd)
  BY FS_Interval, ProcessAssumption DEF Pid
<1>2. IsFiniteSet(Pid \X (3..MaxFd))
  BY <1>1, FS_Product, Zenon
<1> QED BY <1>1, <1>2, FS_Subset, FS_CardinalityType

(* Finite, for the executables and the descriptors of one file.            *)
LEMMA FileSets ==
  ASSUME NEW f
  PROVE  /\ IsFiniteSet(Descriptors(f)) /\ Cardinality(Descriptors(f)) \in Nat
         /\ IsFiniteSet(Loaders(f)) /\ Cardinality(Loaders(f)) \in Nat
         /\ IsFiniteSet(Deniers(f)) /\ Cardinality(Deniers(f)) \in Nat
<1>1. /\ Descriptors(f) \in SUBSET (Pid \X (3..MaxFd))
      /\ Deniers(f) \in SUBSET Pid /\ Loaders(f) \in SUBSET Pid
  BY DEF Descriptors, Deniers, Loaders
<1> QED BY <1>1, Finite

(* When no program is loaded or left and no descriptor is made, the counts *)
(* of a file cover what is there after the step too.                       *)
LEMMA QuietCounts ==
  ASSUME Types, Types', NEW f \in File, CountsOf(f),
         Deniers(f)' = Deniers(f), Loaders(f)' = Loaders(f), Descriptors(f)' \subseteq Descriptors(f),
         open_cnt'[f] = open_cnt[f], deny_write_cnt'[f] = deny_write_cnt[f]
  PROVE  CountsOf(f)'
<1>1. Cardinality(Descriptors(f)') <= Cardinality(Descriptors(f)) /\ Cardinality(Descriptors(f)') \in Nat
  BY FileSets, FS_Subset, FS_CardinalityType
<1> QED BY <1>1, FileSets DEF CountsOf, Types

(* Numbers of open files below the limit, and above none.                  *)
LEMMA OneMore ==
  ASSUME NEW n \in 0..MAX_OPEN
  PROVE  /\ n < MAX_OPEN => n + 1 \in 0..MAX_OPEN
         /\ n - 1 >= 0 => n - 1 \in 0..MAX_OPEN
BY ProcessAssumption

(* One more or one less. *)
LEMMA ByOne ==
  /\ 0 \in Int /\ 1 \in Int /\ -1 \in Int
  /\ 1 + 0 <= 1 /\ (-1) + 0 <= -1 /\ (-1) + 1 <= 0 /\ 0 + (-1) <= -1
  /\ \A a \in Int : a = a + 0
  /\ \A a \in Int : a - 1 = a + (-1)
  /\ \A a \in Nat : a \in Int /\ a >= 0
OBVIOUS

(* Descriptors of a file come and go together with its open count.         *)
LEMMA OpenCounts ==
  ASSUME Types, NEW f \in File, CountsOf(f), NEW k \in Int,
         Deniers(f)' = Deniers(f), Loaders(f)' = Loaders(f), deny_write_cnt' = deny_write_cnt,
         Cardinality(Descriptors(f)') = Cardinality(Descriptors(f)) + k,
         open_cnt'[f] = open_cnt[f] + k
  PROVE  CountsOf(f)'
<1>1. open_cnt[f] \in Int
  BY DEF Types
<1> QED BY <1>1, FileSets DEF CountsOf

(* i more load the file and j more run it, with k more openings.           *)
LEMMA CountsMove ==
  ASSUME Types, NEW f \in File, CountsOf(f), NEW i \in Int, NEW j \in Int, NEW k \in Int,
         Descriptors(f)' \subseteq Descriptors(f), i + j <= k,
         Cardinality(Loaders(f)') = Cardinality(Loaders(f)) + i,
         Cardinality(Deniers(f)') = Cardinality(Deniers(f)) + j,
         open_cnt'[f] = open_cnt[f] + k, deny_write_cnt'[f] = deny_write_cnt[f] + j
  PROVE  CountsOf(f)'
<1>1. /\ IsFiniteSet(Descriptors(f)) /\ Cardinality(Descriptors(f)) \in Nat
      /\ Cardinality(Loaders(f)) \in Nat /\ Cardinality(Deniers(f)) \in Nat
  BY Zenon, FileSets
<1>2. Cardinality(Descriptors(f)') <= Cardinality(Descriptors(f)) /\ Cardinality(Descriptors(f)') \in Nat
  BY Zenon, <1>1, FS_Subset, FS_CardinalityType
<1>3. /\ open_cnt[f] \in Int /\ deny_write_cnt[f] = Cardinality(Deniers(f))
      /\ open_cnt[f] >= Cardinality(Descriptors(f)) + Cardinality(Loaders(f)) + Cardinality(Deniers(f))
  BY Zenon DEF Types, CountsOf
<1>4. /\ deny_write_cnt'[f] = Cardinality(Deniers(f)')
      /\ open_cnt'[f] >= Cardinality(Descriptors(f)') + Cardinality(Loaders(f)') + Cardinality(Deniers(f)')
  BY <1>1, <1>2, <1>3
<1> QED BY Zenon, <1>4 DEF CountsOf

(* The counters of the inodes are right after every step. *)
LEMMA CountsOfStep ==
  ASSUME IInv, Next, Types', NEW f \in File
  PROVE  CountsOf(f)'
<1>1. PICK p \in Pid : Kernel(p) \/ Program(p)
  BY DEF Next
<1>2. LifeOf(p) /\ RecordOf(p) /\ CountsOf(f) /\ Types /\ Life
  BY DEF IInv, LifeInv, Life, Counts
<1> USE DEF Goto, fileVars
<1>3. /\ IsFiniteSet(Descriptors(f)) /\ Cardinality(Descriptors(f)) \in Nat
      /\ IsFiniteSet(Loaders(f)) /\ Cardinality(Loaders(f)) \in Nat
      /\ IsFiniteSet(Deniers(f)) /\ Cardinality(Deniers(f)) \in Nat
  BY FileSets
<1> DEFINE Quiet == /\ Deniers(f)' = Deniers(f) /\ Loaders(f)' = Loaders(f)
                    /\ Descriptors(f)' \subseteq Descriptors(f)
                    /\ open_cnt'[f] = open_cnt[f] /\ deny_write_cnt'[f] = deny_write_cnt[f]
<1>4. ASSUME Quiet PROVE CountsOf(f)'
  BY ZenonT(40), <1>2, <1>4, QuietCounts
<1>5. CASE ExecuteFails(p) \/ ThreadCreateFails(p)
  BY <1>4, <1>5 DEF ExecuteFails, ThreadCreateFails, Deniers, Loaders, Descriptors
<1>6. CASE \E g \in File : process_execute(p, g)
  <2> DEFINE n == next_pid
  <2>1. /\ n \in Pid /\ pc[n] = "none" /\ p # n /\ proc[n] = NULL
        /\ proc'[n] = NewProcess(p) /\ \A q \in Pid : q # n => proc'[q] = proc[q]
        /\ pc'[p] = "exec" /\ pc[p] = "run" /\ pc'[n] = "load"
        /\ \A q \in Pid \ {p, n} : pc'[q] = pc[q]
        /\ \A q \in Pid \ {n} : path'[q] = path[q]
        /\ open_cnt' = open_cnt /\ deny_write_cnt' = deny_write_cnt
    BY Zenon, <1>2, <1>6, ExecuteFacts
  <2> HIDE DEF n
  <2>2. proc'[n].fds = {}
    BY Zenon, <2>1, NewFiles
  <2>3. "none" # "stack" /\ "run" # "stack" /\ "exec" # "stack" /\ "load" # "stack"
    OBVIOUS
  <2>4. Deniers(f)' = Deniers(f)
    BY <2>1 DEF Deniers, NewProcess
  <2>5. Loaders(f)' = Loaders(f)
    BY <2>1 DEF Loaders
  <2>6. Descriptors(f)' \subseteq Descriptors(f)
    BY <2>1, <2>2 DEF Descriptors
  <2> QED BY Zenon, <1>4, <2>1, <2>4, <2>5, <2>6
<1>7. CASE ExecuteReturns(p) \/ WaitReturns(p)
  <2> DEFINE c == child[p]
  <2>1. c \in Pid /\ proc[c] \in ProcessRecord /\ proc[c] # NULL
    BY ZenonT(30), <1>2, <1>7, LifeFacts, NullAssumption DEF ExecuteReturns, WaitReturns
  <2>2. \/ proc' = [proc EXCEPT ![c] = NULL] /\ pc[c] = "gone"
        \/ proc' = [proc EXCEPT ![c].value = @ - 1]
    BY <1>2, <1>7, RaisedBy DEF ExecuteReturns, WaitReturns
  <2>3. /\ pc[p] \in {"exec", "wait"} /\ pc'[p] = "run" /\ path' = path
        /\ \A q \in Pid \ {p} : pc'[q] = pc[q]
    BY <1>2, <1>7 DEF ExecuteReturns, WaitReturns, Types
  <2>4. \A q \in Pid \ {c} : proc'[q] = proc[q]
    BY <1>2, <2>2 DEF Types
  <2>5. \/ proc'[c] = NULL /\ pc[c] = "gone" /\ pc'[c] = "gone"
        \/ /\ proc'[c] # NULL /\ proc'[c].fds = proc[c].fds /\ proc'[c].exe_file = proc[c].exe_file
    <3>1. CASE proc' = [proc EXCEPT ![c] = NULL] /\ pc[c] = "gone"
      <4>1. "gone" \notin {"exec", "wait"}
        OBVIOUS
      <4>2. c # p
        BY Zenon, <2>3, <3>1, <4>1
      <4> QED BY Zenon, <1>2, <2>1, <2>3, <3>1, <4>2 DEF Types
    <3>2. CASE proc' = [proc EXCEPT ![c].value = @ - 1]
      <4>1. Lowered(proc'[c], proc[c])
        BY Zenon, <1>2, <2>1, <3>2 DEF Types, Lowered
      <4>2. HasFiles(proc'[c], proc[c].fds, proc[c].exe_file)
        BY Zenon, <2>1, <4>1, RecordFiles
      <4> QED BY Zenon, <4>2 DEF HasFiles
    <3> QED BY Zenon, <2>2, <3>1, <3>2
  <2>6. Deniers(f)' = Deniers(f) /\ Loaders(f)' = Loaders(f)
    BY <2>1, <2>3, <2>4, <2>5 DEF Deniers, Loaders
  <2>7. Descriptors(f)' \subseteq Descriptors(f)
    BY <2>1, <2>4, <2>5 DEF Descriptors
  <2> QED BY Zenon, <1>4, <1>7, <2>6, <2>7 DEF ExecuteReturns, WaitReturns
<1>8. CASE \/ LoadFails(p) \/ StartProgram(p) \/ kill(p) \/ ExitUp(p)
           \/ \E code \in ExitCode : syscall_exit(p, code)
  <2>1. Walked(p) /\ Way(p)
    BY <1>2, <1>8, WalkWay DEF Walk
  <2>2. open_cnt' = open_cnt /\ deny_write_cnt' = deny_write_cnt
    BY <1>8, Zenon DEF LoadFails, StartProgram, kill, ExitUp, syscall_exit
  <2>3. /\ pc[p] \in {"load", "loaded", "run", "up"} /\ pc'[p] \in {"run", "exit", "gone"}
        /\ pc[p] = "load" => proc[p].exe_file # f
    <3>1. pc[p] \in {"load", "loaded", "run", "up"} /\ pc'[p] \in {"run", "exit", "gone"}
      BY <1>2, <1>8, Zenon DEF LoadFails, StartProgram, kill, ExitUp, syscall_exit, Types
    <3> QED BY <1>2, <3>1, NullAssumption DEF LifeOf
  <2>4. proc[p] # NULL /\ proc'[p] # NULL
    BY ZenonT(30), <2>1, NullAssumption DEF Walked
  <2>5. Deniers(f)' = Deniers(f) /\ Loaders(f)' = Loaders(f)
    BY ZenonT(40), <2>1, <2>3, <2>4 DEF Deniers, Loaders, Walked, Way, Keeps
  <2>6. proc'[p].fds = proc[p].fds
    BY ZenonT(40), <2>1, <2>3 DEF Way, Keeps
  <2>7. Descriptors(f)' \subseteq Descriptors(f)
    BY <2>1, <2>4, <2>6 DEF Descriptors, Walked
  <2> QED BY <1>4, <2>2, <2>5, <2>7
<1>14. CASE \/ \E c \in Pid : WaitFails(p, c) \/ process_wait(p, c)
            \/ \E l \in proc[p].fds : syscall_write(p, l)
  <2>1. /\ UNCHANGED <<path, proc, open_cnt, deny_write_cnt>>
        /\ \A q \in Pid : q # p => pc'[q] = pc[q]
        /\ pc[p] = "run" /\ pc'[p] \in {"run", "wait"}
    BY ZenonT(40), <1>2, <1>14 DEF WaitFails, process_wait, syscall_write, Types
  <2>2. Deniers(f)' = Deniers(f) /\ Loaders(f)' = Loaders(f)
    BY <2>1 DEF Deniers, Loaders
  <2>3. Descriptors(f)' = Descriptors(f)
    BY Zenon, <2>1 DEF Descriptors
  <2> QED BY Zenon, <1>4, <2>1, <2>2, <2>3
<1>9. CASE LoadSegments(p)
  <2>1. pc[p] = "load" /\ path[p] \in File
    BY Zenon, <1>2, <1>9 DEF LoadSegments, LifeOf
  <2>2. Descriptors(f)' = Descriptors(f) /\ Deniers(f)' = Deniers(f)
    BY ZenonT(30), <1>2, <1>9 DEF LoadSegments, Descriptors, Deniers, Types
  <2>3. CASE path[p] = f
    <3>1. Loaders(f)' = Loaders(f) \cup {p} /\ p \notin Loaders(f)
      BY <1>2, <1>9, <2>1, <2>3 DEF LoadSegments, Loaders, Types
    <3>2. Cardinality(Loaders(f)') = Cardinality(Loaders(f)) + 1
      BY <1>3, <3>1, FS_AddElement, Zenon
    <3>3. /\ open_cnt'[f] = open_cnt[f] + 1 /\ deny_write_cnt'[f] = deny_write_cnt[f]
          /\ deny_write_cnt[f] \in Int
      BY Zenon, <1>2, <1>9, <2>3 DEF LoadSegments, Types
    <3>4. deny_write_cnt'[f] = deny_write_cnt[f] + 0
      BY Zenon, <3>3, ByOne
    <3>5. Cardinality(Deniers(f)') = Cardinality(Deniers(f)) + 0
      BY Zenon, <1>3, <2>2, ByOne
    <3> QED BY ZenonT(40), <1>2, <2>2, <3>2, <3>3, <3>4, <3>5, ByOne, CountsMove
  <2>4. CASE path[p] # f
    <3>1. Loaders(f)' = Loaders(f)
      BY ZenonT(30), <1>2, <1>9, <2>1, <2>4 DEF LoadSegments, Loaders, Types
    <3> QED BY ZenonT(30), <1>2, <1>4, <1>9, <2>2, <2>4, <3>1 DEF LoadSegments, Types
  <2> QED BY <2>3, <2>4
<1>10. CASE StackFails(p) \/ LoadDone(p)
  <2>1. /\ pc[p] = "stack" /\ path[p] \in File /\ proc[p] \in ProcessRecord /\ proc[p] # NULL
        /\ proc[p].exe_file = NULL /\ NULL # f
    BY ZenonT(30), <1>2, <1>10, NullAssumption, LifeFacts DEF StackFails, LoadDone, LifeOf
  <2>2. /\ path' = path /\ pc'[p] = IF StackFails(p) THEN "exit" ELSE "loaded"
        /\ \A q \in Pid : q # p => pc'[q] = pc[q] /\ proc'[q] = proc[q]
        /\ proc'[p] # NULL /\ proc'[p].fds = proc[p].fds
        /\ proc'[p].exe_file = IF StackFails(p) THEN NULL ELSE path[p]
    <3>1. /\ path' = path /\ pc'[p] = IF StackFails(p) THEN "exit" ELSE "loaded"
          /\ \A q \in Pid : q # p => pc'[q] = pc[q] /\ proc'[q] = proc[q]
      BY ZenonT(40), <1>2, <1>10 DEF StackFails, LoadDone, Types
    <3>2. CASE StackFails(p)
      <4>1. Failed(proc'[p], proc[p])
        BY Zenon, <1>2, <3>2 DEF StackFails, Types, Failed
      <4>2. HasFiles(proc'[p], proc[p].fds, proc[p].exe_file)
        BY Zenon, <2>1, <4>1, RecordFiles
      <4> QED BY Zenon, <2>1, <3>1, <3>2, <4>2 DEF HasFiles
    <3>3. CASE ~StackFails(p)
      <4>1. Executes(proc'[p], proc[p], path[p])
        BY Zenon, <1>2, <1>10, <3>3 DEF LoadDone, Types, Executes
      <4>2. HasFiles(proc'[p], proc[p].fds, path[p])
        BY ZenonT(40), <2>1, <4>1, RecordFiles
      <4> QED BY Zenon, <2>1, <3>1, <3>3, <4>2 DEF HasFiles
    <3> QED BY Zenon, <3>2, <3>3
  <2>3. Descriptors(f)' = Descriptors(f)
    BY <2>1, <2>2 DEF Descriptors
  <2>4. CASE path[p] = f
    <3>1. Loaders(f)' = Loaders(f) \ {p} /\ p \in Loaders(f)
      BY <2>1, <2>2, <2>4 DEF Loaders
    <3>2. Cardinality(Loaders(f)') = Cardinality(Loaders(f)) - 1
      BY <1>3, <3>1, FS_RemoveElement, ZenonT(30)
    <3>3. CASE StackFails(p)
      <4>1. Deniers(f)' = Deniers(f)
        BY ZenonT(30), <2>1, <2>2, <3>3 DEF Deniers
      <4>2. /\ open_cnt'[f] = open_cnt[f] - 1 /\ deny_write_cnt'[f] = deny_write_cnt[f]
            /\ open_cnt[f] \in Int /\ deny_write_cnt[f] \in Int
        BY Zenon, <1>2, <2>4, <3>3 DEF StackFails, Types
      <4>3. open_cnt'[f] = open_cnt[f] + (-1) /\ deny_write_cnt'[f] = deny_write_cnt[f] + 0
        BY Zenon, <4>2, ByOne
      <4>4. /\ Cardinality(Deniers(f)') = Cardinality(Deniers(f)) + 0
            /\ Cardinality(Loaders(f)') = Cardinality(Loaders(f)) + (-1)
        BY Zenon, <1>3, <3>2, <4>1, ByOne
      <4> QED BY Zenon, <1>2, <2>3, <4>3, <4>4, ByOne, CountsMove
    <3>4. CASE LoadDone(p)
      <4>1. Deniers(f)' = Deniers(f) \cup {p} /\ p \notin Deniers(f)
        BY <2>1, <2>2, <2>4, <3>4 DEF Deniers, LoadDone, StackFails
      <4>2. Cardinality(Deniers(f)') = Cardinality(Deniers(f)) + 1
        BY <1>3, <4>1, FS_AddElement, Zenon
      <4>3. /\ open_cnt' = open_cnt /\ deny_write_cnt'[f] = deny_write_cnt[f] + 1
            /\ open_cnt[f] \in Int
        BY Zenon, <1>2, <2>4, <3>4 DEF LoadDone, Types
      <4>4. open_cnt'[f] = open_cnt[f] + 0
        BY Zenon, <4>3, ByOne
      <4>5. Cardinality(Loaders(f)') = Cardinality(Loaders(f)) + (-1)
        BY Zenon, <1>3, <3>2, ByOne
      <4> QED BY Zenon, <1>2, <2>3, <4>2, <4>3, <4>4, <4>5, ByOne, CountsMove
    <3> QED BY ZenonT(40), <1>10, <3>3, <3>4
  <2>5. CASE path[p] # f
    <3>1. Loaders(f)' = Loaders(f) /\ Deniers(f)' = Deniers(f)
      BY <2>1, <2>2, <2>5 DEF Loaders, Deniers
    <3>2. open_cnt'[f] = open_cnt[f] /\ deny_write_cnt'[f] = deny_write_cnt[f]
      BY <1>2, <1>10, <2>5 DEF StackFails, LoadDone, Types
    <3> QED BY ZenonT(30), <1>4, <2>3, <3>1, <3>2
  <2> QED BY <2>4, <2>5
<1>11. CASE ExitFiles(p)
  <2>1. pc[p] = "exit" /\ proc[p] \in ProcessRecord /\ proc[p] # NULL /\ NULL # f
    BY ZenonT(30), <1>2, <1>11, NullAssumption, LifeFacts DEF ExitFiles
  <2>2. /\ path' = path /\ pc'[p] = "up"
        /\ \A q \in Pid : q # p => pc'[q] = pc[q] /\ proc'[q] = proc[q]
        /\ proc'[p] # NULL /\ proc'[p].fds = {}
    <3>1. /\ path' = path /\ pc'[p] = "up" /\ Closed(proc'[p], proc[p])
          /\ \A q \in Pid : q # p => pc'[q] = pc[q] /\ proc'[q] = proc[q]
      BY Zenon, <1>2, <1>11 DEF ExitFiles, Types, Closed
    <3>2. HasFiles(proc'[p], {}, proc[p].exe_file)
      BY Zenon, <2>1, <3>1, RecordFiles
    <3> QED BY Zenon, <3>1, <3>2 DEF HasFiles
  <2>3. Descriptors(f)' \subseteq Descriptors(f)
    BY Zenon, <2>1, <2>2 DEF Descriptors
  <2>4. Loaders(f)' = Loaders(f)
    BY ZenonT(30), <2>1, <2>2 DEF Loaders
  <2>5. CASE proc[p].exe_file = f
    <3>1. Deniers(f)' = Deniers(f) \ {p} /\ p \in Deniers(f)
      BY <2>1, <2>2, <2>5 DEF Deniers
    <3>2. Cardinality(Deniers(f)') = Cardinality(Deniers(f)) - 1
      BY <1>3, <3>1, FS_RemoveElement, ZenonT(30)
    <3>3. /\ deny_write_cnt'[f] = deny_write_cnt[f] - 1 /\ open_cnt'[f] = open_cnt[f] - 1
          /\ deny_write_cnt[f] \in Int /\ open_cnt[f] \in Int
      BY ZenonT(30), <1>2, <1>11, <2>1, <2>5 DEF ExitFiles, AllowWrite, Types
    <3>4. deny_write_cnt'[f] = deny_write_cnt[f] + (-1) /\ open_cnt'[f] = open_cnt[f] + (-1)
      BY Zenon, <3>3, ByOne
    <3>5. /\ Cardinality(Deniers(f)') = Cardinality(Deniers(f)) + (-1)
          /\ Cardinality(Loaders(f)') = Cardinality(Loaders(f)) + 0
      BY Zenon, <1>3, <2>4, <3>2, ByOne
    <3> QED BY Zenon, <1>2, <2>3, <3>4, <3>5, ByOne, CountsMove
  <2>6. CASE proc[p].exe_file # f
    <3>1. Deniers(f)' = Deniers(f)
      <4>1. proc'[p].exe_file = proc[p].exe_file
        BY ZenonT(30), <1>2, <1>11, <2>1 DEF ExitFiles, Types, ProcessRecord
      <4> QED BY Zenon, <2>1, <2>2, <2>6, <4>1 DEF Deniers
    <3>2. open_cnt'[f] = open_cnt[f] /\ deny_write_cnt'[f] = deny_write_cnt[f]
      BY <1>2, <1>11, <2>6 DEF ExitFiles, AllowWrite, Types
    <3> QED BY Zenon, <1>4, <2>3, <2>4, <3>1, <3>2
  <2> QED BY <2>5, <2>6
<1>12. CASE \E g \in File : syscall_open(p, g)
  <2>1. PICK g \in File : syscall_open(p, g)
    BY <1>12
  <2> DEFINE fd == fd_create(proc[p].fds)
  <2>2. pc[p] = "run" /\ proc[p] \in ProcessRecord /\ proc[p] # NULL /\ proc[p].fds \in SUBSET Link
    BY <1>2, <2>1, NullAssumption, LifeFacts DEF syscall_open, ProcessRecord
  <2>3. fd \in 3..MaxFd /\ \A l \in proc[p].fds : l.fd < fd
    BY SMTT(30), <2>1, <2>2, FdFresh, ProcessAssumption DEF syscall_open
  <2>4. /\ pc' = pc /\ path' = path /\ deny_write_cnt' = deny_write_cnt
        /\ \A q \in Pid : q # p => proc'[q] = proc[q]
        /\ proc'[p] # NULL /\ proc'[p].exe_file = proc[p].exe_file
        /\ proc'[p].fds = proc[p].fds \cup {[fd |-> fd, file |-> g]}
    BY <1>2, <2>1, <2>2, NullAssumption DEF syscall_open, Types, ProcessRecord
  <2>5. Deniers(f)' = Deniers(f) /\ Loaders(f)' = Loaders(f)
    BY ZenonT(30), <2>2, <2>4 DEF Deniers, Loaders
  <2>6. CASE g = f
    <3>1. Descriptors(f)' = Descriptors(f) \cup {<<p, fd>>} /\ <<p, fd>> \notin Descriptors(f)
      BY <2>2, <2>3, <2>4, <2>6 DEF Descriptors
    <3>2. Cardinality(Descriptors(f)') = Cardinality(Descriptors(f)) + 1
      BY <1>3, <3>1, FS_AddElement, Zenon
    <3>3. open_cnt'[f] = open_cnt[f] + 1
      BY Zenon, <1>2, <2>1, <2>6 DEF syscall_open, Opened, Types
    <3> QED BY Zenon, <1>2, <2>4, <2>5, <3>2, <3>3, ByOne, OpenCounts
  <2>7. CASE g # f
    <3>1. Descriptors(f)' \subseteq Descriptors(f)
      BY <2>2, <2>4, <2>7 DEF Descriptors
    <3>2. open_cnt'[f] = open_cnt[f]
      BY <1>2, <2>1, <2>7 DEF syscall_open, Types
    <3> QED BY ZenonT(40), <1>4, <2>4, <2>5, <3>1, <3>2
  <2> QED BY <2>6, <2>7
<1>13. CASE proc[p] # NULL /\ \E l \in proc[p].fds : syscall_close(p, l)
  <2>1. PICK l \in proc[p].fds : syscall_close(p, l)
    BY <1>13
  <2>2. /\ pc[p] = "run" /\ proc[p] \in ProcessRecord /\ proc[p] # NULL
        /\ l \in Link /\ l.fd \in 3..MaxFd /\ l.file \in File
        /\ l = [fd |-> l.fd, file |-> l.file]
    <3>1. pc[p] = "run" /\ proc[p] # NULL
      BY Zenon, <1>13, <2>1 DEF syscall_close
    <3>2. "run" \notin {"none", "gone"}
      OBVIOUS
    <3>3. proc[p] \in ProcessRecord
      BY Zenon, <1>2, <3>1, <3>2, LifeFacts
    <3> QED BY Zenon, <2>1, <3>1, <3>3, LinkFields
  <2>3. /\ pc' = pc /\ path' = path /\ deny_write_cnt' = deny_write_cnt
        /\ \A q \in Pid : q # p => proc'[q] = proc[q]
        /\ proc'[p] # NULL /\ proc'[p].exe_file = proc[p].exe_file
        /\ proc'[p].fds = proc[p].fds \ {l}
    BY <1>2, <2>1, <2>2, NullAssumption DEF syscall_close, Types, ProcessRecord
  <2>4. Deniers(f)' = Deniers(f) /\ Loaders(f)' = Loaders(f)
    BY ZenonT(30), <2>2, <2>3 DEF Deniers, Loaders
  <2>5. CASE l.file = f
    <3>1. PICK x : Descriptors(f)' = Descriptors(f) \ {x} /\ x \in Descriptors(f)
      <4>1. Descriptors(f)' = Descriptors(f) \ {<<p, l.fd>>} /\ <<p, l.fd>> \in Descriptors(f)
        BY <2>1, <2>2, <2>3, <2>5 DEF Descriptors
      <4> QED BY <4>1
    <3>2. Cardinality(Descriptors(f)') = Cardinality(Descriptors(f)) - 1
      BY <1>3, <3>1, FS_RemoveElement, ZenonT(30)
    <3>3. open_cnt'[f] = open_cnt[f] - 1
      BY <1>2, <2>1, <2>5 DEF syscall_close, Types
    <3>4. /\ Cardinality(Descriptors(f)') = Cardinality(Descriptors(f)) + (-1)
          /\ open_cnt'[f] = open_cnt[f] + (-1)
      <4>1. open_cnt[f] \in Int
        BY Zenon, <1>2 DEF Types
      <4> QED BY Zenon, <4>1, <1>3, <3>2, <3>3, ByOne
    <3> QED BY Zenon, <1>2, <2>3, <2>4, <3>4, ByOne, OpenCounts
  <2>6. CASE l.file # f
    <3>1. Descriptors(f)' \subseteq Descriptors(f)
      BY <2>2, <2>3 DEF Descriptors
    <3>2. open_cnt'[f] = open_cnt[f]
      BY Zenon, <1>2, <2>1, <2>6 DEF syscall_close, Types
    <3> QED BY ZenonT(40), <1>4, <2>3, <2>4, <3>1, <3>2
  <2> QED BY <2>5, <2>6
<1> QED BY ZenonT(30), <1>1, <1>5, <1>6, <1>7, <1>8, <1>9, <1>10, <1>11, <1>12, <1>13, <1>14 DEF Kernel, Program

(* The descriptors of a process are right after every step. *)
LEMMA FdsStep ==
  ASSUME IInv, Next, Types', NEW q \in Pid
  PROVE  FdsOf(q)'
<1>1. PICK p \in Pid : Kernel(p) \/ Program(p)
  BY DEF Next
<1>2. LifeOf(p) /\ RecordOf(p) /\ FdsOf(q) /\ Types /\ Life
  BY DEF IInv, LifeInv, Life, Counts
<1> USE DEF Goto, fileVars
<1> DEFINE Same == /\ pc'[q] \notin {"up", "gone"} => pc[q] \notin {"up", "gone"}
                   /\ proc'[q] # NULL =>
                        /\ proc[q] # NULL /\ proc'[q].fds = proc[q].fds
                        /\ proc'[q].num_of_opened_files = proc[q].num_of_opened_files
<1>3. ASSUME Same PROVE FdsOf(q)'
  BY ZenonT(40), <1>2, <1>3 DEF FdsOf
<1>4. CASE ExecuteFails(p) \/ ThreadCreateFails(p)
  BY <1>3, <1>4 DEF ExecuteFails, ThreadCreateFails
<1>5. CASE \E g \in File : process_execute(p, g)
  <2>1. CASE q = next_pid
    <3>1. proc'[q] = NewProcess(p)
      BY Zenon, <1>2, <1>5, <2>1, ExecuteFacts
    <3>2. proc'[q].fds = {} /\ proc'[q].num_of_opened_files = 0
      BY Zenon, <3>1, NewFiles
    <3> QED BY Zenon, <3>2, NoFiles DEF FdsOf
  <2>2. CASE q # next_pid
    BY ZenonT(30), <1>2, <1>3, <1>5, <2>2 DEF process_execute, Types
  <2> QED BY <2>1, <2>2
<1>6. CASE ExecuteReturns(p) \/ WaitReturns(p)
  <2>1. child[p] \in Pid /\ proc[child[p]] \in ProcessRecord /\ proc[child[p]] # NULL
    BY ZenonT(30), <1>2, <1>6, LifeFacts, NullAssumption DEF ExecuteReturns, WaitReturns
  <2> QED BY <1>2, <1>3, <1>6, <2>1 DEF ExecuteReturns, WaitReturns, Types, ProcessRecord
<1>7. CASE Walk(p) /\ ~ExitFiles(p)
  <2>1. Walked(p) /\ Way(p)
    BY <1>2, <1>7, WalkWay
  <2>2. pc[p] # "exit"
    BY <1>7, Zenon DEF Walk, LoadFails, LoadSegments, StackFails, LoadDone, StartProgram, kill, ExitUp,
                syscall_exit
  <2>3. proc[p] # NULL
    BY ZenonT(30), <2>1, NullAssumption DEF Walked
  <2> QED BY ZenonT(40), <1>3, <2>1, <2>2, <2>3 DEF Walked, Way, Keeps
<1>11. CASE \/ \E c \in Pid : WaitFails(p, c) \/ process_wait(p, c)
            \/ \E l \in proc[p].fds : syscall_write(p, l)
  BY <1>2, <1>3, <1>11 DEF WaitFails, process_wait, syscall_write, Types
<1>8. CASE ExitFiles(p)
  <2>1. proc[p] \in ProcessRecord /\ proc[p] # NULL
    BY Zenon, <1>2, <1>8, LifeFacts, NullAssumption DEF ExitFiles
  <2>2. CASE q = p
    <3>1. /\ proc'[q].fds = {} /\ pc'[q] = "up"
          /\ proc'[q].num_of_opened_files = proc[q].num_of_opened_files
      BY ZenonT(30), <1>2, <1>8, <2>1, <2>2 DEF ExitFiles, Types, ProcessRecord
    <3> QED BY Zenon, <1>2, <2>1, <2>2, <3>1, FS_EmptySet DEF FdsOf
  <2>3. CASE q # p
    BY <1>2, <1>3, <1>8, <2>3 DEF ExitFiles, Types
  <2> QED BY <2>2, <2>3
<1>9. CASE \E g \in File : syscall_open(p, g)
  <2>1. PICK g \in File : syscall_open(p, g)
    BY ZenonT(30), <1>9
  <2>2. CASE q = p
    <3> DEFINE fd == fd_create(proc[p].fds)
               new == [fd |-> fd, file |-> g]
    <3>1. /\ pc[p] = "run" /\ proc[p] \in ProcessRecord /\ proc[p] # NULL
          /\ proc[p].fds \in SUBSET Link
      BY SMTT(30), <1>2, <2>1, NullAssumption, LifeFacts DEF syscall_open, ProcessRecord
    <3>2. fd \in 3..(MaxFd + 1) /\ \A l \in proc[p].fds : l.fd \in Int /\ l.fd < fd
      BY <3>1, FdFresh DEF Link
    <3>3. /\ pc' = pc /\ proc'[p].fds = proc[p].fds \cup {new}
          /\ proc'[p].num_of_opened_files = proc[p].num_of_opened_files + 1
          /\ proc[p].num_of_opened_files < MAX_OPEN
      BY Zenon, <1>2, <2>1, <3>1 DEF syscall_open, Types, ProcessRecord
    <3>4. new \notin proc[p].fds /\ \A l \in proc[p].fds : l.fd # new.fd
      BY Zenon, <3>1, FdNew
    <3>5. /\ IsFiniteSet(proc'[p].fds)
          /\ Cardinality(proc'[p].fds) = Cardinality(proc[p].fds) + 1
      <4>1. IsFiniteSet(proc[p].fds)
        BY Zenon, <1>2, <2>2, <3>1 DEF FdsOf
      <4>2. new \notin proc[p].fds
        BY Zenon, <3>4
      <4> HIDE DEF new
      <4>3. /\ IsFiniteSet(proc[p].fds \cup {new})
            /\ Cardinality(proc[p].fds \cup {new}) = Cardinality(proc[p].fds) + 1
        BY Zenon, <4>1, <4>2, FS_AddElement
      <4> QED BY Zenon, <4>3, <3>3
    <3>6. \A l, m \in proc'[p].fds : l.fd = m.fd => l = m
      BY Zenon, <1>2, <2>2, <3>1, <3>3, <3>4 DEF FdsOf
    <3>7. /\ proc[p].num_of_opened_files = Cardinality(proc[p].fds)
          /\ proc[p].num_of_opened_files \in 0..MAX_OPEN
      BY Zenon, <1>2, <2>2, <3>1 DEF FdsOf
    <3>8. /\ proc'[p].num_of_opened_files = Cardinality(proc'[p].fds)
          /\ proc'[p].num_of_opened_files \in 0..MAX_OPEN
      BY Zenon, <3>3, <3>5, <3>7, OneMore
    <3> QED BY Zenon, <2>2, <3>5, <3>6, <3>8 DEF FdsOf
  <2>3. CASE q # p
    BY Zenon, <1>2, <1>3, <2>1, <2>3 DEF syscall_open, Types
  <2> QED BY <2>2, <2>3
<1>10. CASE proc[p] # NULL /\ \E l \in proc[p].fds : syscall_close(p, l)
  <2>1. PICK l \in proc[p].fds : syscall_close(p, l)
    BY ZenonT(30), <1>10
  <2>2. CASE q = p
    <3>1. pc[p] = "run" /\ proc[p] \in ProcessRecord /\ proc[p] # NULL
      BY ZenonT(30), <1>2, <2>1, NullAssumption, LifeFacts DEF syscall_close
    <3>2. /\ pc' = pc /\ proc'[p].fds = proc[p].fds \ {l}
          /\ proc'[p].num_of_opened_files = proc[p].num_of_opened_files - 1
      BY ZenonT(30), <1>2, <2>1, <3>1 DEF syscall_close, Types, ProcessRecord
    <3>3. /\ IsFiniteSet(proc'[p].fds) /\ Cardinality(proc'[p].fds) \in Nat
          /\ Cardinality(proc'[p].fds) = Cardinality(proc[p].fds) - 1
      <4>1. IsFiniteSet(proc[p].fds)
        BY Zenon, <1>2, <2>2, <3>1 DEF FdsOf
      <4>2. IsFiniteSet(proc[p].fds \ {l}) /\ Cardinality(proc[p].fds \ {l}) = Cardinality(proc[p].fds) - 1
        BY Zenon, <4>1, <2>1, FS_RemoveElement
      <4> QED BY Zenon, <4>2, <3>2, FS_CardinalityType
    <3>4. /\ proc[p].num_of_opened_files = Cardinality(proc[p].fds)
          /\ proc[p].num_of_opened_files \in 0..MAX_OPEN
          /\ \A k, m \in proc[p].fds : k.fd = m.fd => k = m
      BY Zenon, <1>2, <2>2, <3>1 DEF FdsOf
    <3>5. /\ proc'[p].num_of_opened_files = Cardinality(proc'[p].fds)
          /\ proc'[p].num_of_opened_files \in 0..MAX_OPEN
      <4>1. proc'[p].num_of_opened_files = Cardinality(proc'[p].fds)
        BY Zenon, <3>2, <3>3, <3>4
      <4>2. proc[p].num_of_opened_files - 1 >= 0
        BY Zenon, <4>1, <3>2, <3>3, ByOne
      <4>3. proc[p].num_of_opened_files - 1 \in 0..MAX_OPEN
        BY Zenon, <4>2, <3>4, OneMore
      <4> QED BY Zenon, <4>1, <4>3, <3>2
    <3>6. \A k, m \in proc'[p].fds : k.fd = m.fd => k = m
      BY Zenon, <3>2, <3>4
    <3> QED BY Zenon, <2>2, <3>3, <3>5, <3>6 DEF FdsOf
  <2>3. CASE q # p
    BY <1>2, <1>3, <2>1, <2>3 DEF syscall_close, Types
  <2> QED BY <2>2, <2>3
<1> QED BY ZenonT(30), <1>1, <1>4, <1>5, <1>6, <1>7, <1>8, <1>9, <1>10, <1>11 DEF Kernel, Program, Walk
----------------------------------------------------------------------------
(* The theorems.                                                           *)

(* The initial state: no file is open. *)
LEMMA InitCounts == Init => Counts
<1> SUFFICES ASSUME Init PROVE Counts
  OBVIOUS
<1> USE ProcessAssumption, NullAssumption
<1>1. ASSUME NEW f \in File PROVE CountsOf(f)
  <2>1. Deniers(f) = {} /\ Loaders(f) = {}
    BY DEF Init, Deniers, Loaders, NewProcess, Main
  <2>2. Descriptors(f) = {}
    BY DEF Init, Descriptors, NewProcess, Main
  <2> QED BY <2>1, <2>2, FS_EmptySet DEF Init, CountsOf
<1>2. ASSUME NEW p \in Pid PROVE FdsOf(p)
  BY FS_EmptySet DEF Init, FdsOf, NewProcess, Main
<1> QED BY <1>1, <1>2 DEF Counts

(* The invariant of the life of processes and of the counters of files. *)
THEOREM Invariant == Spec => []IInv
<1>1. IInv /\ LifeInv' /\ [Next]_vars => IInv'
  <2> SUFFICES ASSUME IInv, LifeInv', [Next]_vars PROVE IInv'
    OBVIOUS
  <2>1. CASE Next
    <3>1. Counts'
      BY ZenonT(30), <2>1, CountsOfStep, FdsStep DEF Counts, LifeInv
    <3> QED BY <3>1 DEF IInv
  <2>2. CASE UNCHANGED vars
    <3>1. Counts'
      BY ZenonT(40), <2>2 DEF vars, fileVars, IInv, Counts, CountsOf, FdsOf, Deniers, Loaders, Descriptors
    <3> QED BY <3>1 DEF IInv
  <2> QED BY <2>1, <2>2
<1>2. Init /\ LifeInv => IInv
  BY InitCounts DEF IInv
<1> QED BY <1>1, <1>2, LifeInvariant, PTL DEF Spec

(* deny_write_cnt, open_cnt and num_of_opened_files count what is there.   *)
THEOREM Counted == Spec => []FilesCounted
<1>1. IInv => FilesCounted
  <2> SUFFICES ASSUME IInv PROVE FilesCounted
    OBVIOUS
  <2>1. ASSUME NEW f \in File
        PROVE  /\ deny_write_cnt[f] = Cardinality(Deniers(f)) /\ deny_write_cnt[f] <= open_cnt[f]
               /\ open_cnt[f] >= Cardinality(Descriptors(f)) + Cardinality(Deniers(f))
    <3>1. open_cnt[f] \in Int /\ CountsOf(f)
      BY DEF IInv, LifeInv, Types, Counts
    <3> QED BY <3>1, FileSets DEF CountsOf
  <2>2. DescriptorsUnique
    BY DEF IInv, LifeInv, Counts, FdsOf, DescriptorsUnique
  <2> QED BY <2>1, <2>2 DEF FilesCounted, DenyWhileRunning, InodeKept
<1> QED BY <1>1, Invariant, PTL

(* Writes to a file that a process runs change nothing, whoever makes them. *)
THEOREM ExecutablesKept == Spec => ExecutableKept
<1>1. IInv /\ [Next]_vars => [\A f \in File : Deniers(f) # {} => text'[f] = text[f]]_vars
  <2> SUFFICES ASSUME IInv, Next, NEW f \in File, Deniers(f) # {}
               PROVE  text'[f] = text[f]
    BY DEF vars
  <2>1. deny_write_cnt[f] # 0
    BY FileSets, FS_EmptySet DEF IInv, LifeInv, Counts, CountsOf
  <2>2. PICK p \in Pid : Kernel(p) \/ Program(p)
    BY Zenon DEF Next
  <2>3. ASSUME NEW l \in proc[p].fds, syscall_write(p, l) PROVE text'[f] = text[f]
    BY <2>1, <2>3 DEF syscall_write, CanWrite, IInv, LifeInv, Types
  <2> QED BY <2>2, <2>3, ZenonT(30)
          DEF Kernel, Program, ExecuteReturns, WaitReturns, LoadFails, LoadSegments, StackFails,
              LoadDone,
              StartProgram, ExitFiles, ExitUp, ExecuteFails, ThreadCreateFails, process_execute,
              syscall_open, syscall_exit, kill, WaitFails, process_wait, syscall_close, fileVars
<1> QED BY <1>1, Invariant, PTL DEF Spec, ExecutableKept

(* The kernel has panicked only if the first process is gone. *)
PanicsAtEnd == panicked => pc[Main] = "gone"

(* No assertion of the deny counts fails: only the end of the first        *)
(* process, whose semaphore was never initialised, may panic.              *)
THEOREM NoPanic == Spec => []PanicsAtEnd
<1>1. Init => PanicsAtEnd
  BY Zenon DEF Init, PanicsAtEnd
<1>2. IInv /\ PanicsAtEnd /\ [Next]_vars => PanicsAtEnd'
  <2> SUFFICES ASSUME IInv, Next, panicked' PROVE pc'[Main] = "gone"
    BY Zenon DEF PanicsAtEnd, vars
  <2>1. PICK p \in Pid : Kernel(p) \/ Program(p)
    BY Zenon DEF Next
  <2>2. ASSUME NEW f \in File
        PROVE  /\ deny_write_cnt[f] \in Int /\ open_cnt[f] \in Int /\ CountsOf(f)
               /\ Cardinality(Descriptors(f)) \in Nat
               /\ Cardinality(Loaders(f)) \in Nat /\ Cardinality(Deniers(f)) \in Nat
               /\ p \in Loaders(f) => Cardinality(Loaders(f)) > 0
               /\ p \in Deniers(f) => Cardinality(Deniers(f)) > 0
    <3>1. CountsOf(f) /\ open_cnt[f] \in Int /\ deny_write_cnt[f] \in Int
      BY Zenon DEF IInv, LifeInv, Counts, Types
    <3>2. Loaders(f) \in SUBSET Pid /\ Deniers(f) \in SUBSET Pid
      BY Zenon DEF Loaders, Deniers
    <3> QED BY Zenon, <3>1, <3>2, FileSets, Positive
  <2>3. CASE LoadDone(p)
    <3>1. path[p] \in File /\ p \in Loaders(path[p])
      BY Zenon, <2>3 DEF LoadDone, IInv, LifeInv, Life, LifeOf, Loaders
    <3>2. ~(deny_write_cnt[path[p]] + 1 > open_cnt[path[p]])
      BY Zenon, <2>2, <3>1, Margin DEF CountsOf
    <3> QED BY <2>3, <3>2, Zenon DEF LoadDone
  <2>4. CASE ExitFiles(p)
    <3>1. pc[p] = "exit" /\ proc[p] \in ProcessRecord /\ proc[p] # NULL
      BY <2>4, LifeFacts, NullAssumption DEF ExitFiles, IInv, LifeInv
    <3>2. CASE proc[p].exe_file = NULL
      BY <2>4, <3>2, Zenon DEF ExitFiles, Next
    <3>3. CASE proc[p].exe_file # NULL
      <4> DEFINE f == proc[p].exe_file
      <4>1. f \in File /\ p \in Deniers(f)
        BY ZenonT(30), <3>1, <3>3 DEF ProcessRecord, Deniers
      <4>2. deny_write_cnt[f] \in 1..open_cnt[f]
        BY Zenon, <2>2, <4>1, Margin DEF CountsOf
      <4> QED BY <2>4, <3>3, <4>2, Zenon DEF ExitFiles
    <3> QED BY <3>2, <3>3
  <2>5. CASE ExitUp(p)
    BY <2>5, Zenon DEF ExitUp, Goto, IInv, LifeInv, Types
  <2> QED BY <2>1, <2>3, <2>4, <2>5, ZenonT(30)
          DEF Next, Kernel, Program, ExecuteReturns, WaitReturns, LoadFails, LoadSegments,
              StackFails,
              StartProgram, ExecuteFails, ThreadCreateFails, process_execute, syscall_open,
              syscall_exit, kill, WaitFails, process_wait, syscall_close, syscall_write
<1> QED BY <1>1, <1>2, Invariant, PTL DEF Spec

(* The state keeps its type: at most two ups of a semaphore are pending,   *)
(* and the counters stay in range.                                         *)
THEOREM TypeCorrect == Spec => []TypeOK
<1>1. IInv => TypeOK
  <2> SUFFICES ASSUME IInv PROVE TypeOK
    OBVIOUS
  <2>1. ASSUME NEW p \in Pid, proc[p] # NULL
        PROVE  proc[p].value \in 0..2 /\ proc[p].num_of_opened_files \in 0..MAX_OPEN
    <3>1. Ups(p) \in 0..2
      BY Zenon, UpsType
    <3> QED BY Zenon, <2>1, <3>1 DEF IInv, LifeInv, Life, RecordOf, Counts, FdsOf
  <2>2. open_cnt \in [File -> Nat] /\ deny_write_cnt \in [File -> Nat]
    <3>1. ASSUME NEW f \in File PROVE open_cnt[f] \in Nat /\ deny_write_cnt[f] \in Nat
      <4>1. CountsOf(f) /\ open_cnt[f] \in Int
        BY DEF IInv, LifeInv, Counts, Types
      <4> QED BY <4>1, FileSets DEF CountsOf
    <3> QED BY <3>1 DEF IInv, LifeInv, Types
  <2> QED BY Zenon, <2>1, <2>2 DEF IInv, LifeInv, Types, TypeOK
<1> QED BY <1>1, Invariant, PTL
=============================================================================
