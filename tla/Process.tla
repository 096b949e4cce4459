------------------------------ MODULE Process ------------------------------
(***************************************************************************)
(* The life of a user process (userprog/process.c, with the system calls   *)
(* of userprog/syscall.c that start, wait for and end processes, and those *)
(* that open, write and close files): process_execute waits for the load   *)
(* of its child, process_wait for its end, both on the one semaphore of    *)
(* the child's process_t.                                                  *)
(*                                                                         *)
(* A process has one thread.  The sections under hash_lock, pid_lock and   *)
(* file_sys_lock are single steps, and so are the semaphore's operations,  *)
(* which Threads models in detail.                                         *)
(***************************************************************************)
EXTENDS Integers, FiniteSets

CONSTANTS
  MaxPid,      \* bound: process ids given out
  File,        \* files, executable and writable
  NULL,
  ExitCode,    \* codes a program exits with
  MAX_OPEN,    \* MAX_OPEN_FILES_PER_PROCESS
  MaxFd,       \* bound: the largest file descriptor
  MainExits    \* whether main runs to its thread_exit

Pid == 1..MaxPid

Main == 1

PID_ERROR == -1

ASSUME ProcessAssumption ==
  /\ MaxPid \in Nat \ {0} /\ MAX_OPEN \in Nat /\ MaxFd \in Nat /\ MaxFd >= 2
  /\ ExitCode \subseteq Int /\ MainExits \in BOOLEAN

VARIABLES
  proc,      \* process_table: the process_t of each pid, or NULL
  next_pid,
  pc,        \* where the thread of each process is
  child,     \* the process it executes or waits for
  path,      \* the executable it was started from
  eax,       \* what its last exec or wait returned
  open_cnt, deny_write_cnt,  \* of the inode of each file
  text,      \* the contents of each file
  panicked   \* an assertion failed, or freed memory was used

fileVars == <<open_cnt, deny_write_cnt, text>>
vars == <<proc, next_pid, pc, child, path, eax, fileVars, panicked>>

(* init_process, called by process p. *)
NewProcess(p) ==
  [ppid |-> p, status |-> "ALIVE", exit_code |-> -1, value |-> 0,
   exe_file |-> NULL, fds |-> {}, num_of_opened_files |-> 0]

(* process_init: the initial thread becomes the first process. *)
Init ==
  /\ proc = [p \in Pid |-> IF p = Main THEN NewProcess(PID_ERROR) ELSE NULL]
  /\ next_pid = 2
  /\ pc = [p \in Pid |-> IF p = Main THEN "run" ELSE "none"]
  /\ child = [p \in Pid |-> NULL]
  /\ path = [p \in Pid |-> NULL]
  /\ eax = [p \in Pid |-> 0]
  /\ open_cnt = [f \in File |-> 0]
  /\ deny_write_cnt = [f \in File |-> 0]
  /\ text = [f \in File |-> 0]
  /\ panicked = FALSE

Goto(p, l) == pc' = [pc EXCEPT ![p] = l]
----------------------------------------------------------------------------
(* Starting a process.                                                     *)

(* process_execute returns at once: no memory for the process ... *)
ExecuteFails(p) ==
  /\ pc[p] = "run"
  /\ eax' = [eax EXCEPT ![p] = PID_ERROR]
  /\ UNCHANGED <<proc, next_pid, pc, child, path, fileVars, panicked>>

(* ... or none for its thread, when its pid is used up ... *)
ThreadCreateFails(p) ==
  /\ pc[p] = "run" /\ next_pid \in Pid
  /\ next_pid' = next_pid + 1
  /\ eax' = [eax EXCEPT ![p] = PID_ERROR]
  /\ UNCHANGED <<proc, pc, child, path, fileVars, panicked>>

(* ... or it waits for the new thread to load the program. *)
process_execute(p, f) ==
  /\ pc[p] = "run" /\ next_pid \in Pid
  /\ proc' = [proc EXCEPT ![next_pid] = NewProcess(p)]
  /\ next_pid' = next_pid + 1
  /\ pc' = [pc EXCEPT ![p] = "exec", ![next_pid] = "load"]
  /\ child' = [child EXCEPT ![p] = next_pid]
  /\ path' = [path EXCEPT ![next_pid] = f]
  /\ UNCHANGED <<eax, fileVars, panicked>>

(* Mutant: the value is not taken. *)
ExecuteReturns_peek(p) ==
  LET c == child[p]
  IN  /\ pc[p] = "exec" /\ proc[c].value > 0
      /\ IF proc[c].status = "INVALID"
         THEN /\ proc' = [proc EXCEPT ![c] = NULL]
              /\ eax' = [eax EXCEPT ![p] = PID_ERROR]
         ELSE /\ proc' = proc
              /\ eax' = [eax EXCEPT ![p] = c]
      /\ Goto(p, "run")
      /\ child' = [child EXCEPT ![p] = NULL]
      /\ UNCHANGED <<next_pid, path, fileVars, panicked>>

(* The rest of process_execute, from sema_down on. *)
ExecuteReturns(p) ==
  LET c == child[p]
  IN  /\ pc[p] = "exec" /\ proc[c].value > 0
      /\ IF proc[c].status = "INVALID"
         THEN /\ proc' = [proc EXCEPT ![c] = NULL]
              /\ eax' = [eax EXCEPT ![p] = PID_ERROR]
         ELSE /\ proc' = [proc EXCEPT ![c].value = @ - 1]
              /\ eax' = [eax EXCEPT ![p] = c]
      /\ Goto(p, "run")
      /\ child' = [child EXCEPT ![p] = NULL]
      /\ UNCHANGED <<next_pid, path, fileVars, panicked>>

(* start_process: the program cannot be opened or is not valid. *)
LoadFails(p) ==
  /\ pc[p] = "load"
  /\ proc' = [proc EXCEPT ![p].status = "INVALID"]
  /\ Goto(p, "exit")
  /\ UNCHANGED <<next_pid, child, path, eax, fileVars, panicked>>

(* load opens the executable and reads its segments, and gives up          *)
(* file_sys_lock to set the stack up ...                                   *)
LoadSegments(p) ==
  /\ pc[p] = "load"
  /\ open_cnt' = [open_cnt EXCEPT ![path[p]] = @ + 1]
  /\ Goto(p, "stack")
  /\ UNCHANGED <<proc, next_pid, child, path, eax, deny_write_cnt, text, panicked>>

(* ... which may fail ... *)
StackFails(p) ==
  /\ pc[p] = "stack"
  /\ open_cnt' = [open_cnt EXCEPT ![path[p]] = @ - 1]
  /\ proc' = [proc EXCEPT ![p].status = "INVALID"]
  /\ Goto(p, "exit")
  /\ UNCHANGED <<next_pid, child, path, eax, deny_write_cnt, text, panicked>>

(* ... and then keeps the executable from being written. *)
LoadDone(p) ==
  LET f == path[p]
  IN  /\ pc[p] = "stack"
      /\ proc' = [proc EXCEPT ![p].exe_file = f]
      /\ deny_write_cnt' = [deny_write_cnt EXCEPT ![f] = @ + 1]
      /\ panicked' = (deny_write_cnt[f] + 1 > open_cnt[f])
      /\ Goto(p, "loaded")
      /\ UNCHANGED <<next_pid, child, path, eax, open_cnt, text>>

(* start_process tells process_execute, and enters the program. *)
StartProgram(p) ==
  /\ pc[p] = "loaded"
  /\ proc' = [proc EXCEPT ![p].value = @ + 1]
  /\ Goto(p, "run")
  /\ UNCHANGED <<next_pid, child, path, eax, fileVars, panicked>>
----------------------------------------------------------------------------
(* Ending a process, and waiting for it.                                   *)

(* syscall_exit. *)
syscall_exit(p, code) ==
  /\ pc[p] = "run" /\ p # Main
  /\ proc' = [proc EXCEPT ![p].exit_code = code]
  /\ Goto(p, "exit")
  /\ UNCHANGED <<next_pid, child, path, eax, fileVars, panicked>>

(* kill_current_process, an exception's kill, an unknown system call, and  *)
(* the end of main. *)
kill(p) ==
  /\ pc[p] = "run" /\ (p = Main => MainExits)
  /\ Goto(p, "exit")
  /\ UNCHANGED <<proc, next_pid, child, path, eax, fileVars, panicked>>

(* Mutant: writes stay denied. *)
AllowWrite_never(f) == deny_write_cnt' = deny_write_cnt

(* file_allow_write of process_exit; the one of file_close finds           *)
(* deny_write cleared. *)
AllowWrite(f) == deny_write_cnt' = [deny_write_cnt EXCEPT ![f] = @ - 1]

(* process_exit under file_sys_lock: the links of the open files are freed *)
(* (the files are not closed), and the executable is closed.               *)
ExitFiles(p) ==
  LET f == proc[p].exe_file
  IN  /\ pc[p] = "exit"
      /\ proc' = [proc EXCEPT ![p].fds = {}]
      /\ Goto(p, "up")
      /\ IF f = NULL THEN UNCHANGED <<open_cnt, deny_write_cnt, panicked>>
         ELSE /\ AllowWrite(f)
              /\ open_cnt' = [open_cnt EXCEPT ![f] = @ - 1]
              /\ panicked' = ~(deny_write_cnt[f] \in 1..open_cnt[f])
      /\ UNCHANGED <<next_pid, child, path, eax, text>>

(* Mutant: process_exit ups the semaphore of a failed load only. *)
ExitUp_silent(p) ==
  /\ pc[p] = "up"
  /\ proc' = [proc EXCEPT ![p].value = IF @ = 0 /\ proc[p].exe_file = NULL THEN 1 ELSE @]
  /\ Goto(p, "gone")
  /\ UNCHANGED <<next_pid, child, path, eax, fileVars, panicked>>

(* The end of process_exit: sema_up, after which the process_t is not used *)
(* any more.  The semaphore of the first process was never initialised:    *)
(* its list of waiters is whatever the memory holds.                       *)
ExitUp(p) ==
  /\ pc[p] = "up"
  /\ proc' = [proc EXCEPT ![p].value = @ + 1]
  /\ Goto(p, "gone")
  /\ panicked' \in IF p = Main THEN BOOLEAN ELSE {FALSE}
  /\ UNCHANGED <<next_pid, child, path, eax, fileVars>>

IsChild(p, c) == proc[c] # NULL /\ proc[c].ppid = p

(* process_wait: a process that is not there, or is not a child, ... *)
WaitFails(p, c) ==
  /\ pc[p] = "run" /\ ~IsChild(p, c)
  /\ eax' = [eax EXCEPT ![p] = -1]
  /\ UNCHANGED <<proc, next_pid, pc, child, path, fileVars, panicked>>

(* ... or a child, whose status is ALIVE even when it has ended. *)
process_wait(p, c) ==
  /\ pc[p] = "run" /\ IsChild(p, c) /\ proc[c].status = "ALIVE"
  /\ child' = [child EXCEPT ![p] = c]
  /\ Goto(p, "wait")
  /\ UNCHANGED <<proc, next_pid, path, eax, fileVars, panicked>>

(* Mutant: an exit code that is set is returned at once. *)
WaitReturns_code(p) ==
  LET c == child[p]
  IN  /\ pc[p] = "wait"
      /\ proc[c].value > 0 \/ proc[c].exit_code # -1
      /\ eax' = [eax EXCEPT ![p] = proc[c].exit_code]
      /\ proc' = IF proc[c].value > 0 THEN [proc EXCEPT ![c] = NULL] ELSE proc
      /\ child' = [child EXCEPT ![p] = NULL]
      /\ Goto(p, "run")
      /\ UNCHANGED <<next_pid, path, fileVars, panicked>>

(* The rest of process_wait, from sema_down on. *)
WaitReturns(p) ==
  LET c == child[p]
  IN  /\ pc[p] = "wait" /\ proc[c].value > 0
      /\ eax' = [eax EXCEPT ![p] = proc[c].exit_code]
      /\ proc' = [proc EXCEPT ![c] = NULL]
      /\ child' = [child EXCEPT ![p] = NULL]
      /\ Goto(p, "run")
      /\ UNCHANGED <<next_pid, path, fileVars, panicked>>
----------------------------------------------------------------------------
(* Files.                                                                  *)

(* One more than the largest descriptor in use. *)
fd_create(fds) ==
  CHOOSE n \in 3..(MaxFd + 1) :
    \/ fds = {} /\ n = 3
    \/ /\ \E l \in fds : n = l.fd + 1
       /\ \A l \in fds : l.fd < n

(* inode_open, or inode_reopen of an inode that is open. *)
Opened(f) == open_cnt[f] + 1

(* syscall_open of a file that exists. *)
syscall_open(p, f) ==
  LET fd == fd_create(proc[p].fds)
  IN  /\ pc[p] = "run" /\ p # Main
      /\ proc[p].num_of_opened_files < MAX_OPEN
      /\ fd <= MaxFd
      /\ proc' = [proc EXCEPT ![p].fds = @ \cup {[fd |-> fd, file |-> f]},
                              ![p].num_of_opened_files = @ + 1]
      /\ open_cnt' = [open_cnt EXCEPT ![f] = Opened(f)]
      /\ UNCHANGED <<next_pid, pc, child, path, eax, deny_write_cnt, text, panicked>>

(* syscall_close of an open descriptor. *)
syscall_close(p, l) ==
  /\ pc[p] = "run" /\ l \in proc[p].fds
  /\ proc' = [proc EXCEPT ![p].fds = @ \ {l}, ![p].num_of_opened_files = @ - 1]
  /\ open_cnt' = [open_cnt EXCEPT ![l.file] = @ - 1]
  /\ UNCHANGED <<next_pid, pc, child, path, eax, deny_write_cnt, text, panicked>>

(* Mutant: writes are never denied. *)
CanWrite_always(f) == TRUE

(* inode_write_at writes nothing while deny_write_cnt is not 0. *)
CanWrite(f) == deny_write_cnt[f] = 0

(* syscall_write changes the file. *)
syscall_write(p, l) ==
  /\ pc[p] = "run" /\ l \in proc[p].fds
  /\ CanWrite(l.file)
  /\ text' = [text EXCEPT ![l.file] = 1 - @]
  /\ UNCHANGED <<proc, next_pid, pc, child, path, eax, open_cnt, deny_write_cnt,
                 panicked>>
----------------------------------------------------------------------------
(* What the kernel does by itself for a process ... *)
Kernel(p) ==
  \/ ExecuteReturns(p) \/ WaitReturns(p)
  \/ LoadFails(p) \/ LoadSegments(p) \/ StackFails(p) \/ LoadDone(p)
  \/ StartProgram(p)
  \/ ExitFiles(p) \/ ExitUp(p)

(* ... and what its program asks for. *)
Program(p) ==
  \/ ExecuteFails(p) \/ ThreadCreateFails(p)
  \/ \E f \in File : process_execute(p, f) \/ syscall_open(p, f)
  \/ \E code \in ExitCode : syscall_exit(p, code)
  \/ kill(p)
  \/ \E c \in Pid : WaitFails(p, c) \/ process_wait(p, c)
  \/ /\ proc[p] # NULL
     /\ \E l \in proc[p].fds : syscall_close(p, l) \/ syscall_write(p, l)

Next == ~panicked /\ \E p \in Pid : Kernel(p) \/ Program(p)

Spec == Init /\ [][Next]_vars

(* The scheduler runs every thread that can go on. *)
LiveSpec == Spec /\ \A p \in Pid : WF_vars(~panicked /\ Kernel(p))
----------------------------------------------------------------------------
(* Properties.                                                             *)

Labels ==
  {"none", "load", "stack", "loaded", "run", "exec", "wait", "exit", "up", "gone"}

Link == [fd : 3..MaxFd, file : File]

ProcessRecord ==
  [ppid : Pid \cup {PID_ERROR}, status : {"ALIVE", "INVALID"},
   exit_code : ExitCode \cup {-1}, value : Int,
   exe_file : File \cup {NULL}, fds : SUBSET Link, num_of_opened_files : Int]

ASSUME NullAssumption == NULL \notin File \cup Pid \cup ProcessRecord

(* The type of the state.  The counts stay where the code means them: at   *)
(* most two ups of the semaphore are pending (load and exit), and a        *)
(* process has at most MAX_OPEN files open.                                *)
TypeOK ==
  /\ proc \in [Pid -> ProcessRecord \cup {NULL}]
  /\ \A p \in Pid : proc[p] # NULL =>
       proc[p].value \in 0..2 /\ proc[p].num_of_opened_files \in 0..MAX_OPEN
  /\ next_pid \in 2..(MaxPid + 1)
  /\ pc \in [Pid -> Labels]
  /\ child \in [Pid -> Pid \cup {NULL}]
  /\ path \in [Pid -> File \cup {NULL}]
  /\ eax \in [Pid -> Int]
  /\ open_cnt \in [File -> Nat] /\ deny_write_cnt \in [File -> Nat]
  /\ text \in [File -> 0..1]
  /\ panicked \in BOOLEAN

(* process_current() finds the process_t of a thread until its last        *)
(* sema_up, and a process_t stays while a parent waits on its semaphore:   *)
(* delete_process frees it only when neither needs it any more.            *)
ProcessKept ==
  \A p \in Pid :
    /\ pc[p] \notin {"none", "gone"} => proc[p] # NULL
    /\ pc[p] \in {"exec", "wait"} => proc[child[p]] # NULL

(* process_wait "waits for thread TID to die": although loading ups the    *)
(* same semaphore, the child has ended when process_wait returns.          *)
WaitsForExit ==
  [][\A p \in Pid :
       pc[p] = "wait" /\ pc'[p] = "run" => pc[child[p]] = "gone"]_vars

(* process_execute returns a pid exactly if the program was loaded, even   *)
(* if the child has already run to its end.                                *)
ExecReportsLoad ==
  [][\A p \in Pid :
       pc[p] = "exec" /\ pc'[p] = "run" =>
         (eax'[p] # PID_ERROR <=> proc[child[p]].exe_file # NULL)]_vars

(* The processes that keep file f from being written. *)
Deniers(f) ==
  {p \in Pid : proc[p] # NULL /\ proc[p].exe_file = f
               /\ pc[p] \in {"loaded", "run", "exec", "wait", "exit"}}

(* A write is denied as long as a process runs the file, however many do   *)
(* and in whatever order they end, and no longer; the inode stays open.    *)
DenyWhileRunning ==
  \A f \in File :
    /\ deny_write_cnt[f] = Cardinality(Deniers(f))
    /\ deny_write_cnt[f] <= open_cnt[f]

(* The executable of a running process is not modified ("Ensure that the   *)
(* executable of a running process cannot be modified", rox-simple.c).     *)
ExecutableKept ==
  [][\A f \in File : Deniers(f) # {} => text'[f] = text[f]]_vars

(* The open descriptors of file f, each with its process. *)
Descriptors(f) ==
  {x \in Pid \X (3..MaxFd) :
     proc[x[1]] # NULL /\ [fd |-> x[2], file |-> f] \in proc[x[1]].fds}

(* An inode is not freed while a process uses it: its open_cnt counts      *)
(* every open descriptor and every executable.                             *)
InodeKept ==
  \A f \in File :
    open_cnt[f] >= Cardinality(Descriptors(f)) + Cardinality(Deniers(f))

(* A descriptor names one file of its process ("a new, unused, file        *)
(* descriptor", fd.c), and num_of_opened_files counts them.                *)
DescriptorsUnique ==
  \A p \in Pid :
    proc[p] # NULL /\ pc[p] = "run" =>
      /\ \A l, m \in proc[p].fds : l.fd = m.fd => l = m
      /\ proc[p].num_of_opened_files = Cardinality(proc[p].fds)

(* The counters of the open files are right: writes are denied to exactly  *)
(* the files that are being run, the inode of every descriptor and         *)
(* executable stays open, and no descriptor is given out twice, in         *)
(* whatever order processes load, open, close, write and end.              *)
FilesCounted == DenyWhileRunning /\ InodeKept /\ DescriptorsUnique

(* exec and wait report what happened to the child, although its load and  *)
(* its end up the same semaphore.                                          *)
ReportsTrue == WaitsForExit /\ ExecReportsLoad

(* process_execute always returns ... *)
ExecReturns == \A p \in Pid : pc[p] = "exec" ~> pc[p] = "run"

(* ... and process_wait does once the child ends. *)
WaitReturnsOnExit ==
  \A p, c \in Pid :
    (pc[p] = "wait" /\ child[p] = c /\ pc[c] = "exit") ~> pc[p] = "run"

(* No parent is left waiting: every way out of a child ups the semaphore   *)
(* that process_execute or process_wait is down on.                        *)
CallsReturn == ExecReturns /\ WaitReturnsOnExit
============================================================================
