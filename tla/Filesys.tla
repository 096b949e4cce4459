------------------------------ MODULE Filesys ------------------------------
(***************************************************************************)
(* Programs that use the file system (the file calls of                    *)
(* userprog/syscall.c over filesys/fd.c and filesys/file.c, the executable *)
(* of userprog/process.c, filesys/fsutil.c, and a shutdown followed by a   *)
(* new start), in the build with FILESYS_SUBDIRS.                          *)
(*                                                                         *)
(* A call is one step: most calls hold file_sys_lock, and chdir, mkdir and *)
(* readdir, which do not, are modelled as if they did.                     *)
(***************************************************************************)
EXTENDS Directories, FiniteSets

CONSTANTS
  Proc,        \* user processes
  Path,        \* paths that programs use
  Size,        \* sizes of new files
  Data,        \* bytes that are written
  MAX_OPEN,    \* MAX_OPEN_FILES_PER_PROCESS
  MaxFd        \* bound: the largest file descriptor

ASSUME FilesysAssumption ==
  /\ SECTORS \in Nat /\ BLOCK_SECTOR_SIZE \in Nat \ {0}
  /\ CNT_MAX > Cardinality(Proc) * (MAX_OPEN + 1) + 1
  /\ \A p \in Path : ~p.absolute /\ p.entries # <<>> => p.entries[1] # DotDot

VARIABLES
  fs,          \* the state of the file system
  proc         \* the process_t of each running process, or NULL

vars == <<fs, proc>>

Init ==
  /\ fs = filesys_init([s \in Sector |-> Zeros], TRUE)
  /\ proc = [p \in Proc |-> NULL]

Running(p) == proc[p] # NULL
cwd(p) == proc[p].working_directory
----------------------------------------------------------------------------
(* File descriptors: struct file and struct dir have their inode and their *)
(* position in the same place.                                             *)

fd_create(p) ==
  CHOOSE n \in 3..(MaxFd + 1) :
    \/ DOMAIN proc[p].fds = {} /\ n = 3
    \/ /\ \E m \in DOMAIN proc[p].fds : n = m + 1
       /\ \A m \in DOMAIN proc[p].fds : m < n

fd_is_valid(p, fd) == fd \in DOMAIN proc[p].fds

fd_is_directory(p, fd) == fd_is_valid(p, fd) /\ proc[p].fds[fd].is_directory

fd_inode_number(p, fd) == IF fd_is_valid(p, fd) THEN proc[p].fds[fd].inode ELSE -1

fd_close(p, fd) ==
  proc' = [proc EXCEPT ![p].fds = [n \in DOMAIN @ \ {fd} |-> @[n]]]

file_seek(p, fd, pos) == proc' = [proc EXCEPT ![p].fds[fd].pos = pos]

file_tell(p, fd) == proc[p].fds[fd].pos

file_length(p, fd) == inode_length(fs, proc[p].fds[fd].inode)

(* The units that file_read returns, and what file_write does. *)
file_read(p, fd, size) == inode_read_at(fs, proc[p].fds[fd].inode, size, file_tell(p, fd))

(* Mutant: the position of the file is not used. *)
file_write_start(p, fd, buffer) == inode_write_at(fs, proc[p].fds[fd].inode, buffer, 0)

file_write(p, fd, buffer) ==
  inode_write_at(fs, proc[p].fds[fd].inode, buffer, file_tell(p, fd))

(* Only the file of an executable is denied writes, and process_exit       *)
(* allows them before it closes the file.                                  *)
file_deny_write(f, s) == inode_deny_write(f, s)

file_allow_write(f, s) == inode_allow_write(f, s)

file_close(f, s) == inode_close(f, s)
----------------------------------------------------------------------------
(* System calls.                                                           *)

syscall_create(p, path, size) ==
  /\ Running(p)
  /\ fs' = filesys_create(fs, cwd(p), path, size, FALSE).fs
  /\ UNCHANGED proc

syscall_mkdir(p, path) ==
  /\ Running(p)
  /\ fs' = filesys_create(fs, cwd(p), path, ENTRIES, TRUE).fs
  /\ UNCHANGED proc

syscall_remove(p, path) ==
  /\ Running(p)
  /\ fs' = filesys_remove(fs, path).fs
  /\ UNCHANGED proc

(* What syscall_open opens: the path is walked twice, and the first inode  *)
(* is not closed. *)
Opened(p, path, is_dir) ==
  LET Open(kind) ==
        IF kind.ret THEN filesys_open_file(kind.fs, cwd(p), path, is_dir)
                         @@ [is_directory |-> FALSE]
        ELSE filesys_open_dir(kind.fs, cwd(p), path, is_dir) @@ [is_directory |-> TRUE]
  IN  Open(filesys_path_is_file(fs, cwd(p), path, is_dir))

(* For a path that is not found, is_dir is whatever the stack holds. *)
syscall_open(p, path) ==
  /\ Running(p)
  /\ Cardinality(DOMAIN proc[p].fds) < MAX_OPEN
  /\ fd_create(p) <= MaxFd
  /\ \E r \in {Opened(p, path, is_dir) : is_dir \in BOOLEAN} :
       LET link == [inode |-> r.inode, pos |-> 0, is_directory |-> r.is_directory]
       IN  /\ fs' = r.fs
           /\ proc' = IF r.inode = NULL THEN proc
                      ELSE [proc EXCEPT ![p].fds = (fd_create(p) :> link) @@ @]

(* file_close; dir_close leaves the inode open. *)
syscall_close(p, fd) ==
  /\ Running(p) /\ fd_is_valid(p, fd)
  /\ fs' = IF fd_is_directory(p, fd) THEN fs ELSE file_close(fs, proc[p].fds[fd].inode)
  /\ fd_close(p, fd)

(* file_read, also of a directory. *)
syscall_read(p, fd, size) ==
  /\ Running(p) /\ fd_is_valid(p, fd)
  /\ LET n == Len(file_read(p, fd, size))
     IN  n > 0 /\ file_seek(p, fd, file_tell(p, fd) + n)
  /\ UNCHANGED fs

(* file_write. *)
syscall_write(p, fd, buffer) ==
  /\ Running(p) /\ fd_is_valid(p, fd) /\ ~fd_is_directory(p, fd)
  /\ LET w == file_write(p, fd, buffer)
     IN  /\ fs' = w.fs
         /\ file_seek(p, fd, file_tell(p, fd) + w.bytes_written)

syscall_seek(p, fd, pos) ==
  /\ Running(p) /\ fd_is_valid(p, fd)
  /\ file_seek(p, fd, pos)
  /\ UNCHANGED fs

(* The old working directory stays open. *)
syscall_chdir(p, path) ==
  /\ Running(p)
  /\ \E is_dir \in BOOLEAN :
       \E found \in {filesys_path_exists(fs, cwd(p), path, is_dir)} :
       \E kind \in {filesys_path_is_file(found.fs, cwd(p), path, is_dir)} :
         CASE ~found.ret -> fs' = found.fs /\ UNCHANGED proc
           [] found.ret /\ kind.ret -> fs' = kind.fs /\ UNCHANGED proc
           [] OTHER -> \E r \in {filesys_open_dir(kind.fs, cwd(p), path, is_dir)} :
                         /\ fs' = r.fs
                         /\ proc' = [proc EXCEPT ![p].working_directory = r.inode]

syscall_readdir(p, fd) ==
  /\ Running(p) /\ fd_is_directory(p, fd)
  /\ LET r == dir_readdir(fs, proc[p].fds[fd].inode, file_tell(p, fd))
     IN  file_seek(p, fd, r.pos)
  /\ UNCHANGED fs
----------------------------------------------------------------------------
(* Processes, and the kernel's own use of the file system.                 *)

(* load of a new process, whose working directory is not set yet (nor      *)
(* initialised: the memory of process_t is zero).  A file that is not a    *)
(* program is closed again.                                                *)
load(p, path) ==
  /\ ~Running(p)
  /\ \E r \in {filesys_open_file(fs, NULL, path, FALSE)} :
       LET up == inode_parent(r.fs, r.inode)
           ok == file_deny_write(dir_open(inode_open(r.fs, up), up), r.inode)
       IN  IF r.inode = NULL THEN fs' = r.fs /\ UNCHANGED proc
           ELSE \/ fs' = file_close(r.fs, r.inode) /\ UNCHANGED proc
                \/ /\ fs' = ok
                   /\ proc' = [proc EXCEPT ![p] = [working_directory |-> up,
                                                   exe_file |-> r.inode, fds |-> <<>>]]

(* process_exit closes the executable, and none of the files. *)
process_exit(p) ==
  /\ Running(p)
  /\ fs' = file_close(file_allow_write(fs, proc[p].exe_file), proc[p].exe_file)
  /\ proc' = [proc EXCEPT ![p] = NULL]

(* fsutil_extract of one file; the kernel panics if a step fails. *)
fsutil_extract(path, buffer) ==
  /\ \A p \in Proc : ~Running(p)
  /\ \E c \in {filesys_create(fs, NULL, path, Len(buffer), FALSE)} :
     \E r \in {filesys_open_file(c.fs, NULL, path, FALSE)} :
       /\ c.ret /\ r.inode # NULL
       /\ fs' = file_close(inode_write_at(r.fs, r.inode, buffer, 0).fs, r.inode)
  /\ UNCHANGED proc

(* fsutil_rm panics too. *)
fsutil_rm(path) ==
  /\ \A p \in Proc : ~Running(p)
  /\ filesys_remove(fs, path).ret
  /\ fs' = filesys_remove(fs, path).fs
  /\ UNCHANGED proc

(* A shutdown and the next start of the kernel on the same disk. *)
Restart ==
  /\ fs' = filesys_init(filesys_done(fs), FALSE)
  /\ proc' = [p \in Proc |-> NULL]

(* What programs write and seek to: writes that fill a sector, that go     *)
(* across two, and that reach the end of the file.                         *)
Buffer == {<<x, y>> : x \in Data, y \in Data}

Positions == {0, 1}

Program(p) ==
  \/ \E path \in Path :
       \/ \E size \in Size : syscall_create(p, path, size)
       \/ syscall_mkdir(p, path) \/ syscall_remove(p, path)
       \/ syscall_open(p, path) \/ syscall_chdir(p, path)
  \/ \E fd \in 3..MaxFd :
       \/ syscall_close(p, fd) \/ syscall_readdir(p, fd)
       \/ syscall_read(p, fd, 2)
       \/ \E b \in Buffer : syscall_write(p, fd, b)
       \/ \E pos \in Positions : syscall_seek(p, fd, pos)

Kernel ==
  \/ \E p \in Proc : process_exit(p) \/ \E path \in Path : load(p, path)
  \/ \E path \in Path, b \in Buffer : fsutil_extract(path, b)
  \/ \E path \in Path : fsutil_rm(path)
  \/ Restart

Next == Kernel \/ \E p \in Proc : Program(p)

Spec == Init /\ [][Next]_vars
----------------------------------------------------------------------------
(* What is on the disk.                                                    *)

DiskInode(f, s) == f.disk[s][0]

Contents(f, s) ==
  [i \in 1..DiskInode(f, s).length |->
     f.disk[DiskInode(f, s).start + (i - 1) \div BLOCK_SECTOR_SIZE][(i - 1) % BLOCK_SECTOR_SIZE]]

(* The sectors of an inode. *)
Sectors(f, s) ==
  LET i == DiskInode(f, s)
  IN  {s} \cup i.start..(i.start + bytes_to_sectors(i.length) - 1)

InUse(f, d) == {e \in ToSet(Contents(f, d)) : in_use(e)}

Node(f, d, e) ==
  [dir |-> d, name |-> e.name, inode |-> e.inode_sector, is_directory |-> e.is_directory,
   contents |-> IF e.is_directory THEN <<>> ELSE Contents(f, e.inode_sector)]

(* Every file and directory below directory d, to a depth. *)
RECURSIVE Below(_, _, _)
Below(f, d, depth) ==
  IF depth = 0 THEN {}
  ELSE LET here == {Node(f, d, e) : e \in InUse(f, d)}
       IN  here \cup UNION {Below(f, n.inode, depth - 1) : n \in {m \in here : m.is_directory}}

Tree(f) == Below(f, ROOT_DIR_SECTOR, SECTORS \div 2)

Inodes(tree) == {FREE_MAP_SECTOR, ROOT_DIR_SECTOR} \cup {n.inode : n \in tree}

IsDirectory(tree, s) == s = ROOT_DIR_SECTOR \/ \E n \in tree : n.inode = s /\ n.is_directory

Free(f) == {s \in Sector : ~f.free_map[s]}

(* What the entries of a path name in a tree, from directory d on. *)
RECURSIVE Resolve(_, _, _)
Resolve(tree, d, entries) ==
  LET named == {n \in tree : n.dir = d /\ n.name = Head(entries)}
      up    == {n.dir : n \in {m \in tree : m.inode = d}}
  IN  IF entries = <<>> THEN d
      ELSE IF Head(entries) = DotDot
           THEN Resolve(tree, IF up = {} THEN d ELSE CHOOSE u \in up : TRUE, Tail(entries))
      ELSE IF named = {} THEN NULL
      ELSE Resolve(tree, (CHOOSE n \in named : TRUE).inode, Tail(entries))

Named(tree, c, path) ==
  LET d == IF path.absolute \/ c = NULL THEN ROOT_DIR_SECTOR ELSE c
  IN  IF path.entries = <<Dot>> /\ ~path.absolute THEN d ELSE Resolve(tree, d, path.entries)

(* No entry of the path but the last is a file: the code goes on in the    *)
(* directory of such a file. *)
ThroughDirectories(tree, c, path) ==
  \A k \in 1..(Len(path.entries) - 1) :
    LET s == Named(tree, c, [path EXCEPT !.entries = SubSeq(@, 1, k)])
    IN  s # NULL => IsDirectory(tree, s)

(* The working directories that paths may start from. *)
Starts == {NULL} \cup {cwd(p) : p \in {q \in Proc : Running(q)}}
----------------------------------------------------------------------------
(* Properties.                                                             *)

(* No sector belongs to two files, every sector of a file is taken in the  *)
(* free map, and the free map on the disk is the one in memory: whatever   *)
(* was created, removed, or given up half way.                             *)
NoSharing ==
  LET tree == Tree(fs) IN
  /\ \A s, t \in Inodes(tree) : s # t => Sectors(fs, s) \cap Sectors(fs, t) = {}
  /\ \A m, n \in tree : m.inode = n.inode => m = n
  /\ \A s \in Inodes(tree) : Sectors(fs, s) \cap Free(fs) = {}
  /\ Contents(fs, FREE_MAP_SECTOR) = <<fs.free_map>>

(* How many files and executables of the processes use inode s. *)
Users(s) ==
  Cardinality({<<p, fd>> \in Proc \X (3..MaxFd) :
                 Running(p) /\ fd_is_valid(p, fd) /\ ~fd_is_directory(p, fd)
                 /\ fd_inode_number(p, fd) = s})

Executions(s) == Cardinality({p \in Proc : Running(p) /\ proc[p].exe_file = s})

(* What a process has open, runs, or works in is open, still on the disk,  *)
(* and not given to another file; writes are denied to what is being run,  *)
(* and to nothing else (the assertions of inode_deny_write and             *)
(* inode_allow_write). *)
OpenInodes ==
  LET tree == Tree(fs) IN
  /\ \A s \in DOMAIN fs.open :
       /\ s \in Inodes(tree) /\ ~fs.open[s].removed
       /\ fs.open[s].data = DiskInode(fs, s)
       /\ fs.open[s].open_cnt >= Users(s) + Executions(s)
       /\ fs.open[s].deny_write_cnt = Executions(s)
  /\ \A p \in Proc : Running(p) =>
       /\ proc[p].exe_file \in DOMAIN fs.open
       /\ IsDirectory(tree, cwd(p)) /\ cwd(p) \in DOMAIN fs.open
       /\ \A fd \in DOMAIN proc[p].fds : fd_inode_number(p, fd) \in DOMAIN fs.open

(* filesys_create adds the one file that was asked for, filled with zeros, *)
(* in sectors that were free, or leaves every file as it was.  It fails    *)
(* only if there is no such directory, if the name is taken, or for want   *)
(* of space; then at most the data sectors are lost.                       *)
CreateMeetsSpec ==
  LET tree == Tree(fs) IN
  \A c \in Starts, path \in Path, <<size, is_dir>> \in (Size \X {FALSE}) \cup {<<ENTRIES, TRUE>>} :
    \A r \in {filesys_create(fs, c, path, size, is_dir)} :
    LET d    == Named(tree, c, path_prefix(path))
        cnt  == bytes_to_sectors(IF is_dir THEN ENTRIES ELSE size)
        now  == Tree(r.fs)
        lost == Free(fs) \ Free(r.fs)
        once == bitmap_flipped(fs.free_map, 0, 1, FALSE)
    IN  path.entries # <<>> /\ ThroughDirectories(tree, c, path) =>
        /\ Free(r.fs) \subseteq Free(fs)
        /\ IF r.ret
           THEN \E n \in now \ tree :
                  /\ now = tree \cup {n}
                  /\ n.dir = d /\ n.name = Last(path.entries) /\ n.is_directory = is_dir
                  /\ ~is_dir => n.contents = [i \in 1..size |-> ZERO]
                  /\ lost = Sectors(r.fs, n.inode)
           ELSE /\ now = tree
                /\ Cardinality(lost) \in {0, cnt}
                /\ \/ d = NULL \/ ~IsDirectory(tree, d)
                   \/ \E n \in tree : n.dir = d /\ n.name = Last(path.entries)
                   \/ Cardinality(InUse(fs, d)) = ENTRIES
                   \/ bitmap_scan(fs.free_map, 0, 1, FALSE) = BITMAP_ERROR
                   \/ bitmap_scan(once, 0, cnt, FALSE) = BITMAP_ERROR

(* filesys_remove takes the one entry away, with all that is below it, and *)
(* frees its sectors, or leaves every file and the free map as they were.  *)
(* The last closer of a removed file is always dir_remove itself.          *)
RemoveMeetsSpec ==
  LET tree == Tree(fs) IN
  \A path \in Path :
    \A r \in {filesys_remove(fs, path)} :
    LET n == CHOOSE m \in tree : m.dir = ROOT_DIR_SECTOR /\ m.name = path.entries[1]
        depth == SECTORS \div 2
    IN  IF r.ret
        THEN /\ Tree(r.fs) = (tree \ {n}) \
                             (IF n.is_directory THEN Below(fs, n.inode, depth) ELSE {})
             /\ Free(r.fs) = Free(fs) \cup Sectors(fs, n.inode)
             /\ n.inode \notin DOMAIN r.fs.open
        ELSE Tree(r.fs) = tree /\ Free(r.fs) = Free(fs)

(* filesys_create and filesys_remove change the tree of names by the one   *)
(* entry they were called for, and the free map with it, or nothing.       *)
NamesMeetSpec == CreateMeetsSpec /\ RemoveMeetsSpec

(* A write changes the file it is made to, within its length, and no other *)
(* file; the file of a running program does not change.                    *)
WriteMeetsSpec ==
  LET tree == Tree(fs) IN
  \A p \in Proc, fd \in 3..MaxFd, b \in Buffer :
    Running(p) /\ fd_is_valid(p, fd) /\ ~fd_is_directory(p, fd) =>
    LET s   == fd_inode_number(p, fd)
        pos == file_tell(p, fd)
        w   == file_write(p, fd, b)
        new(n) == [n EXCEPT !.contents =
                     [i \in DOMAIN @ |-> IF i - pos \in DOMAIN b THEN b[i - pos] ELSE @[i]]]
    IN  Tree(w.fs) = {IF n.inode = s /\ Executions(s) = 0 THEN new(n) ELSE n : n \in tree}

(* open finds what the path names, as a file or as a directory, and        *)
(* nothing if the path names nothing, whatever is_dir was on the stack.    *)
OpenMeetsSpec ==
  LET tree == Tree(fs) IN
  \A p \in Proc, path \in Path, is_dir \in BOOLEAN :
    Running(p) /\ ThroughDirectories(tree, cwd(p), path) =>
      \A r \in {Opened(p, path, is_dir)} :
        /\ r.inode = Named(tree, cwd(p), path)
        /\ r.inode # NULL => (r.is_directory <=> IsDirectory(tree, r.inode))

(* The names that readdir returns from pos on. *)
RECURSIVE Listing(_, _)
Listing(d, pos) ==
  LET r == dir_readdir(fs, d, pos)
  IN  IF r.name = NULL THEN <<>> ELSE <<r.name>> \o Listing(d, r.pos)

(* readdir, called until it returns false, returns every name of the       *)
(* directory once. *)
ReadDirLists ==
  LET tree == Tree(fs) IN
  \A d \in DOMAIN fs.open :
    IsDirectory(tree, d) =>
      /\ IsInjective(Listing(d, 0))
      /\ ToSet(Listing(d, 0)) = {n.name : n \in {m \in tree : m.dir = d}}

(* The calls on open files and directories, write, open and readdir, do    *)
(* what their callers may expect of them.                                  *)
FilesMeetSpec == WriteMeetsSpec /\ OpenMeetsSpec /\ ReadDirLists

(* A restart finds every file and every free sector again. *)
RestartKeeps ==
  LET again == filesys_init(filesys_done(fs), FALSE)
  IN  Tree(again) = Tree(fs) /\ Free(again) = Free(fs)
============================================================================
