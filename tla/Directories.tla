----------------------------- MODULE Directories -----------------------------
(***************************************************************************)
(* Directories and paths (filesys/directory.c, filesys/filesys.c, with     *)
(* FILESYS_SUBDIRS), as operators on the state fs of the file system.      *)
(*                                                                         *)
(* A struct dir is the sector of its inode: dir_close passes the address   *)
(* of its inode field to inode_close, which counts down a word of the      *)
(* struct itself, so the inode stays open and only the struct is freed.    *)
(*                                                                         *)
(* A path is a sequence of entries, absolute or not; CString shows how     *)
(* path.c takes it from a string.                                          *)
(***************************************************************************)
EXTENDS Inodes, SequencesExt

CONSTANT ENTRIES       \* entries a directory has room for

(* The entries . and .. of a path. *)
Dot == "."
DotDot == ".."

(* dir_open of an inode, of which the caller has a count already. *)
dir_open(fs, s) == inode_open(fs, s)

(* dir_open_root. *)
dir_open_root(fs) == dir_open(inode_open(fs, ROOT_DIR_SECTOR), ROOT_DIR_SECTOR)

dir_create(fs, sector, parent) == inode_create(fs, sector, ENTRIES, parent)

in_use(e) == e # ZERO /\ e.in_use

(* All entries of a directory, in use or not. *)
Entries(fs, d) == inode_read_at(fs, d, inode_length(fs, d), 0)

(* The slot of the entry of that name, or 0. *)
lookup(fs, d, name) == SelectInSeq(Entries(fs, d), LAMBDA e : in_use(e) /\ e.name = name)

(* The first free slot, or the end of the directory, where nothing can be  *)
(* written. *)
dir_add(fs, d, name, sector, is_dir) ==
  LET free == SelectInSeq(Entries(fs, d), LAMBDA e : ~in_use(e))
      ofs  == IF free = 0 THEN inode_length(fs, d) ELSE free - 1
      w    == inode_write_at(fs, d, <<[inode_sector |-> sector, name |-> name,
                                       is_directory |-> is_dir, in_use |-> TRUE]>>, ofs)
  IN  IF lookup(fs, d, name) # 0 THEN [fs |-> fs, ret |-> FALSE]
      ELSE [fs |-> w.fs, ret |-> w.bytes_written = 1]

(* dir_remove gives up, with the inode left open, if it was open before. *)
dir_remove(fs, d, name) ==
  LET slot == lookup(fs, d, name)
      e    == Entries(fs, d)[slot]
      open == inode_open(fs, e.inode_sector)
      w    == inode_write_at(open, d, <<[e EXCEPT !.in_use = FALSE]>>, slot - 1)
  IN  IF slot = 0 THEN [fs |-> fs, ret |-> FALSE]
      ELSE IF inode_open_cnt(open, e.inode_sector) > 1 THEN [fs |-> open, ret |-> FALSE]
      ELSE [fs |-> inode_close(inode_remove(w.fs, e.inode_sector), e.inode_sector),
            ret |-> TRUE]

(* The position after the next entry in use from pos on, and its name;     *)
(* NULL and the end if there is none.                                      *)
dir_readdir(fs, d, pos) ==
  LET rest == SubSeq(Entries(fs, d), pos + 1, inode_length(fs, d))
      slot == SelectInSeq(rest, in_use)
  IN  IF slot = 0 THEN [pos |-> pos + Len(rest), name |-> NULL]
      ELSE [pos |-> pos + slot, name |-> rest[slot].name]
----------------------------------------------------------------------------
(* Paths.                                                                  *)

(* dir_parent opens the parent, except that root_dir is its own parent. *)
dir_parent(fs, dir) ==
  LET up == inode_parent(fs, dir.inode)
  IN  IF dir.root THEN [fs |-> fs, dir |-> dir]
      ELSE [fs |-> dir_open(inode_open(fs, up), up), dir |-> [inode |-> up, root |-> FALSE]]

(* The loop of dir_open_from_path.  A file that is not the last entry is   *)
(* skipped together with the entry that follows it.                        *)
RECURSIVE walk(_, _, _, _)
walk(fs, dir, entries, is_dir) ==
  IF entries = <<>> THEN [fs |-> fs, inode |-> dir.inode, is_dir |-> TRUE]
  ELSE IF Head(entries) = DotDot
       THEN LET up == dir_parent(fs, dir) IN walk(up.fs, up.dir, Tail(entries), is_dir)
  ELSE LET slot == lookup(fs, dir.inode, Head(entries))
           e    == Entries(fs, dir.inode)[slot]
           s    == e.inode_sector
       IN  IF slot = 0 THEN [fs |-> fs, inode |-> NULL, is_dir |-> is_dir]
           ELSE IF e.is_directory
                THEN walk(dir_open(inode_open(fs, s), s), [inode |-> s, root |-> FALSE],
                          Tail(entries), is_dir)
           ELSE IF Len(entries) = 1
                THEN [fs |-> inode_open(fs, s), inode |-> s, is_dir |-> FALSE]
           ELSE walk(fs, dir, Tail(Tail(entries)), is_dir)

(* process_working_directory: a process without one opens the root.  Its   *)
(* struct is freed when a path starts with .. there.                       *)
process_working_directory(fs, cwd) ==
  IF cwd = NULL THEN [fs |-> dir_open_root(fs), inode |-> ROOT_DIR_SECTOR]
  ELSE [fs |-> fs, inode |-> cwd]

(* The inode of a path, or NULL, when is_dir stays what it was: the        *)
(* callers do not initialise it.                                           *)
dir_open_from_path(fs, cwd, path, is_dir) ==
  LET wd == process_working_directory(fs, cwd)
  IN  CASE path.absolute -> walk(fs, [inode |-> ROOT_DIR_SECTOR, root |-> TRUE],
                                 path.entries, is_dir)
        [] ~path.absolute /\ path.entries = <<Dot>> ->
             [fs |-> wd.fs, inode |-> wd.inode, is_dir |-> TRUE]
        [] OTHER -> walk(wd.fs, [inode |-> wd.inode, root |-> FALSE], path.entries, is_dir)
----------------------------------------------------------------------------
(* File system calls.                                                      *)

create_inode(fs, sector, size, parent, is_dir) ==
  IF is_dir THEN dir_create(fs, sector, parent) ELSE inode_create(fs, sector, size, parent)

(* path_split_last: what is left of a path of one entry is relative. *)
path_prefix(path) ==
  IF Len(path.entries) = 1 THEN [absolute |-> FALSE, entries |-> <<>>]
  ELSE [path EXCEPT !.entries = Front(@)]

(* Mutant: the sector of the inode is not given back. *)
Undo_leak(r, sector) == [fs |-> r.fs, ret |-> FALSE]

(* When a step of filesys_create fails, the sector of the inode is given   *)
(* back, and the data sectors are not.                                     *)
Undo(r, sector) == [fs |-> free_map_release(r.fs, sector, 1), ret |-> FALSE]

UndoIfFailed(r, sector) == IF r.ret THEN r ELSE Undo(r, sector)

(* With the inode created as c in sector, it is entered in directory d ... *)
EnterInode(c, sector, d, name, is_dir) ==
  IF c.ret THEN UndoIfFailed(dir_add(c.fs, d, name, sector, is_dir), sector)
  ELSE Undo(c, sector)

(* ... and before that it is created in the sector that a allocated. *)
CreateInode(a, d, name, size, is_dir) ==
  IF a.sector = BITMAP_ERROR THEN [fs |-> a.fs, ret |-> FALSE]
  ELSE EnterInode(create_inode(a.fs, a.sector, size, d, is_dir), a.sector, d, name, is_dir)

(* filesys_create below the inode of the prefix of its path. *)
CreateBelow(prefix, name, size, is_dir) ==
  IF prefix.inode = NULL THEN [fs |-> prefix.fs, ret |-> FALSE]
  ELSE IF ~prefix.is_dir THEN [fs |-> dir_open(prefix.fs, prefix.inode), ret |-> FALSE]
  ELSE CreateInode(free_map_allocate(dir_open(prefix.fs, prefix.inode), 1),
                   prefix.inode, name, size, is_dir)

filesys_create(fs, cwd, path, size, is_dir) ==
  IF path.entries = <<>> THEN [fs |-> fs, ret |-> FALSE]
  ELSE CreateBelow(dir_open_from_path(fs, cwd, path_prefix(path), FALSE),
                   Last(path.entries), size, is_dir)

(* The inode of the file that was opened, or NULL. *)
filesys_open_file(fs, cwd, path, is_dir) ==
  LET r == dir_open_from_path(fs, cwd, path, is_dir)
  IN  [fs |-> r.fs, inode |-> IF r.is_dir THEN NULL ELSE r.inode]

filesys_open_dir(fs, cwd, path, is_dir) ==
  LET r == dir_open_from_path(fs, cwd, path, is_dir)
  IN  IF r.is_dir /\ r.inode # NULL
      THEN [fs |-> dir_open(r.fs, r.inode), inode |-> r.inode]
      ELSE [fs |-> r.fs, inode |-> NULL]

(* Both open the inode and leave it open. *)
filesys_path_exists(fs, cwd, path, is_dir) ==
  LET r == dir_open_from_path(fs, cwd, path, is_dir)
  IN  [fs |-> r.fs, ret |-> r.inode # NULL]

filesys_path_is_file(fs, cwd, path, is_dir) ==
  LET r == dir_open_from_path(fs, cwd, path, is_dir)
  IN  [fs |-> r.fs, ret |-> ~r.is_dir]

(* filesys_remove looks for the whole path in the root directory, where no *)
(* entry has a slash. *)
filesys_remove(fs, path) ==
  LET opened == dir_open_root(fs)
  IN  IF path.absolute \/ Len(path.entries) # 1 THEN [fs |-> opened, ret |-> FALSE]
      ELSE dir_remove(opened, ROOT_DIR_SECTOR, path.entries[1])
----------------------------------------------------------------------------
(* Starting and stopping.                                                  *)

(* free_map_create and the root directory of do_format.  The parent of the *)
(* root is "true", which is its own sector.                                *)
do_format(fs) ==
  LET made == inode_create(fs, FREE_MAP_SECTOR, 1, FREE_MAP_SECTOR).fs
      file == free_map_write(inode_open(made, FREE_MAP_SECTOR))
      root == dir_create(file, ROOT_DIR_SECTOR, ROOT_DIR_SECTOR).fs
  IN  inode_close(root, FREE_MAP_SECTOR)

free_map_init == [s \in Sector |-> s \in {FREE_MAP_SECTOR, ROOT_DIR_SECTOR}]

(* Mutant: the free map is not read from the disk. *)
free_map_open_fresh(fs) == free_map_write(inode_open(fs, FREE_MAP_SECTOR))

free_map_open(fs) ==
  LET opened == inode_open(fs, FREE_MAP_SECTOR)
  IN  [opened EXCEPT !.free_map = inode_read_at(opened, FREE_MAP_SECTOR, 1, 0)[1]]

(* filesys_init of a disk, formatted or not. *)
filesys_init(disk, format) ==
  LET fs == [disk |-> disk, free_map |-> free_map_init, open |-> <<>>]
  IN  dir_open_root(free_map_open(IF format THEN do_format(fs) ELSE fs))

(* filesys_done closes the free map; the buffer cache writes the disk. *)
filesys_done(fs) == inode_close(fs, FREE_MAP_SECTOR).disk
=============================================================================
