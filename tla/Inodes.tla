------------------------------- MODULE Inodes -------------------------------
(***************************************************************************)
(* The free map and the inodes of the file system (filesys/free-map.c,     *)
(* filesys/inode.c, without FILESYS_EXTEND_FILES), as operators on the     *)
(* state fs of the file system: the disk below the buffer cache, which     *)
(* Cache models, the free map and the inodes that are open.  Memory        *)
(* allocation does not fail.                                               *)
(*                                                                         *)
(* A sector holds BLOCK_SECTOR_SIZE units, and a unit is a byte of a file, *)
(* a directory entry, an on-disk inode, or the whole bitmap of the free    *)
(* map file.                                                               *)
(***************************************************************************)
EXTENDS Integers, Sequences, Bits, TLC

CONSTANTS
  SECTORS,             \* size of the disk
  BLOCK_SECTOR_SIZE,
  ZERO,                \* a zero byte
  NULL,
  CNT_MAX              \* open counts are followed up to this

FREE_MAP_SECTOR == 0
ROOT_DIR_SECTOR == 1

Sector == 0..(SECTORS - 1)

Zeros == [i \in 0..(BLOCK_SECTOR_SIZE - 1) |-> ZERO]

bytes_to_sectors(size) == (size + BLOCK_SECTOR_SIZE - 1) \div BLOCK_SECTOR_SIZE

(* The code compares an open count with 0 and with 1 only, and what it     *)
(* forgets to close stays open: a count that reached CNT_MAX, which is     *)
(* more than can be closed again, stands for all larger ones.              *)
Counted(n) == IF n < CNT_MAX THEN n + 1 ELSE n
----------------------------------------------------------------------------
(* Open inodes.                                                            *)

inode_reopen(fs, s) == [fs EXCEPT !.open[s].open_cnt = Counted(@)]

(* Mutant: the list of open inodes is not searched. *)
inode_open_again(fs, s) ==
  [fs EXCEPT !.open = (s :> [open_cnt |-> 1, deny_write_cnt |-> 0,
                             removed |-> FALSE, data |-> fs.disk[s][0]]) @@ @]

inode_open(fs, s) ==
  IF s \in DOMAIN fs.open THEN inode_reopen(fs, s)
  ELSE [fs EXCEPT !.open = (s :> [open_cnt |-> 1, deny_write_cnt |-> 0,
                                  removed |-> FALSE, data |-> fs.disk[s][0]]) @@ @]

inode_parent(fs, s) == fs.open[s].data.parent_dir_inode

inode_open_cnt(fs, s) == fs.open[s].open_cnt

inode_remove(fs, s) == [fs EXCEPT !.open[s].removed = TRUE]

inode_length(fs, s) == fs.open[s].data.length

inode_deny_write(fs, s) == [fs EXCEPT !.open[s].deny_write_cnt = @ + 1]

inode_allow_write(fs, s) == [fs EXCEPT !.open[s].deny_write_cnt = @ - 1]
----------------------------------------------------------------------------
(* Reading and writing.                                                    *)

(* The sector and the unit in it of position pos of an open inode. *)
byte_to_sector(fs, s, pos) == fs.open[s].data.start + pos \div BLOCK_SECTOR_SIZE

sector_ofs(pos) == pos % BLOCK_SECTOR_SIZE

(* How much of size units can be read or written at ofs. *)
chunks(fs, s, size, ofs) ==
  LET left == inode_length(fs, s) - ofs
  IN  IF left <= 0 THEN 0 ELSE IF size < left THEN size ELSE left

(* The units read. *)
inode_read_at(fs, s, size, ofs) ==
  [i \in 1..chunks(fs, s, size, ofs) |->
     fs.disk[byte_to_sector(fs, s, ofs + i - 1)][sector_ofs(ofs + i - 1)]]

(* The units written go to the sectors of the inode, unless writes are     *)
(* denied. *)
inode_write_at(fs, s, buffer, ofs) ==
  LET n == IF fs.open[s].deny_write_cnt > 0 THEN 0 ELSE chunks(fs, s, Len(buffer), ofs)
      here(t, k) == {i \in 1..n : byte_to_sector(fs, s, ofs + i - 1) = t
                                  /\ sector_ofs(ofs + i - 1) = k}
      hit == {byte_to_sector(fs, s, ofs + i - 1) : i \in 1..n}
  IN  [fs |-> [fs EXCEPT !.disk =
                 [t \in hit |-> [k \in DOMAIN Zeros |->
                                  IF here(t, k) = {} THEN fs.disk[t][k]
                                  ELSE buffer[CHOOSE i \in here(t, k) : TRUE]]] @@ @],
       bytes_written |-> n]
----------------------------------------------------------------------------
(* The free map.                                                           *)

(* bitmap_write to free_map_file. *)
free_map_write(fs) == inode_write_at(fs, FREE_MAP_SECTOR, <<fs.free_map>>, 0).fs

(* Writing the free map does not fail: its file has room for it.  The free *)
(* map is created before there is a free_map_file.                         *)
free_map_allocate(fs, cnt) ==
  LET sector == bitmap_scan(fs.free_map, 0, cnt, FALSE)
      taken  == [fs EXCEPT !.free_map = bitmap_flipped(@, 0, cnt, FALSE)]
  IN  [fs |-> IF sector = BITMAP_ERROR \/ FREE_MAP_SECTOR \notin DOMAIN fs.open
              THEN taken ELSE free_map_write(taken),
       sector |-> sector]

(* Mutant: the free map file is not written. *)
free_map_release_unsaved(fs, sector, cnt) ==
  [fs EXCEPT !.free_map = bitmap_set_multiple(@, sector, cnt, FALSE)]

free_map_release(fs, sector, cnt) ==
  free_map_write([fs EXCEPT !.free_map = bitmap_set_multiple(@, sector, cnt, FALSE)])
----------------------------------------------------------------------------
(* The last closer of a removed inode gives its sectors back. *)
inode_close(fs, s) ==
  LET inode == fs.open[s]
      saved == [fs EXCEPT !.disk[s] = [Zeros EXCEPT ![0] = inode.data],
                          !.open = [t \in DOMAIN @ \ {s} |-> @[t]]]
  IN  IF inode.open_cnt > 1 THEN [fs EXCEPT !.open[s].open_cnt = @ - 1]
      ELSE IF ~inode.removed THEN saved
      ELSE free_map_release(free_map_release(saved, s, 1),
                            inode.data.start, bytes_to_sectors(inode.data.length))

(* The inode is written and its data sectors a are cleared. *)
WriteInode(a, sector, length, parent) ==
  LET data == [start |-> a.sector, length |-> length, parent_dir_inode |-> parent]
  IN  IF a.sector = BITMAP_ERROR THEN [fs |-> a.fs, ret |-> FALSE]
      ELSE [fs |-> [a.fs EXCEPT !.disk =
                      [t \in a.sector..(a.sector + bytes_to_sectors(length) - 1) |-> Zeros]
                      @@ (sector :> [Zeros EXCEPT ![0] = data]) @@ @],
            ret |-> TRUE]

inode_create(fs, sector, length, parent) ==
  WriteInode(free_map_allocate(fs, bytes_to_sectors(length)), sector, length, parent)
=============================================================================
