-------------------------------- MODULE RamFS --------------------------------
(***************************************************************************)
(* The in-memory file system (src/os/src/fs/ramfs.rs, the RAMFS static of  *)
(* fs/manager.rs).                                                         *)
(*                                                                         *)
(* An inode is named by its number.  itype[i] is its FileType, "none" for  *)
(* a number no inode object carries (not yet issued, or issued to an inode *)
(* that was dropped when add_entry failed).  idata[i] is its data Vec;     *)
(* size is not kept apart because write_at and truncate always set it to   *)
(* the length of data.  dirents[i][n] is the inode the directory i maps    *)
(* name n to, NoIno for no entry.  File contents are bytes 0 (the fill of  *)
(* resize) and 1 (written data).                                           *)
(***************************************************************************)
EXTENDS Naturals, Sequences

CONSTANTS
    Name,      \* entry names (model values)
    MaxIno,    \* bound on the inode numbers alloc_ino may issue
    MaxSize    \* bound on a file's length

ASSUME RamFSAssumption == MaxIno \in Nat /\ MaxIno >= 1 /\ MaxSize \in Nat

VARIABLES next_ino, itype, idata, dirents

fsVars == <<next_ino, itype, idata, dirents>>

Ino == 1..MaxIno
NoIno == 0
RootIno == 1
Byte == {0, 1}
FileType == {"none", "file", "dir"}

-----------------------------------------------------------------------------
(* RamInode data operations, on a data sequence.                           *)

\* Fault variant of resize: size zeros appended (extend) instead of
\* filling up to size.
ResizeOverfill(data, size) ==
    IF size <= Len(data)
    THEN SubSeq(data, 1, size)
    ELSE data \o [k \in 1..size |-> 0]

\* Vec::resize(size, 0).
Resize(data, size) ==
    IF size <= Len(data)
    THEN SubSeq(data, 1, size)
    ELSE data \o [k \in 1..size - Len(data) |-> 0]

\* Fault variant of read_at: the count is not clipped at the end of data.
ReadCountUnclipped(data, off, len) == IF off >= Len(data) THEN 0 ELSE len

\* read_at: the number of bytes copied into a buffer of len bytes.
ReadCount(data, off, len) ==
    IF off >= Len(data) THEN 0
    ELSE (IF off + len < Len(data) THEN off + len ELSE Len(data)) - off

\* Fault variant of write_at: the data is not grown to the write's end.
WriteAtNoResize(data, off, buf) ==
    [k \in 1..Len(data) |->
        IF off < k /\ k <= off + Len(buf) THEN buf[k - off] ELSE data[k]]

\* write_at: grow data to off + Len(buf) with zeros, then copy buf in.
WriteAt(data, off, buf) ==
    LET grown == IF off + Len(buf) > Len(data)
                 THEN Resize(data, off + Len(buf)) ELSE data
    IN [k \in 1..Len(grown) |->
            IF off < k /\ k <= off + Len(buf) THEN buf[k - off] ELSE grown[k]]

-----------------------------------------------------------------------------
(* Directory operations.                                                   *)

\* RamFS::alloc_ino: the next value of the counter.
AllocIno(n) == n + 1

\* RamInode::add_entry succeeds: the parent is a directory (else
\* NotDirectory) and has no entry of that name (else AlreadyExists).
AddEntryOk(parent, name) ==
    itype[parent] = "dir" /\ dirents[parent][name] = NoIno

(***************************************************************************)
(* RamFS::create_file / create_directory (ramfs.rs:260-272) with           *)
(* RamInode::new_file / new_directory and add_entry: the inode number is   *)
(* taken first; add_entry then fails with NotDirectory if the parent is no *)
(* directory and with AlreadyExists if the name is taken, and the new      *)
(* inode is dropped, its number spent.  ok is TRUE when the entry is made. *)
(***************************************************************************)
CreateNode(parent, name, type, ok) ==
    LET ino == next_ino
    IN /\ next_ino <= MaxIno
       /\ next_ino' = AllocIno(next_ino)
       /\ ok = AddEntryOk(parent, name)
       /\ IF ok
          THEN /\ itype' = [itype EXCEPT ![ino] = type]
               /\ idata' = [idata EXCEPT ![ino] = << >>]
               /\ dirents' = [dirents EXCEPT ![parent][name] = ino]
          ELSE UNCHANGED <<itype, idata, dirents>>

\* RamFS::remove with RamInode::remove_entry: drop the entry; the inode
\* lives on while a RamFile holds it.
RemoveEntry(parent, name) ==
    /\ itype[parent] = "dir"
    /\ dirents[parent][name] # NoIno
    /\ dirents' = [dirents EXCEPT ![parent][name] = NoIno]
    /\ UNCHANGED <<next_ino, itype, idata>>

\* RamFS::new: root directory with inode 1, the counter at 2.
FsInit ==
    /\ next_ino = 2
    /\ itype = [i \in Ino |-> IF i = RootIno THEN "dir" ELSE "none"]
    /\ idata = [i \in Ino |-> << >>]
    /\ dirents = [i \in Ino |-> [n \in Name |-> NoIno]]

=============================================================================
