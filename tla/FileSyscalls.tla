----------------------------- MODULE FileSyscalls -----------------------------
(***************************************************************************)
(* The file system calls of src/os/src/syscall/syscall_impl.rs over the    *)
(* global RAMFS and FD_TABLE, together with the RamFS calls that           *)
(* system_init.rs and the tests make directly on any parent directory.     *)
(*                                                                         *)
(* Each call runs in the trap handler with interrupts off on the single    *)
(* hart and nothing else touches the file system, so each is one step.     *)
(* Path strings are entry names of the root directory, as sys_open and     *)
(* sys_mkdir use them; the byte-level reading of the path and the UTF-8    *)
(* check are abstracted to the name they produce, and the failing paths    *)
(* of those checks (return -1, no state change) are left out.              *)
(***************************************************************************)
EXTENDS FdTable, RamFS

CONSTANT MaxLen   \* largest buffer length passed to sys_read / sys_write

vars == <<entries, next_fd, next_ino, itype, idata, dirents>>

\* Buffers a write may pass: len bytes of written data.
Buffer == {[k \in 1..len |-> 1] : len \in 1..MaxLen}

\* RamFS::open_file: only a regular file may be opened.
OpenFileOk(ino) == itype[ino] = "file"

(***************************************************************************)
(* sys_open(path): look the name up in the root; if it is missing, create  *)
(* it with create_file (alloc_ino, new_file, add_entry); open_file the     *)
(* inode and alloc a descriptor for a RamFile at offset 0.  Opening a name *)
(* that is a directory fails in open_file and changes nothing.             *)
(***************************************************************************)
SysOpen(name) ==
    LET ino == dirents[RootIno][name]
    IN \/ /\ ino # NoIno
          /\ OpenFileOk(ino)
          /\ Alloc(RamFile(ino))
          /\ UNCHANGED fsVars
       \/ /\ ino = NoIno
          /\ CreateNode(RootIno, name, "file", TRUE)
          /\ Alloc(RamFile(next_ino))

\* sys_close(fd): dealloc, which only succeeds on an open fd >= 3.
SysClose(fd) ==
    /\ DeallocOk(fd)
    /\ Dealloc(fd)
    /\ UNCHANGED fsVars

\* sys_mkdir(path): create_directory in the root; on AlreadyExists the
\* inode number is spent all the same.
SysMkdir(name) ==
    /\ \E ok \in BOOLEAN : CreateNode(RootIno, name, "dir", ok)
    /\ UNCHANGED fdVars

(***************************************************************************)
(* sys_read(fd, buf, len) on a RamFile: read_at from the file's offset,    *)
(* then advance the offset by the count.  On a stdio file or an empty      *)
(* slot the call returns -1 and changes nothing.                           *)
(***************************************************************************)
SysRead(fd, len) ==
    /\ fd < Len(entries)
    /\ Slot(fd).kind = "ram"
    /\ LET f == Slot(fd)
           n == ReadCount(idata[f.ino], f.off, len)
       IN entries' = [entries EXCEPT ![fd + 1].off = @ + n]
    /\ UNCHANGED <<next_fd, next_ino, itype, idata, dirents>>

(***************************************************************************)
(* sys_write(fd, buf, len) on a RamFile: write_at at the file's offset,    *)
(* then advance the offset by the length.  A write to stdout or stderr     *)
(* goes to the console and changes no state here.                          *)
(***************************************************************************)
SysWrite(fd, buf) ==
    /\ fd < Len(entries)
    /\ Slot(fd).kind = "ram"
    /\ LET f == Slot(fd)
       IN /\ f.off + Len(buf) <= MaxSize
          /\ idata' = [idata EXCEPT ![f.ino] = WriteAt(@, f.off, buf)]
          /\ entries' = [entries EXCEPT ![fd + 1].off = @ + Len(buf)]
    /\ UNCHANGED <<next_fd, next_ino, itype, dirents>>

\* sys_write to stdout or stderr: Stdout::write prints the buffer on the
\* console, which no variable here records.
SysWriteConsole(fd) ==
    /\ Slot(fd).kind \in {"stdout", "stderr"}
    /\ UNCHANGED vars

\* RamFS::create_file / create_directory on any parent, as system_init.rs
\* builds /etc, /home/user and /tmp.
CreateIn(parent, name, type) ==
    /\ \E ok \in BOOLEAN : CreateNode(parent, name, type, ok)
    /\ UNCHANGED fdVars

\* RamFS::open_file and RamFile::write on a fresh handle, outside the fd
\* table, as system_init.rs fills each file it creates: a write at offset 0.
WriteDirect(ino, buf) ==
    /\ OpenFileOk(ino)
    /\ Len(buf) <= MaxSize
    /\ idata' = [idata EXCEPT ![ino] = WriteAt(@, 0, buf)]
    /\ UNCHANGED <<entries, next_fd, next_ino, itype, dirents>>

\* RamFS::remove on any parent.
Remove(parent, name) ==
    /\ RemoveEntry(parent, name)
    /\ UNCHANGED fdVars

Init == FdInit /\ FsInit

\* The descriptors a call may name: every slot, and one past the end.
FdArg == 0..MaxFd

Next ==
    \/ \E n \in Name : SysOpen(n)
    \/ \E fd \in FdArg : SysClose(fd)
    \/ \E n \in Name : SysMkdir(n)
    \/ \E fd \in FdArg, len \in 1..MaxLen : SysRead(fd, len)
    \/ \E fd \in FdArg, buf \in Buffer : SysWrite(fd, buf)
    \/ \E fd \in Reserved : SysWriteConsole(fd)
    \/ \E p \in Ino, n \in Name, t \in {"file", "dir"} : CreateIn(p, n, t)
    \/ \E i \in Ino, buf \in Buffer : WriteDirect(i, buf)
    \/ \E p \in Ino, n \in Name : Remove(p, n)

Spec == Init /\ [][Next]_vars

-----------------------------------------------------------------------------
(* Properties.                                                             *)

\* Every variable holds a value of its type.
TypeOK ==
    /\ entries \in Seq([kind : {"none", "stdin", "stdout", "stderr", "ram"},
                        ino : {NoIno} \cup Ino, off : 0..MaxSize])
    /\ Len(entries) <= MaxFd
    /\ next_fd \in 0..MaxFd
    /\ next_ino \in 2..MaxIno + 1
    /\ itype \in [Ino -> FileType]
    /\ idata \in [Ino -> Seq(Byte)]
    /\ \A i \in Ino : Len(idata[i]) <= MaxSize
    /\ dirents \in [Ino -> [Name -> {NoIno} \cup Ino]]

\* The stdio descriptors 0-2 keep their files whatever is opened and
\* closed: alloc's `i >= 3` and dealloc's `fd >= 3` guard them.
StdioPinned ==
    /\ Len(entries) >= 3
    /\ entries[1] = StdFile("stdin")
    /\ entries[2] = StdFile("stdout")
    /\ entries[3] = StdFile("stderr")

(***************************************************************************)
(* Each descriptor's offset lies within its file: sys_read advances it by  *)
(* what read_at copied and sys_write by what write_at wrote after growing  *)
(* the data, so no offset passes the end, whichever descriptor moved last. *)
(***************************************************************************)
OffsetWithinFile ==
    \A k \in 1..Len(entries) :
        entries[k].kind = "ram" => entries[k].off <= Len(idata[entries[k].ino])

(***************************************************************************)
(* sys_open returns the lowest free descriptor: a slot that becomes        *)
(* occupied is the first empty slot at 3 or above, or the end of the       *)
(* table if there is none.                                                 *)
(***************************************************************************)
FillsLowestFreeFd ==
    \A fd \in 0..Len(entries') - 1 :
        (/\ Slot(fd)' # NoFile
         /\ (fd >= Len(entries) \/ Slot(fd) = NoFile))
        => /\ fd >= 3
           /\ \A j \in 3..fd - 1 : j < Len(entries) /\ Slot(j) # NoFile

\* Every step of every run, sys_open included, fills at most the lowest free slot.
LowestFreeFd == [][FillsLowestFreeFd]_vars

=============================================================================
