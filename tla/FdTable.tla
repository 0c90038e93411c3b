------------------------------- MODULE FdTable -------------------------------
(***************************************************************************)
(* The global file-descriptor table (src/os/src/fs/fd_table.rs and the     *)
(* FD_TABLE static of fs/manager.rs).                                      *)
(*                                                                         *)
(* entries is the Vec<Option<FdEntry>>: entry k of the sequence is the     *)
(* slot of fd k - 1.  A slot holds a file object: one of the three stdio   *)
(* files, or a RamFile with its inode number and its own offset; an empty  *)
(* slot is the None file.  next_fd is kept as the code keeps it, although  *)
(* alloc never reads it.                                                   *)
(***************************************************************************)
EXTENDS Naturals, Sequences, FiniteSetsExt

CONSTANT MaxFd   \* bound on the length of the Vec, which alloc grows freely

ASSUME MaxFdAssumption == MaxFd \in Nat /\ MaxFd >= 3

VARIABLES entries, next_fd

fdVars == <<entries, next_fd>>

\* STDIN, STDOUT, STDERR (fd_table.rs:10-12): the reserved descriptors.
Reserved == 0..2

\* File objects held by a slot.  kind "none" is an empty slot (Option::None).
NoFile == [kind |-> "none", ino |-> 0, off |-> 0]
StdFile(k) == [kind |-> k, ino |-> 0, off |-> 0]
RamFile(ino) == [kind |-> "ram", ino |-> ino, off |-> 0]

\* The slot of descriptor fd.
Slot(fd) == entries[fd + 1]

\* The descriptors alloc may fill: empty slots at index 3 or above.
FreeFds(es) == {i \in 3..Len(es) - 1 : es[i + 1].kind = "none"}

\* Fault variant of alloc's scan: the reserved bound is `i > 3`.
AllocFdSkipsThree(es) ==
    LET free == {i \in 4..Len(es) - 1 : es[i + 1].kind = "none"}
    IN IF free # {} THEN Min(free) ELSE Len(es)

\* FileDescriptorTable::alloc: the first empty slot with i >= 3, else a new
\* slot pushed at the end.
AllocFd(es) == IF FreeFds(es) # {} THEN Min(FreeFds(es)) ELSE Len(es)

\* alloc(file): fill the slot AllocFd picks and set next_fd past it.  It
\* never fails; MaxFd only bounds the model.
Alloc(file) ==
    LET fd == AllocFd(entries)
    IN /\ fd < MaxFd
       /\ entries' = IF fd < Len(entries)
                     THEN [entries EXCEPT ![fd + 1] = file]
                     ELSE Append(entries, file)
       /\ next_fd' = fd + 1

\* Fault variant of dealloc: the reserved bound is `fd >= 2`.
DeallocOkStderr(fd) ==
    fd >= 2 /\ fd < Len(entries) /\ Slot(fd).kind # "none"

\* The condition under which dealloc succeeds and returns true.
DeallocOk(fd) ==
    fd >= 3 /\ fd < Len(entries) /\ Slot(fd).kind # "none"

\* FileDescriptorTable::dealloc on success: empty the slot, lower next_fd.
Dealloc(fd) ==
    /\ entries' = [entries EXCEPT ![fd + 1] = NoFile]
    /\ next_fd' = IF fd < next_fd THEN fd ELSE next_fd

\* FileDescriptorTable::with_stdio, as FD_TABLE is built: the three stdio
\* files in slots 0-2, next_fd = 3.
FdInit ==
    /\ entries = <<StdFile("stdin"), StdFile("stdout"), StdFile("stderr")>>
    /\ next_fd = 3

=============================================================================
