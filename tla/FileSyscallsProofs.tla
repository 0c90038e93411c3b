-------------------------- MODULE FileSyscallsProofs --------------------------
(***************************************************************************)
(* Proofs about the file system calls of FileSyscalls.tla, for every set   *)
(* of names and every bound on inodes, descriptors and file sizes.         *)
(*                                                                         *)
(* The safety invariants of the fs_safety run are not inductive as they    *)
(* stand.  create_file and create_directory take the number alloc_ino      *)
(* hands out for a new inode; that no entry, directory or descriptor names *)
(* it already is what makes the new entry unique and keeps every open     *)
(* file a file.  So the inductive invariant adds that every number at or   *)
(* above the counter carries no inode (Fresh), and that every RamFile      *)
(* descriptor names an inode number (RamInos).                             *)
(***************************************************************************)
EXTENDS FileSyscalls, WellFoundedInduction, SequenceTheorems, TLAPS

\* A slot of the descriptor table, as TypeOK types it.
FileRec == [kind : {"none", "stdin", "stdout", "stderr", "ram"},
            ino : {NoIno} \cup Ino, off : 0..MaxSize]

\* The numbers alloc_ino has not yet issued carry no inode.
Fresh == \A i \in Ino : i >= next_ino => itype[i] = "none"

\* A RamFile descriptor holds the number of an inode.
RamInos == \A k \in 1..Len(entries) : entries[k].kind = "ram" => entries[k].ino \in Ino

(***************************************************************************)
(* Two facts the inductive invariant needs.  Every open RamFile descriptor *)
(* names a regular file: open_file refuses directories and inode types    *)
(* never change, so OffsetWithinFile may read the file's data.             *)
(***************************************************************************)
OpenFilesAreFiles ==
    \A k \in 1..Len(entries) :
        entries[k].kind = "ram" => itype[entries[k].ino] = "file"

\* Every directory entry names a live inode numbered above its directory,
\* and no inode is named twice: a create's fresh number is free.
DirectoryTree ==
    \A p, q \in Ino, n, m \in Name :
        LET c == dirents[p][n]
        IN c # NoIno =>
             /\ c > p
             /\ itype[c] # "none"
             /\ (dirents[q][m] = c => p = q /\ n = m)

\* The inductive invariant.
IInv ==
    /\ TypeOK
    /\ StdioPinned
    /\ OpenFilesAreFiles
    /\ DirectoryTree
    /\ OffsetWithinFile
    /\ Fresh
    /\ RamInos

\* The part of IInv about RAMFS alone.
FsInv ==
    /\ next_ino \in 2..MaxIno + 1
    /\ itype \in [Ino -> FileType]
    /\ idata \in [Ino -> Seq(Byte)]
    /\ \A i \in Ino : Len(idata[i]) <= MaxSize
    /\ dirents \in [Ino -> [Name -> {NoIno} \cup Ino]]
    /\ DirectoryTree
    /\ Fresh

\* A step keeps every regular file a regular file, and no shorter.
FilesKept ==
    \A i \in Ino : itype[i] = "file" =>
        itype'[i] = "file" /\ Len(idata[i]) <= Len(idata'[i])

USE RamFSAssumption, MaxFdAssumption

\* Inode numbers are a range of naturals, 0 standing for no inode.
USE DEF Ino, NoIno, RootIno

-----------------------------------------------------------------------------
(* Lemmas about the operators the calls are built from.                    *)

\* Every non-empty set of naturals has a least element, and Min is it.
LEMMA MinIn ==
    ASSUME NEW S \in SUBSET Nat, S # {}
    PROVE  Min(S) \in S /\ \A y \in S : Min(S) <= y
<1> DEFINE LT == OpToRel(<, Nat)
<1>1. \E x \in S : \A y \in S : ~(<<y, x>> \in LT)
  BY NatLessThanWellFounded, WFMin
<1>2. \A x, y \in Nat : y < x => <<y, x>> \in LT
  BY Zenon DEF OpToRel
<1> HIDE DEF LT
<1>3. PICK x \in S : \A y \in S : ~(<<y, x>> \in LT)
  BY <1>1
<1>4. \A y \in S : ~(y < x)
  BY <1>2, <1>3, Zenon
<1>5. \A y \in S : x <= y
  BY <1>4, SMT
<1> QED
  BY <1>5 DEF Min

\* FileDescriptorTable::alloc's scan never picks a stdio descriptor: it
\* returns an empty slot at 3 or above, or the end of the table.
LEMMA AllocFdFacts ==
    ASSUME NEW es \in Seq(FileRec), Len(es) >= 3
    PROVE  /\ AllocFd(es) \in 3..Len(es)
           /\ AllocFd(es) < Len(es) => es[AllocFd(es) + 1].kind = "none"
           /\ \A j \in 3..AllocFd(es) - 1 :
                 j < Len(es) /\ es[j + 1].kind # "none"
<1>0. Len(es) \in Nat
  BY LenProperties
<1>1. CASE FreeFds(es) # {}
  <2>1. FreeFds(es) \subseteq Nat
    BY DEF FreeFds
  <2>2. /\ AllocFd(es) = Min(FreeFds(es)) /\ Min(FreeFds(es)) \in FreeFds(es)
        /\ \A y \in FreeFds(es) : Min(FreeFds(es)) <= y
    BY <1>1, <2>1, MinIn DEF AllocFd
  <2> DEFINE m == Min(FreeFds(es))
  <2>3. m \in 3..Len(es) - 1 /\ es[m + 1].kind = "none"
    BY <2>2 DEF FreeFds
  <2>4. ASSUME NEW j \in 3..m - 1
        PROVE  j < Len(es) /\ es[j + 1].kind # "none"
    <3>1. j \notin FreeFds(es)
      BY <2>2, <2>3
    <3>2. j \in 3..Len(es) - 1
      BY <2>3, <1>0
    <3> QED
      BY <3>1, <3>2 DEF FreeFds
  <2> QED
    BY <2>2, <2>3, <2>4, <1>0
<1>2. CASE FreeFds(es) = {}
  <2>1. AllocFd(es) = Len(es)
    BY <1>2 DEF AllocFd
  <2>2. ASSUME NEW j \in 3..Len(es) - 1
        PROVE  j < Len(es) /\ es[j + 1].kind # "none"
    <3>1. j \notin FreeFds(es)
      BY <1>2
    <3> QED
      BY <3>1, <1>0 DEF FreeFds
  <2> QED
    BY <2>1, <2>2, <1>0
<1> QED
  BY <1>1, <1>2

(***************************************************************************)
(* alloc(file) fills the slot AllocFd picks, at 3 or above, and leaves     *)
(* every other slot as it was; the table stays within MaxFd slots.         *)
(***************************************************************************)
LEMMA AllocEntries ==
    ASSUME TypeOK, StdioPinned, NEW file \in FileRec, Alloc(file)
    PROVE  LET fd == AllocFd(entries)
           IN /\ fd >= 3
              /\ entries' \in Seq(FileRec)
              /\ Len(entries) <= Len(entries') /\ Len(entries') <= MaxFd
              /\ next_fd' \in 0..MaxFd
              /\ \A k \in 1..Len(entries') :
                    entries'[k] = IF k = fd + 1 THEN file ELSE entries[k]
              /\ \A k \in 1..Len(entries') : k # fd + 1 => k \in 1..Len(entries)
<1> DEFINE fd == AllocFd(entries)
<1>1. entries \in Seq(FileRec) /\ Len(entries) >= 3 /\ Len(entries) <= MaxFd
  BY DEF TypeOK, StdioPinned, FileRec
<1>2. fd \in 3..Len(entries) /\ fd < MaxFd
  BY <1>1, AllocFdFacts DEF Alloc
<1>3. next_fd' = fd + 1
  BY DEF Alloc
<1>4. CASE fd < Len(entries)
  <2>1. entries' = [entries EXCEPT ![fd + 1] = file]
    BY <1>4 DEF Alloc
  <2>2. fd + 1 \in 1..Len(entries)
    BY <1>2, <1>4
  <2>3. /\ [entries EXCEPT ![fd + 1] = file] \in Seq(FileRec)
        /\ Len([entries EXCEPT ![fd + 1] = file]) = Len(entries)
        /\ \A j \in 1..Len(entries) :
              [entries EXCEPT ![fd + 1] = file][j] =
                  IF j = fd + 1 THEN file ELSE entries[j]
    BY <1>1, <2>2, ExceptSeq
  <2> QED
    BY <1>1, <1>2, <1>3, <2>1, <2>2, <2>3
<1>5. CASE ~(fd < Len(entries))
  <2>1. entries' = Append(entries, file) /\ fd = Len(entries)
    BY <1>2, <1>5 DEF Alloc
  <2> QED
    BY <1>1, <1>2, <1>3, <2>1, AppendProperties
<1> QED
  BY <1>4, <1>5

\* A sequence of bytes of every length n.
LEMMA ZerosSeq ==
    ASSUME NEW n \in Nat
    PROVE  [k \in 1..n |-> 0] \in Seq(Byte) /\ Len([k \in 1..n |-> 0]) = n
<1>1. [k \in 1..n |-> 0] \in [1..n -> Byte]
  BY DEF Byte
<1> QED
  BY <1>1, SeqDef

(***************************************************************************)
(* write_at leaves a byte sequence, grown to the end of the write when the *)
(* write reaches past the end of the data, and as long as before if not.   *)
(***************************************************************************)
LEMMA WriteAtFacts ==
    ASSUME NEW data \in Seq(Byte), NEW off \in Nat, NEW buf \in Seq(Byte)
    PROVE  /\ WriteAt(data, off, buf) \in Seq(Byte)
           /\ Len(WriteAt(data, off, buf)) =
                  IF off + Len(buf) > Len(data) THEN off + Len(buf) ELSE Len(data)
<1> DEFINE grown == IF off + Len(buf) > Len(data)
                    THEN Resize(data, off + Len(buf)) ELSE data
           wlen == IF off + Len(buf) > Len(data) THEN off + Len(buf) ELSE Len(data)
<1>0. Len(data) \in Nat /\ Len(buf) \in Nat
  BY LenProperties
<1>1. grown \in Seq(Byte) /\ Len(grown) = wlen
  <2>1. CASE off + Len(buf) > Len(data)
    <3> DEFINE m == off + Len(buf) - Len(data)
    <3>1. m \in Nat
      BY <1>0, <2>1
    <3>2. [k \in 1..m |-> 0] \in Seq(Byte) /\ Len([k \in 1..m |-> 0]) = m
      BY <3>1, ZerosSeq
    <3>3. grown = data \o [k \in 1..m |-> 0]
      BY <1>0, <2>1 DEF Resize
    <3>4. /\ data \o [k \in 1..m |-> 0] \in Seq(Byte)
          /\ Len(data \o [k \in 1..m |-> 0]) = Len(data) + m
      BY <3>2, ConcatProperties
    <3>5. Len(data) + m = off + Len(buf)
      BY <1>0 DEF m
    <3>6. wlen = off + Len(buf)
      BY <2>1 DEF wlen
    <3> QED
      BY <3>3, <3>4, <3>5, <3>6
  <2>2. CASE ~(off + Len(buf) > Len(data))
    BY <2>2 DEF grown, wlen
  <2> QED
    BY <2>1, <2>2
<1>2. WriteAt(data, off, buf) =
        [k \in 1..wlen |-> IF off < k /\ k <= off + Len(buf)
                          THEN buf[k - off] ELSE grown[k]]
  BY <1>1 DEF WriteAt
<1>3. \A k \in 1..wlen : (IF off < k /\ k <= off + Len(buf)
                         THEN buf[k - off] ELSE grown[k]) \in Byte
  BY <1>0, <1>1, ElementOfSeq
<1>4. wlen \in Nat
  BY <1>0
<1> DEFINE w == [k \in 1..wlen |-> IF off < k /\ k <= off + Len(buf)
                                  THEN buf[k - off] ELSE grown[k]]
<1> HIDE DEF grown
<1>5. w \in [1..wlen -> Byte]
  BY <1>3 DEF w
<1> HIDE DEF w
<1>6. w \in Seq(Byte)
  BY <1>4, <1>5, SeqDef
<1>7. Len(w) = wlen
  <2>1. DOMAIN w = 1..Len(w) /\ Len(w) \in Nat /\ DOMAIN w = 1..wlen
    BY <1>5, <1>6, LenProperties
  <2>2. Len(w) >= 1 => Len(w) <= wlen
    BY <2>1, <1>4
  <2>3. wlen >= 1 => wlen <= Len(w)
    BY <2>1, <1>4
  <2>4. Len(w) \in Nat
    BY <2>1
  <2> QED
    BY <2>2, <2>3, <2>4, <1>4
<1> QED
  BY <1>2, <1>6, <1>7 DEF w, wlen

\* read_at copies no byte past the end of the data: an offset within the
\* data moved by the count stays within it.
LEMMA ReadCountFacts ==
    ASSUME NEW data \in Seq(Byte), NEW off \in Nat, NEW len \in Nat,
           off <= Len(data)
    PROVE  /\ ReadCount(data, off, len) \in Nat
           /\ off + ReadCount(data, off, len) <= Len(data)
BY LenProperties DEF ReadCount

-----------------------------------------------------------------------------
(* The steps.                                                              *)

\* A number that carries an inode lies below the counter, and so does
\* every entry target and every RamFile's inode.
LEMMA LiveBelowCounter ==
    ASSUME IInv
    PROVE  /\ \A i \in Ino : itype[i] # "none" => i < next_ino
           /\ \A p \in Ino, n \in Name :
                 dirents[p][n] # NoIno => dirents[p][n] < next_ino
BY DEF IInv, Fresh, DirectoryTree, TypeOK, Ino, NoIno

(***************************************************************************)
(* create_file and create_directory: alloc_ino's number is fresh, so the  *)
(* new entry is the only one that names it, and it is larger than its      *)
(* parent, which is a directory and so lies below the counter.  A failed  *)
(* add_entry only spends the number.  Every inode that existed keeps its  *)
(* type and its data.                                                      *)
(***************************************************************************)
LEMMA CreateNodeKeeps ==
    ASSUME IInv, NEW parent \in Ino, NEW name \in Name,
           NEW type \in {"file", "dir"}, NEW ok \in BOOLEAN,
           CreateNode(parent, name, type, ok)
    PROVE  /\ next_ino' \in 2..MaxIno + 1
           /\ itype' \in [Ino -> FileType]
           /\ idata' \in [Ino -> Seq(Byte)]
           /\ \A i \in Ino : Len(idata'[i]) <= MaxSize
           /\ dirents' \in [Ino -> [Name -> {NoIno} \cup Ino]]
           /\ DirectoryTree'
           /\ Fresh'
           /\ \A i \in Ino : itype[i] # "none" =>
                 itype'[i] = itype[i] /\ idata'[i] = idata[i]
           /\ ok => next_ino \in Ino /\ itype'[next_ino] = type
                    /\ idata'[next_ino] = << >>
<1>1. /\ next_ino \in 2..MaxIno + 1 /\ next_ino <= MaxIno
      /\ next_ino' = next_ino + 1 /\ next_ino \in Ino
  BY DEF CreateNode, AllocIno, IInv, TypeOK, Ino
<1>2. /\ \A i \in Ino : itype[i] # "none" => i < next_ino
      /\ \A p \in Ino, n \in Name : dirents[p][n] # NoIno => dirents[p][n] < next_ino
  BY LiveBelowCounter
<1>3. itype \in [Ino -> FileType] /\ idata \in [Ino -> Seq(Byte)]
      /\ \A i \in Ino : Len(idata[i]) <= MaxSize
      /\ dirents \in [Ino -> [Name -> {NoIno} \cup Ino]]
  BY DEF IInv, TypeOK
<1>4. CASE ~ok
  <2>1. UNCHANGED <<itype, idata, dirents>>
    BY <1>4 DEF CreateNode
  <2> QED
    BY <1>1, <1>3, <1>4, <2>1 DEF IInv, DirectoryTree, Fresh
<1>5. CASE ok
  <2>1. /\ AddEntryOk(parent, name)
        /\ itype' = [itype EXCEPT ![next_ino] = type]
        /\ idata' = [idata EXCEPT ![next_ino] = << >>]
        /\ dirents' = [dirents EXCEPT ![parent][name] = next_ino]
    BY <1>5 DEF CreateNode
  <2>2. itype[parent] = "dir" /\ dirents[parent][name] = NoIno /\ parent < next_ino
    BY <2>1, <1>2 DEF AddEntryOk
  <2>3. /\ itype' \in [Ino -> FileType]
        /\ idata' \in [Ino -> Seq(Byte)]
        /\ \A i \in Ino : Len(idata'[i]) <= MaxSize
        /\ dirents' \in [Ino -> [Name -> {NoIno} \cup Ino]]
    BY <1>1, <1>3, <2>1, EmptySeq DEF FileType
  <2>4. Fresh'
    BY <1>1, <1>3, <2>1 DEF Fresh, IInv
  <2>5. DirectoryTree'
    <3> SUFFICES ASSUME NEW p \in Ino, NEW q \in Ino, NEW n \in Name,
                        NEW m \in Name, dirents'[p][n] # NoIno
                 PROVE  LET c == dirents'[p][n]
                        IN /\ c > p
                           /\ itype'[c] # "none"
                           /\ (dirents'[q][m] = c => p = q /\ n = m)
      BY DEF DirectoryTree
    <3>1. \A a \in Ino, b \in Name :
             dirents'[a][b] = IF a = parent /\ b = name THEN next_ino ELSE dirents[a][b]
      BY <1>3, <2>1
    <3>2. CASE p = parent /\ n = name
      <4>1. dirents'[p][n] = next_ino /\ itype'[next_ino] = type
        BY <3>1, <3>2, <1>1, <1>3, <2>1
      <4>2. dirents'[q][m] = next_ino => q = parent /\ m = name
        BY <3>1, <1>2, <1>1 DEF Ino, NoIno
      <4> QED
        BY <4>1, <4>2, <3>2, <2>2
    <3>3. CASE ~(p = parent /\ n = name)
      <4> DEFINE c == dirents[p][n]
      <4>1. dirents'[p][n] = c /\ c # NoIno /\ c < next_ino /\ c \in Ino
        BY <3>1, <3>3, <1>2, <1>3
      <4>2. c > p /\ itype[c] # "none" /\ (dirents[q][m] = c => p = q /\ n = m)
        BY <4>1 DEF IInv, DirectoryTree
      <4>3. itype'[c] = itype[c]
        BY <4>1, <1>3, <2>1
      <4>4. dirents'[q][m] = c => dirents[q][m] = c
        BY <3>1, <4>1
      <4> QED
        BY <4>1, <4>2, <4>3, <4>4
    <3> QED
      BY <3>2, <3>3
  <2>6. \A i \in Ino : itype[i] # "none" => itype'[i] = itype[i] /\ idata'[i] = idata[i]
    BY <1>2, <1>3, <2>1
  <2>7. itype'[next_ino] = type /\ idata'[next_ino] = << >>
    BY <1>1, <1>3, <2>1
  <2>8. next_ino' \in 2..MaxIno + 1
    BY <1>1
  <2> QED
    BY <2>3, <2>4, <2>5, <2>6, <2>7, <2>8, <1>1, Zenon
<1> QED
  BY <1>4, <1>5

\* The two parts together make up IInv.
LEMMA IInvParts ==
    IInv <=> /\ FsInv
             /\ entries \in Seq(FileRec) /\ Len(entries) <= MaxFd
             /\ next_fd \in 0..MaxFd
             /\ StdioPinned /\ OpenFilesAreFiles /\ OffsetWithinFile /\ RamInos
BY DEF IInv, FsInv, TypeOK, FileRec

\* The offset of a RamFile slot and the lengths of its inode's data are
\* naturals, before and after a step that keeps FsInv.
LEMMA SlotNat ==
    ASSUME NEW es \in Seq(FileRec), NEW k \in 1..Len(es), es[k].ino \in Ino,
           FsInv, FsInv'
    PROVE  /\ es[k].off \in Nat
           /\ Len(idata[es[k].ino]) \in Nat
           /\ Len(idata'[es[k].ino]) \in Nat
<1>1. es[k] \in FileRec
  BY ElementOfSeq
<1>2. es[k].off \in Nat
  BY <1>1 DEF FileRec
<1>3. idata[es[k].ino] \in Seq(Byte) /\ idata'[es[k].ino] \in Seq(Byte)
  BY DEF FsInv
<1> QED
  BY <1>2, <1>3, LenProperties

(***************************************************************************)
(* A call that changes RAMFS but no descriptor keeps IInv as long as it    *)
(* keeps RAMFS's own part and every regular file a file at least as long:  *)
(* each RamFile descriptor's inode and offset stay valid.                  *)
(***************************************************************************)
LEMMA FsStepKeeps ==
    ASSUME IInv, FsInv', FilesKept, UNCHANGED fdVars
    PROVE  IInv'
<1>1. /\ entries \in Seq(FileRec) /\ Len(entries) <= MaxFd
      /\ next_fd \in 0..MaxFd /\ StdioPinned /\ RamInos
      /\ OpenFilesAreFiles /\ OffsetWithinFile
  BY IInvParts
<1>2. OpenFilesAreFiles' /\ OffsetWithinFile'
  <2> SUFFICES ASSUME NEW k \in 1..Len(entries), entries[k].kind = "ram"
               PROVE  itype'[entries[k].ino] = "file"
                      /\ entries[k].off <= Len(idata'[entries[k].ino])
    BY DEF fdVars, OpenFilesAreFiles, OffsetWithinFile
  <2>1. entries[k].ino \in Ino /\ itype[entries[k].ino] = "file"
        /\ entries[k].off <= Len(idata[entries[k].ino])
    BY <1>1 DEF RamInos, OpenFilesAreFiles, OffsetWithinFile
  <2>2. entries[k].off \in Nat /\ Len(idata[entries[k].ino]) \in Nat
        /\ Len(idata'[entries[k].ino]) \in Nat
    BY <1>1, <2>1, SlotNat, IInvParts
  <2> QED
    BY <2>1, <2>2 DEF FilesKept
<1>3. StdioPinned' /\ RamInos'
  BY <1>1 DEF fdVars, StdioPinned, RamInos
<1> QED
  BY <1>1, <1>2, <1>3 DEF fdVars, IInv, FsInv, TypeOK, FileRec

(***************************************************************************)
(* sys_open: alloc of a RamFile at offset 0 on an inode that is a regular  *)
(* file after the step keeps IInv, whether open_file found the file or     *)
(* create_file made it: the slot alloc fills lies at 3 or above.           *)
(***************************************************************************)
LEMMA OpenStepKeeps ==
    ASSUME IInv, FsInv', FilesKept, NEW ino \in Ino, itype'[ino] = "file",
           Alloc(RamFile(ino))
    PROVE  IInv'
<1> DEFINE fd == AllocFd(entries)
<1>1. /\ entries \in Seq(FileRec) /\ Len(entries) <= MaxFd
      /\ next_fd \in 0..MaxFd /\ StdioPinned /\ RamInos
      /\ OpenFilesAreFiles /\ OffsetWithinFile /\ TypeOK
  BY IInvParts DEF IInv
<1>2. RamFile(ino) \in FileRec
  BY DEF RamFile, FileRec
<1>3. /\ fd >= 3
      /\ entries' \in Seq(FileRec)
      /\ Len(entries) <= Len(entries') /\ Len(entries') <= MaxFd
      /\ next_fd' \in 0..MaxFd
      /\ \A k \in 1..Len(entries') :
            entries'[k] = IF k = fd + 1 THEN RamFile(ino) ELSE entries[k]
  BY <1>1, <1>2, AllocEntries
<1>4. /\ fd \in Nat /\ Len(entries) \in Nat
      /\ \A k \in 1..Len(entries') : k # fd + 1 => k \in 1..Len(entries)
  <2>1. fd \in 3..Len(entries) /\ Len(entries) \in Nat
    BY <1>1, AllocFdFacts, LenProperties DEF StdioPinned
  <2>2. CASE fd < Len(entries)
    <3>1. entries' = [entries EXCEPT ![fd + 1] = RamFile(ino)]
      BY <2>2 DEF Alloc
    <3>2. Len([entries EXCEPT ![fd + 1] = RamFile(ino)]) = Len(entries)
      BY <1>1, <1>2, <2>1, <2>2, ExceptSeq
    <3> QED
      BY <2>1, <3>1, <3>2
  <2>3. CASE ~(fd < Len(entries))
    <3>1. entries' = Append(entries, RamFile(ino)) /\ fd = Len(entries)
      BY <2>1, <2>3 DEF Alloc
    <3>2. Len(Append(entries, RamFile(ino))) = Len(entries) + 1
      BY <1>1, <1>2, AppendProperties
    <3> QED
      BY <2>1, <3>1, <3>2
  <2> QED
    BY <2>2, <2>3
<1>5. StdioPinned'
  <2>1. Len(entries) >= 3 /\ Len(entries) <= Len(entries')
    BY <1>1, <1>3 DEF StdioPinned
  <2>2. \A k \in 1..3 : entries'[k] = entries[k]
    BY <1>3, <1>4, <2>1
  <2> QED
    BY <1>1, <2>1, <2>2 DEF StdioPinned
<1>6. /\ OpenFilesAreFiles' /\ OffsetWithinFile' /\ RamInos'
  <2> SUFFICES ASSUME NEW k \in 1..Len(entries'), entries'[k].kind = "ram"
               PROVE  /\ itype'[entries'[k].ino] = "file"
                      /\ entries'[k].off <= Len(idata'[entries'[k].ino])
                      /\ entries'[k].ino \in Ino
    BY DEF OpenFilesAreFiles, OffsetWithinFile, RamInos
  <2>1. CASE k = fd + 1
    <3>1. entries'[k] = RamFile(ino)
      BY <1>3, <2>1
    <3>2. Len(idata'[ino]) \in Nat
      BY LenProperties DEF FsInv
    <3> QED
      BY <3>1, <3>2 DEF RamFile
  <2>2. CASE k # fd + 1
    <3>1. k \in 1..Len(entries) /\ entries'[k] = entries[k]
      BY <1>3, <1>4, <2>2
    <3>2. entries[k].ino \in Ino /\ itype[entries[k].ino] = "file"
          /\ entries[k].off <= Len(idata[entries[k].ino])
      BY <1>1, <3>1 DEF RamInos, OpenFilesAreFiles, OffsetWithinFile
    <3>3. entries[k].off \in Nat /\ Len(idata[entries[k].ino]) \in Nat
          /\ Len(idata'[entries[k].ino]) \in Nat
      BY <1>1, <3>1, <3>2, SlotNat, IInvParts
    <3> QED
      BY <3>1, <3>2, <3>3 DEF FilesKept
  <2> QED
    BY <2>1, <2>2
<1> QED
  BY <1>3, <1>5, <1>6 DEF IInv, FsInv, TypeOK, FileRec

\* A step that leaves RAMFS alone keeps its part of IInv and every file.
LEMMA FsUnchanged ==
    ASSUME IInv, UNCHANGED fsVars
    PROVE  FsInv' /\ FilesKept
<1>1. FsInv
  BY IInvParts
<1>2. \A i \in Ino : Len(idata[i]) \in Nat
  BY <1>1, LenProperties DEF FsInv
<1> QED
  BY <1>1, <1>2 DEF fsVars, FsInv, FilesKept, DirectoryTree, Fresh

\* Every buffer a call passes is a sequence of bytes.
LEMMA BufferBytes ==
    ASSUME NEW buf \in Buffer
    PROVE  buf \in Seq(Byte) /\ Len(buf) \in Nat
<1>1. PICK len \in 1..MaxLen : buf = [k \in 1..len |-> 1]
  BY DEF Buffer
<1>2. len \in Nat /\ buf \in [1..len -> Byte]
  BY <1>1 DEF Byte
<1>3. buf \in Seq(Byte)
  BY <1>2, SeqDef
<1> QED
  BY <1>3, LenProperties

(***************************************************************************)
(* write_at on a regular file, as sys_write and system_init's direct       *)
(* writes do it: the file stays a byte sequence within MaxSize, grows to   *)
(* the end of the write, and no other inode changes.                       *)
(***************************************************************************)
LEMMA WriteDataKeeps ==
    ASSUME IInv, NEW ino \in Ino, itype[ino] = "file",
           NEW off \in Nat, NEW buf \in Seq(Byte), off + Len(buf) <= MaxSize,
           idata' = [idata EXCEPT ![ino] = WriteAt(@, off, buf)],
           UNCHANGED <<next_ino, itype, dirents>>
    PROVE  /\ FsInv' /\ FilesKept
           /\ off + Len(buf) <= Len(idata'[ino])
<1>1. FsInv
  BY IInvParts
<1>2. idata[ino] \in Seq(Byte) /\ Len(idata[ino]) \in Nat /\ Len(buf) \in Nat
  BY <1>1, LenProperties DEF FsInv
<1>3. /\ WriteAt(idata[ino], off, buf) \in Seq(Byte)
      /\ Len(WriteAt(idata[ino], off, buf)) =
            IF off + Len(buf) > Len(idata[ino]) THEN off + Len(buf) ELSE Len(idata[ino])
  BY <1>2, WriteAtFacts
<1>4. idata'[ino] = WriteAt(idata[ino], off, buf)
      /\ \A i \in Ino : i # ino => idata'[i] = idata[i]
  BY <1>1 DEF FsInv
<1>5. /\ Len(idata'[ino]) <= MaxSize
      /\ Len(idata[ino]) <= Len(idata'[ino])
      /\ off + Len(buf) <= Len(idata'[ino])
  BY <1>1, <1>2, <1>3, <1>4 DEF FsInv
<1>6. \A i \in Ino : Len(idata[i]) \in Nat
  BY <1>1, LenProperties DEF FsInv
<1>7. FsInv'
  BY <1>1, <1>3, <1>4, <1>5 DEF FsInv, DirectoryTree, Fresh
<1>8. FilesKept
  BY <1>4, <1>5, <1>6 DEF FilesKept
<1> QED
  BY <1>5, <1>7, <1>8

(***************************************************************************)
(* sys_read and sys_write move the offset of one RamFile descriptor by d;  *)
(* if the new offset lies within the file after the step, IInv holds:      *)
(* every other descriptor and the stdio slots are left alone.              *)
(***************************************************************************)
LEMMA OffsetStepKeeps ==
    ASSUME IInv, FsInv', FilesKept,
           NEW fd \in Nat, fd < Len(entries), entries[fd + 1].kind = "ram",
           NEW d \in Nat,
           entries[fd + 1].off + d <= Len(idata'[entries[fd + 1].ino]),
           entries' = [entries EXCEPT ![fd + 1].off = @ + d],
           UNCHANGED next_fd
    PROVE  IInv'
<1> DEFINE f == entries[fd + 1]
           g == [f EXCEPT !.off = f.off + d]
<1>1. /\ entries \in Seq(FileRec) /\ Len(entries) <= MaxFd
      /\ next_fd \in 0..MaxFd /\ StdioPinned /\ RamInos
      /\ OpenFilesAreFiles /\ OffsetWithinFile
  BY IInvParts
<1>2. fd + 1 \in 1..Len(entries) /\ f \in FileRec /\ f.ino \in Ino
  BY <1>1, ElementOfSeq DEF RamInos
<1>3. f.off \in Nat /\ Len(idata'[f.ino]) \in Nat /\ Len(idata'[f.ino]) <= MaxSize
  BY <1>1, <1>2, SlotNat, IInvParts DEF FsInv
<1>4. g \in FileRec /\ g.kind = "ram" /\ g.ino = f.ino /\ g.off = f.off + d
  <2>1. f.off + d \in 0..MaxSize
    BY <1>3
  <2> QED
    BY <1>2, <2>1, SMTT(60) DEF FileRec
<1>5. entries' = [entries EXCEPT ![fd + 1] = g]
  BY DEF g
<1>6. /\ entries' \in Seq(FileRec) /\ Len(entries') = Len(entries)
      /\ \A j \in 1..Len(entries) : entries'[j] = IF j = fd + 1 THEN g ELSE entries[j]
  BY <1>1, <1>2, <1>4, <1>5, ExceptSeq
<1>7. StdioPinned'
  <2>1. fd + 1 >= 4 \/ ~(entries[fd + 1].kind = "ram")
    BY <1>1 DEF StdioPinned, StdFile
  <2> QED
    BY <1>1, <1>6, <2>1 DEF StdioPinned
<1>8. /\ OpenFilesAreFiles' /\ OffsetWithinFile' /\ RamInos'
  <2> SUFFICES ASSUME NEW k \in 1..Len(entries'), entries'[k].kind = "ram"
               PROVE  /\ itype'[entries'[k].ino] = "file"
                      /\ entries'[k].off <= Len(idata'[entries'[k].ino])
                      /\ entries'[k].ino \in Ino
    BY DEF OpenFilesAreFiles, OffsetWithinFile, RamInos
  <2>1. CASE k = fd + 1
    <3>1. itype[f.ino] = "file"
      BY <1>1, <1>2 DEF OpenFilesAreFiles
    <3>2. itype'[f.ino] = "file" /\ entries'[k] = g
      BY <1>2, <1>6, <2>1, <3>1 DEF FilesKept
    <3>3. g.off <= Len(idata'[f.ino])
      BY <1>4 DEF f
    <3> QED
      BY <1>2, <1>4, <3>2, <3>3
  <2>2. CASE k # fd + 1
    <3>1. k \in 1..Len(entries) /\ entries'[k] = entries[k]
      BY <1>6, <2>2
    <3>2. entries[k].ino \in Ino /\ itype[entries[k].ino] = "file"
          /\ entries[k].off <= Len(idata[entries[k].ino])
      BY <1>1, <3>1 DEF RamInos, OpenFilesAreFiles, OffsetWithinFile
    <3>3. entries[k].off \in Nat /\ Len(idata[entries[k].ino]) \in Nat
          /\ Len(idata'[entries[k].ino]) \in Nat
      BY <1>1, <3>1, <3>2, SlotNat, IInvParts
    <3>4. itype'[entries[k].ino] = "file"
          /\ Len(idata[entries[k].ino]) <= Len(idata'[entries[k].ino])
      BY <3>2 DEF FilesKept
    <3>5. entries[k].off <= Len(idata'[entries[k].ino])
      BY <3>2, <3>3, <3>4, SMTT(30)
    <3> QED
      BY <3>1, <3>2, <3>4, <3>5
  <2> QED
    BY <2>1, <2>2
<1> QED
  BY <1>1, <1>6, <1>7, <1>8 DEF IInv, FsInv, TypeOK, FileRec

(***************************************************************************)
(* sys_close empties one slot at 3 or above: the stdio slots stay, and an *)
(* empty slot is neither a RamFile nor an offset to keep in bounds.       *)
(***************************************************************************)
LEMMA CloseKeeps ==
    ASSUME IInv, NEW fd \in FdArg, SysClose(fd)
    PROVE  IInv'
<1>1. /\ entries \in Seq(FileRec) /\ Len(entries) <= MaxFd
      /\ next_fd \in 0..MaxFd /\ StdioPinned /\ RamInos
      /\ OpenFilesAreFiles /\ OffsetWithinFile
  BY IInvParts
<1>2. /\ fd >= 3 /\ fd < Len(entries) /\ fd \in Nat
      /\ entries' = [entries EXCEPT ![fd + 1] = NoFile]
      /\ next_fd' = IF fd < next_fd THEN fd ELSE next_fd
      /\ UNCHANGED fsVars
  BY DEF SysClose, DeallocOk, Dealloc, FdArg
<1>3. NoFile \in FileRec /\ NoFile.kind = "none"
  BY DEF NoFile, FileRec
<1>4. /\ entries' \in Seq(FileRec) /\ Len(entries') = Len(entries)
      /\ \A j \in 1..Len(entries) : entries'[j] = IF j = fd + 1 THEN NoFile ELSE entries[j]
  BY <1>1, <1>2, <1>3, ExceptSeq
<1>5. next_fd' \in 0..MaxFd
  BY <1>1, <1>2
<1>6. FsInv' /\ FilesKept
  BY <1>2, FsUnchanged
<1>7. StdioPinned'
  BY <1>1, <1>2, <1>4 DEF StdioPinned
<1>8. /\ OpenFilesAreFiles' /\ OffsetWithinFile' /\ RamInos'
  <2> SUFFICES ASSUME NEW k \in 1..Len(entries'), entries'[k].kind = "ram"
               PROVE  /\ itype'[entries'[k].ino] = "file"
                      /\ entries'[k].off <= Len(idata'[entries'[k].ino])
                      /\ entries'[k].ino \in Ino
    BY DEF OpenFilesAreFiles, OffsetWithinFile, RamInos
  <2>1. k # fd + 1 /\ k \in 1..Len(entries) /\ entries'[k] = entries[k]
    BY <1>3, <1>4
  <2> QED
    BY <1>1, <1>2, <2>1 DEF fsVars, RamInos, OpenFilesAreFiles, OffsetWithinFile
<1> QED
  BY <1>4, <1>5, <1>6, <1>7, <1>8 DEF IInv, FsInv, TypeOK, FileRec

\* RamFS::remove drops one entry: the tree loses a leaf or a subtree's
\* link, and no inode changes.
LEMMA RemoveKeeps ==
    ASSUME IInv, NEW parent \in Ino, NEW name \in Name, Remove(parent, name)
    PROVE  FsInv' /\ FilesKept
<1>1. FsInv
  BY IInvParts
<1>2. dirents' = [dirents EXCEPT ![parent][name] = NoIno]
      /\ UNCHANGED <<next_ino, itype, idata>>
  BY DEF Remove, RemoveEntry
<1>3. \A a \in Ino, b \in Name :
         dirents'[a][b] = IF a = parent /\ b = name THEN NoIno ELSE dirents[a][b]
  BY <1>1, <1>2 DEF FsInv
<1>4. dirents' \in [Ino -> [Name -> {NoIno} \cup Ino]]
  BY <1>1, <1>2 DEF FsInv
<1>5. DirectoryTree'
  BY <1>1, <1>2, <1>3 DEF FsInv, DirectoryTree
<1>6. \A i \in Ino : Len(idata[i]) \in Nat
  BY <1>1, LenProperties DEF FsInv
<1> QED
  BY <1>1, <1>2, <1>4, <1>5, <1>6 DEF FsInv, Fresh, FilesKept

-----------------------------------------------------------------------------

\* Init establishes IInv: the three stdio slots, and RAMFS holding only
\* the root directory with the counter at 2.
LEMMA InitIInv == Init => IInv
<1> SUFFICES ASSUME Init PROVE IInv
  OBVIOUS
<1>1. entries = <<StdFile("stdin"), StdFile("stdout"), StdFile("stderr")>>
      /\ next_fd = 3
  BY DEF Init, FdInit
<1>2. entries \in Seq(FileRec) /\ Len(entries) = 3
  BY <1>1 DEF StdFile, FileRec
<1>3. FsInv
  BY EmptySeq DEF Init, FsInit, FsInv, FileType, DirectoryTree, Fresh
<1> QED
  BY <1>1, <1>2, <1>3 DEF IInv, FsInv, TypeOK, FileRec, StdioPinned,
     OpenFilesAreFiles, OffsetWithinFile, RamInos, StdFile


\* A step that keeps the type and the data of every existing inode keeps
\* every file.
LEMMA KeptInodesFilesKept ==
    ASSUME FsInv,
           \A i \in Ino : itype[i] # "none" =>
               itype'[i] = itype[i] /\ idata'[i] = idata[i]
    PROVE  FilesKept
<1> SUFFICES ASSUME NEW i \in Ino, itype[i] = "file"
             PROVE  itype'[i] = "file" /\ Len(idata[i]) <= Len(idata'[i])
  BY DEF FilesKept
<1>1. idata[i] \in Seq(Byte)
  BY DEF FsInv
<1>2. Len(idata[i]) \in Nat
  BY <1>1, LenProperties
<1> QED
  BY <1>2

(***************************************************************************)
(* Every call keeps IInv: sys_open, sys_close, sys_mkdir, sys_read,        *)
(* sys_write to a file or to the console, and the direct RamFS calls of    *)
(* system_init (create, write, remove).                                    *)
(***************************************************************************)
\* A step that changes nothing keeps IInv.
LEMMA StutterKeeps == IInv /\ UNCHANGED vars => IInv'
BY DEF vars, IInv, TypeOK, StdioPinned, OpenFilesAreFiles,
   DirectoryTree, OffsetWithinFile, Fresh, RamInos

LEMMA NextIInv == IInv /\ [Next]_vars => IInv'
<1> SUFFICES ASSUME IInv, [Next]_vars PROVE IInv'
  OBVIOUS
<1>0. FsInv /\ entries \in Seq(FileRec) /\ RamInos /\ OffsetWithinFile
      /\ OpenFilesAreFiles
  BY IInvParts
<1>1. ASSUME NEW n \in Name, SysOpen(n) PROVE IInv'
  <2> DEFINE ino == dirents[RootIno][n]
  <2>1. CASE /\ ino # NoIno /\ OpenFileOk(ino)
             /\ Alloc(RamFile(ino)) /\ UNCHANGED fsVars
    <3>1. ino \in Ino
      BY <1>0, <2>1 DEF FsInv
    <3>2. FsInv' /\ FilesKept
      BY <2>1, FsUnchanged
    <3> QED
      BY <2>1, <3>1, <3>2, OpenStepKeeps DEF OpenFileOk, fsVars
  <2>2. CASE /\ ino = NoIno
             /\ CreateNode(RootIno, n, "file", TRUE)
             /\ Alloc(RamFile(next_ino))
    <3>0. CreateNode(RootIno, n, "file", TRUE) /\ RootIno \in Ino
      <4>1. RootIno \in Ino
        OBVIOUS
      <4> QED
        BY <2>2, <4>1
    <3>1. /\ FsInv' /\ next_ino \in Ino /\ itype'[next_ino] = "file"
          /\ \A i \in Ino : itype[i] # "none" =>
                itype'[i] = itype[i] /\ idata'[i] = idata[i]
      <4>1. /\ next_ino' \in 2..MaxIno + 1
            /\ itype' \in [Ino -> FileType]
            /\ idata' \in [Ino -> Seq(Byte)]
            /\ \A i \in Ino : Len(idata'[i]) <= MaxSize
            /\ dirents' \in [Ino -> [Name -> {NoIno} \cup Ino]]
            /\ DirectoryTree'
            /\ Fresh'
            /\ \A i \in Ino : itype[i] # "none" =>
                  itype'[i] = itype[i] /\ idata'[i] = idata[i]
            /\ TRUE => next_ino \in Ino /\ itype'[next_ino] = "file"
                       /\ idata'[next_ino] = << >>
        BY <3>0, CreateNodeKeeps
      <4> QED
        BY <4>1 DEF FsInv
    <3>2. FilesKept
      BY <1>0, <3>1, KeptInodesFilesKept
    <3> QED
      BY <2>2, <3>1, <3>2, OpenStepKeeps
  <2> QED
    BY <1>1, <2>1, <2>2 DEF SysOpen
<1>2. ASSUME NEW fd \in FdArg, SysClose(fd) PROVE IInv'
  BY <1>2, CloseKeeps
<1>3. ASSUME NEW p \in Ino, NEW n \in Name, NEW t \in {"file", "dir"},
             NEW ok \in BOOLEAN, CreateNode(p, n, t, ok), UNCHANGED fdVars
      PROVE  IInv'
  <2>1. /\ FsInv'
        /\ \A i \in Ino : itype[i] # "none" =>
              itype'[i] = itype[i] /\ idata'[i] = idata[i]
    BY <1>3, CreateNodeKeeps DEF FsInv
  <2>2. FilesKept
    BY <1>0, <2>1, KeptInodesFilesKept
  <2> QED
    BY <1>3, <2>1, <2>2, FsStepKeeps
<1>4. ASSUME NEW n \in Name, SysMkdir(n) PROVE IInv'
  BY <1>4, <1>3 DEF SysMkdir
<1>5. ASSUME NEW p \in Ino, NEW n \in Name, NEW t \in {"file", "dir"},
             CreateIn(p, n, t)
      PROVE  IInv'
  BY <1>5, <1>3 DEF CreateIn
<1>6. ASSUME NEW fd \in FdArg, NEW len \in 1..MaxLen, SysRead(fd, len)
      PROVE  IInv'
  <2> DEFINE f == entries[fd + 1]
             cnt == ReadCount(idata[f.ino], f.off, len)
  <2>1. fd \in Nat /\ fd < Len(entries) /\ f.kind = "ram"
        /\ UNCHANGED <<next_fd, next_ino, itype, idata, dirents>>
    BY <1>6 DEF SysRead, Slot, FdArg
  <2>0. entries' = [entries EXCEPT ![fd + 1].off = @ + cnt]
    BY <1>6 DEF SysRead, Slot
  <2>2. f.ino \in Ino /\ f.off <= Len(idata[f.ino])
    BY <1>0, <2>1 DEF RamInos, OffsetWithinFile
  <2>a. fd + 1 \in 1..Len(entries)
    BY <2>1
  <2>b. f \in FileRec
    BY <1>0, <2>a, ElementOfSeq
  <2>3. f.off \in Nat /\ idata[f.ino] \in Seq(Byte) /\ len \in Nat
    BY <1>0, <2>2, <2>b DEF FileRec, FsInv
  <2>4. cnt \in Nat /\ f.off + cnt <= Len(idata'[f.ino])
    BY <2>1, <2>2, <2>3, ReadCountFacts
  <2>5. FsInv' /\ FilesKept
    BY <2>1, FsUnchanged DEF fsVars
  <2> HIDE DEF cnt
  <2> QED
    BY <2>0, <2>1, <2>4, <2>5, OffsetStepKeeps
<1>7. ASSUME NEW fd \in FdArg, NEW buf \in Buffer, SysWrite(fd, buf)
      PROVE  IInv'
  <2> DEFINE f == entries[fd + 1]
  <2>1. fd \in Nat /\ fd < Len(entries) /\ f.kind = "ram"
        /\ f.off + Len(buf) <= MaxSize
        /\ idata' = [idata EXCEPT ![f.ino] = WriteAt(@, f.off, buf)]
        /\ UNCHANGED <<next_fd, next_ino, itype, dirents>>
    BY <1>7 DEF SysWrite, Slot, FdArg
  <2>0. entries' = [entries EXCEPT ![fd + 1].off = @ + Len(buf)]
    BY <1>7 DEF SysWrite, Slot
  <2>2. f.ino \in Ino /\ itype[f.ino] = "file"
    BY <1>0, <2>1 DEF RamInos, OpenFilesAreFiles
  <2>a. fd + 1 \in 1..Len(entries)
    BY <2>1
  <2>b. f \in FileRec
    BY <1>0, <2>a, ElementOfSeq
  <2>3. f.off \in Nat /\ buf \in Seq(Byte) /\ Len(buf) \in Nat
    BY <2>b, BufferBytes DEF FileRec
  <2>4. FsInv' /\ FilesKept /\ f.off + Len(buf) <= Len(idata'[f.ino])
    BY <2>1, <2>2, <2>3, WriteDataKeeps
  <2> QED
    BY <2>0, <2>1, <2>3, <2>4, OffsetStepKeeps
<1>8. ASSUME NEW fd \in Reserved, SysWriteConsole(fd) PROVE IInv'
  <2>1. UNCHANGED vars
    BY <1>8 DEF SysWriteConsole
  <2> QED
    BY <2>1, StutterKeeps
<1>9. ASSUME NEW i \in Ino, NEW buf \in Buffer, WriteDirect(i, buf)
      PROVE  IInv'
  <2>1. /\ itype[i] = "file" /\ Len(buf) <= MaxSize
        /\ idata' = [idata EXCEPT ![i] = WriteAt(@, 0, buf)]
        /\ UNCHANGED <<entries, next_fd, next_ino, itype, dirents>>
    BY <1>9 DEF WriteDirect, OpenFileOk
  <2>2. buf \in Seq(Byte) /\ Len(buf) \in Nat /\ 0 + Len(buf) <= MaxSize
    BY <2>1, BufferBytes
  <2>3. FsInv' /\ FilesKept
    BY <2>1, <2>2, WriteDataKeeps
  <2> QED
    BY <2>1, <2>3, FsStepKeeps DEF fdVars
<1>10. ASSUME NEW p \in Ino, NEW n \in Name, Remove(p, n) PROVE IInv'
  <2>1. FsInv' /\ FilesKept
    BY <1>10, RemoveKeeps
  <2>2. UNCHANGED fdVars
    BY <1>10 DEF Remove
  <2> QED
    BY <2>1, <2>2, FsStepKeeps
<1>11. CASE UNCHANGED vars
  BY <1>11, StutterKeeps
<1> QED
  BY <1>1, <1>2, <1>4, <1>5, <1>6, <1>7, <1>8, <1>9, <1>10, <1>11 DEF Next

-----------------------------------------------------------------------------
(* The lowest free descriptor (the action property LowestFreeFd).          *)

(***************************************************************************)
(* alloc fills exactly the slot AllocFd picks: the first empty slot at 3   *)
(* or above, or the end of the table when every slot from 3 on is in use, *)
(* so every slot that becomes occupied has all of 3 .. fd - 1 occupied.    *)
(***************************************************************************)
LEMMA AllocLowest ==
    ASSUME TypeOK, StdioPinned, NEW file \in FileRec, file.kind # "none",
           Alloc(file)
    PROVE  FillsLowestFreeFd
<1> DEFINE a == AllocFd(entries)
<1>1. entries \in Seq(FileRec) /\ Len(entries) >= 3 /\ Len(entries) \in Nat
  BY LenProperties DEF TypeOK, StdioPinned, FileRec
<1>2. /\ a >= 3
      /\ \A k \in 1..Len(entries') :
            entries'[k] = IF k = a + 1 THEN file ELSE entries[k]
      /\ \A k \in 1..Len(entries') : k # a + 1 => k \in 1..Len(entries)
  BY AllocEntries
<1>3. /\ a \in 3..Len(entries)
      /\ \A j \in 3..a - 1 : j < Len(entries) /\ entries[j + 1].kind # "none"
  BY <1>1, AllocFdFacts
<1> SUFFICES ASSUME NEW fd \in 0..Len(entries') - 1, Slot(fd)' # NoFile,
                    fd >= Len(entries) \/ Slot(fd) = NoFile
             PROVE  fd >= 3 /\ \A j \in 3..fd - 1 : j < Len(entries) /\ Slot(j) # NoFile
  BY DEF FillsLowestFreeFd
<1>4. fd = a
  <2> SUFFICES ASSUME fd # a PROVE FALSE
    OBVIOUS
  <2>1. fd + 1 \in 1..Len(entries') /\ fd + 1 # a + 1
    BY <1>3
  <2>2. fd + 1 \in 1..Len(entries) /\ entries'[fd + 1] = entries[fd + 1]
    BY <1>2, <2>1
  <2> QED
    BY <2>2 DEF Slot
<1> QED
  BY <1>2, <1>3, <1>4 DEF Slot, NoFile

(***************************************************************************)
(* A step that keeps the length of the table and, slot by slot, keeps the  *)
(* slot, empties it or changes a slot that was already occupied, fills no  *)
(* empty slot, so LowestFreeFd says nothing of it.                         *)
(***************************************************************************)
LEMMA NoSlotFilled ==
    ASSUME Len(entries') = Len(entries), Len(entries) \in Nat,
           \A k \in 1..Len(entries) :
               entries'[k] = entries[k] \/ entries[k] # NoFile \/ entries'[k] = NoFile
    PROVE  FillsLowestFreeFd
<1> SUFFICES ASSUME NEW fd \in 0..Len(entries') - 1, Slot(fd)' # NoFile,
                    fd >= Len(entries) \/ Slot(fd) = NoFile
             PROVE  FALSE
  BY DEF FillsLowestFreeFd
<1>1. fd + 1 \in 1..Len(entries) /\ Slot(fd) = NoFile
  OBVIOUS
<1> QED
  BY <1>1 DEF Slot

\* sys_read and sys_write change the offset of one occupied slot.
LEMMA OffsetStepLowest ==
    ASSUME NEW fd \in Nat, entries \in Seq(FileRec), fd < Len(entries),
           entries[fd + 1].kind = "ram", NEW d \in Nat,
           entries[fd + 1].off + d <= MaxSize,
           entries' = [entries EXCEPT ![fd + 1].off = @ + d]
    PROVE  FillsLowestFreeFd
<1> DEFINE f == entries[fd + 1]
           g == [f EXCEPT !.off = f.off + d]
<1>1. fd + 1 \in 1..Len(entries) /\ f \in FileRec /\ Len(entries) \in Nat
  BY ElementOfSeq, LenProperties
<1>2. f.off \in Nat /\ f.kind = "ram" /\ f.ino \in {NoIno} \cup Ino
  BY <1>1 DEF FileRec
<1>5. f # NoFile
  BY <1>2 DEF NoFile
<1>7. f.off + d \in 0..MaxSize
  BY <1>2
<1>6. g \in FileRec
  BY <1>1, <1>7 DEF FileRec
<1>3. entries' = [entries EXCEPT ![fd + 1] = g]
  BY DEF g
<1>4. /\ Len(entries') = Len(entries)
      /\ \A j \in 1..Len(entries) : entries'[j] = IF j = fd + 1 THEN g ELSE entries[j]
  BY <1>1, <1>6, <1>3, ExceptSeq
<1> QED
  BY <1>1, <1>5, <1>4, NoSlotFilled

\* Every call fills at most the lowest free descriptor.
LEMMA NextLowest == IInv /\ [Next]_vars => [FillsLowestFreeFd]_vars
<1> SUFFICES ASSUME IInv, [Next]_vars PROVE FillsLowestFreeFd
  OBVIOUS
<1>0. /\ FsInv /\ entries \in Seq(FileRec) /\ TypeOK /\ StdioPinned
      /\ Len(entries) \in Nat /\ OffsetWithinFile /\ RamInos
  BY IInvParts, LenProperties DEF IInv
<1>a. UNCHANGED entries => FillsLowestFreeFd
  BY <1>0, NoSlotFilled
<1>1. ASSUME NEW n \in Name, SysOpen(n) PROVE FillsLowestFreeFd
  <2> DEFINE ino == dirents[RootIno][n]
  <2>1. CASE ino # NoIno /\ Alloc(RamFile(ino))
    <3>1. ino \in Ino
      BY <1>0, <2>1 DEF FsInv
    <3>2. RamFile(ino) \in FileRec /\ RamFile(ino).kind # "none"
      BY <3>1 DEF RamFile, FileRec
    <3> QED
      BY <1>0, <2>1, <3>2, AllocLowest
  <2>2. CASE CreateNode(RootIno, n, "file", TRUE) /\ Alloc(RamFile(next_ino))
    <3>1. next_ino \in Ino
      BY <1>0, <2>2 DEF CreateNode, FsInv
    <3>2. RamFile(next_ino) \in FileRec /\ RamFile(next_ino).kind # "none"
      BY <3>1 DEF RamFile, FileRec
    <3> QED
      BY <1>0, <2>2, <3>2, AllocLowest
  <2> QED
    BY <1>1, <2>1, <2>2 DEF SysOpen
<1>2. ASSUME NEW fd \in FdArg, SysClose(fd) PROVE FillsLowestFreeFd
  <2>1. fd \in Nat /\ fd < Len(entries)
        /\ entries' = [entries EXCEPT ![fd + 1] = NoFile]
    BY <1>2 DEF SysClose, DeallocOk, Dealloc, FdArg
  <2>2. NoFile \in FileRec
    BY DEF NoFile, FileRec
  <2>3. /\ Len(entries') = Len(entries)
        /\ \A j \in 1..Len(entries) : entries'[j] = IF j = fd + 1 THEN NoFile ELSE entries[j]
    BY <1>0, <2>1, <2>2, ExceptSeq
  <2> QED
    BY <1>0, <2>3, NoSlotFilled
<1>3. ASSUME NEW fd \in FdArg, NEW len \in 1..MaxLen, SysRead(fd, len)
      PROVE  FillsLowestFreeFd
  <2> DEFINE f == entries[fd + 1]
             cnt == ReadCount(idata[f.ino], f.off, len)
  <2>1. fd \in Nat /\ fd < Len(entries) /\ f.kind = "ram"
    BY <1>3 DEF SysRead, Slot, FdArg
  <2>0. entries' = [entries EXCEPT ![fd + 1].off = @ + cnt]
    BY <1>3 DEF SysRead, Slot
  <2>2. f \in FileRec /\ f.ino \in Ino /\ f.off <= Len(idata[f.ino])
    BY <1>0, <2>1, ElementOfSeq DEF RamInos, OffsetWithinFile
  <2>3. f.off \in Nat /\ idata[f.ino] \in Seq(Byte) /\ len \in Nat
        /\ Len(idata[f.ino]) <= MaxSize
    BY <1>0, <2>2 DEF FileRec, FsInv
  <2>4. cnt \in Nat /\ f.off + cnt <= MaxSize
    <3>1. cnt \in Nat /\ f.off + cnt <= Len(idata[f.ino])
      BY <2>2, <2>3, ReadCountFacts DEF cnt
    <3> QED
      BY <3>1, <2>3
  <2> HIDE DEF cnt
  <2> QED
    BY <1>0, <2>0, <2>1, <2>4, OffsetStepLowest
<1>4. ASSUME NEW fd \in FdArg, NEW buf \in Buffer, SysWrite(fd, buf)
      PROVE  FillsLowestFreeFd
  <2> DEFINE f == entries[fd + 1]
  <2>1. fd \in Nat /\ fd < Len(entries) /\ f.kind = "ram"
        /\ f.off + Len(buf) <= MaxSize
    BY <1>4 DEF SysWrite, Slot, FdArg
  <2>0. entries' = [entries EXCEPT ![fd + 1].off = @ + Len(buf)]
    BY <1>4 DEF SysWrite, Slot
  <2>2. Len(buf) \in Nat
    BY BufferBytes
  <2> QED
    BY <1>0, <2>0, <2>1, <2>2, OffsetStepLowest
<1> QED
  BY <1>a, <1>1, <1>2, <1>3, <1>4
     DEF Next, SysMkdir, SysWriteConsole, CreateIn, WriteDirect, Remove,
         fdVars, vars

-----------------------------------------------------------------------------

(***************************************************************************)
(* The stdio descriptors 0, 1 and 2 keep the stdin, stdout and stderr      *)
(* files in every run of the file system calls, for every table bound:     *)
(* alloc's scan starts at 3 and dealloc refuses fd < 3.                    *)
(***************************************************************************)
THEOREM StdioPinnedInvariant == Spec => []StdioPinned
<1>1. IInv => StdioPinned
  BY DEF IInv
<1> QED
  BY <1>1, InitIInv, NextIInv, PTL DEF Spec

(***************************************************************************)
(* No descriptor's offset ever passes the end of its file: sys_read moves  *)
(* it by what read_at copied, sys_write by what write_at wrote after       *)
(* growing the file, and files never shrink under an open descriptor.      *)
(***************************************************************************)
THEOREM OffsetWithinFileInvariant == Spec => []OffsetWithinFile
<1>1. IInv => OffsetWithinFile
  BY DEF IInv
<1> QED
  BY <1>1, InitIInv, NextIInv, PTL DEF Spec

\* The file system calls keep every variable within its type.
THEOREM FsTypeInvariant == Spec => []TypeOK
<1>1. IInv => TypeOK
  BY DEF IInv
<1> QED
  BY <1>1, InitIInv, NextIInv, PTL DEF Spec

(***************************************************************************)
(* sys_open always takes the lowest free descriptor, in every run and for  *)
(* every table bound: a slot that becomes occupied lies at 3 or above and  *)
(* every slot from 3 up to it is in use.  FileDescriptorTable::alloc's    *)
(* scan from 3 and dealloc's refusal of fd < 3 are what keep it.          *)
(***************************************************************************)
THEOREM LowestFreeFdHolds == Spec => LowestFreeFd
BY InitIInv, NextIInv, NextLowest, PTL DEF Spec, LowestFreeFd

=============================================================================
