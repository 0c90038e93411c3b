--------------------------- MODULE MC_FileSyscalls ---------------------------
(* A small instance of FileSyscalls for TLC: two names, four inode numbers *)
(* (the root and three creations), two RamFile descriptors beyond stdio,   *)
(* files up to two bytes long.                                             *)
EXTENDS FileSyscalls

CONSTANTS n1, n2

MC_Name == {n1, n2}
MC_MaxIno == 4
MC_MaxFd == 5
MC_MaxSize == 2
MC_MaxLen == 2
=============================================================================
