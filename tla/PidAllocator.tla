------------------------------ MODULE PidAllocator ------------------------------
(***************************************************************************)
(* ProcessId::new of src/os/src/process/pid.rs: NEXT_PID is a static       *)
(* AtomicUsize starting at 1, and each call returns fetch_add(1), which    *)
(* wraps around at usize::MAX without a check.  Every PCB built by         *)
(* ProcessControlBlock::new (pcb.rs:142-144) makes one call.               *)
(*                                                                         *)
(* issued is the sequence of the PIDs returned so far, in call order.      *)
(***************************************************************************)
EXTENDS Naturals, Sequences

CONSTANTS
    Width,      \* bits of a usize (64 on riscv64)
    MaxCalls    \* bound on the calls of a behaviour

VARIABLES next_pid, issued

vars == <<next_pid, issued>>

\* AtomicUsize::fetch_add: the old value; the new one modulo 2^Width.
FetchAdd(x, d) == (x + d) % (2 ^ Width)

\* ProcessId::new: one fetch_add(1, Relaxed), its old value is the PID.
New ==
    /\ Len(issued) < MaxCalls
    /\ next_pid' = FetchAdd(next_pid, 1)
    /\ issued' = Append(issued, next_pid)

\* static NEXT_PID: AtomicUsize = AtomicUsize::new(1).
Init ==
    /\ next_pid = 1
    /\ issued = << >>

Spec == Init /\ [][New]_vars

-----------------------------------------------------------------------------
(* Properties.                                                             *)

(***************************************************************************)
(* The PIDs ProcessId::new returns start at 1 (0 is reserved) and strictly *)
(* increase, so no two are equal: spec.md sections 3, 4.1 and 8, and the   *)
(* comments of pid.rs (PIDs start at 1, 0 is kept for the kernel; the      *)
(* atomic increment makes them unique).  The wrap of fetch_add at          *)
(* usize::MAX returns 0 and then reissues 1.                               *)
(***************************************************************************)
PidsUniqueIncreasing ==
    \A i \in 1..Len(issued) :
        /\ issued[i] >= 1
        /\ \A j \in 1..i - 1 : issued[j] < issued[i]

=============================================================================
