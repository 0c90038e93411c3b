------------------------------ MODULE UserContext ------------------------------
(***************************************************************************)
(* The user context create_process builds for a new PCB                    *)
(* (src/os/src/process/mod.rs:104-126): ProcessContext::new_user_context   *)
(* of process/context.rs starts from the all-zero ProcessContext::new,     *)
(* sets sepc, sp and satp, and takes sstatus from the live sstatus CSR     *)
(* with SPP cleared and SPIE set by the sstatus_ext helpers.               *)
(*                                                                         *)
(* The live CSR changes between two constructions in the ways the kernel   *)
(* changes it: enable_interrupts / disable_interrupts of trap/mod.rs set   *)
(* and clear SIE, and taking a timer trap from S-mode copies SIE into      *)
(* SPIE, clears SIE and sets SPP (trap_handler returns with ret, which     *)
(* changes nothing).  Registers other than sepc, sp, satp and sstatus stay *)
(* 0 and are left out.  Words are Width bits wide.                         *)
(***************************************************************************)
EXTENDS Naturals

CONSTANTS
    Width,       \* bits of the sstatus CSR and of a usize (64)
    Entries,     \* entry points passed to create_process
    StackTops,   \* user stack tops passed to create_process
    Roots        \* satp values passed to new_user_context

ASSUME UserContextAssumption ==
    /\ Width \in Nat /\ Width > 8
    /\ Entries \subseteq Nat /\ StackTops \subseteq Nat /\ Roots \subseteq Nat

VARIABLES
    csr,          \* the live sstatus CSR
    status_val,   \* what the csrr of the last new_user_context read
    ctx           \* the context of the last PCB create_process set up

vars == <<csr, status_val, ctx>>

Word == 0 .. 2 ^ Width - 1

\* 1 << SPP_BIT, 1 << SPIE_BIT and 1 << SIE_BIT of sstatus_ext, with
\* SPP_BIT = 8, SPIE_BIT = 5 and SIE_BIT = 1.
SppMask == 256
SpieMask == 32
SieMask == 2

\* The bit of x that the one-bit mask m selects.
Bit(x, m) == (x \div m) % 2

\* x with the bit of mask m set (x |= m) or cleared (x &= !m).
SetBit(x, m) == x + (1 - Bit(x, m)) * m
ClearBit(x, m) == x - Bit(x, m) * m

\* Fault variant of set_user_mode: set_supervisor_mode's |= instead of &= !.
SetUserModeAsSupervisor(s) == SetBit(s, SppMask)

\* sstatus_ext::set_user_mode: *sstatus &= !(1 << SPP_BIT).
SetUserMode(s) == ClearBit(s, SppMask)

\* sstatus_ext::enable_interrupt_on_return: *sstatus |= 1 << SPIE_BIT.
EnableInterruptOnReturn(s) == SetBit(s, SpieMask)

\* ProcessContext::new: every register 0.
EmptyContext == [sepc |-> 0, sp |-> 0, satp |-> 0, sstatus |-> 0]

(***************************************************************************)
(* create_process's context: new_user_context(entry, stack_top, satp) is   *)
(* ProcessContext::new with sepc, sp and satp set, then csrr of sstatus,   *)
(* set_user_mode and enable_interrupt_on_return, and the result is stored  *)
(* into the PCB through context_mut.                                       *)
(***************************************************************************)
NewUserContext(entry, top, root) ==
    /\ status_val' = csr
    /\ ctx' = [EmptyContext EXCEPT
                 !.sepc = entry, !.sp = top, !.satp = root,
                 !.sstatus = EnableInterruptOnReturn(SetUserMode(csr))]
    /\ UNCHANGED csr

\* enable_interrupts: sstatus::set_sie.
EnableInterrupts ==
    /\ csr' = SetBit(csr, SieMask)
    /\ UNCHANGED <<status_val, ctx>>

\* disable_interrupts: sstatus::clear_sie.
DisableInterrupts ==
    /\ csr' = ClearBit(csr, SieMask)
    /\ UNCHANGED <<status_val, ctx>>

\* The hart takes a timer trap from S-mode (only while SIE is set):
\* SPIE := SIE, SIE := 0, SPP := S.  trap_handler's ret restores nothing.
TimerTrap ==
    /\ Bit(csr, SieMask) = 1
    /\ csr' = SetBit(ClearBit(SetBit(csr, SpieMask), SieMask), SppMask)
    /\ UNCHANGED <<status_val, ctx>>

\* The CSR at the first create_process holds whatever the boot code left:
\* os::init is not under src/.
Init ==
    /\ csr \in Word
    /\ status_val = 0
    /\ ctx = EmptyContext

Next ==
    \/ \E e \in Entries, t \in StackTops, r \in Roots : NewUserContext(e, t, r)
    \/ EnableInterrupts
    \/ DisableInterrupts
    \/ TimerTrap

Spec == Init /\ [][Next]_vars

-----------------------------------------------------------------------------
(* Properties.                                                             *)

\* Every variable holds a value of its type.
TypeOK ==
    /\ csr \in Word
    /\ status_val \in Word
    /\ ctx \in [sepc : Entries \cup {0}, sp : StackTops \cup {0},
                satp : Roots \cup {0}, sstatus : Word]

\* Two words agree on every bit but SPP (bit 8) and SPIE (bit 5).
SameOtherBits(x, y) ==
    /\ x % SpieMask = y % SpieMask
    /\ (x \div (2 * SpieMask)) % 4 = (y \div (2 * SpieMask)) % 4
    /\ x \div (2 * SppMask) = y \div (2 * SppMask)

(***************************************************************************)
(* A context create_process built returns to user mode with interrupts on  *)
(* at its first sret, and keeps every other status bit as the csrr read    *)
(* it: SPP = 0, SPIE = 1, the rest equal to the live sstatus of that       *)
(* moment, whatever traps and interrupt toggles came before (spec.md       *)
(* sections 3 and 8; the doc comment of new_user_context).                 *)
(***************************************************************************)
ContextContract ==
    ctx # EmptyContext =>
        /\ Bit(ctx.sstatus, SppMask) = 0
        /\ Bit(ctx.sstatus, SpieMask) = 1
        /\ SameOtherBits(ctx.sstatus, status_val)

=============================================================================
