--------------------------- MODULE UserContextProofs ---------------------------
(***************************************************************************)
(* Proofs about the context construction of UserContext.tla, for every     *)
(* word width above 8 bits and all entry points, stack tops and roots.     *)
(*                                                                         *)
(* ContextContract speaks of the last context built and the CSR value it   *)
(* was built from, which the toggles of SIE and the traps never touch; it  *)
(* needs only that the live CSR stays a natural number, so the inductive   *)
(* invariant is IInv below.  The width bound of the words (2^Width) is not *)
(* needed, and the provers know no facts about 2^Width, so TypeOK is left  *)
(* to TLC.                                                                 *)
(***************************************************************************)
EXTENDS UserContext, TLAPS

\* The inductive invariant.
IInv ==
    /\ csr \in Nat
    /\ ContextContract

USE DEF SppMask, SpieMask, SieMask

-----------------------------------------------------------------------------

\* Setting or clearing one bit of a natural number gives a natural number.
LEMMA BitOpsNat ==
    ASSUME NEW x \in Nat, NEW m \in {SppMask, SpieMask, SieMask}
    PROVE  /\ SetBit(x, m) \in Nat
           /\ ClearBit(x, m) \in Nat
BY SMT DEF SetBit, ClearBit, Bit

(***************************************************************************)
(* set_user_mode followed by enable_interrupt_on_return clears SPP, sets   *)
(* SPIE and leaves every other bit of the word it is given as it was.      *)
(***************************************************************************)
LEMMA UserStatusBits ==
    ASSUME NEW s \in Nat
    PROVE  LET w == EnableInterruptOnReturn(SetUserMode(s))
           IN  /\ Bit(w, SppMask) = 0
               /\ Bit(w, SpieMask) = 1
               /\ SameOtherBits(w, s)
<1> DEFINE u == SetUserMode(s)
           w == EnableInterruptOnReturn(u)
<1>1. /\ u \in Nat
      /\ Bit(u, SppMask) = 0
      /\ Bit(u, SpieMask) = Bit(s, SpieMask)
      /\ SameOtherBits(u, s)
  BY SMT DEF SetUserMode, ClearBit, Bit, SameOtherBits
<1>2. /\ Bit(w, SppMask) = Bit(u, SppMask)
      /\ Bit(w, SpieMask) = 1
      /\ SameOtherBits(w, u)
  <2>1. CASE Bit(u, SpieMask) = 1
    <3>1. w = u
      BY <2>1, <1>1 DEF EnableInterruptOnReturn, SetBit
    <3> QED
      BY <3>1, <2>1 DEF SameOtherBits
  <2>2. CASE Bit(u, SpieMask) = 0
    <3>1. w = u + 32
      BY <2>2, <1>1 DEF EnableInterruptOnReturn, SetBit
    <3>2. (u \div 32) % 2 = 0
      BY <2>2 DEF Bit
    <3>3. /\ w % 64 = (u % 64) + 32
          /\ w \div 64 = u \div 64
      BY <3>1, <3>2, <1>1, SMT
    <3>4. \A x \in Nat : /\ x % 32 = (x % 64) % 32
                        /\ (x \div 32) % 2 = (x % 64) \div 32
                        /\ (x \div 256) % 2 = ((x \div 64) \div 4) % 2
                        /\ x \div 512 = (x \div 64) \div 8
      BY SMT
    <3>5. w \in Nat
      BY <3>1, <1>1
    <3> QED
      BY <3>3, <3>4, <3>5, <1>1, SMT DEF Bit, SameOtherBits
  <2> QED
    BY <2>1, <2>2, <1>1, SMT DEF Bit
<1> QED
  BY <1>1, <1>2 DEF SameOtherBits

-----------------------------------------------------------------------------

\* Init establishes IInv: the boot value is a word, and no context is built.
LEMMA InitIInv == Init => IInv
BY SMT DEF Init, IInv, Word, ContextContract

\* Every step keeps IInv.
LEMMA NextIInv == IInv /\ [Next]_vars => IInv'
<1> SUFFICES ASSUME IInv, [Next]_vars PROVE IInv'
  OBVIOUS
<1>1. ASSUME NEW e \in Entries, NEW t \in StackTops, NEW r \in Roots,
             NewUserContext(e, t, r)
      PROVE  IInv'
  <2>1. ctx'.sstatus = EnableInterruptOnReturn(SetUserMode(csr))
    BY <1>1 DEF NewUserContext, EmptyContext
  <2>2. status_val' = csr /\ csr' = csr
    BY <1>1 DEF NewUserContext
  <2> QED
    BY <2>1, <2>2, UserStatusBits DEF IInv, ContextContract
<1>2. CASE EnableInterrupts
  BY <1>2, BitOpsNat DEF EnableInterrupts, IInv, ContextContract
<1>3. CASE DisableInterrupts
  BY <1>3, BitOpsNat DEF DisableInterrupts, IInv, ContextContract
<1>4. CASE TimerTrap
  <2>1. csr' \in Nat
    BY <1>4, BitOpsNat DEF TimerTrap, IInv
  <2> QED
    BY <1>4, <2>1 DEF TimerTrap, IInv, ContextContract
<1>5. CASE UNCHANGED vars
  BY <1>5 DEF vars, IInv, ContextContract
<1> QED
  BY <1>1, <1>2, <1>3, <1>4, <1>5 DEF Next

-----------------------------------------------------------------------------

(***************************************************************************)
(* For every word width, every context create_process builds enters user   *)
(* mode with SPIE set at its first sret and keeps the other bits of the    *)
(* sstatus read at its construction, whatever trap and interrupt toggles   *)
(* preceded it.                                                            *)
(***************************************************************************)
THEOREM ContextContractInvariant == Spec => []ContextContract
<1>1. IInv => ContextContract
  BY DEF IInv
<1> QED
  BY <1>1, InitIInv, NextIInv, PTL DEF Spec

=============================================================================
