------------------------------ MODULE KernelLock ------------------------------
(***************************************************************************)
(* The global SCHEDULER spin lock (scheduler.rs:48-54) around the          *)
(* Scheduler operations of Scheduler.tla, and the contexts the hart runs   *)
(* in across switch_context and start_process.                             *)
(*                                                                         *)
(* Every entry point of the process system (the global functions of        *)
(* scheduler.rs:426-466 and process/mod.rs:145-172, and the                *)
(* SCHEDULER.lock().add_process calls of system_init.rs) takes the lock as *)
(* a temporary guard that is dropped when the statement ends, after the    *)
(* Scheduler method returns.  When schedule enters another context the     *)
(* method does not return: the guard stays in the suspended or abandoned   *)
(* frame.  A frame suspended in switch_context drops its guard when a      *)
(* later switch resumes it; a fresh context (new_user_context: the entry   *)
(* point) and the frame start_process abandons never do.  spin::Mutex has  *)
(* no owner: on the single hart, a lock() that finds the flag set spins    *)
(* for ever.  The timer handler takes no lock (trap/mod.rs:150-156), so    *)
(* every call comes from the code the hart is running.                     *)
(***************************************************************************)
EXTENDS Scheduler

VARIABLES
    locked,   \* the spin::Mutex flag of SCHEDULER
    hart,     \* whose stack the hart runs on; NoPid is kernel_main's
    saved,    \* saved[p]: p's context slot holds a frame suspended in
              \* switch_context (else new_user_context's fresh context)
    hung      \* the hart spins in SCHEDULER.lock() for ever

lockVars == <<locked, hart, saved, hung>>
allVars == <<vars, lockVars>>

(***************************************************************************)
(* switch_context(from, to): the live execution is saved into slot from,   *)
(* and the hart goes on with what slot to holds: a suspended frame, which  *)
(* then returns from switch_context, or a fresh context.                   *)
(***************************************************************************)
SwitchContext(sv, from, to) ==
    [saved   |-> [sv EXCEPT ![from] = TRUE, ![to] = FALSE],
     hart    |-> to,
     resumed |-> sv[to]]

\* switch_to: the locks of both PCBs are dropped, then switch_context.  A
\* resumed frame unwinds to its own guard and drops it; a fresh context
\* leaves the lock held.
SwitchTo(from, to) ==
    LET r == SwitchContext(saved, from, to)
    IN /\ saved' = r.saved
       /\ hart' = r.hart
       /\ locked' = ~r.resumed

(***************************************************************************)
(* start_process: `mv sp, next.sp; ret` with no save.  The calling frame,  *)
(* and the guard in it, is abandoned.  Where the ret lands is undefined    *)
(* (it is the ra register, not next's saved ra); whatever runs there, no   *)
(* path drops the abandoned guard, so the lock stays held.                 *)
(***************************************************************************)
StartProcess(to) ==
    /\ saved' = [saved EXCEPT ![to] = FALSE]
    /\ hart' = to
    /\ locked' = TRUE

(***************************************************************************)
(* SCHEDULER.lock().op(): the flag is free, so lock() takes it; the        *)
(* Scheduler step A runs; if it entered no other context the statement     *)
(* ends and the guard is dropped.  schedule enters a context exactly when  *)
(* current moves to another PID (start_process if there was none, else    *)
(* switch_to from the current PID).                                        *)
(***************************************************************************)
LockedCall(A) ==
    /\ ~locked /\ ~hung
    /\ A
    /\ IF current' \in {current, NoPid}
       THEN /\ locked' = FALSE
            /\ UNCHANGED <<hart, saved>>
       ELSE IF current = NoPid
            THEN StartProcess(current')
            ELSE SwitchTo(current, current')
    /\ UNCHANGED hung

(***************************************************************************)
(* init_system_processes, on kernel_main's stack: create_process builds a  *)
(* PCB whose context slot holds new_user_context's fresh entry, then       *)
(* SCHEDULER.lock().add_process(..) queues it and drops the guard.  It is  *)
(* the only code under src/ that creates processes.                        *)
(***************************************************************************)
InitSystemProcess ==
    /\ ~locked /\ ~hung
    /\ hart = NoPid
    /\ AddProcess
    /\ saved' = [saved EXCEPT ![next_pid] = FALSE]
    /\ UNCHANGED <<locked, hart, hung>>

\* The inspector's get_all_processes / get_current_process and the global
\* current_pid, current_process, print_status: lock, read, unlock.
Query ==
    /\ ~locked /\ ~hung
    /\ UNCHANGED <<vars, lockVars>>

\* Any of these calls made while the flag is set: lock() spins for ever.
Spin ==
    /\ locked /\ ~hung
    /\ hung' = TRUE
    /\ UNCHANGED <<vars, locked, hart, saved>>

LockInit ==
    /\ Init
    /\ locked = FALSE
    /\ hart = NoPid
    /\ saved = [p \in Pid |-> FALSE]
    /\ hung = FALSE

LockNext ==
    \/ InitSystemProcess
    \/ \E pid \in Pid : LockedCall(RemoveProcess(pid))
    \/ LockedCall(ScheduleCall)
    \/ LockedCall(Tick)
    \/ LockedCall(BlockCurrent)
    \/ \E pid \in Pid : LockedCall(WakeUp(pid))
    \/ LockedCall(ExitCurrent)
    \/ Query
    \/ Spin

LockSpec == LockInit /\ [][LockNext]_allVars

-----------------------------------------------------------------------------
(* Properties.                                                             *)

(***************************************************************************)
(* No entry point of the process system ever spins on the SCHEDULER lock:  *)
(* spec.md section 5 requires that the lock never stay held across the     *)
(* non-returning switch so that the same context can re-enter it, and      *)
(* section 9 asks for the lock scope never to span the switch call.  The   *)
(* guard of start_scheduling's statement, held while start_process jumps   *)
(* into the first process, breaks it.                                      *)
(***************************************************************************)
NoSchedulerSelfDeadlock == ~hung

=============================================================================
