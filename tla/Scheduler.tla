------------------------------ MODULE Scheduler ------------------------------
(***************************************************************************)
(* The round-robin process scheduler of the kernel                         *)
(* (src/os/src/process/scheduler.rs), with the parts of the process        *)
(* control block it drives (pcb.rs), the PID allocator (pid.rs) and the    *)
(* process-control entry points of process/mod.rs.                          *)
(*                                                                         *)
(* Every public operation of the Scheduler object is one action.  The      *)
(* context-switch primitive is not modelled as a step of its own: the code *)
(* finishes all bookkeeping (states, ready queue, current) before it calls *)
(* switch_context, and does nothing to scheduler state after the call      *)
(* returns, so an operation that switches is one atomic step here.  The    *)
(* global SCHEDULER spin lock and the frame that holds it across the       *)
(* switch are modelled in KernelLock.tla.                                  *)
(***************************************************************************)
EXTENDS Naturals, Sequences, SequencesExt

CONSTANTS
    MaxPid,     \* how many PIDs the allocator may hand out in a run
    QUANTUM     \* time slice given to a process (5 in pcb.rs)

ASSUME MaxPidAssumption == MaxPid \in Nat \ {0}
ASSUME QuantumAssumption == QUANTUM \in Nat \ {0}

\* PIDs the allocator can issue; 0 is reserved and never issued (pid.rs:28),
\* so it stands for Option::None in `current`.
Pid == 1..MaxPid
NoPid == 0

\* ProcessState (pcb.rs:31-44)
Ready == "Ready"
Running == "Running"
Blocked == "Blocked"
Zombie == "Zombie"
ProcessState == {Ready, Running, Blocked, Zombie}

VARIABLES
    next_pid,     \* NEXT_PID, the allocator's counter (pid.rs:28)
    processes,    \* key set of the process table BTreeMap (scheduler.rs:66)
    state,        \* state field of each PCB (pcb.rs:79)
    time_slice,   \* time_slice field of each PCB (pcb.rs:117)
    ready_queue,  \* the VecDeque of PIDs, head = next to run (scheduler.rs:72)
    current       \* Option<ProcessId>, NoPid for None (scheduler.rs:77)

vars == <<next_pid, processes, state, time_slice, ready_queue, current>>

-----------------------------------------------------------------------------
(* Helpers that translate single methods of the PCB and the scheduler.     *)
(* Each is preceded by fault variants: the same helper with a slip that a  *)
(* property of MC_Scheduler.cfg must detect (mutation analysis).          *)

\* Fault variants of enqueue: the push is lost, or goes to the head.
EnqueueLost(q, st, pid) == q
EnqueueAtHead(q, st, pid) ==
    IF pid \in processes /\ st[pid] = Ready THEN <<pid>> \o q ELSE q

\* Scheduler::enqueue: push pid at the tail, but only if the PCB is Ready.
Enqueue(q, st, pid) ==
    IF pid \in processes /\ st[pid] = Ready THEN Append(q, pid) ELSE q

\* Fault variant of the demotion: the outgoing process stays Running.
DemoteSkipped(st, pid) == st

\* switch_to: the outgoing PCB goes from Running to Ready, else is kept.
Demote(st, pid) == [st EXCEPT ![pid] = IF @ = Running THEN Ready ELSE @]

\* Fault variant of tick: the `> 0` guard is dropped.
TickSliceUnguarded(n) == n - 1

\* ProcessControlBlock::tick: decrement if positive.
TickSlice(n) == IF n > 0 THEN n - 1 ELSE n

(***************************************************************************)
(* Scheduler::schedule, applied after the caller has already changed the   *)
(* PCB fields to st and sl (block_current, exit and tick change them       *)
(* before they call schedule).  pick_next pops the head of the queue; the  *)
(* three outcomes are: the head is the current process (refresh it), there *)
(* is no current process (start_process, first launch), or switch_to,      *)
(* which demotes and re-enqueues the current process only if it is still   *)
(* Running.  The popped PID is made Running whatever its state was.        *)
(***************************************************************************)
Schedule(st, sl) ==
    \/ /\ ready_queue = << >>                       \* no ready process: idle
       /\ state' = st /\ time_slice' = sl
       /\ UNCHANGED <<ready_queue, current>>
    \/ /\ ready_queue # << >>
       /\ LET next == Head(ready_queue)
              rest == Tail(ready_queue)
          IN
          \/ /\ next \notin processes               \* get_process failed
             /\ ready_queue' = rest
             /\ state' = st /\ time_slice' = sl
             /\ UNCHANGED current
          \/ /\ next \in processes
             /\ time_slice' = [sl EXCEPT ![next] = QUANTUM]
             /\ \/ /\ next = current                \* no switch needed
                   /\ state' = [st EXCEPT ![next] = Running]
                   /\ ready_queue' = rest
                   /\ UNCHANGED current
                \/ /\ current = NoPid               \* start_process
                   /\ state' = [st EXCEPT ![next] = Running]
                   /\ ready_queue' = rest
                   /\ current' = next
                \/ /\ current \notin {next, NoPid}  \* switch_to
                   /\ LET demoted == Demote(st, current)
                      IN /\ ready_queue' =
                               IF st[current] = Running
                               THEN Enqueue(rest, demoted, current)
                               ELSE rest
                         /\ state' = [demoted EXCEPT ![next] = Running]
                   /\ current' = next

-----------------------------------------------------------------------------
(* The operations.                                                         *)

(***************************************************************************)
(* create_process (process/mod.rs:90-129) followed by                      *)
(* Scheduler::add_process, as system_init.rs does for every process:       *)
(* ProcessId::new() takes the next PID, the new PCB is Ready with a full   *)
(* time slice, it enters the table and, being Ready, the queue tail.       *)
(***************************************************************************)
AddProcess ==
    /\ next_pid <= MaxPid
    /\ next_pid' = next_pid + 1
    /\ processes' = processes \cup {next_pid}
    /\ state' = [state EXCEPT ![next_pid] = Ready]
    /\ time_slice' = [time_slice EXCEPT ![next_pid] = QUANTUM]
    /\ ready_queue' = Append(ready_queue, next_pid)
    /\ UNCHANGED current

(***************************************************************************)
(* VecDeque::retain(|&p| p != pid) (scheduler.rs:131): walk the queue      *)
(* front to back and keep, in order, every PID other than pid.  kept[i] is *)
(* what is kept of the first i entries.                                    *)
(***************************************************************************)
Retain(q, pid) ==
    LET kept[i \in 0..Len(q)] ==
            IF i = 0 THEN << >>
            ELSE IF q[i] # pid THEN Append(kept[i - 1], q[i]) ELSE kept[i - 1]
    IN  kept[Len(q)]

\* Fault variant of remove_process: `current` is not cleared.
RemoveKeepsCurrent(pid) ==
    /\ ready_queue' = Retain(ready_queue, pid)
    /\ processes' = processes \ {pid}
    /\ UNCHANGED <<next_pid, state, time_slice, current>>

\* Scheduler::remove_process: drop pid from queue and table, clear current.
RemoveProcess(pid) ==
    /\ ready_queue' = Retain(ready_queue, pid)
    /\ processes' = processes \ {pid}
    /\ current' = IF current = pid THEN NoPid ELSE current
    /\ UNCHANGED <<next_pid, state, time_slice>>

\* start_scheduling, or any direct call of Scheduler::schedule.
ScheduleCall ==
    /\ Schedule(state, time_slice)
    /\ UNCHANGED <<next_pid, processes>>

\* Scheduler::tick: tick the current PCB; schedule once its slice is 0.
Tick ==
    /\ current \in processes
    /\ LET sl == [time_slice EXCEPT ![current] = TickSlice(@)]
       IN IF sl[current] = 0
          THEN Schedule(state, sl)
          ELSE /\ time_slice' = sl
               /\ UNCHANGED <<state, ready_queue, current>>
    /\ UNCHANGED <<next_pid, processes>>

\* Scheduler::block_current: mark the current PCB Blocked, then schedule.
BlockCurrent ==
    /\ current \in processes
    /\ Schedule([state EXCEPT ![current] = Blocked], time_slice)
    /\ UNCHANGED <<next_pid, processes>>

\* Scheduler::wake_up: a Blocked PCB becomes Ready and is enqueued; any
\* other state is a silent no-op (left out: it changes nothing).
WakeUp(pid) ==
    /\ pid \in processes
    /\ state[pid] = Blocked
    /\ LET st == [state EXCEPT ![pid] = Ready]
       IN /\ state' = st
          /\ ready_queue' = Enqueue(ready_queue, st, pid)
    /\ UNCHANGED <<next_pid, processes, time_slice, current>>

(***************************************************************************)
(* exit_current_process (process/mod.rs:145-161): set_exit_code on the     *)
(* current PCB turns it into a Zombie (the code value is abstracted away), *)
(* then SCHEDULER.schedule() runs.                                         *)
(***************************************************************************)
ExitCurrent ==
    /\ current \in processes
    /\ Schedule([state EXCEPT ![current] = Zombie], time_slice)
    /\ UNCHANGED <<next_pid, processes>>

-----------------------------------------------------------------------------

\* Scheduler::new and a fresh allocator; PCB fields of PIDs not yet issued
\* hold the values PCB::new gives them.
Init ==
    /\ next_pid = 1
    /\ processes = {}
    /\ state = [p \in Pid |-> Ready]
    /\ time_slice = [p \in Pid |-> QUANTUM]
    /\ ready_queue = << >>
    /\ current = NoPid

Next ==
    \/ AddProcess
    \/ \E pid \in Pid : RemoveProcess(pid)
    \/ ScheduleCall
    \/ Tick
    \/ BlockCurrent
    \/ \E pid \in Pid : WakeUp(pid)
    \/ ExitCurrent

Spec == Init /\ [][Next]_vars

-----------------------------------------------------------------------------
(* Properties.                                                             *)

\* Every variable holds a value of its type.
TypeOK ==
    /\ next_pid \in 1..MaxPid + 1
    /\ processes \subseteq 1..next_pid - 1
    /\ state \in [Pid -> ProcessState]
    /\ time_slice \in [Pid -> 0..QUANTUM]
    /\ ready_queue \in Seq(Pid)
    /\ current \in Pid \cup {NoPid}

(***************************************************************************)
(* At most one process runs, and it is the one `current` names: a PCB in   *)
(* the table is Running only if it is current.  switch_to must demote the  *)
(* outgoing process before promoting the next one, and remove_process must *)
(* clear current; a slip in either leaves two Running PCBs.                *)
(***************************************************************************)
RunningIsCurrent ==
    \A p \in processes : state[p] = Running => p = current

(***************************************************************************)
(* No Ready process is lost: every Ready PCB of the table is in the ready  *)
(* queue, so pick_next will reach it.  add_process, switch_to (through     *)
(* enqueue) and wake_up each have to enqueue what they make Ready.         *)
(***************************************************************************)
ReadyInQueue ==
    \A p \in processes : state[p] = Ready => p \in ToSet(ready_queue)

(***************************************************************************)
(* The queue and `current` only name processes of the table, so that       *)
(* schedule never pops a removed PID and switch_to's                       *)
(* get_process(current).unwrap() (scheduler.rs:245) never panics.          *)
(***************************************************************************)
NoDanglingPid ==
    /\ ToSet(ready_queue) \subseteq processes
    /\ current # NoPid => current \in processes

(***************************************************************************)
(* Round-robin rotation: whenever the CPU passes to another process, that  *)
(* process is Running with a full quantum, and a previous process that was *)
(* Running has either blocked or exited in this step, or has become Ready  *)
(* at the tail of the queue (preempted, it waits a full rotation).         *)
(***************************************************************************)
RoundRobinStep ==
    current' \notin {current, NoPid} =>
        /\ state'[current'] = Running
        /\ time_slice'[current'] = QUANTUM
        /\ (current \in processes /\ state[current] = Running) =>
               \/ state'[current] \in {Blocked, Zombie}
               \/ /\ state'[current] = Ready
                  /\ ready_queue' # << >>
                  /\ Last(ready_queue') = current

\* Every step of schedule, tick, block_current and exit keeps the rotation.
RoundRobinRotation == [][RoundRobinStep]_vars

-----------------------------------------------------------------------------
(* What spec.md states of the scheduler and the code does not keep.        *)

\* Spec section 3: exactly one PCB is Running and it is current, or none is
\* Running and current is empty.
CurrentIsRunning ==
    \/ /\ current = NoPid
       /\ \A p \in processes : state[p] # Running
    \/ /\ current \in processes
       /\ state[current] = Running

\* Spec sections 3 and 8: a Zombie is never in the ready queue.
ZombieNeverQueued ==
    \A i \in 1..Len(ready_queue) :
        ready_queue[i] \in processes => state[ready_queue[i]] # Zombie

\* Spec section 3: the ready queue holds exactly the Ready PIDs, once each.
QueueIsReadySet ==
    /\ IsInjective(ready_queue)
    /\ ToSet(ready_queue) = {p \in processes : state[p] = Ready}

\* Spec section 3: Zombie is terminal, no transition leaves it.
ZombieIsTerminal ==
    [][ \A p \in processes \cap processes' :
            state[p] = Zombie => state'[p] = Zombie ]_vars

=============================================================================
