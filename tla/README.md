# TLA+ models of the ErrorOS kernel

This directory holds TLA+ models of the ErrorOS RISC-V kernel (`src/os/src`).
TLC model-checks them on small instances, and TLAPS proves theorems about
them. This README covers:

- which module models which part of the kernel;
- what each run checks and what it shows;
- what is proved, and what is only model-checked;
- what is left out.

`PROJECT.json` has the machine-readable form:

- the components;
- the runs;
- a mutant for every property;
- the map from each definition to the source lines it translates;
- the findings;
- the hazards;
- the theorems.

## The system

ErrorOS is a single-hart kernel. Its parts, and how they interact:

| Part | Source | State | Operations |
|---|---|---|---|
| PID allocator | `process/pid.rs` | `NEXT_PID: AtomicUsize`, starting at 1 | `ProcessId::new` (fetch_add) |
| Process control block | `process/pcb.rs` | `state`, `time_slice` (5), `exit_code`, context, family links | `set_state`, `set_exit_code` (makes a Zombie), `reset_time_slice`, `tick` |
| Scheduler | `process/scheduler.rs` | process table, `ready_queue: VecDeque`, `current`, all inside `SCHEDULER: spin::Mutex` | `add_process`, `remove_process`, `schedule` (`pick_next`, `enqueue`, `switch_to`, `start_process`), `tick`, `block_current`, `wake_up` |
| Process entry points | `process/mod.rs`, `system_init.rs` | none | `create_process`, `exit_current_process`, `block_current_process`, `wake_up_process`, `init_system_processes` |
| Process context | `process/context.rs` | saved registers per PCB | `new_user_context`, `switch_context` |
| Trap dispatcher | `trap/mod.rs`, `interrupts.rs` | `sstatus.SIE`, timer | timer interrupt (`poll_keyboard`, `set_next_timer`), exceptions |
| Async executor | `task/executor.rs` | task map, `ArrayQueue(100)` of task ids, waker cache | `spawn`, `run_ready_tasks`, `sleep_if_idle` |
| Keyboard stream | `task/keyboard.rs` | `SCANCODE_QUEUE: ArrayQueue(100)`, `WAKER: AtomicWaker` | `add_scancode` (in the timer interrupt), `ScancodeStream::poll_next` |
| Heap allocator | `allocator/linked_list.rs` | singly linked free list in the heap itself | `init`, `alloc` (`find_region`, `alloc_from_region`), `dealloc` (`add_free_region`) |
| File system | `fs/ramfs.rs`, `fs/fd_table.rs`, `fs/manager.rs` | inodes, directory entries, fd table with stdio in 0-2 | `alloc_ino`, `create_*`, `add_entry`, `remove`, `open_file`, `read_at`/`write_at`; fd `alloc`/`dealloc` |
| System calls | `syscall/syscall_impl.rs` | none | `sys_open`, `sys_close`, `sys_mkdir`, `sys_read`, `sys_write` |

How the parts interact:

- Every scheduler operation is called as `SCHEDULER.lock().op()`.
  `schedule` enters another context while that guard is still alive.
- The timer interrupt reads console characters into `SCANCODE_QUEUE`.
  The first push wakes the keyboard task, and the wake pushes its id onto
  the executor's task queue from interrupt context.
- The timer interrupt never calls `scheduler::tick`, so nothing preempts a
  process.
- The file system calls run in the trap handler on the global `RAMFS` and
  `FD_TABLE`. Nothing else runs concurrently with them.
- The allocator serves every `Box`/`Vec` of the kernel under its own spin lock.

## Modules

| Module | Models | Runs |
|---|---|---|
| `Scheduler.tla` | the scheduler, PCB fields, PID allocator and entry points | `MC_Scheduler*.cfg` |
| `SchedulerProofs.tla` | TLAPS proofs for `Scheduler` | — |
| `KernelLock.tla` | `Scheduler` composed with the `SCHEDULER` lock and the hart's contexts | `MC_KernelLock_*.cfg` |
| `Executor.tla` | executor, keyboard stream and timer interrupt, interleaved | `MC_Executor*.cfg` |
| `LinkedListAllocator.tla` | the heap allocator | `MC_LinkedListAllocator.cfg` |
| `LinkedListAllocatorProofs.tla` | TLAPS proofs for the allocator | — |
| `PidAllocator.tla` | `ProcessId::new` with its `fetch_add` wrap | `MC_PidAllocator_*.cfg` |
| `UserContext.tla` | `new_user_context` and the `sstatus` bit operations | `MC_UserContext*.cfg` |
| `UserContextProofs.tla` | TLAPS proofs for `UserContext` | — |
| `FdTable.tla`, `RamFS.tla` | the fd table and the RAM file system | — |
| `FileSyscalls.tla` | the file system calls over both | `MC_FileSyscalls.cfg` |
| `FileSyscallsProofs.tla` | TLAPS proofs for `FileSyscalls` | — |
| `ExecutorProofs.tla` | TLAPS proofs for `Executor` | — |

### `Scheduler.tla`

The state variables:

- `next_pid` is `NEXT_PID`.
- `processes` is the key set of the table.
- `state` and `time_slice` are the PCB fields.
- `ready_queue` is the `VecDeque`, with the head first.
- `current` is `Option<ProcessId>`, with `NoPid = 0` for `None`.

Each public operation is one action:

- `AddProcess`
- `RemoveProcess(pid)`
- `ScheduleCall`
- `Tick`
- `BlockCurrent`
- `WakeUp(pid)`
- `ExitCurrent`

`Schedule(st, sl)` translates `schedule` with `pick_next`, `enqueue`,
`switch_to` and `start_process`. It takes the PCB fields as the caller left
them, so it sees a Blocked or Zombie state set just before the call. It has
five outcomes, one per return of the code:

- idle;
- missing PID;
- refresh of the current process;
- `start_process`;
- `switch_to`.

A context switch is one step of this module: all bookkeeping precedes
`switch_context`.

### `KernelLock.tla`

This module extends `Scheduler` with four variables:

- `locked`, the spin flag;
- `hart`, whose stack the hart runs on;
- `saved[p]`, true when p's context slot holds a frame suspended in
  `switch_context` rather than the fresh entry of `new_user_context`;
- `hung`, true when the hart spins in `lock()`.

Every entry point is `LockedCall(A)`: it takes the free lock, runs the
Scheduler action `A`, and drops the guard when the statement ends. The
exception is when `schedule` entered another context:

- `switch_to` into a suspended frame unwinds to that frame's own guard.
- A fresh context, or `start_process` (which abandons the calling frame),
  leaves the lock held.

`Spin` is any call made while the flag is set. `spin::Mutex` has no owner,
and there is one hart, so the call spins for ever.

### `Executor.tla`

The foreground `Executor::run` is cut at every point where a timer interrupt
changes what happens:

- the pop of a task id;
- each step of `poll_next`: pop, `WAKER.register`, re-check pop;
- each step of `sleep_if_idle`: check, `enable_interrupts`, `wfi`.

`Timer` is the whole of `timer_interrupt_handler`:

- It reads at most `MaxReads` waiting characters.
- It pushes them onto `SCANCODE_QUEUE`, bounded by `SCap`.
- The first push that finds the waker registered takes it and pushes the
  keyboard task id. That push panics on a full task queue: the `expect` of
  `wake_task`.
- It re-arms the timer.

Taking the trap clears `sstatus.SIE`. `trap_handler` returns with a plain
`ret`, not `sret`, so SIE stays clear until `sleep_if_idle` sets it again.
`WfiResume` is the RISC-V rule that `wfi` resumes on a pending, locally
enabled interrupt even with SIE clear. `Type` is the user typing one
character, up to `MaxKeys`.

### `LinkedListAllocator.tla`

- Addresses and sizes are in 8-byte units, so a `ListNode` is two units.
- `free` is the list from `head.next` on, as a sequence of regions.
- `live` is the set of blocks returned and not yet freed, each with its
  `Layout`.
- `Alloc(l)` is `size_align` and then `find_region`. `FirstFit` states
  that the chosen region is the first for which `alloc_from_region`
  succeeds. The region is then unlinked, and its excess is pushed back with
  `add_free_region`.
- `Dealloc(b)` pushes the block's `size_align` size back on the list.
- Each call is one step, because it runs under the allocator's spin lock.

### `PidAllocator.tla`

`ProcessId::new` on its own: `next_pid` is `NEXT_PID`, starting at 1, and
`New` is the `fetch_add(1)` taken modulo `2^Width`, which appends the old
value to `issued`. `MaxCalls` bounds the calls. `Scheduler.tla` keeps
`next_pid` unbounded below `MaxPid`, where the wrap cannot happen.

### `UserContext.tla`

- `csr` is the live `sstatus` CSR, a `Width`-bit word.
- `NewUserContext(entry, top, root)` is `new_user_context` as
  `create_process` calls it: `ProcessContext::new` (`EmptyContext`), then
  `sepc`, `sp` and `satp`, then `csrr`, `set_user_mode` and
  `enable_interrupt_on_return`. `status_val` keeps what the `csrr` read.
- The bit operations are arithmetic: `Bit`, `SetBit` (`|=`) and
  `ClearBit` (`&= !`) on one-bit masks 256 (SPP), 32 (SPIE) and 2 (SIE).
  This keeps the module free of `Bitwise`, so TLAPS can prove about it.
- `EnableInterrupts` and `DisableInterrupts` are the `set_sie` and
  `clear_sie` of `trap/mod.rs`. `TimerTrap` is the hart entering the trap
  from S-mode: SPIE := SIE, SIE := 0, SPP := S. `trap_handler` returns with
  a plain `ret`, so nothing restores them.
- `Init` lets the boot value of `csr` be any word, because the boot code
  (`os::init`) is not under `src/`.

### `FdTable.tla`, `RamFS.tla`, `FileSyscalls.tla`

`FdTable` holds the slot `Vec`, with the stdio files in 0-2, and its
`alloc`/`dealloc`.

`RamFS` has these operations:

- `alloc_ino`;
- `CreateNode`, which is `create_file`/`create_directory` with
  `add_entry`'s `AlreadyExists` failure (the inode number is spent all the
  same);
- `RemoveEntry`;
- `read_at` and `write_at`, with `resize`.

`FileSyscalls` composes the two:

- the system calls;
- the direct `RamFS` calls of `system_init.rs`.

Path strings are root entry names. Their UTF-8 parsing is abstracted to the
name it yields.

## Runs

| Run | cfg | Expect | Distinct states | Checks |
|---|---|---|---|---|
| scheduler_safety | `MC_Scheduler.cfg` | pass | 301,061 | `TypeOK`, `RunningIsCurrent`, `ReadyInQueue`, `NoDanglingPid`, `RoundRobinRotation` |
| current_is_running | `MC_Scheduler_CurrentIsRunning.cfg` | violation | | `CurrentIsRunning` |
| zombie_never_queued | `MC_Scheduler_ZombieNeverQueued.cfg` | violation | | `ZombieNeverQueued` |
| queue_is_ready_set | `MC_Scheduler_QueueIsReadySet.cfg` | violation | | `QueueIsReadySet` |
| zombie_is_terminal | `MC_Scheduler_ZombieIsTerminal.cfg` | violation | | `ZombieIsTerminal` |
| scheduler_self_deadlock | `MC_KernelLock_NoSchedulerSelfDeadlock.cfg` | violation | | `NoSchedulerSelfDeadlock` |
| executor_wakeups | `MC_Executor.cfg` | pass | 660 | `TypeOK`, `NoLostWakeup`, `NoTaskQueueOverflow`, `KeysPrinted` |
| sleep_only_when_idle | `MC_Executor_SleepOnlyWhenIdle.cfg` | violation | | `SleepOnlyWhenIdle` |
| allocator_safety | `MC_LinkedListAllocator.cfg` | pass | 1,638 | `NoOverlap`, `LiveAligned`, `FreeRegionsHoldNode` |
| pid_unique_increasing | `MC_PidAllocator_PidsUniqueIncreasing.cfg` | violation | | `PidsUniqueIncreasing` |
| user_context | `MC_UserContext.cfg` | pass | 29,696 | `ContextContract` |
| fs_safety | `MC_FileSyscalls.cfg` | pass | 70,254 | `TypeOK`, `StdioPinned`, `OffsetWithinFile`, `LowestFreeFd` |

What the passing runs show:

- **Scheduler.**
  - `RunningIsCurrent`: only `current` is Running. `switch_to` demotes
    before it promotes, and `remove_process` clears `current`.
  - `ReadyInQueue`: no Ready process is lost.
  - `NoDanglingPid`: the `get_process(..).unwrap()` calls cannot panic.
  - `RoundRobinRotation` (an action property): a process that gets the CPU
    has a full quantum. The outgoing Running process is at the tail of the
    queue.
- **Executor.**
  - `NoLostWakeup`: a character waiting in `SCANCODE_QUEUE` always has the
    keyboard task queued or being polled. This holds wherever the interrupt
    lands between register and re-check.
  - `KeysPrinted`: every queued character is eventually printed.
  - `NoTaskQueueOverflow`: the wake never finds the task queue full, even
    with a queue of two slots.
- **Allocator.**
  - `NoOverlap`: free regions and live blocks are pairwise disjoint and lie
    inside the heap, after any sequence of allocations and frees of mixed
    sizes and alignments.
  - `LiveAligned`: every block is aligned as its `Layout` asks.
  - `FreeRegionsHoldNode`: the size assertion of `add_free_region` never
    fails.
- **User context.**
  - `ContextContract`: every context `create_process` builds has SPP = 0
    and SPIE = 1, and every other bit as the `csrr` read it. This holds from
    every boot value and after any sequence of SIE toggles and timer traps
    (which set SPP in the live CSR).
- **File system.**
  - The stdio descriptors stay pinned.
  - Offsets stay within their file.
  - `sys_open` returns the lowest free descriptor at or above 3.

Every property of a passing run has a mutant in `PROJECT.json`: a plausible
slip in the mapped code that the run catches. Examples:

- `Unlink` that keeps the region;
- `size_align` that ignores the alignment;
- the excess check dropped;
- the re-check of `poll_next` skipped;
- `ret` replaced by an `sret` that restores SIE.

### Bounds

- **Scheduler**: three PIDs and the code's quantum of 5. This covers a
  process blocking while another is queued, a stale current process woken
  with a third one queued, and removal of the current process, of a queued
  one and of an unknown one. Every violation needs at most two PIDs.
- **KernelLock**: the same instance. The deadlock takes three steps.
- **Executor**: four characters, two read per interrupt, a scancode queue of
  two. So one interrupt can bring several characters, a character can
  arrive in every window, and the scancode queue can fill and drop. The
  task queue has two slots, as few as the two spawned ids need, with twice
  as many characters as slots, so the run also asks whether it can fill.
- **Allocator**: a heap of 8 units (64 bytes), sizes 1-3 and alignments
  1, 2, 4. That is enough to split regions, to leave an unusable alignment
  gap, to refuse a region whose excess would be one unit, and to free in any
  order.
- **PID allocator**: a 2-bit word and `2^2 + 1` calls, the fewest that
  reach the wrap and the reissue of 1. At 64 bits the same trace needs
  `2^64 - 1` calls.
- **User context**: a 10-bit word, the smallest that has bits above SPP,
  every boot value of it, two entries, two stack tops and two roots.
- **File system**: two names, four inodes, two descriptors beyond stdio, and
  files of up to two bytes.

## Fairness

The scheduler and the allocator state no liveness and assume no fairness.
Nothing in the running kernel drives the scheduler: there is no tick in the
timer handler and no `schedule` after boot. The executor assumes two
conditions, both justified by the code:

- **Weak fairness of the foreground.** The hart runs the executor whenever
  it is not stalled in `wfi`.
- **Strong fairness of `Timer`.** `set_next_timer` re-arms the timer in
  every handler, and every `sleep_if_idle` sets SIE again. So the interrupt
  is taken in any behaviour where SIE is set infinitely often.

Typing has no fairness.

## Findings

In the scheduler, `schedule` returns as soon as `pick_next` finds the queue
empty (`scheduler.rs:206`). By then, `block_current` or
`exit_current_process` has already changed the current PCB. The
consequences:

- `current` names a Blocked or Zombie process, which violates
  `CurrentIsRunning`.
- `wake_up` then enqueues that process, and an exit leaves a Zombie in the
  queue (`ZombieNeverQueued`).
- A blocked stale entry stays queued (`QueueIsReadySet`).
- `block_current` revives a Zombie (`ZombieIsTerminal`).

There is also a scheduler lock bug. `start_scheduling` holds its
`SCHEDULER` guard while `start_process` jumps into the first process
(`scheduler.rs:443`). The guard is never dropped, so the next scheduler
call of the process spins for ever. TLC finds the path in three steps:

1. `init_system_processes`;
2. `start_scheduling`;
3. any call.

`spec.md` sections 5 and 9 require the opposite.

In the executor, `sleep_if_idle` enables interrupts before `wfi`
(`executor.rs:106`). A timer interrupt in that window queues the keyboard
task. The hart then stalls in `wfi` with a task ready until the next timer
deadline, which violates `SleepOnlyWhenIdle`. The comment at
`executor.rs:105` says the hart sleeps only when the queue is empty.

The same trap semantics, with the `ret` leaving SIE clear, bound the
keyboard task's copies in the task queue. That is why `NoTaskQueueOverflow`
holds. With an `sret`, it would fail, and the mutant shows this.

In the PID allocator, `NEXT_PID.fetch_add(1)` wraps at `usize::MAX`
(`pid.rs:30`). After `2^64 - 1` creations `ProcessId::new` returns 0, the
reserved PID, and then 1 again. `spec.md` sections 3, 4.1 and 8 say PIDs
are unique and strictly increasing from 1 (`PidsUniqueIncreasing`). The
divergence is latent: no kernel lives for `2^64` creations.

## What is proved

`SchedulerProofs.tla` proves, for every `MaxPid` and `QUANTUM` in
`Nat \ {0}`:

- `TypeCorrect`: `Spec => []TypeOK`, the queue included.
- `RunningIsCurrentHolds`: `Spec => []RunningIsCurrent`.
- `ReadyInQueueInvariant`: `Spec => []ReadyInQueue`.
- `NoDanglingPidInvariant`: `Spec => []NoDanglingPid`.
- `RoundRobinRotationHolds`: `Spec => RoundRobinRotation`, the action
  property.

The inductive invariant is `SInv == IInv /\ QueueInv`:

- `IInv` is `TypeCore /\ RunningIsCurrent`, where `TypeCore` is `TypeOK`
  without the queue conjunct. The switch case needs `current \in Pid`, and a
  Running PCB must be a PID in `1..next_pid-1`, so it cannot equal `NoPid`.
- `QueueInv` is the queue conjunct of `TypeOK` with `ReadyInQueue` and
  `NoDanglingPid`. Each needs the others:
  - `schedule` may pop only the PID it makes Running, which needs the
    queue to be a sequence;
  - `switch_to` re-enqueues the outgoing process only if `current` is in
    the table, which is `NoDanglingPid`;
  - a current process that is Ready but not Running must already be
    queued, which is `ReadyInQueue`.

  `ReadyIn(st)` states `ReadyInQueue` of the PCB fields a caller hands to
  `schedule`. `block_current` and `exit` keep it because they make
  `current` non-Ready.

`remove_process`'s `VecDeque::retain` is modelled by `Retain`, a recursive
function over the prefixes of the queue. (A `SelectSeq` would mean the
same, but the provers know nothing of `SelectSeq`.) `RetainFacts` proves
that `Retain(q, pid)` is a sequence of PIDs whose set is `ToSet(q) \ {pid}`.
The proof has three steps:

- `RetainIsKept` identifies the LET function with the `CHOOSE` it stands
  for.
- `PrefixStep` and `KeptExists` show that the recursion has a solution.
- A least-counterexample argument over `0..Len(q)` gives the two facts.
  `MinIn`, from `WellFoundedInduction`, stands in for the library's
  induction schemas, whose operator parameters no installed prover can
  instantiate.

The proof is laid out as follows:

- `ScheduleKeepsIInv`, `ScheduleKeepsQueue` and `ScheduleRotates` have one
  case per outcome of `schedule`.
- `NextIInv`, `NextQueue` and `NextRotates` have one step per action.
- `PTL` combines them.

`ExecutorProofs.tla` proves, for every `QCap >= 2`, `SCap` and `MaxReads` in
`Nat \ {0}` and every `MaxKeys`:

- `ExecutorTypeInvariant`: `Spec => []TypeOK`.
- `NoTaskQueueOverflowInvariant`: `Spec => []NoTaskQueueOverflow`.
- `NoLostWakeupInvariant`: `Spec => []NoLostWakeup`.

`QCap >= 2` is the assumption `ExecutorAssumption` states. `kernel_main`
spawns two tasks, and the queue's capacity is 100.

The inductive invariant `IInv` adds four conjuncts to `TypeOK` and
`NoTaskQueueOverflow`. TLC checked `IInv` as an invariant on two instances.

- `QueueShapes`: the task queue is empty, holds the keyboard task, or holds
  both spawned ids. The last happens only before the executor's first
  poll, while the waker is unregistered. A wake therefore pushes only onto
  a queue without the keyboard id, which has room. That is why the queue
  never overflows.
- `KbdParked`: outside a poll of the keyboard task, `poll_next` is at its
  start or at its first pop.
- `WakeOnce`: while the keyboard id is queued and the waker registered, or
  the task is being polled, interrupts are off or the executor is about to
  run. A second wake cannot push the id twice.
- `WakeArmed`: outside a poll, an empty task queue means the waker is
  registered and `SCANCODE_QUEUE` is empty. A poll that reaches its second
  pop unregistered has the id queued already. This is the
  register-before-re-check protocol of `poll_next`, and `NoLostWakeup`
  follows from it.

The proof has one lemma per action. `TimerKeeps` proves the interrupt
handler's step by cases on whether `add_scancode` wakes.

`LinkedListAllocatorProofs.tla` proves the following for every heap start,
heap size of at least one `ListNode`, set of positive sizes and set of
power-of-two alignments up to 16:

- `FreeRegionsHoldNodeInvariant`: `Spec => []FreeRegionsHoldNode`.
- `TypeInvariant`: `Spec => []TypeOK`.

Neither property is inductive on its own:

- The region `alloc` pushes is the excess of a region taken from the list,
  so the proof needs the list's regions to be regions of naturals.
- The region `dealloc` pushes starts at a live block's start, so the proof
  needs live blocks to have natural starts and a `Layout`.

The inductive invariant is `IInv`: the list is a sequence of `NodeRegion`s,
and `live` is typed. TLC checked `IInv` on the run's instance. The proof
rests on four lemmas:

- `AlignUpNat`;
- `SizeAlignType`, which gives a size of at least a `ListNode`;
- `UnlinkType` and `AddFreeRegionType`, from `SequenceTheorems`.

It has one lemma per action. The step that matters is the excess check of
`alloc_from_region`: a positive excess is at least a `ListNode`.

The same module proves the allocator's main safety properties, for the same
constants:

- `NoOverlapInvariant`: `Spec => []NoOverlap`.
- `LiveAlignedInvariant`: `Spec => []LiveAligned`.

Neither `NoOverlap` nor `LiveAligned` is inductive on its own. `alloc` takes
a region from the middle of the list, and so the proof must know that the
region it takes is apart from every other region and every live block. The
inductive invariant is `SafeInv == FreeOK(free, live) /\ LiveOK(live)`:

- every region of the list can hold a `ListNode` and lies in the heap;
- the regions are pairwise apart, and apart from every live block;
- the live blocks are typed, lie in the heap, are aligned and are pairwise
  apart.

TLC checked `SafeInv` on the run's instance. The argument goes like this:

- `alloc` unlinks region `i`, places the block at `align_up(start, align)`
  inside it, and pushes the front gap and the excess back. Both are
  sub-regions of region `i`, so they are apart from everything region `i`
  was apart from (`ApartInside`).
- `dealloc` pushes the freed block's own region. It was apart from every
  region and every other block.
- `UnlinkIndices` and `PushIndices` give the indices of the list after
  `SubSeq`, `\o` and the push. `AlignUpFacts` bounds `align_up`.

`SafeNoOverlap` derives `NoOverlap` from `SafeInv`, pair by pair.

There is no abstract specification of the allocator. The `GlobalAlloc`
contract only promises that a granted block is aligned, lies in the heap
and is disjoint from the live blocks. Its safety content is exactly
`LiveAligned` and `NoOverlap`. Nothing in the code or in `spec.md` promises
more, such as when `alloc` may fail.

`FileSyscallsProofs.tla` proves the following for every set of names, every
`MaxIno >= 1`, every `MaxSize` and every `MaxFd >= 3`:

- `FsTypeInvariant`: `Spec => []TypeOK`.
- `StdioPinnedInvariant`: `Spec => []StdioPinned`.
- `OffsetWithinFileInvariant`: `Spec => []OffsetWithinFile`.
- `LowestFreeFdHolds`: `Spec => LowestFreeFd`, the action property.

The invariants are not inductive as they stand. `OffsetWithinFile` reads
the data of the file a descriptor names, so it needs that file to be a
regular file. `create_file` and `create_directory` enter the number
`alloc_ino` issues, and that needs the number to be unused. The inductive
invariant `IInv` is `TypeOK`, `StdioPinned` and `OffsetWithinFile` with four more
facts:

- `OpenFilesAreFiles`: every open `RamFile` descriptor names a regular file.
- `DirectoryTree`: every entry names a live inode numbered above its
  directory, and no inode is named twice.

- `Fresh`: every number at or above `next_ino` carries no inode.
- `RamInos`: every `RamFile` descriptor holds an inode number.

TLC checked `IInv` on the run's instance. The proof is laid out as follows:

- `NextIInv` has one case per call.
- The calls share lemmas:
  - `CreateNodeKeeps` for the two create paths;
  - `OpenStepKeeps` for `alloc`;
  - `WriteDataKeeps` and `OffsetStepKeeps` for `write_at` and the offset
    update;
  - `CloseKeeps` and `RemoveKeeps`.
- The operator lemmas:
  - `AllocFdFacts`: the slot `alloc` picks lies in `3..Len(entries)`, is
    empty if it lies inside the table, and every slot from 3 below it is
    occupied. The least empty slot exists by well-founded induction on
    `Nat` (`MinIn`, from `WFMin`).
  - `WriteAtFacts`: the data `write_at` produces, zero padding included,
    is a byte sequence of length `max(Len(data), off + Len(buf))`.
  - `ReadCountFacts`: a read never passes the end of the data.
- `LowestFreeFd` follows from `IInv` and `NextLowest`. `NextLowest` shows
  the following:
  - only `alloc` fills an empty slot, and it fills the one `AllocFdFacts`
    names (`AllocLowest`);
  - `sys_close` only empties slots, and `sys_read` and `sys_write` only
    change occupied ones (`NoSlotFilled`, `OffsetStepLowest`).

`UserContextProofs.tla` proves `ContextContractInvariant`:
`Spec => []ContextContract`, for every `Width` above 8 and all entries,
stack tops and roots. The inductive invariant is `IInv`: `csr` is a
natural number, and `ContextContract` holds. The construction reads only
`csr`, and the other actions change only `csr`. The lemma
`UserStatusBits` states that `set_user_mode` then
`enable_interrupt_on_return` clears SPP, sets SPIE and keeps every other
bit. It is proved by cases on the SPIE bit, splitting the word at bit 6.
`BitOpsNat` keeps `csr` a natural number. The provers know nothing of
`2^Width`, so `TypeOK` of `UserContext`, whose words are bounded by it, is
left to TLC.

These are only model-checked:

- The properties of the runs that expect a violation. Those runs exist to
  show a counterexample.
- `KernelLock` and `PidAllocator`. `PidAllocator` uses a
  `fetch_add` that wraps at `2^Width`, and the provers know nothing of powers.
- All liveness (`KeysPrinted`).

Liveness and ENABLED are beyond the prover, and so is a `RECURSIVE`
operator, which costs a module its SMT backend. The library's induction
schemas take operator parameters that no installed prover instantiates. A
recursive function can still be reasoned about through a least
counterexample, as `RetainFacts` does.

## What is not modelled

- **Process inspector, file system inspector, serial and console, and the
  boot demo.** These parts only read state or format output.
- **Integration tests.** These are not kernel code.
- **Trap causes other than the timer interrupt.** External and software
  interrupts, breakpoints and page faults print, illegal instructions panic,
  and the system calls reached through `ecall` are `FileSyscalls`. None
  touches the state of the other modules.
- **The control flow after `start_process`'s `ret` and after
  `trap_handler`'s `ret`.** Both land at addresses no code defines.
  `KernelLock` keeps only the lock state they leave behind.
- **`fs/inode.rs`.** Its `MemInode` is never used: `RamFS` has its own
  `RamInode`.
- **`RamInode::truncate` and `RamFile::seek`.** Nothing calls them. A
  truncate below an open file's offset would break `OffsetWithinFile`, but
  no code path can do it.
- **`switch_context`'s assembly.** It is abstracted to its effect on the
  saved slots.

## Plan

1. Prove `KernelLock`'s lock discipline, and `Scheduler`'s
   `PidsUniqueIncreasing` below the wrap.
2. An abstract process-lifecycle specification, with `Scheduler` refining it
   through `INSTANCE ... WITH`.
3. Preemption: `KernelLock` with a timer that calls `tick`, which would
   self-deadlock on the lock.
4. The keyboard stream's drop on a full `SCANCODE_QUEUE`, and the console
   path.
