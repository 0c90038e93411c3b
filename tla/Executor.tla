------------------------------- MODULE Executor -------------------------------
(***************************************************************************)
(* The async executor of src/os/src/task/executor.rs running the two tasks *)
(* kernel_main spawns (main.rs:100-103), with the keyboard stream of       *)
(* task/keyboard.rs fed from the timer interrupt (trap/mod.rs:150-156).    *)
(*                                                                         *)
(* One hart runs the foreground loop Executor::run; the timer interrupt    *)
(* preempts it between any two of its steps while sstatus.SIE is set, and  *)
(* the handler runs to completion with SIE cleared.  The foreground is cut *)
(* into the steps between which an interrupt changes what happens: the     *)
(* pop of a task id, each step of ScancodeStream::poll_next, and each step *)
(* of sleep_if_idle.  ArrayQueue and AtomicWaker operations are atomic     *)
(* (an interrupt on the same hart either precedes or follows them).        *)
(*                                                                         *)
(* Typed characters are numbered in the order they are typed; the SBI      *)
(* console holds those typed but not yet read by console_getchar.          *)
(***************************************************************************)
EXTENDS Naturals, Sequences, SequencesExt

CONSTANTS
    QCap,        \* capacity of the executor's task_queue (100)
    SCap,        \* capacity of SCANCODE_QUEUE (100)
    MaxReads,    \* MAX_READS_PER_POLL of poll_keyboard (10)
    MaxKeys      \* bound on the characters typed in a behaviour

\* The task queue holds the two ids kernel_main spawns (its capacity is 100).
ASSUME ExecutorAssumption ==
    /\ QCap \in Nat /\ QCap >= 2
    /\ SCap \in Nat \ {0}
    /\ MaxReads \in Nat \ {0}
    /\ MaxKeys \in Nat

VARIABLES
    tasks,            \* ids of the tasks in the executor's task map
    task_queue,       \* the ArrayQueue<TaskId>, head first
    waker_cache,      \* ids with a cached TaskWaker
    scancode_queue,   \* SCANCODE_QUEUE, head first
    queue_init,       \* SCANCODE_QUEUE has been initialised
    registered,       \* WAKER holds the keyboard task's waker
    sie,              \* sstatus.SIE
    epc,              \* where the foreground executor is
    kpc,              \* where the keyboard task's poll_next is
    typed,            \* characters typed on the console so far
    read_cnt,         \* characters console_getchar has returned so far
    printed,          \* number of the last character print_keypresses took
    panicked          \* a push onto a full task_queue hit its expect

vars == <<tasks, task_queue, waker_cache, scancode_queue, queue_init,
          registered, sie, epc, kpc, typed, read_cnt, printed, panicked>>

\* The two tasks of kernel_main, in spawn order.
ExampleTask == "example"
KeyboardTask == "keyboard"
TaskId == {ExampleTask, KeyboardTask}

(* The executor's control points.                                          *)
(*   "run"   the while-let loop of run_ready_tasks, about to pop           *)
(*   "kbd"   inside the keyboard task's poll                               *)
(*   "sleep" sleep_if_idle, about to clear SIE and test the queue          *)
(*   "enable" the queue was empty, SIE is about to be set again            *)
(*   "wfi"   SIE set again, the wfi not yet executed                       *)
(*   "halt"  stalled in wfi until an interrupt                             *)
ExecPc == {"run", "kbd", "sleep", "enable", "wfi", "halt"}

(* The keyboard task's control points within a poll.                       *)
(*   "start" never polled: the banner and ScancodeStream::new are ahead    *)
(*   "pop1"  about to pop the scancode queue                               *)
(*   "reg"   about to register the waker                                   *)
(*   "pop2"  about to pop again after registering                          *)
KbdPc == {"start", "pop1", "reg", "pop2"}

-----------------------------------------------------------------------------
(* The operations the interrupt handler performs.                          *)

\* Fault variant of AtomicWaker::wake: the registered waker is not taken.
TakeWakerKeeps(reg, wake) == reg

\* AtomicWaker::wake takes the registered waker: it fires at most once.
TakeWaker(reg, wake) == reg /\ ~wake

\* TaskWaker::wake_task for the keyboard task: push its id.
WakeTask(q) == Append(q, KeyboardTask)

\* poll_keyboard: how many of the avail waiting characters one call reads,
\* at most MAX_READS_PER_POLL before it stops.
Reads(avail) == IF avail < MaxReads THEN avail ELSE MaxReads

\* Fault variant of add_scancode: the push ignores the capacity.
PushedUncapped(n) == IF queue_init THEN n ELSE 0

\* add_scancode for n characters read in one poll: while the queue is
\* initialised each is pushed until the queue is full, the rest dropped.
Pushed(n) ==
    IF queue_init
    THEN IF n < SCap - Len(scancode_queue) THEN n
         ELSE SCap - Len(scancode_queue)
    ELSE 0

\* Fault variant of the idle path: wfi sits in a loop and never returns.
AfterWfiLoops(pc) == pc

\* Fault variant of the trap return: sret restores SIE from SPIE.
SieAfterTrapRestored(s) == s

\* sstatus.SIE after trap_handler returns: the trap cleared it and the
\* plain ret of the handler does not restore it.
SieAfterTrap(s) == FALSE

\* Where the foreground resumes after an interrupt: wfi returns, and
\* sleep_if_idle with it, to the loop of run.
AfterWfi(pc) == IF pc = "halt" THEN "run" ELSE pc

(***************************************************************************)
(* The timer interrupt: timer_interrupt_handler runs poll_keyboard, which  *)
(* reads at most MaxReads waiting characters with console_getchar and      *)
(* hands each to add_scancode; the first successful push wakes WAKER,      *)
(* which takes the registered waker and pushes the keyboard task id (the   *)
(* later pushes of the same poll find no waker).  set_next_timer re-arms   *)
(* the timer.  An interrupt taken in wfi resumes the executor after it.    *)
(* Taking the trap clears sstatus.SIE; trap_handler returns with a plain   *)
(* ret, not sret, so SIE stays clear until the executor sets it again.     *)
(***************************************************************************)
Timer ==
    /\ sie
    /\ ~panicked
    /\ LET n == Reads(typed - read_cnt)
           k == Pushed(n)
           wake == k > 0 /\ registered
       IN /\ read_cnt' = read_cnt + n
          /\ scancode_queue' = scancode_queue
                \o [i \in 1..k |-> read_cnt + i]
          /\ registered' = TakeWaker(registered, wake)
          /\ IF wake /\ Len(task_queue) >= QCap
             THEN /\ panicked' = TRUE
                  /\ UNCHANGED task_queue
             ELSE /\ task_queue' = IF wake THEN WakeTask(task_queue)
                                   ELSE task_queue
                  /\ UNCHANGED panicked
    /\ epc' = AfterWfi(epc)
    /\ sie' = SieAfterTrap(sie)
    /\ UNCHANGED <<tasks, waker_cache, queue_init, kpc, typed, printed>>

\* A character is typed on the console.
Type ==
    /\ typed < MaxKeys
    /\ typed' = typed + 1
    /\ UNCHANGED <<tasks, task_queue, waker_cache, scancode_queue, queue_init,
                   registered, sie, epc, kpc, read_cnt, printed, panicked>>

-----------------------------------------------------------------------------
(* The foreground executor.                                                *)

(***************************************************************************)
(* run_ready_tasks pops a task id.  An id whose task is gone is skipped.   *)
(* Otherwise the waker is cached and the task polled: the example task     *)
(* completes in its first poll and is removed with its waker; the          *)
(* keyboard task's poll is the steps of Kbd* below.  An empty queue ends   *)
(* run_ready_tasks and run calls sleep_if_idle.                            *)
(***************************************************************************)
RunReadyTasks ==
    /\ epc = "run"
    /\ ~panicked
    /\ IF task_queue = << >>
       THEN /\ epc' = "sleep"
            /\ UNCHANGED <<tasks, task_queue, waker_cache>>
       ELSE LET id == Head(task_queue)
            IN /\ task_queue' = Tail(task_queue)
               /\ CASE id \notin tasks ->
                         UNCHANGED <<tasks, waker_cache, epc>>
                    [] id = ExampleTask ->
                         /\ tasks' = tasks \ {id}
                         /\ waker_cache' = waker_cache \ {id}
                         /\ UNCHANGED epc
                    [] OTHER ->
                         /\ waker_cache' = waker_cache \cup {id}
                         /\ epc' = "kbd"
                         /\ UNCHANGED tasks
    /\ UNCHANGED <<scancode_queue, queue_init, registered, sie, kpc, typed,
                   read_cnt, printed, panicked>>

\* print_keypresses' first poll: ScancodeStream::new initialises the
\* queue (try_init_once), then the loop calls poll_next.
KbdStart ==
    /\ epc = "kbd" /\ kpc = "start" /\ ~panicked
    /\ queue_init' = TRUE
    /\ kpc' = "pop1"
    /\ UNCHANGED <<tasks, task_queue, waker_cache, scancode_queue, registered,
                   sie, epc, typed, read_cnt, printed, panicked>>

\* poll_next's first pop: a character is returned and printed, and the
\* loop polls again; an empty queue goes on to register the waker.
KbdPop ==
    /\ epc = "kbd" /\ kpc = "pop1" /\ ~panicked
    /\ IF scancode_queue # << >>
       THEN /\ printed' = Head(scancode_queue)
            /\ scancode_queue' = Tail(scancode_queue)
            /\ UNCHANGED kpc
       ELSE /\ kpc' = "reg"
            /\ UNCHANGED <<printed, scancode_queue>>
    /\ UNCHANGED <<tasks, task_queue, waker_cache, queue_init, registered,
                   sie, epc, typed, read_cnt, panicked>>

\* WAKER.register(cx.waker()).
KbdRegister ==
    /\ epc = "kbd" /\ kpc = "reg" /\ ~panicked
    /\ registered' = TRUE
    /\ kpc' = "pop2"
    /\ UNCHANGED <<tasks, task_queue, waker_cache, scancode_queue, queue_init,
                   sie, epc, typed, read_cnt, printed, panicked>>

\* Fault variant of the re-check: poll_next returns Pending at once.
RecheckSkipped == FALSE

\* The re-check finds the queue non-empty.
Recheck == scancode_queue # << >>

(***************************************************************************)
(* The re-check after registering: a character is taken with WAKER.take()  *)
(* and printed, and the loop polls again; else poll_next returns Pending,  *)
(* the task's poll ends and run_ready_tasks goes on popping.               *)
(***************************************************************************)
KbdRecheck ==
    /\ epc = "kbd" /\ kpc = "pop2" /\ ~panicked
    /\ IF Recheck
       THEN /\ printed' = Head(scancode_queue)
            /\ scancode_queue' = Tail(scancode_queue)
            /\ registered' = FALSE
            /\ kpc' = "pop1"
            /\ UNCHANGED epc
       ELSE /\ kpc' = "pop1"
            /\ epc' = "run"
            /\ UNCHANGED <<printed, scancode_queue, registered>>
    /\ UNCHANGED <<tasks, task_queue, waker_cache, queue_init, sie, typed,
                   read_cnt, panicked>>

\* sleep_if_idle: disable_interrupts, then test the queue; a non-empty
\* queue enables interrupts again and returns to run.
SleepCheck ==
    /\ epc = "sleep" /\ ~panicked
    /\ IF task_queue = << >>
       THEN /\ sie' = FALSE
            /\ epc' = "enable"
       ELSE /\ sie' = TRUE
            /\ epc' = "run"
    /\ UNCHANGED <<tasks, task_queue, waker_cache, scancode_queue, queue_init,
                   registered, kpc, typed, read_cnt, printed, panicked>>

\* enable_interrupts before wfi: an interrupt may now be taken before the
\* wfi instruction.
SleepEnable ==
    /\ epc = "enable" /\ ~panicked
    /\ sie' = TRUE
    /\ epc' = "wfi"
    /\ UNCHANGED <<tasks, task_queue, waker_cache, scancode_queue, queue_init,
                   registered, kpc, typed, read_cnt, printed, panicked>>

\* wfi: the hart stalls until the next interrupt.
Wfi ==
    /\ epc = "wfi" /\ ~panicked
    /\ epc' = "halt"
    /\ UNCHANGED <<tasks, task_queue, waker_cache, scancode_queue, queue_init,
                   registered, sie, kpc, typed, read_cnt, printed, panicked>>

(***************************************************************************)
(* A wfi entered with SIE clear (the timer trap came between enable and    *)
(* wfi and left SIE clear) still returns once the re-armed timer's         *)
(* interrupt is pending, since sie.STIE is set, but takes no trap: the     *)
(* executor loops back to run with SIE clear and the character still      *)
(* unread.                                                                 *)
(***************************************************************************)
WfiResume ==
    /\ epc = "halt" /\ ~sie
    /\ epc' = "run"
    /\ UNCHANGED <<tasks, task_queue, waker_cache, scancode_queue, queue_init,
                   registered, sie, kpc, typed, read_cnt, printed, panicked>>

(***************************************************************************)
(* Executor::new and the two spawns of kernel_main.  Whether SIE is set    *)
(* when executor.run starts depends on os::init, which is not under src/;  *)
(* both values are initial states.                                         *)
(***************************************************************************)
Init ==
    /\ tasks = TaskId
    /\ task_queue = <<ExampleTask, KeyboardTask>>
    /\ waker_cache = {}
    /\ scancode_queue = << >>
    /\ queue_init = FALSE
    /\ registered = FALSE
    /\ sie \in BOOLEAN
    /\ epc = "run"
    /\ kpc = "start"
    /\ typed = 0
    /\ read_cnt = 0
    /\ printed = 0
    /\ panicked = FALSE

\* What the hart executes in the foreground.
Foreground ==
    \/ RunReadyTasks
    \/ KbdStart
    \/ KbdPop
    \/ KbdRegister
    \/ KbdRecheck
    \/ SleepCheck
    \/ SleepEnable
    \/ Wfi
    \/ WfiResume

Next == Foreground \/ Timer \/ Type

(***************************************************************************)
(* Fairness.  The hart runs the foreground whenever it is not stalled in   *)
(* wfi (weak fairness).  The timer is re-armed by every handler, so its    *)
(* interrupt is pending again and is taken whenever SIE is set: it is      *)
(* taken in every behaviour in which SIE is set infinitely often (strong   *)
(* fairness).  Typing has no fairness: nobody has to type.                 *)
(***************************************************************************)
Spec == Init /\ [][Next]_vars /\ WF_vars(Foreground) /\ SF_vars(Timer)

-----------------------------------------------------------------------------
(* Properties.                                                             *)

\* Every variable holds a value of its type.
TypeOK ==
    /\ tasks \subseteq TaskId
    /\ task_queue \in Seq(TaskId) /\ Len(task_queue) <= QCap
    /\ waker_cache \subseteq TaskId
    /\ scancode_queue \in Seq(1..MaxKeys) /\ Len(scancode_queue) <= SCap
    /\ queue_init \in BOOLEAN /\ registered \in BOOLEAN /\ sie \in BOOLEAN
    /\ epc \in ExecPc /\ kpc \in KbdPc
    /\ typed \in 0..MaxKeys /\ read_cnt \in 0..typed
    /\ printed \in 0..MaxKeys /\ panicked \in BOOLEAN

(***************************************************************************)
(* No lost wakeup: whenever a character waits in SCANCODE_QUEUE and the    *)
(* keyboard task is not being polled, its id is in the task queue, so the  *)
(* executor will poll it.  This rests on poll_next registering the waker   *)
(* before its second pop, and on add_scancode waking after each push,      *)
(* whichever of the executor's steps the interrupt lands between.          *)
(***************************************************************************)
NoLostWakeup ==
    (/\ ~panicked
     /\ epc # "kbd"
     /\ scancode_queue # << >>)
    => KeyboardTask \in ToSet(task_queue)

(***************************************************************************)
(* Every character that reaches SCANCODE_QUEUE is eventually taken by      *)
(* print_keypresses, under the fairness of the hart and of the re-armed    *)
(* timer.                                                                  *)
(***************************************************************************)
KeysPrinted ==
    \A k \in 1..MaxKeys :
        (k \in ToSet(scancode_queue)) ~> (printed >= k \/ panicked)

(***************************************************************************)
(* sleep_if_idle sleeps only when idle: the hart never stalls in wfi with  *)
(* a task id in the queue.  The comment at executor.rs:105 and the         *)
(* function's name say so; the interrupt taken between enable_interrupts   *)
(* and wfi breaks it.                                                      *)
(***************************************************************************)
SleepOnlyWhenIdle == epc = "halt" => task_queue = << >>

(***************************************************************************)
(* The pushes onto the task queue never find it full: the                  *)
(* expect("task_queue full") of TaskWaker::wake_task (executor.rs:70)      *)
(* never panics in the interrupt handler.                                  *)
(***************************************************************************)
NoTaskQueueOverflow == ~panicked

=============================================================================
