---------------------------- MODULE ExecutorProofs ----------------------------
(***************************************************************************)
(* Proofs about the executor and keyboard stream of Executor.tla, for      *)
(* every task-queue and scancode-queue capacity, every MAX_READS_PER_POLL  *)
(* and every number of typed characters.                                   *)
(*                                                                         *)
(* The task queue never overflows because the keyboard task's id is in at  *)
(* most one place that can push it: the queue, WAKER, or the executor's    *)
(* hands.  A second push would need a timer interrupt while the id is     *)
(* queued and the waker registered, and the interrupt clears SIE, which    *)
(* only sleep_if_idle sets again, with an empty queue.  The inductive      *)
(* invariant says so (QueueShapes, WakeOnce), and says where the waker is  *)
(* whenever the keyboard task is neither queued nor polled (WakeArmed),    *)
(* which is what keeps a character from waiting unnoticed.                 *)
(***************************************************************************)
EXTENDS Executor, SequenceTheorems, TLAPS

\* The only contents the task queue can have: the two spawned ids, then
\* the keyboard task's id alone, then nothing.  The example task is never
\* re-queued, and the keyboard task is never removed from the task map.
QueueShapes ==
    /\ task_queue \in {<< >>, <<KeyboardTask>>, <<ExampleTask, KeyboardTask>>}
    /\ task_queue = <<ExampleTask, KeyboardTask>> => epc = "run" /\ ~registered
    /\ KeyboardTask \in tasks

\* Under QueueShapes the queue is non-empty exactly when it holds the
\* keyboard task's id.
QueueNonEmpty == task_queue # << >>

(***************************************************************************)
(* While the keyboard task's id is queued and its waker registered (or the *)
(* task is being polled), SIE is clear, so no interrupt can push the id a  *)
(* second time; and the waker is registered next to a queued id only       *)
(* while the executor is in run or in the keyboard task's poll.            *)
(***************************************************************************)
WakeOnce ==
    /\ QueueNonEmpty /\ (registered \/ epc = "kbd") => ~sie
    /\ QueueNonEmpty /\ registered => epc \in {"run", "kbd"}

(***************************************************************************)
(* When the keyboard task is neither queued nor polled, its waker is       *)
(* registered and SCANCODE_QUEUE is empty; in the re-check after           *)
(* registering, a waker no longer registered was taken by a wake, which   *)
(* queued the id.                                                          *)
(***************************************************************************)
WakeArmed ==
    ~panicked =>
      /\ epc # "kbd" /\ ~QueueNonEmpty => registered /\ scancode_queue = << >>
      /\ epc = "kbd" /\ kpc = "pop2" /\ ~registered => QueueNonEmpty

\* Outside its poll the keyboard task rests before its first poll or at the
\* first pop of poll_next, never in the middle of a register and re-check.
KbdParked == epc # "kbd" => kpc \in {"start", "pop1"}

\* The inductive invariant.
IInv ==
    /\ TypeOK /\ NoTaskQueueOverflow /\ QueueShapes /\ KbdParked
    /\ WakeOnce /\ WakeArmed

USE ExecutorAssumption

-----------------------------------------------------------------------------
(* Lemmas about the operators.                                             *)

\* What the task queue's shape says of its length and of the keyboard id.
LEMMA ShapeFacts ==
    ASSUME QueueShapes
    PROVE  /\ task_queue \in Seq(TaskId)
           /\ Len(task_queue) <= 2
           /\ QueueNonEmpty <=> KeyboardTask \in ToSet(task_queue)
<1>1. CASE task_queue = << >>
  BY <1>1 DEF QueueNonEmpty, ToSet
<1>2. CASE task_queue = <<KeyboardTask>>
  BY <1>2 DEF QueueNonEmpty, ToSet, TaskId
<1>3. CASE task_queue = <<ExampleTask, KeyboardTask>>
  BY <1>3 DEF QueueNonEmpty, ToSet, TaskId
<1> QED
  BY <1>1, <1>2, <1>3 DEF QueueShapes

\* The characters one interrupt pushes, numbered on from read_cnt.
LEMMA NumberedSeq ==
    ASSUME NEW b \in Nat, NEW k \in Nat, NEW m \in Nat, b + k <= m
    PROVE  /\ [i \in 1..k |-> b + i] \in Seq(1..m)
           /\ Len([i \in 1..k |-> b + i]) = k
<1>1. [i \in 1..k |-> b + i] \in [1..k -> 1..m]
  OBVIOUS
<1> QED
  BY <1>1, SeqDef

\* poll_keyboard reads no more than are waiting, and add_scancode pushes
\* no more than were read and no more than the queue has room for.
LEMMA PushBounds ==
    ASSUME NEW avail \in Nat, Len(scancode_queue) <= SCap,
           Len(scancode_queue) \in Nat
    PROVE  /\ Reads(avail) \in 0..avail
           /\ Pushed(Reads(avail)) \in 0..Reads(avail)
           /\ Len(scancode_queue) + Pushed(Reads(avail)) <= SCap
BY DEF Reads, Pushed

-----------------------------------------------------------------------------
(* Init and the steps.                                                     *)

LEMMA InitIInv == Init => IInv
<1> SUFFICES ASSUME Init PROVE IInv
  OBVIOUS
<1>1. task_queue = <<ExampleTask, KeyboardTask>> /\ epc = "run" /\ ~registered
  BY DEF Init
<1>2. task_queue \in Seq(TaskId) /\ Len(task_queue) <= QCap
  BY <1>1 DEF TaskId
<1>6. << >> \in Seq(1..MaxKeys) /\ Len(<< >>) = 0
  OBVIOUS
<1>7. /\ typed \in 0..MaxKeys /\ read_cnt \in 0..typed /\ printed \in 0..MaxKeys
      /\ Len(scancode_queue) <= SCap
  BY <1>6 DEF Init
<1>3. TypeOK
  BY <1>2, <1>6, <1>7, Zenon DEF Init, TypeOK, TaskId, ExecPc, KbdPc
<1>4. QueueShapes /\ NoTaskQueueOverflow /\ KbdParked
  BY <1>1 DEF Init, QueueShapes, NoTaskQueueOverflow, KbdParked, TaskId
<1>5. WakeOnce /\ WakeArmed
  BY <1>1 DEF WakeOnce, WakeArmed, QueueNonEmpty
<1> QED
  BY <1>3, <1>4, <1>5 DEF IInv

\* The parts of IInv the steps keep needing.
LEMMA IInvFacts ==
    ASSUME IInv
    PROVE  /\ TypeOK /\ QueueShapes /\ ~panicked
           /\ task_queue \in Seq(TaskId) /\ Len(task_queue) <= 2
           /\ scancode_queue \in Seq(1..MaxKeys) /\ Len(scancode_queue) \in Nat
<1>1. TypeOK /\ QueueShapes /\ ~panicked
  BY DEF IInv, NoTaskQueueOverflow
<1>2. task_queue \in Seq(TaskId) /\ Len(task_queue) <= 2
  BY <1>1, ShapeFacts
<1> QED
  BY <1>1, <1>2, LenProperties DEF TypeOK

\* A character is typed: only the console's count moves.
LEMMA TypeKeeps ==
    ASSUME IInv, Type
    PROVE  IInv'
BY DEF IInv, Type, TypeOK, NoTaskQueueOverflow, QueueShapes, KbdParked,
       WakeOnce, WakeArmed, QueueNonEmpty

\* The steps of sleep_if_idle and the wfi leave the queues and the waker
\* alone; SIE is set only while the waker sits beside no queued id.
LEMMA SleepKeeps ==
    ASSUME IInv, SleepCheck \/ SleepEnable \/ Wfi \/ WfiResume
    PROVE  IInv'
<1>1. epc \in {"sleep", "enable", "wfi", "halt"}
  BY DEF SleepCheck, SleepEnable, Wfi, WfiResume
<1>2. QueueNonEmpty => ~registered
  BY <1>1 DEF IInv, WakeOnce
<1>3. task_queue # <<ExampleTask, KeyboardTask>>
  BY <1>1 DEF IInv, QueueShapes
<1>4. TypeOK'
  BY DEF IInv, TypeOK, SleepCheck, SleepEnable, Wfi, WfiResume, ExecPc
<1> QED
  BY <1>1, <1>2, <1>3, <1>4
     DEF IInv, NoTaskQueueOverflow, QueueShapes, KbdParked, WakeOnce,
         WakeArmed, QueueNonEmpty, SleepCheck, SleepEnable, Wfi, WfiResume

(***************************************************************************)
(* run_ready_tasks pops the id at the head: the example task's is only     *)
(* ever in front of the keyboard task's, which it leaves alone in the      *)
(* queue; the keyboard task's is the last, and popping it starts a poll.   *)
(***************************************************************************)
LEMMA RunKeeps ==
    ASSUME IInv, RunReadyTasks
    PROVE  IInv'
<1>0. /\ TypeOK /\ QueueShapes /\ ~panicked /\ epc = "run"
      /\ UNCHANGED <<scancode_queue, queue_init, registered, sie, kpc, typed,
                     read_cnt, printed, panicked>>
  BY IInvFacts DEF RunReadyTasks
<1>a. /\ scancode_queue' \in Seq(1..MaxKeys) /\ Len(scancode_queue') <= SCap
      /\ queue_init' \in BOOLEAN /\ registered' \in BOOLEAN /\ sie' \in BOOLEAN
      /\ kpc' \in KbdPc /\ typed' \in 0..MaxKeys /\ read_cnt' \in 0..typed'
      /\ printed' \in 0..MaxKeys /\ panicked' \in BOOLEAN /\ ~panicked'
  BY <1>0 DEF TypeOK
<1>b. kpc \in {"start", "pop1"}
  BY <1>0 DEF IInv, KbdParked
<1>1. CASE task_queue = << >>
  <2>1. epc' = "sleep" /\ UNCHANGED <<tasks, task_queue, waker_cache>>
    BY <1>1 DEF RunReadyTasks
  <2>2. TypeOK'
    BY <1>0, <1>a, <2>1 DEF TypeOK, ExecPc
  <2>3. (registered /\ scancode_queue = << >>)'
    BY <1>0, <1>1 DEF IInv, WakeArmed, QueueNonEmpty
  <2> QED
    BY <1>0, <1>1, <1>a, <1>b, <2>1, <2>2, <2>3
       DEF IInv, NoTaskQueueOverflow, QueueShapes, KbdParked,
           WakeOnce, WakeArmed, QueueNonEmpty
<1>2. CASE task_queue = <<KeyboardTask>>
  <2>1. Head(task_queue) = KeyboardTask /\ Tail(task_queue) = << >>
    BY <1>2
  <2>2. KeyboardTask \in tasks /\ KeyboardTask # ExampleTask
    BY <1>0 DEF QueueShapes, KeyboardTask, ExampleTask
  <2>3. /\ task_queue' = << >> /\ epc' = "kbd" /\ UNCHANGED tasks
        /\ waker_cache' = waker_cache \cup {KeyboardTask}
    BY <1>2, <2>1, <2>2 DEF RunReadyTasks
  <2>4. TypeOK'
    BY <1>0, <1>a, <2>3 DEF TypeOK, ExecPc, TaskId
  <2> QED
    BY <1>0, <1>a, <1>b, <2>2, <2>3, <2>4
       DEF IInv, NoTaskQueueOverflow, QueueShapes, KbdParked,
           WakeOnce, WakeArmed, QueueNonEmpty
<1>3. CASE task_queue = <<ExampleTask, KeyboardTask>>
  <2>1. Head(task_queue) = ExampleTask /\ Tail(task_queue) = <<KeyboardTask>>
    BY <1>3
  <2>2. /\ task_queue' = <<KeyboardTask>> /\ epc' = "run"
        /\ tasks' \subseteq tasks /\ KeyboardTask \in tasks'
        /\ waker_cache' \subseteq waker_cache
    BY <1>0, <1>3, <2>1 DEF RunReadyTasks, QueueShapes, KeyboardTask, ExampleTask
  <2>3. ~registered /\ <<KeyboardTask>> # << >>
        /\ <<KeyboardTask>> # <<ExampleTask, KeyboardTask>>
    BY <1>0, <1>3 DEF QueueShapes
  <2>4. <<KeyboardTask>> \in Seq(TaskId) /\ Len(<<KeyboardTask>>) = 1
    BY DEF TaskId
  <2>5. TypeOK'
    BY <1>0, <1>a, <2>2, <2>4 DEF TypeOK, ExecPc
  <2> QED
    BY <1>0, <1>a, <2>2, <2>3, <2>5
       DEF IInv, NoTaskQueueOverflow, QueueShapes, KbdParked,
           WakeOnce, WakeArmed, QueueNonEmpty
<1> QED
  BY <1>0, <1>1, <1>2, <1>3 DEF QueueShapes

\* The steps of the keyboard task's poll happen while the executor holds
\* the task: the queue is not the initial one, and the poll's own control
\* point moves.
LEMMA KbdCommon ==
    ASSUME IInv, epc = "kbd"
    PROVE  /\ task_queue # <<ExampleTask, KeyboardTask>>
           /\ QueueNonEmpty => ~sie
BY DEF IInv, QueueShapes, WakeOnce

LEMMA KbdStartKeeps ==
    ASSUME IInv, KbdStart
    PROVE  IInv'
BY KbdCommon DEF IInv, KbdStart, TypeOK, NoTaskQueueOverflow, QueueShapes,
   KbdParked, WakeOnce, WakeArmed, QueueNonEmpty, KbdPc

\* print_keypresses takes the head character.
LEMMA TakeHead ==
    ASSUME IInv, scancode_queue # << >>
    PROVE  /\ Head(scancode_queue) \in 0..MaxKeys
           /\ Tail(scancode_queue) \in Seq(1..MaxKeys)
           /\ Len(Tail(scancode_queue)) <= SCap
<1>1. scancode_queue \in Seq(1..MaxKeys) /\ Len(scancode_queue) <= SCap
  BY DEF IInv, TypeOK
<1> QED
  BY <1>1, HeadTailProperties

LEMMA KbdPopKeeps ==
    ASSUME IInv, KbdPop
    PROVE  IInv'
<1>1. CASE scancode_queue # << >>
  BY <1>1, TakeHead, KbdCommon
     DEF IInv, KbdPop, TypeOK, NoTaskQueueOverflow, QueueShapes,
         KbdParked, WakeOnce, WakeArmed, QueueNonEmpty
<1>2. CASE scancode_queue = << >>
  BY <1>2, KbdCommon
     DEF IInv, KbdPop, TypeOK, NoTaskQueueOverflow, QueueShapes,
         KbdParked, WakeOnce, WakeArmed, QueueNonEmpty, KbdPc
<1> QED
  BY <1>1, <1>2

LEMMA KbdRegisterKeeps ==
    ASSUME IInv, KbdRegister
    PROVE  IInv'
BY KbdCommon DEF IInv, KbdRegister, TypeOK, NoTaskQueueOverflow, QueueShapes,
   KbdParked, WakeOnce, WakeArmed, QueueNonEmpty, KbdPc

(***************************************************************************)
(* The re-check: with a character the waker is taken back and the loop    *)
(* goes on; without one the poll ends with the waker registered, unless a *)
(* wake took it, and then the id is queued.                                *)
(***************************************************************************)
LEMMA KbdRecheckKeeps ==
    ASSUME IInv, KbdRecheck
    PROVE  IInv'
<1>0. epc = "kbd" /\ kpc = "pop2" /\ ~panicked
  BY DEF KbdRecheck
<1>1. CASE Recheck
  BY <1>0, <1>1, TakeHead, KbdCommon
     DEF IInv, KbdRecheck, Recheck, TypeOK, NoTaskQueueOverflow, QueueShapes,
         KbdParked, WakeOnce, WakeArmed, QueueNonEmpty, KbdPc
<1>2. CASE ~Recheck
  <2>1. /\ scancode_queue = << >> /\ epc' = "run" /\ kpc' = "pop1"
        /\ UNCHANGED <<scancode_queue, registered, task_queue, sie, panicked>>
    BY <1>2 DEF KbdRecheck, Recheck
  <2>2. ~QueueNonEmpty => registered
    BY <1>0 DEF IInv, WakeArmed
  <2>3. QueueNonEmpty => ~sie
    BY <1>0, KbdCommon
  <2> QED
    BY <1>0, <2>1, <2>2, <2>3, KbdCommon
       DEF IInv, KbdRecheck, TypeOK, NoTaskQueueOverflow, QueueShapes,
           KbdParked, WakeOnce, WakeArmed, QueueNonEmpty, KbdPc, ExecPc
<1> QED
  BY <1>1, <1>2

(***************************************************************************)
(* The timer interrupt.  A wake needs the waker registered and SIE set, so *)
(* by WakeOnce the keyboard task's id is not queued: the queue is empty,   *)
(* the push finds room and queues the id alone.  Without a wake the task  *)
(* queue is left as it was, and a registered waker means nothing was       *)
(* pushed onto SCANCODE_QUEUE.  SIE is clear afterwards.                   *)
(***************************************************************************)
LEMMA TimerKeeps ==
    ASSUME IInv, Timer
    PROVE  IInv'
<1> DEFINE n == Reads(typed - read_cnt)
           k == Pushed(n)
           wake == k > 0 /\ registered
           pushed == [i \in 1..k |-> read_cnt + i]
<1>0. /\ TypeOK /\ QueueShapes /\ ~panicked /\ sie
      /\ Len(scancode_queue) \in Nat
  BY IInvFacts DEF Timer
<1>1. /\ typed \in 0..MaxKeys /\ read_cnt \in 0..typed
      /\ scancode_queue \in Seq(1..MaxKeys) /\ Len(scancode_queue) <= SCap
  BY <1>0 DEF TypeOK
<1>2. /\ n \in 0..typed - read_cnt
      /\ k \in 0..n
      /\ Len(scancode_queue) + k <= SCap
  <2>1. typed - read_cnt \in Nat
    BY <1>1
  <2> QED
    BY <1>0, <1>1, <2>1, PushBounds DEF n, k
<1>3. /\ pushed \in Seq(1..MaxKeys) /\ Len(pushed) = k
  <2>1. read_cnt \in Nat /\ k \in Nat /\ MaxKeys \in Nat /\ read_cnt + k <= MaxKeys
    BY <1>1, <1>2
  <2> QED
    BY <2>1, NumberedSeq
<1>4. /\ read_cnt' = read_cnt + n
      /\ scancode_queue' = scancode_queue \o pushed
      /\ registered' = (registered /\ ~wake)
      /\ epc' = AfterWfi(epc) /\ sie' = FALSE
      /\ UNCHANGED <<tasks, waker_cache, queue_init, kpc, typed, printed>>
  BY DEF Timer, TakeWaker, SieAfterTrap, n, k, wake, pushed
<1>q. IF wake /\ Len(task_queue) >= QCap
      THEN panicked' = TRUE /\ UNCHANGED task_queue
      ELSE /\ task_queue' = IF wake THEN WakeTask(task_queue) ELSE task_queue
           /\ UNCHANGED panicked
  BY DEF Timer, n, k, wake
<1>c. /\ typed' \in 0..MaxKeys /\ read_cnt' \in 0..typed'
      /\ printed' \in 0..MaxKeys /\ sie' \in BOOLEAN
      /\ queue_init' \in BOOLEAN /\ kpc' \in KbdPc
      /\ tasks' \subseteq TaskId /\ waker_cache' \subseteq TaskId
  <2>1. typed' \in 0..MaxKeys /\ read_cnt' \in 0..typed'
    <3>1. read_cnt' = read_cnt + n /\ typed' = typed
      BY <1>4
    <3> HIDE DEF n
    <3> QED
      BY <1>1, <1>2, <3>1
  <2>2. /\ printed' \in 0..MaxKeys /\ sie' \in BOOLEAN
        /\ queue_init' \in BOOLEAN /\ kpc' \in KbdPc
        /\ tasks' \subseteq TaskId /\ waker_cache' \subseteq TaskId
    BY <1>0, <1>4, Zenon DEF TypeOK
  <2> QED
    BY <2>1, <2>2
<1>d. registered' \in BOOLEAN
  BY <1>4, Zenon
<1>5. /\ scancode_queue' \in Seq(1..MaxKeys)
      /\ Len(scancode_queue') <= SCap
  BY <1>1, <1>2, <1>3, <1>4, ConcatProperties
<1>6. /\ epc' \in ExecPc
      /\ (epc' = "kbd") = (epc = "kbd")
      /\ epc \in {"run", "kbd"} => epc' = epc
  BY <1>0, <1>4 DEF AfterWfi, TypeOK, ExecPc
<1> HIDE DEF n, k, pushed, wake
<1>7. CASE wake
  <2>1. registered /\ ~QueueNonEmpty
    BY <1>0, <1>7 DEF IInv, WakeOnce, wake
  <2>2. task_queue = << >> /\ ~(Len(task_queue) >= QCap)
    BY <2>1 DEF QueueNonEmpty
  <2>3. task_queue' = WakeTask(task_queue) /\ panicked' = panicked
    BY <1>q, <1>7, <2>2, Zenon
  <2>4. task_queue' = <<KeyboardTask>>
    BY <2>2, <2>3 DEF WakeTask
  <2>5. ~panicked' /\ ~registered'
    BY <1>0, <1>4, <1>7, <2>3, Zenon
  <2>6. <<KeyboardTask>> \in Seq(TaskId) /\ Len(<<KeyboardTask>>) <= QCap
        /\ <<KeyboardTask>> # << >>
        /\ <<KeyboardTask>> # <<ExampleTask, KeyboardTask>>
    BY DEF TaskId
  <2>7. TypeOK'
    <3>1. task_queue' \in Seq(TaskId) /\ Len(task_queue') <= QCap
      BY <2>4, <2>6
    <3>2. panicked' \in BOOLEAN
      BY <2>3, <1>0 DEF TypeOK
    <3> QED
      BY <1>c, <1>d, <1>5, <1>6, <3>1, <3>2 DEF TypeOK
  <2>8. QueueNonEmpty' /\ NoTaskQueueOverflow'
    BY <2>4, <2>5, <2>6 DEF QueueNonEmpty, NoTaskQueueOverflow
  <2>9. QueueShapes'
    BY <1>0, <1>4, <2>4, <2>6 DEF QueueShapes
  <2>10. KbdParked' /\ WakeOnce' /\ WakeArmed'
    BY <1>0, <1>4, <1>6, <2>5, <2>8 DEF IInv, KbdParked, WakeOnce, WakeArmed
  <2> QED
    BY <2>7, <2>8, <2>9, <2>10 DEF IInv
<1>8. CASE ~wake
  <2>1. UNCHANGED <<task_queue, panicked, registered>>
    <3>1. ~(wake /\ Len(task_queue) >= QCap)
      BY <1>8
    <3>2. task_queue' = (IF wake THEN WakeTask(task_queue) ELSE task_queue)
          /\ panicked' = panicked
      BY <1>q, <3>1
    <3>3. task_queue' = task_queue
      BY <3>2, <1>8
    <3>4. registered' = registered
      <4>1. registered \in BOOLEAN
        BY <1>0 DEF TypeOK
      <4> QED
        BY <4>1, <1>4, <1>8, Zenon
    <3> QED
      BY <3>2, <3>3, <3>4
  <2>2. registered => k = 0
    BY <1>2, <1>8 DEF wake
  <2>3. registered => scancode_queue' = scancode_queue
    <3> SUFFICES ASSUME registered PROVE scancode_queue' = scancode_queue
      OBVIOUS
    <3>1. pushed = << >>
      BY <2>2 DEF pushed
    <3> QED
      BY <1>1, <1>4, <3>1, ConcatEmptySeq
  <2>4. TypeOK'
    <3>1. /\ task_queue' \in Seq(TaskId) /\ Len(task_queue') <= QCap
          /\ panicked' \in BOOLEAN
      BY <1>0, <2>1 DEF TypeOK
    <3> QED
      BY <1>c, <1>d, <1>5, <1>6, <3>1 DEF TypeOK
  <2>5. QueueShapes' /\ KbdParked' /\ NoTaskQueueOverflow'
    BY <1>0, <1>4, <1>6, <2>1
       DEF IInv, QueueShapes, KbdParked, NoTaskQueueOverflow
  <2>6. WakeOnce'
    BY <1>0, <1>4, <1>6, <2>1 DEF IInv, WakeOnce, QueueNonEmpty
  <2>7. WakeArmed'
    BY <1>0, <1>4, <1>6, <2>1, <2>3 DEF IInv, WakeArmed, QueueNonEmpty
  <2> QED
    BY <2>4, <2>5, <2>6, <2>7 DEF IInv
<1> QED
  BY <1>7, <1>8

LEMMA NextIInv == IInv /\ [Next]_vars => IInv'
<1> SUFFICES ASSUME IInv, [Next]_vars PROVE IInv'
  OBVIOUS
<1>1. CASE UNCHANGED vars
  BY <1>1 DEF vars, IInv, TypeOK, NoTaskQueueOverflow, QueueShapes,
     KbdParked, WakeOnce, WakeArmed, QueueNonEmpty
<1> QED
  BY <1>1, TypeKeeps, SleepKeeps, RunKeeps, KbdStartKeeps, KbdPopKeeps,
     KbdRegisterKeeps, KbdRecheckKeeps, TimerKeeps DEF Next, Foreground

\* The invariant gives the keyboard task's id wherever a character waits.
LEMMA IInvNoLostWakeup == IInv => NoLostWakeup
<1> SUFFICES ASSUME IInv, ~panicked, epc # "kbd", scancode_queue # << >>
             PROVE  KeyboardTask \in ToSet(task_queue)
  BY DEF NoLostWakeup
<1>1. QueueNonEmpty
  BY DEF IInv, WakeArmed
<1> QED
  BY <1>1, ShapeFacts DEF IInv

-----------------------------------------------------------------------------
(* The theorems.                                                           *)

(***************************************************************************)
(* Every variable of the executor, the keyboard stream and the interrupt   *)
(* keeps its type, for every capacity: in particular the task queue never  *)
(* holds more ids than ArrayQueue::new(QCap) has slots.                    *)
(***************************************************************************)
THEOREM ExecutorTypeInvariant == Spec => []TypeOK
<1>1. IInv => TypeOK
  BY DEF IInv
<1> QED
  BY <1>1, InitIInv, NextIInv, PTL DEF Spec

(***************************************************************************)
(* TaskWaker::wake_task's expect("task_queue full") never fires inside     *)
(* the timer interrupt, for every capacity of at least the two spawned     *)
(* ids: AtomicWaker hands the keyboard task's waker out once per          *)
(* registration, and the trap leaves SIE clear until sleep_if_idle finds   *)
(* the queue empty.                                                        *)
(***************************************************************************)
THEOREM NoTaskQueueOverflowInvariant == Spec => []NoTaskQueueOverflow
<1>1. IInv => NoTaskQueueOverflow
  BY DEF IInv
<1> QED
  BY <1>1, InitIInv, NextIInv, PTL DEF Spec

(***************************************************************************)
(* No lost wakeup, for every capacity, MAX_READS_PER_POLL and number of    *)
(* typed characters: a character in SCANCODE_QUEUE while the keyboard     *)
(* task is not being polled always has the task's id in the task queue,   *)
(* whichever step of poll_next or sleep_if_idle the interrupt comes in.   *)
(***************************************************************************)
THEOREM NoLostWakeupInvariant == Spec => []NoLostWakeup
BY InitIInv, NextIInv, IInvNoLostWakeup, PTL DEF Spec

=============================================================================
