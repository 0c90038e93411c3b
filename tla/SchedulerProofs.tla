--------------------------- MODULE SchedulerProofs ---------------------------
(***************************************************************************)
(* Proofs about the scheduler of Scheduler.tla, for every MaxPid and       *)
(* QUANTUM.                                                                *)
(*                                                                         *)
(* The inductive invariant SInv is IInv (the typing of the PID allocator, *)
(* the table, the PCB fields and current, with RunningIsCurrent) and       *)
(* QueueInv (the queue is a sequence of PIDs, ReadyInQueue and             *)
(* NoDanglingPid).  The queue half needs what remove_process's retain      *)
(* returns: Retain is a recursive function, and RetainFacts proves, by a   *)
(* least-counterexample argument over the prefixes of the queue, that it   *)
(* keeps a sequence of PIDs whose set is the old one without pid.          *)
(***************************************************************************)
EXTENDS Scheduler, WellFoundedInduction, TLAPS

\* TypeOK without the type of the ready queue.
TypeCore ==
    /\ next_pid \in 1..MaxPid + 1
    /\ processes \subseteq 1..next_pid - 1
    /\ state \in [Pid -> ProcessState]
    /\ time_slice \in [Pid -> 0..QUANTUM]
    /\ current \in Pid \cup {NoPid}

\* The inductive invariant: the typing above and RunningIsCurrent.
IInv == TypeCore /\ RunningIsCurrent

\* No PCB of st is Running unless it is current: what RunningIsCurrent says
\* of the PCB fields handed to schedule.
OnlyCurrentRuns(st) == \A p \in processes : st[p] = Running => p = current

\* The process states are distinct strings, PIDs a range of naturals.
USE DEF Ready, Running, Blocked, Zombie, ProcessState, Pid, NoPid

-----------------------------------------------------------------------------
(***************************************************************************)
(* Facts about Retain, the VecDeque::retain of remove_process.  Retain is  *)
(* a recursive function defined in a LET; KeptFn names it by the CHOOSE   *)
(* the definition stands for, KeptStep is one step of its recursion.  The  *)
(* recursion is unfolded by hand: a least-counterexample argument over the *)
(* naturals (MinIn) stands in for the induction schemas, whose operator    *)
(* parameters the provers cannot instantiate.                              *)
(***************************************************************************)
KeptStep(q, pid, f, i) ==
    IF i = 0 THEN << >> ELSE IF q[i] # pid THEN Append(f[i - 1], q[i]) ELSE f[i - 1]
KeptFn(q, pid) == CHOOSE f : f = [i \in 0..Len(q) |-> KeptStep(q, pid, f, i)]
\* The recursion of kept has a solution on the prefix 0..n.
PrefixExists(q, pid, n) == \E g : g = [i \in 0..n |-> KeptStep(q, pid, g, i)]

\* Retain is the value at Len(q) of the function its LET defines.
LEMMA RetainIsKept ==
    ASSUME NEW q, NEW pid
    PROVE  Retain(q, pid) = KeptFn(q, pid)[Len(q)]
BY DEF Retain, KeptFn, KeptStep

\* Every non-empty set of naturals has a least element (FiniteSetsExt Min).
LEMMA MinIn ==
    ASSUME NEW S \in SUBSET Nat, S # {}
    PROVE  Min(S) \in S /\ \A y \in S : Min(S) <= y
<1> DEFINE LT == OpToRel(<, Nat)
<1>1. \E x \in S : \A y \in S : ~(<<y, x>> \in LT)
  BY NatLessThanWellFounded, WFMin
<1>2. \A x, y \in Nat : y < x => <<y, x>> \in LT
  BY Zenon DEF OpToRel
<1> HIDE DEF LT
<1>3. PICK x \in S : \A y \in S : ~(<<y, x>> \in LT)
  BY <1>1
<1>4. \A y \in S : ~(y < x)
  BY <1>2, <1>3, Zenon
<1>5. \A y \in S : x <= y
  BY <1>4, SMT
<1> QED
  BY <1>5 DEF Min

\* A solution on 0..m-1 extends by one step to a solution on 0..m.
LEMMA PrefixStep ==
    ASSUME NEW q, NEW pid, NEW m \in Nat \ {0}, PrefixExists(q, pid, m - 1)
    PROVE  PrefixExists(q, pid, m)
<1>1. PICK g : g = [i \in 0..m - 1 |-> KeptStep(q, pid, g, i)]
  BY DEF PrefixExists
<1> DEFINE h == [i \in 0..m |-> IF i < m THEN g[i] ELSE KeptStep(q, pid, g, m)]
<1>2. \A i \in 0..m : KeptStep(q, pid, h, i) = KeptStep(q, pid, g, i)
  <2> SUFFICES ASSUME NEW i \in 0..m PROVE KeptStep(q, pid, h, i) = KeptStep(q, pid, g, i)
    OBVIOUS
  <2>1. CASE i = 0
    BY <2>1 DEF KeptStep
  <2>2. CASE i # 0
    <3>1. i - 1 \in 0..m - 1 /\ i - 1 < m
      BY <2>2
    <3>2. h[i - 1] = g[i - 1]
      BY <3>1
    <3> QED
      BY <3>2, <2>2 DEF KeptStep
  <2> QED
    BY <2>1, <2>2
<1>3. \A i \in 0..m : h[i] = KeptStep(q, pid, h, i)
  <2> SUFFICES ASSUME NEW i \in 0..m PROVE h[i] = KeptStep(q, pid, h, i)
    OBVIOUS
  <2>1. CASE i < m
    <3>1. i \in 0..m - 1
      BY <2>1
    <3>2. h[i] = g[i] /\ g[i] = KeptStep(q, pid, g, i)
      BY <1>1, <2>1, <3>1
    <3> QED
      BY <3>2, <1>2
  <2>2. CASE i = m
    BY <2>2, <1>2
  <2> QED
    BY <2>1, <2>2
<1>4. h = [i \in 0..m |-> KeptStep(q, pid, h, i)]
  BY <1>3
<1> QED
  BY <1>4 DEF PrefixExists
(***************************************************************************)
(* The defining equation of kept has a solution on all of 0..Len(q), so    *)
(* KeptFn satisfies it: the least n with no solution on 0..n cannot be 0   *)
(* and cannot be above 0 either, by PrefixStep.                            *)
(***************************************************************************)
LEMMA KeptExists ==
    ASSUME NEW q, NEW pid, Len(q) \in Nat
    PROVE  KeptFn(q, pid) = [i \in 0..Len(q) |-> KeptStep(q, pid, KeptFn(q, pid), i)]
<1> DEFINE Bad == {n \in 0..Len(q) : ~PrefixExists(q, pid, n)}
<1>1. Bad = {}
  <2> SUFFICES ASSUME Bad # {} PROVE FALSE
    BY DEF Bad
  <2>0. Bad \subseteq Nat
    BY DEF Bad
  <2>1. PICK m \in Bad : \A y \in Bad : m <= y
    BY <2>0, MinIn
  <2>a. m \in 0..Len(q) /\ ~PrefixExists(q, pid, m)
    BY <2>1 DEF Bad
  <2>2. m # 0
    <3>1. PrefixExists(q, pid, 0)
      <4> DEFINE g0 == [i \in 0..0 |-> << >>]
      <4>1. g0 = [i \in 0..0 |-> KeptStep(q, pid, g0, i)]
        BY DEF KeptStep, g0
      <4> QED
        BY <4>1 DEF PrefixExists
    <3> QED
      BY <2>a, <3>1
  <2>3. m - 1 \in 0..Len(q) /\ m - 1 \notin Bad
    BY <2>1, <2>a, <2>2
  <2>4. PrefixExists(q, pid, m - 1)
    BY <2>3 DEF Bad
  <2>5. m \in Nat \ {0}
    BY <2>a, <2>2
  <2> QED
    BY <2>a, <2>4, <2>5, PrefixStep
<1>2. PrefixExists(q, pid, Len(q))
  BY <1>1 DEF Bad
<1> QED
  BY <1>2 DEF PrefixExists, KeptFn

\* ToSet of a sequence with one more element.
LEMMA ToSetAppend ==
    ASSUME NEW S, NEW s \in Seq(S), NEW x
    PROVE  ToSet(Append(s, x)) = ToSet(s) \cup {x}
BY DEF ToSet

\* What kept holds after i entries: PIDs of S, the first i entries but pid.
KeptOK(S, q, pid, n) ==
    KeptFn(q, pid)[n] \in Seq(S) /\ ToSet(KeptFn(q, pid)[n]) = {q[k] : k \in 1..n} \ {pid}

\* VecDeque::retain keeps a sequence of the same PIDs, without pid.
LEMMA RetainFacts ==
    ASSUME NEW S, NEW q \in Seq(S), NEW pid
    PROVE  /\ Retain(q, pid) \in Seq(S)
           /\ ToSet(Retain(q, pid)) = ToSet(q) \ {pid}
<1> DEFINE f == KeptFn(q, pid)
<1>0. Len(q) \in Nat
  OBVIOUS
<1>1. f = [i \in 0..Len(q) |-> KeptStep(q, pid, f, i)]
  BY <1>0, KeptExists
<1>2. \A n \in 0..Len(q) : KeptOK(S, q, pid, n)
  <2> DEFINE Bad == {n \in 0..Len(q) : ~KeptOK(S, q, pid, n)}
  <2> SUFFICES ASSUME Bad # {} PROVE FALSE
    BY DEF Bad
  <2>0. Bad \subseteq Nat
    BY <1>0 DEF Bad
  <2>1. PICK m \in Bad : \A y \in Bad : m <= y
    BY <2>0, MinIn
  <2>a. m \in 0..Len(q) /\ ~KeptOK(S, q, pid, m)
    BY <2>1 DEF Bad
  <2>2. m # 0
    <3>1. f[0] = << >>
      BY <1>0, <1>1 DEF KeptStep
    <3>2. KeptOK(S, q, pid, 0)
      BY <3>1 DEF ToSet, KeptOK, f
    <3> QED
      BY <2>a, <3>2
  <2>3. m - 1 \in 0..Len(q) /\ m \in 1..Len(q)
    BY <2>a, <2>2, <1>0
  <2>b. KeptOK(S, q, pid, m - 1)
    <3>1. m - 1 \notin Bad
      BY <2>1, <2>3
    <3> QED
      BY <2>3, <3>1 DEF Bad
  <2>4. f[m] = IF q[m] # pid THEN Append(f[m - 1], q[m]) ELSE f[m - 1]
    <3>1. f[m] = KeptStep(q, pid, f, m)
      BY <2>3, <1>1
    <3> QED
      BY <3>1, <2>2 DEF KeptStep
  <2>5. q[m] \in S
    BY <2>3
  <2>c. {q[k] : k \in 1..m} = {q[k] : k \in 1..m - 1} \cup {q[m]}
    <3>1. 1..m = (1..m - 1) \cup {m}
      BY <2>3
    <3> QED
      BY <3>1
  <2>d. f[m - 1] \in Seq(S) /\ ToSet(f[m - 1]) = {q[k] : k \in 1..m - 1} \ {pid}
    BY <2>b DEF KeptOK, f
  <2>6. KeptOK(S, q, pid, m)
    <3>1. CASE q[m] # pid
      <4>1. f[m] = Append(f[m - 1], q[m])
        BY <2>4, <3>1
      <4>2. f[m] \in Seq(S)
        BY <4>1, <2>5, <2>d
      <4>3. ToSet(f[m]) = ToSet(f[m - 1]) \cup {q[m]}
        BY <4>1, <2>d, ToSetAppend
      <4> QED
        BY <4>2, <4>3, <2>c, <2>d, <3>1 DEF KeptOK, f
    <3>2. CASE q[m] = pid
      <4>1. f[m] = f[m - 1]
        BY <2>4, <3>2
      <4> QED
        BY <4>1, <2>c, <2>d, <3>2 DEF KeptOK, f
    <3> QED
      BY <3>1, <3>2
  <2> QED
    BY <2>a, <2>6
<1>3. KeptOK(S, q, pid, Len(q))
  BY <1>0, <1>2
<1>4. ToSet(q) = {q[k] : k \in 1..Len(q)}
  BY DEF ToSet
<1> QED
  BY <1>3, <1>4, RetainIsKept DEF KeptOK, f

-----------------------------------------------------------------------------

(***************************************************************************)
(* Scheduler::schedule keeps the invariant: whatever PCB states the caller *)
(* hands it, if none but the current one is Running, then after pick_next  *)
(* and the refresh, start_process or switch_to, only the new current one   *)
(* is Running.  switch_to relies on Demote clearing the outgoing one.      *)
(***************************************************************************)
LEMMA ScheduleKeepsIInv ==
    ASSUME TypeCore,
           NEW st \in [Pid -> ProcessState],
           NEW sl \in [Pid -> 0..QUANTUM],
           OnlyCurrentRuns(st),
           Schedule(st, sl),
           UNCHANGED <<next_pid, processes>>
    PROVE  IInv'
<1> USE QuantumAssumption, MaxPidAssumption
<1>0. processes \subseteq Pid
  BY DEF TypeCore
<1>1. CASE ready_queue = << >> /\ state' = st /\ time_slice' = sl
                /\ UNCHANGED <<ready_queue, current>>
  BY <1>1 DEF IInv, TypeCore, RunningIsCurrent, OnlyCurrentRuns
<1>2. CASE /\ Head(ready_queue) \notin processes
           /\ state' = st /\ time_slice' = sl /\ UNCHANGED current
  BY <1>2 DEF IInv, TypeCore, RunningIsCurrent, OnlyCurrentRuns
<1>3. CASE /\ Head(ready_queue) \in processes
           /\ time_slice' = [sl EXCEPT ![Head(ready_queue)] = QUANTUM]
           /\ Head(ready_queue) = current
           /\ state' = [st EXCEPT ![Head(ready_queue)] = Running]
           /\ UNCHANGED current
  BY <1>3 DEF IInv, TypeCore, RunningIsCurrent, OnlyCurrentRuns
<1>4. CASE /\ Head(ready_queue) \in processes
           /\ time_slice' = [sl EXCEPT ![Head(ready_queue)] = QUANTUM]
           /\ current = NoPid
           /\ state' = [st EXCEPT ![Head(ready_queue)] = Running]
           /\ current' = Head(ready_queue)
  <2>1. \A p \in processes : st[p] # Running
    BY <1>4 DEF OnlyCurrentRuns, TypeCore
  <2>2. Head(ready_queue) \in Pid
    BY <1>4, <1>0
  <2>3. TypeCore'
    BY <1>4, <2>2 DEF TypeCore
  <2>4. RunningIsCurrent'
    BY <1>4, <2>1, <2>2 DEF RunningIsCurrent
  <2> QED
    BY <2>3, <2>4 DEF IInv
<1>5. CASE /\ Head(ready_queue) \in processes
           /\ time_slice' = [sl EXCEPT ![Head(ready_queue)] = QUANTUM]
           /\ current \notin {Head(ready_queue), NoPid}
           /\ state' = [Demote(st, current)
                           EXCEPT ![Head(ready_queue)] = Running]
           /\ current' = Head(ready_queue)
  <2>1. current \in Pid
    BY <1>5 DEF TypeCore, NoPid
  <2>2. \A p \in processes : Demote(st, current)[p] # Running
    BY <2>1 DEF Demote, OnlyCurrentRuns
  <2>3. Demote(st, current) \in [Pid -> ProcessState]
    BY <2>1 DEF Demote
  <2>4. Head(ready_queue) \in Pid
    BY <1>5, <1>0
  <2>5. TypeCore'
    BY <1>5, <2>3, <2>4 DEF TypeCore
  <2>6. RunningIsCurrent'
    BY <1>5, <2>2, <2>4 DEF RunningIsCurrent
  <2> QED
    BY <2>5, <2>6 DEF IInv
<1> QED
  BY <1>1, <1>2, <1>3, <1>4, <1>5 DEF Schedule

(***************************************************************************)
(* The ready queue.  QueueInv is the queue half of the invariant: the      *)
(* queue is a sequence of PIDs, every Ready process of the table is in it  *)
(* and it names only processes of the table, as does current.  It rests on *)
(* IInv for the typing of the rest of the state.                           *)
(***************************************************************************)
QueueInv ==
    /\ ready_queue \in Seq(Pid)
    /\ ReadyInQueue
    /\ NoDanglingPid

\* Every Ready PCB of st is in the ready queue: what ReadyInQueue says of
\* the PCB fields handed to schedule.
ReadyIn(st) == \A p \in processes : st[p] = Ready => p \in ToSet(ready_queue)

\* pick_next's pop_front: the popped head and the rest make up the queue.
LEMMA ToSetTail ==
    ASSUME NEW S, NEW s \in Seq(S), s # << >>
    PROVE  /\ Tail(s) \in Seq(S)
           /\ Head(s) \in S
           /\ ToSet(s) = ToSet(Tail(s)) \cup {Head(s)}
<1>1. Tail(s) \in Seq(S) /\ Head(s) \in S
  OBVIOUS
<1>2. ToSet(s) \subseteq ToSet(Tail(s)) \cup {Head(s)}
  <2> SUFFICES ASSUME NEW i \in 1..Len(s) PROVE s[i] \in ToSet(Tail(s)) \cup {Head(s)}
    BY DEF ToSet
  <2>1. CASE i = 1
    <3>1. Head(s) = s[1]
      OBVIOUS
    <3> QED
      BY <2>1, <3>1
  <2>2. CASE i # 1
    <3>1. i - 1 \in 1..Len(Tail(s)) /\ Tail(s)[i - 1] = s[i]
      BY <2>2
    <3>2. i - 1 \in DOMAIN Tail(s)
      BY <3>1
    <3>3. s[i] \in ToSet(Tail(s))
      BY <3>1, <3>2 DEF ToSet
    <3> QED
      BY <3>3
  <2> QED
    BY <2>1, <2>2
<1>3. ToSet(Tail(s)) \cup {Head(s)} \subseteq ToSet(s)
  <2>1. \A i \in 1..Len(Tail(s)) : Tail(s)[i] = s[i + 1] /\ i + 1 \in 1..Len(s)
    OBVIOUS
  <2>2. Head(s) = s[1] /\ 1 \in 1..Len(s)
    OBVIOUS
  <2> QED
    BY <2>1, <2>2 DEF ToSet
<1> QED
  BY <1>1, <1>2, <1>3

(***************************************************************************)
(* Scheduler::schedule keeps the queue invariant: if every Ready PCB the   *)
(* caller hands it is queued, the pop of pick_next loses none but the one  *)
(* made Running, and switch_to re-enqueues a current process it demotes.   *)
(* The get_process-failed branch pops a PID outside the table.             *)
(***************************************************************************)
LEMMA ScheduleKeepsQueue ==
    ASSUME TypeCore, QueueInv,
           NEW st \in [Pid -> ProcessState],
           NEW sl \in [Pid -> 0..QUANTUM],
           ReadyIn(st),
           Schedule(st, sl),
           UNCHANGED <<next_pid, processes>>
    PROVE  QueueInv'
<1> USE QuantumAssumption, MaxPidAssumption
<1>0. /\ processes \subseteq Pid
      /\ ready_queue \in Seq(Pid)
      /\ ToSet(ready_queue) \subseteq processes
      /\ current # NoPid => current \in processes
  BY DEF TypeCore, QueueInv, NoDanglingPid
<1>1. CASE ready_queue = << >> /\ state' = st /\ time_slice' = sl
                /\ UNCHANGED <<ready_queue, current>>
  BY <1>0, <1>1 DEF QueueInv, ReadyInQueue, NoDanglingPid, ReadyIn
<1> DEFINE next == Head(ready_queue)
           rest == Tail(ready_queue)
<1>a. ASSUME ready_queue # << >>
      PROVE  /\ rest \in Seq(Pid) /\ next \in Pid
             /\ ToSet(ready_queue) = ToSet(rest) \cup {next}
  BY <1>0, <1>a, ToSetTail DEF next, rest
\* A Ready PCB other than the popped head is still queued in the rest.
<1>b. ASSUME ready_queue # << >>
      PROVE  \A p \in processes : st[p] = Ready /\ p # next => p \in ToSet(rest)
  BY <1>a, <1>b DEF ReadyIn
<1>2. CASE /\ ready_queue # << >>
           /\ next \notin processes
           /\ ready_queue' = rest
           /\ state' = st /\ time_slice' = sl /\ UNCHANGED current
  BY <1>0, <1>2, <1>a, <1>b DEF QueueInv, ReadyInQueue, NoDanglingPid
<1>3. CASE /\ ready_queue # << >>
           /\ next \in processes
           /\ state' = [st EXCEPT ![next] = Running]
           /\ ready_queue' = rest
           /\ current' \in {current, next}
  BY <1>0, <1>3, <1>a, <1>b DEF QueueInv, ReadyInQueue, NoDanglingPid
<1>4. CASE /\ ready_queue # << >>
           /\ next \in processes
           /\ current \notin {next, NoPid}
           /\ ready_queue' = IF st[current] = Running
                             THEN Enqueue(rest, Demote(st, current), current)
                             ELSE rest
           /\ state' = [Demote(st, current) EXCEPT ![next] = Running]
           /\ current' = next
  <2>1. current \in processes /\ current \in Pid
    BY <1>0, <1>4
  <2>2. CASE st[current] = Running
    <3>1. Demote(st, current)[current] = Ready
      BY <2>1, <2>2 DEF Demote
    <3>2. ready_queue' = Append(rest, current)
      BY <1>4, <2>1, <2>2, <3>1 DEF Enqueue
    <3>a. rest \in Seq(Pid)
      BY <1>4, <1>a
    <3>b. ToSet(Append(rest, current)) = ToSet(rest) \cup {current}
      BY <3>a, ToSetAppend
    <3>3. ToSet(ready_queue') = ToSet(rest) \cup {current} /\ ready_queue' \in Seq(Pid)
      BY <3>a, <3>b, <3>2, <2>1
    <3>4. \A p \in processes : state'[p] = Ready => p = current \/ (st[p] = Ready /\ p # next)
      BY <1>4, <2>1, <1>0 DEF Demote
    <3> QED
      BY <1>0, <1>4, <1>a, <1>b, <2>1, <3>3, <3>4
         DEF QueueInv, ReadyInQueue, NoDanglingPid
  <2>3. CASE st[current] # Running
    <3>1. ready_queue' = rest
      BY <1>4, <2>3
    <3>2. \A p \in processes : state'[p] = Ready => st[p] = Ready /\ p # next
      BY <1>4, <2>1, <2>3, <1>0 DEF Demote
    <3> QED
      BY <1>0, <1>4, <1>a, <1>b, <3>1, <3>2 DEF QueueInv, ReadyInQueue, NoDanglingPid
  <2> QED
    BY <2>2, <2>3
<1> QED
  BY <1>1, <1>2, <1>3, <1>4 DEF Schedule, next, rest

\* The initial state of Scheduler::new satisfies the invariant.
LEMMA InitIInv == Init => IInv
BY MaxPidAssumption, QuantumAssumption
   DEF Init, IInv, TypeCore, RunningIsCurrent, Pid, NoPid, ProcessState

(***************************************************************************)
(* Every operation of the scheduler keeps the invariant: add_process,      *)
(* remove_process, schedule, tick, block_current, wake_up and              *)
(* exit_current_process.                                                   *)
(***************************************************************************)
LEMMA NextIInv == IInv /\ [Next]_vars => IInv'
<1> USE QuantumAssumption, MaxPidAssumption
<1> SUFFICES ASSUME IInv, [Next]_vars PROVE IInv'
  OBVIOUS
<1>1. CASE AddProcess
  BY <1>1 DEF AddProcess, IInv, TypeCore, RunningIsCurrent, ProcessState, Pid
<1>2. ASSUME NEW pid \in Pid, RemoveProcess(pid) PROVE IInv'
  BY <1>2 DEF RemoveProcess, IInv, TypeCore, RunningIsCurrent, NoPid
<1>3. CASE ScheduleCall
  <2>1. TypeCore /\ OnlyCurrentRuns(state) /\ state \in [Pid -> ProcessState]
        /\ time_slice \in [Pid -> 0..QUANTUM]
    BY DEF IInv, TypeCore, RunningIsCurrent, OnlyCurrentRuns
  <2> QED
    BY <1>3, <2>1, ScheduleKeepsIInv DEF ScheduleCall
<1>4. CASE Tick
  <2> DEFINE sl == [time_slice EXCEPT ![current] = TickSlice(@)]
  <2>1. sl \in [Pid -> 0..QUANTUM]
    BY <1>4 DEF Tick, IInv, TypeCore, TickSlice
  <2>2. CASE sl[current] = 0
    <3>1. TypeCore /\ OnlyCurrentRuns(state) /\ state \in [Pid -> ProcessState]
      BY DEF IInv, TypeCore, RunningIsCurrent, OnlyCurrentRuns
    <3>2. Schedule(state, sl) /\ UNCHANGED <<next_pid, processes>>
      BY <1>4, <2>2 DEF Tick
    <3> QED
      BY <2>1, <3>1, <3>2, ScheduleKeepsIInv
  <2>3. CASE sl[current] # 0
    BY <1>4, <2>1, <2>3 DEF Tick, IInv, TypeCore, RunningIsCurrent
  <2> QED
    BY <2>2, <2>3
<1>5. CASE BlockCurrent
  <2> DEFINE st == [state EXCEPT ![current] = Blocked]
  <2>1. st \in [Pid -> ProcessState] /\ OnlyCurrentRuns(st)
    BY <1>5 DEF BlockCurrent, IInv, TypeCore, RunningIsCurrent,
                OnlyCurrentRuns, ProcessState
  <2>2. TypeCore /\ time_slice \in [Pid -> 0..QUANTUM]
    BY DEF IInv, TypeCore
  <2>3. Schedule(st, time_slice) /\ UNCHANGED <<next_pid, processes>>
    BY <1>5 DEF BlockCurrent
  <2> QED
    BY <2>1, <2>2, <2>3, ScheduleKeepsIInv
<1>6. ASSUME NEW pid \in Pid, WakeUp(pid) PROVE IInv'
  BY <1>6 DEF WakeUp, IInv, TypeCore, RunningIsCurrent, ProcessState
<1>7. CASE ExitCurrent
  <2> DEFINE st == [state EXCEPT ![current] = Zombie]
  <2>1. st \in [Pid -> ProcessState] /\ OnlyCurrentRuns(st)
    BY <1>7 DEF ExitCurrent, IInv, TypeCore, RunningIsCurrent,
                OnlyCurrentRuns, ProcessState
  <2>2. TypeCore /\ time_slice \in [Pid -> 0..QUANTUM]
    BY DEF IInv, TypeCore
  <2>3. Schedule(st, time_slice) /\ UNCHANGED <<next_pid, processes>>
    BY <1>7 DEF ExitCurrent
  <2> QED
    BY <2>1, <2>2, <2>3, ScheduleKeepsIInv
<1>8. CASE UNCHANGED vars
  BY <1>8 DEF vars, IInv, TypeCore, RunningIsCurrent
<1> QED
  BY <1>1, <1>2, <1>3, <1>4, <1>5, <1>6, <1>7, <1>8 DEF Next

-----------------------------------------------------------------------------

\* Scheduler::new starts with an empty queue, an empty table and no current.
LEMMA InitQueue == Init => QueueInv
BY DEF Init, QueueInv, ReadyInQueue, NoDanglingPid, ToSet

(***************************************************************************)
(* Every operation keeps the queue invariant.  add_process and wake_up     *)
(* append what they make Ready, remove_process drops pid from the queue    *)
(* and the table together (RetainFacts), and block_current and exit make   *)
(* current non-Ready before they call schedule.                            *)
(***************************************************************************)
LEMMA NextQueue == IInv /\ QueueInv /\ [Next]_vars => QueueInv'
<1> USE QuantumAssumption, MaxPidAssumption
<1> SUFFICES ASSUME IInv, QueueInv, [Next]_vars PROVE QueueInv'
  OBVIOUS
<1>0. /\ TypeCore
      /\ processes \subseteq Pid
      /\ ready_queue \in Seq(Pid)
      /\ ReadyIn(state)
  BY DEF IInv, TypeCore, QueueInv, ReadyInQueue, ReadyIn
<1>1. CASE AddProcess
  <2>1. next_pid \in Pid /\ next_pid \notin processes
    BY <1>0, <1>1 DEF AddProcess, TypeCore
  <2>2. ToSet(ready_queue') = ToSet(ready_queue) \cup {next_pid}
    BY <1>0, <1>1, ToSetAppend DEF AddProcess
  <2> QED
    BY <1>0, <1>1, <2>1, <2>2
       DEF AddProcess, QueueInv, ReadyInQueue, NoDanglingPid, TypeCore
<1>2. ASSUME NEW pid \in Pid, RemoveProcess(pid) PROVE QueueInv'
  <2>1. /\ ready_queue' \in Seq(Pid)
        /\ ToSet(ready_queue') = ToSet(ready_queue) \ {pid}
    BY <1>0, <1>2, RetainFacts DEF RemoveProcess
  <2> QED
    BY <1>2, <2>1 DEF RemoveProcess, QueueInv, ReadyInQueue, NoDanglingPid
<1>3. CASE ScheduleCall
  <2>1. state \in [Pid -> ProcessState] /\ time_slice \in [Pid -> 0..QUANTUM]
    BY DEF IInv, TypeCore
  <2> QED
    BY <1>0, <1>3, <2>1, ScheduleKeepsQueue DEF ScheduleCall
<1>4. CASE Tick
  <2> DEFINE sl == [time_slice EXCEPT ![current] = TickSlice(@)]
  <2>1. sl \in [Pid -> 0..QUANTUM] /\ state \in [Pid -> ProcessState]
    BY <1>4 DEF Tick, IInv, TypeCore, TickSlice, sl
  <2>2. CASE sl[current] = 0
    <3>1. Schedule(state, sl) /\ UNCHANGED <<next_pid, processes>>
      BY <1>4, <2>2 DEF Tick, sl
    <3> QED
      BY <1>0, <2>1, <3>1, ScheduleKeepsQueue
  <2>3. CASE sl[current] # 0
    BY <1>4, <2>3 DEF Tick, sl, QueueInv, ReadyInQueue, NoDanglingPid
  <2> QED
    BY <2>2, <2>3
<1>5. CASE BlockCurrent
  <2> DEFINE st == [state EXCEPT ![current] = Blocked]
  <2>1. st \in [Pid -> ProcessState] /\ ReadyIn(st)
    BY <1>0, <1>5 DEF BlockCurrent, IInv, TypeCore, ReadyIn, ProcessState, st
  <2>2. time_slice \in [Pid -> 0..QUANTUM]
    BY DEF IInv, TypeCore
  <2>3. Schedule(st, time_slice) /\ UNCHANGED <<next_pid, processes>>
    BY <1>5 DEF BlockCurrent, st
  <2> QED
    BY <1>0, <2>1, <2>2, <2>3, ScheduleKeepsQueue
<1>6. ASSUME NEW pid \in Pid, WakeUp(pid) PROVE QueueInv'
  <2>0. state \in [Pid -> ProcessState] /\ pid \in processes
    BY <1>6 DEF WakeUp, IInv, TypeCore
  <2>a. state' = [state EXCEPT ![pid] = Ready]
        /\ UNCHANGED <<processes, current>>
    BY <1>6 DEF WakeUp
  <2>1. ready_queue' = Append(ready_queue, pid)
    BY <1>6, <2>0 DEF WakeUp, Enqueue
  <2>2. ToSet(ready_queue') = ToSet(ready_queue) \cup {pid}
    BY <1>0, <2>1, ToSetAppend
  <2>3. ready_queue' \in Seq(Pid)
    BY <1>0, <2>1
  <2>4. ReadyInQueue'
    BY <1>0, <2>0, <2>a, <2>2 DEF ReadyInQueue, ReadyIn
  <2>5. NoDanglingPid'
    BY <2>0, <2>a, <2>2 DEF QueueInv, NoDanglingPid
  <2> QED
    BY <2>3, <2>4, <2>5 DEF QueueInv
<1>7. CASE ExitCurrent
  <2> DEFINE st == [state EXCEPT ![current] = Zombie]
  <2>1. st \in [Pid -> ProcessState] /\ ReadyIn(st)
    BY <1>0, <1>7 DEF ExitCurrent, IInv, TypeCore, ReadyIn, ProcessState, st
  <2>2. time_slice \in [Pid -> 0..QUANTUM]
    BY DEF IInv, TypeCore
  <2>3. Schedule(st, time_slice) /\ UNCHANGED <<next_pid, processes>>
    BY <1>7 DEF ExitCurrent, st
  <2> QED
    BY <1>0, <2>1, <2>2, <2>3, ScheduleKeepsQueue
<1>8. CASE UNCHANGED vars
  BY <1>8 DEF vars, QueueInv, ReadyInQueue, NoDanglingPid
<1> QED
  BY <1>1, <1>2, <1>3, <1>4, <1>5, <1>6, <1>7, <1>8 DEF Next

\* The whole inductive invariant of the scheduler.
SInv == IInv /\ QueueInv

\* SInv holds initially and is kept by every step.
LEMMA SInvHolds == Spec => []SInv
<1>1. Init => SInv
  BY InitIInv, InitQueue DEF SInv
<1>2. SInv /\ [Next]_vars => SInv'
  BY NextIInv, NextQueue DEF SInv
<1> QED
  BY <1>1, <1>2, PTL DEF Spec

(***************************************************************************)
(* schedule makes the popped PID Running with a full quantum, and when it  *)
(* takes the CPU from a process the caller left Running (tick, a direct    *)
(* call), switch_to demotes it and appends it to the tail; a caller that   *)
(* blocked it or made it a Zombie gets it back in that state.              *)
(***************************************************************************)
LEMMA ScheduleRotates ==
    ASSUME TypeCore, ready_queue \in Seq(Pid),
           NEW st \in [Pid -> ProcessState],
           NEW sl \in [Pid -> 0..QUANTUM],
           current \in processes /\ state[current] = Running =>
               st[current] \in {Running, Blocked, Zombie},
           Schedule(st, sl),
           UNCHANGED <<next_pid, processes>>
    PROVE  RoundRobinStep
<1> USE QuantumAssumption, MaxPidAssumption
<1> DEFINE next == Head(ready_queue)
           rest == Tail(ready_queue)
<1>0. processes \subseteq Pid /\ NoPid \notin processes
  BY DEF TypeCore
<1>1. CASE current' = current
  BY <1>1 DEF RoundRobinStep
<1>2. CASE /\ ready_queue # << >>
           /\ next \in processes
           /\ time_slice' = [sl EXCEPT ![next] = QUANTUM]
           /\ current = NoPid
           /\ state' = [st EXCEPT ![next] = Running]
           /\ current' = next
  BY <1>0, <1>2 DEF RoundRobinStep
<1>3. CASE /\ ready_queue # << >>
           /\ next \in processes
           /\ time_slice' = [sl EXCEPT ![next] = QUANTUM]
           /\ current \notin {next, NoPid}
           /\ ready_queue' = IF st[current] = Running
                             THEN Enqueue(rest, Demote(st, current), current)
                             ELSE rest
           /\ state' = [Demote(st, current) EXCEPT ![next] = Running]
           /\ current' = next
  <2>1. next \in Pid /\ current \in Pid
    BY <1>0, <1>3 DEF TypeCore
  <2>2. state'[current'] = Running /\ time_slice'[current'] = QUANTUM
    BY <1>3, <2>1 DEF Demote
  <2>3. ASSUME current \in processes, state[current] = Running
        PROVE  \/ state'[current] \in {Blocked, Zombie}
               \/ /\ state'[current] = Ready
                  /\ ready_queue' # << >>
                  /\ Last(ready_queue') = current
    <3>1. state'[current] = Demote(st, current)[current]
      BY <1>3, <2>1 DEF Demote
    <3>2. CASE st[current] = Running
      <4>1. Demote(st, current)[current] = Ready
        BY <2>1, <3>2 DEF Demote
      <4>2. ready_queue' = Append(rest, current)
        BY <1>3, <2>3, <3>2, <4>1 DEF Enqueue
      <4>a. rest \in Seq(Pid)
        BY <1>3
      <4>b. Len(ready_queue') = Len(rest) + 1
            /\ ready_queue'[Len(rest) + 1] = current
        BY <4>a, <4>2
      <4>3. ready_queue' # << >> /\ Last(ready_queue') = current
        BY <4>b DEF Last
      <4> QED
        BY <3>1, <4>1, <4>3
    <3>3. CASE st[current] # Running
      <4>1. st[current] \in {Blocked, Zombie}
        BY <2>3, <3>3
      <4> QED
        BY <2>1, <3>1, <3>3, <4>1 DEF Demote
    <3> QED
      BY <3>2, <3>3
  <2> QED
    BY <2>2, <2>3 DEF RoundRobinStep
<1> QED
  BY <1>1, <1>2, <1>3 DEF Schedule, next, rest

\* Every step of the scheduler satisfies RoundRobinStep.
LEMMA NextRotates == SInv /\ [Next]_vars => [RoundRobinStep]_vars
<1> USE QuantumAssumption, MaxPidAssumption
<1> SUFFICES ASSUME SInv, [Next]_vars PROVE [RoundRobinStep]_vars
  OBVIOUS
<1>0. /\ TypeCore /\ ready_queue \in Seq(Pid)
      /\ state \in [Pid -> ProcessState]
      /\ time_slice \in [Pid -> 0..QUANTUM]
  BY DEF SInv, IInv, QueueInv, TypeCore
<1>1. CASE AddProcess
  BY <1>1 DEF AddProcess, RoundRobinStep
<1>2. ASSUME NEW pid \in Pid, RemoveProcess(pid) PROVE [RoundRobinStep]_vars
  BY <1>2 DEF RemoveProcess, RoundRobinStep
<1>3. CASE ScheduleCall
  BY <1>0, <1>3, ScheduleRotates DEF ScheduleCall
<1>4. CASE Tick
  <2> DEFINE sl == [time_slice EXCEPT ![current] = TickSlice(@)]
  <2>1. sl \in [Pid -> 0..QUANTUM]
    BY <1>0, <1>4 DEF Tick, TypeCore, TickSlice, sl
  <2>2. CASE sl[current] = 0
    <3>1. Schedule(state, sl) /\ UNCHANGED <<next_pid, processes>>
      BY <1>4, <2>2 DEF Tick, sl
    <3> QED
      BY <1>0, <2>1, <3>1, ScheduleRotates
  <2>3. CASE sl[current] # 0
    BY <1>4, <2>3 DEF Tick, sl, RoundRobinStep
  <2> QED
    BY <2>2, <2>3
<1>5. CASE BlockCurrent
  <2> DEFINE st == [state EXCEPT ![current] = Blocked]
  <2>1. st \in [Pid -> ProcessState] /\ st[current] = Blocked
    BY <1>0, <1>5 DEF BlockCurrent, TypeCore, ProcessState, st
  <2>2. Schedule(st, time_slice) /\ UNCHANGED <<next_pid, processes>>
    BY <1>5 DEF BlockCurrent, st
  <2> QED
    BY <1>0, <2>1, <2>2, ScheduleRotates
<1>6. ASSUME NEW pid \in Pid, WakeUp(pid) PROVE [RoundRobinStep]_vars
  BY <1>6 DEF WakeUp, RoundRobinStep
<1>7. CASE ExitCurrent
  <2> DEFINE st == [state EXCEPT ![current] = Zombie]
  <2>1. st \in [Pid -> ProcessState] /\ st[current] = Zombie
    BY <1>0, <1>7 DEF ExitCurrent, TypeCore, ProcessState, st
  <2>2. Schedule(st, time_slice) /\ UNCHANGED <<next_pid, processes>>
    BY <1>7 DEF ExitCurrent, st
  <2> QED
    BY <1>0, <2>1, <2>2, ScheduleRotates
<1>8. CASE UNCHANGED vars
  BY <1>8
<1> QED
  BY <1>1, <1>2, <1>3, <1>4, <1>5, <1>6, <1>7, <1>8 DEF Next

-----------------------------------------------------------------------------

\* The PID allocator, the process table, the PCB fields, the ready queue
\* and `current` keep their types in every behaviour of the scheduler.
THEOREM TypeCorrect == Spec => []TypeOK
<1>1. SInv => TypeOK
  BY DEF SInv, IInv, QueueInv, TypeCore, TypeOK
<1> QED
  BY <1>1, SInvHolds, PTL

\* At most one PCB is Running and it is the one `current` names, for every
\* MaxPid and QUANTUM: switch_to demotes before it promotes, and
\* remove_process clears current.
THEOREM RunningIsCurrentHolds == Spec => []RunningIsCurrent
<1>1. IInv => RunningIsCurrent
  BY DEF IInv
<1> QED
  BY <1>1, InitIInv, NextIInv, PTL DEF Spec


(***************************************************************************)
(* No Ready process is lost, for every MaxPid and QUANTUM: add_process,    *)
(* wake_up and switch_to enqueue what they make Ready, and pick_next pops  *)
(* only the PID it makes Running.                                          *)
(***************************************************************************)
THEOREM ReadyInQueueInvariant == Spec => []ReadyInQueue
<1>1. SInv => ReadyInQueue
  BY DEF SInv, QueueInv
<1> QED
  BY <1>1, SInvHolds, PTL

(***************************************************************************)
(* The ready queue and `current` only name processes of the table, so     *)
(* pick_next never pops a removed PID and switch_to's unwrap of            *)
(* get_process(current) never panics: remove_process drops the PID from   *)
(* the queue (its retain) and clears current together.                     *)
(***************************************************************************)
THEOREM NoDanglingPidInvariant == Spec => []NoDanglingPid
<1>1. SInv => NoDanglingPid
  BY DEF SInv, QueueInv
<1> QED
  BY <1>1, SInvHolds, PTL

(***************************************************************************)
(* Round-robin rotation holds of every behaviour: a process that takes the *)
(* CPU is Running with a full quantum, and one preempted while Running     *)
(* waits at the tail of the queue.                                         *)
(***************************************************************************)
THEOREM RoundRobinRotationHolds == Spec => RoundRobinRotation
<1>1. []SInv /\ [][Next]_vars => [][RoundRobinStep]_vars
  BY NextRotates, PTL
<1> QED
  BY <1>1, SInvHolds, PTL DEF Spec, RoundRobinRotation

=============================================================================
