--------------------------- MODULE IpcSignalProofs ---------------------------
(***************************************************************************)
(* The kernel for every number of tasks and signals: it is safe, it is fair,*)
(* and it gives every task a machine of its own (TaskMachine).  The         *)
(* inductive invariant is IInv: no conjunct of it is inductive alone.  The  *)
(* switch to the head of the ready list needs SteadyReady (the list is not  *)
(* empty) and OneQueueEach (removing the current task really removes it),   *)
(* the fpu stays guarded because sp_irq and thistask agree, and NoLostWakeup*)
(* needs the state of a task to say which list it is on.                    *)
(***************************************************************************)
EXTENDS IpcSignal, CommonProofs, WellFoundedInduction

USE TasksAssumption, SteadyAssumption

(* The current task is ready and on the first place of its list.            *)
LEMMA CurrentIsReady ==
  ASSUME IInv
  PROVE  /\ thistask \in Ready /\ thistask = tasks[1] /\ 1 \in DOMAIN tasks
         /\ thistask \notin Waiting /\ thistask \notin Halted
         /\ state[thistask] # "TS_WAIT"
<1>1. thistask = tasks[1] /\ 1 \in DOMAIN tasks
  BY DEF IInv, TypeOK, CurrentIsHead
<1>2. thistask \in Ready
  BY <1>1 DEF Ready, Range
<1> QED
  BY <1>1, <1>2 DEF IInv, TypeOK, OneQueueEach

(* When a task that is not steady leaves, another one is ready.             *)
LEMMA AnotherIsReady ==
  ASSUME IInv, thistask \notin Steady
  PROVE  LET rest == Without(tasks, thistask)
         IN  /\ rest \in Seq(Tasks) /\ IsInjective(rest)
             /\ Range(rest) = Ready \ {thistask}
             /\ rest # <<>> /\ Head(rest) \in Tasks /\ Steady \subseteq Range(rest)
<1> DEFINE rest == Without(tasks, thistask)
<1>1. /\ rest \in Seq(Tasks) /\ IsInjective(rest)
      /\ Range(rest) = Ready \ {thistask}
  BY WithoutProperties DEF IInv, TypeOK, OneQueueEach, Ready
<1> HIDE DEF rest
<1>2. Steady \subseteq Range(rest)
  BY <1>1 DEF IInv, SteadyReady
<1>3. PICK t \in Steady : t \in Range(rest)
  BY <1>2
<1>4. rest # <<>> /\ Head(rest) \in Tasks
  BY <1>1, <1>3, HeadProperties
<1> QED
  BY <1>1, <1>2, <1>4 DEF rest

(* A switch leaves thistask, sp_irq and the fpu in agreement with the list. *)
LEMMA SwitchAgrees ==
  ASSUME SwitchToHead, tasks' # <<>>, UNCHANGED fptask
  PROVE  CurrentIsHead' /\ FpuGuarded' /\ fpexc' \in BOOLEAN
BY DEF SwitchToHead, irq_new_task, CurrentIsHead, FpuGuarded

THEOREM InitIInv == Init => IInv
<1> SUFFICES ASSUME Init PROVE IInv
  OBVIOUS
<1>1. /\ tasks \in Seq(Tasks) /\ IsInjective(tasks) /\ Range(tasks) = Tasks
  BY BootAssumption DEF Init
<1>2. PICK t \in Steady : TRUE
  OBVIOUS
<1>3. tasks # <<>> /\ Head(tasks) \in Tasks
  BY <1>1, <1>2, HeadProperties
<1>4. Dead \in Word
  BY DEF Word
<1>5. <<>> \in Seq(Tasks) /\ Range(<<>>) = {} /\ IsInjective(<<>>)
  BY DEF Range, IsInjective
<1>6. TypeOK
  BY <1>1, <1>3, <1>4, <1>5, DataAssumption DEF Init, TypeOK
<1>7. CurrentIsHead
  BY <1>3 DEF Init, CurrentIsHead
<1>8. OneQueueEach
  BY <1>1, <1>5 DEF Init, OneQueueEach, Ready, Waiting, Halted
<1>9. NoLostWakeup
  BY <1>5 DEF Init, NoLostWakeup, Waiting
<1>10. FpuGuarded
  BY <1>3 DEF Init, FpuGuarded
<1>11. SteadyReady
  BY <1>1 DEF SteadyReady, Ready
<1> QED
  BY <1>6, <1>7, <1>8, <1>9, <1>10, <1>11 DEF IInv

-----------------------------------------------------------------------------
(* One lemma per action.                                                    *)

LEMMA SavedIsTyped ==
  ASSUME TypeOK, NEW w \in Word
  PROVE  SaveContext(w) \in [Tasks -> Word]
BY DEF TypeOK, SaveContext

LEMMA WordValues ==
  /\ Dead \in Word
  /\ \A S \in SUBSET Sigs : Mask(S) \in Word
  /\ \A n \in Numbers : Num(n) \in Word
BY DEF Word

LEMMA VsyncIInv ==
  ASSUME IInv, Vsync
  PROVE  IInv'
<1> DEFINE rest == Without(tasks, thistask)
<1>1. /\ thistask \in Ready /\ thistask \notin Waiting /\ thistask \notin Halted
      /\ thistask \in Tasks /\ tasks \in Seq(Tasks) /\ IsInjective(tasks)
  BY CurrentIsReady DEF IInv, TypeOK, OneQueueEach
<1>2. /\ rest \in Seq(Tasks) /\ IsInjective(rest) /\ Range(rest) = Ready \ {thistask}
  BY <1>1, WithoutProperties DEF Ready
<1>3. tasks' = Append(rest, thistask)
  BY DEF Vsync, Rotated
<1> HIDE DEF rest
<1>4. /\ tasks' \in Seq(Tasks) /\ IsInjective(tasks') /\ Ready' = Ready
  <2>1. thistask \notin Range(rest)
    BY <1>2
  <2>2. /\ tasks' \in Seq(Tasks) /\ IsInjective(tasks')
        /\ Range(tasks') = Range(rest) \cup {thistask}
    BY <1>1, <1>2, <1>3, <2>1, AppendElements
  <2> QED
    BY <1>1, <1>2, <2>2 DEF Ready
<1>5. tasks' # <<>> /\ Head(tasks') \in Tasks
  BY <1>1, <1>4, HeadProperties DEF Ready
<1>6. CurrentIsHead' /\ FpuGuarded' /\ fpexc' \in BOOLEAN
  BY <1>5, SwitchAgrees DEF Vsync, fp
<1>7. thistask' \in Tasks /\ spIrq' \in Tasks
  BY <1>5 DEF Vsync, SwitchToHead, irq_new_task
<1>8. tcbR0' \in [Tasks -> Word] /\ r0' \in Word
  BY <1>7, SavedIsTyped DEF IInv, TypeOK, Vsync, ex_context_exit
<1>9. TypeOK'
  BY <1>4, <1>6, <1>7, <1>8 DEF IInv, TypeOK, Vsync, signals, fp
<1>10. OneQueueEach'
  BY <1>4 DEF IInv, OneQueueEach, Vsync, Waiting, Halted
<1>11. NoLostWakeup'
  BY DEF IInv, NoLostWakeup, Vsync, Waiting, signals
<1>12. SteadyReady'
  BY <1>4 DEF IInv, SteadyReady
<1> QED
  BY <1>6, <1>9, <1>10, <1>11, <1>12 DEF IInv

LEMMA TaskErrorIInv ==
  ASSUME IInv, TaskError
  PROVE  IInv'
<1>1. /\ thistask \in Ready /\ thistask \notin Waiting /\ thistask \notin Halted
      /\ thistask \in Tasks /\ tasks_halted \in Seq(Tasks) /\ IsInjective(tasks_halted)
      /\ state[thistask] # "TS_WAIT"
  BY CurrentIsReady DEF IInv, TypeOK, OneQueueEach
<1>2. /\ tasks' \in Seq(Tasks) /\ IsInjective(tasks') /\ Ready' = Ready \ {thistask}
      /\ tasks' # <<>> /\ Head(tasks') \in Tasks /\ Steady \subseteq Ready'
  BY AnotherIsReady DEF TaskError, Retired, Ready
<1>3. /\ tasks_halted' \in Seq(Tasks) /\ IsInjective(tasks_halted')
      /\ Halted' = Halted \cup {thistask}
  BY <1>1, AppendElements DEF TaskError, Retired, Halted
<1>4. CurrentIsHead' /\ FpuGuarded' /\ fpexc' \in BOOLEAN
  BY <1>2, SwitchAgrees DEF TaskError, fp
<1>5. thistask' \in Tasks /\ spIrq' \in Tasks
  BY <1>2 DEF TaskError, SwitchToHead, irq_new_task
<1>6. tcbR0' \in [Tasks -> Word] /\ r0' \in Word
  BY <1>5, SavedIsTyped DEF IInv, TypeOK, TaskError, ex_context_exit
<1>7. TypeOK'
  BY <1>2, <1>3, <1>4, <1>5, <1>6 DEF IInv, TypeOK, TaskError, signals, fp
<1>8. OneQueueEach'
  BY <1>1, <1>2, <1>3 DEF IInv, OneQueueEach, TaskError, Waiting
<1>9. NoLostWakeup'
  BY DEF IInv, NoLostWakeup, TaskError, Waiting, signals
<1>10. SteadyReady'
  BY <1>2 DEF SteadyReady
<1> QED
  BY <1>4, <1>7, <1>8, <1>9, <1>10 DEF IInv

LEMMA SwitchFpuIInv ==
  ASSUME IInv, SwitchFpu, retry' \subseteq Tasks
  PROVE  IInv'
<1>1. tcbR0' \in [Tasks -> Word]
  BY SavedIsTyped DEF IInv, TypeOK, SwitchFpu
<1>2. tcbFp' \in [Tasks -> FpVals]
  BY DEF IInv, TypeOK, SwitchFpu, FpSaved
<1>3. TypeOK'
  BY <1>1, <1>2 DEF IInv, TypeOK, SwitchFpu, lists, signals
<1>4. CurrentIsHead' /\ FpuGuarded'
  BY DEF IInv, CurrentIsHead, FpuGuarded, SwitchFpu, lists
<1>5. OneQueueEach' /\ SteadyReady'
  BY DEF IInv, OneQueueEach, SteadyReady, SwitchFpu, lists, Ready, Waiting, Halted
<1>6. NoLostWakeup'
  BY DEF IInv, NoLostWakeup, SwitchFpu, lists, signals, Waiting
<1> QED
  BY <1>3, <1>4, <1>5, <1>6 DEF IInv

\* what a step leaves true that touches neither lists, states nor the fpu's owner
LEMMA QueuesKept ==
  ASSUME IInv, UNCHANGED <<lists, state, cpu, fptask>>
  PROVE  CurrentIsHead' /\ OneQueueEach' /\ FpuGuarded' /\ SteadyReady' /\ Waiting' = Waiting
BY DEF IInv, CurrentIsHead, OneQueueEach, FpuGuarded, SteadyReady, lists, cpu,
       Ready, Waiting, Halted

LEMMA FpOpIInv ==
  ASSUME IInv, FpOp
  PROVE  IInv'
<1>1. CurrentIsHead' /\ OneQueueEach' /\ FpuGuarded' /\ SteadyReady' /\ Waiting' = Waiting
  BY QueuesKept DEF FpOp, lists, cpu
<1>2. TypeOK'
  BY DEF IInv, TypeOK, FpOp, lists, signals, cpu
<1>3. NoLostWakeup'
  BY <1>1 DEF IInv, NoLostWakeup, FpOp, signals
<1> QED
  BY <1>1, <1>2, <1>3 DEF IInv

(* A set of numbers has a least one, so there is a lowest free signal.      *)
LEMMA LeastNat ==
  ASSUME NEW S, S \subseteq Nat, S # {}
  PROVE  \E k \in S : \A j \in S : k <= j
<1> DEFINE less == OpToRel(<, Nat)
<1>1. IsWellFoundedOn(less, Nat)
  BY NatLessThanWellFounded
<1>2. \A x, y \in Nat : <<x, y>> \in less <=> x < y
  BY DEF OpToRel
<1> HIDE DEF less
<1>3. PICK k \in S : \A j \in S : ~ (<<j, k>> \in less)
  BY <1>1, WFMin
<1>4. \A j \in S : ~ (j < k)
  BY <1>2, <1>3
<1>5. \A j \in S : k <= j
  BY <1>4
<1> QED
  BY <1>5

LEMMA AllocSignalIInv ==
  ASSUME IInv, NEW n \in Numbers, AllocSignal(n)
  PROVE  IInv'
<1>1. CurrentIsHead' /\ OneQueueEach' /\ FpuGuarded' /\ SteadyReady' /\ Waiting' = Waiting
  BY QueuesKept DEF AllocSignal, lists, cpu, fp
<1>2. Allocation(n) \in Numbers
  <2> DEFINE free == Sigs \ sigAllocated[thistask]
  <2>1. CASE n = -1 /\ free # {}
    <3>1. PICK k \in free : \A j \in free : k <= j
      <4>1. PICK k0 \in free : TRUE
        BY <2>1
      <4>2. free \subseteq Nat
        BY DataAssumption
      <4> QED
        BY <4>1, <4>2, LeastNat
    <3>2. Lowest(free) \in free
      BY <3>1 DEF Lowest
    <3> QED
      BY <2>1, <3>2 DEF Allocation, Numbers
  <2> QED
    BY <2>1 DEF Allocation, Numbers
<1>3. TypeOK'
  BY <1>2, WordValues DEF IInv, TypeOK, AllocSignal, lists, cpu, fp
<1>4. NoLostWakeup'
  BY <1>1 DEF IInv, NoLostWakeup, AllocSignal
<1> QED
  BY <1>1, <1>3, <1>4 DEF IInv

LEMMA FreeSignalIInv ==
  ASSUME IInv, NEW n \in Sigs, FreeSignal(n)
  PROVE  IInv'
<1>1. CurrentIsHead' /\ OneQueueEach' /\ FpuGuarded' /\ SteadyReady' /\ Waiting' = Waiting
  BY QueuesKept DEF FreeSignal, lists, cpu, fp
<1>2. TypeOK'
  <2>1. /\ sigAllocated' \in [Tasks -> SUBSET Sigs]
        /\ sigWaiting' \in [Tasks -> SUBSET Sigs]
        /\ sigReceived' \in [Tasks -> SUBSET Sigs]
    <3>1. \A f \in [Tasks -> SUBSET Sigs] : Clear(f, n) \in [Tasks -> SUBSET Sigs]
      BY DEF Clear
    <3>2. CASE n \in sigAllocated[thistask]
      BY <3>1, <3>2 DEF IInv, TypeOK, FreeSignal
    <3>3. CASE n \notin sigAllocated[thistask]
      BY <3>3 DEF IInv, TypeOK, FreeSignal, signals
    <3> QED
      BY <3>2, <3>3
  <2>2. r0' \in Word
    BY WordValues DEF FreeSignal
  <2> QED
    BY <2>1, <2>2 DEF IInv, TypeOK, FreeSignal, lists, cpu, fp
<1>3. thistask \notin Waiting
  BY CurrentIsReady
<1>4. \A t \in Waiting : t \in Tasks /\ sigReceived'[t] = sigReceived[t]
                                     /\ sigWaiting'[t] = sigWaiting[t]
  BY <1>3 DEF IInv, TypeOK, OneQueueEach, FreeSignal, Clear, signals
<1>5. NoLostWakeup'
  BY <1>1, <1>4 DEF IInv, NoLostWakeup
<1> QED
  BY <1>1, <1>2, <1>5 DEF IInv

LEMMA SignalNotedIInv ==
  ASSUME IInv, NEW u \in Tasks \cup {NoTask}, NEW n \in Sigs, SignalNoted(u, n)
  PROVE  IInv'
<1>1. CurrentIsHead' /\ OneQueueEach' /\ FpuGuarded' /\ SteadyReady' /\ Waiting' = Waiting
  BY QueuesKept DEF SignalNoted, lists, cpu, fp
<1>2. tcbR0' \in [Tasks -> Word] /\ r0' \in Word
  BY SavedIsTyped, WordValues DEF IInv, TypeOK, SignalNoted, ex_context_exit, cpu
<1>3. sigReceived' \in [Tasks -> SUBSET Sigs]
  BY DEF IInv, TypeOK, SignalNoted
<1>4. TypeOK'
  BY <1>2, <1>3 DEF IInv, TypeOK, SignalNoted, lists, cpu, fp
<1>5. ASSUME NEW t \in Waiting
      PROVE  sigReceived'[t] \cap sigWaiting[t] = {}
  <2>1. t \in Tasks /\ state[t] = "TS_WAIT" /\ sigReceived[t] \cap sigWaiting[t] = {}
    BY DEF IInv, OneQueueEach, NoLostWakeup
  <2>2. CASE t = u
    <3>1. FindTask(u)
      BY <2>2 DEF FindTask, Waiting
    <3>2. Wakes(u, n) = {} /\ sigReceived'[t] = sigReceived[t] \cup {n}
      BY <2>1, <2>2, <3>1 DEF SignalNoted, IInv, TypeOK
    <3> QED
      BY <2>2, <3>2 DEF Wakes
  <2>3. CASE t # u
    BY <2>1, <2>3 DEF SignalNoted, IInv, TypeOK
  <2> QED
    BY <2>2, <2>3
<1>6. NoLostWakeup'
  BY <1>1, <1>5 DEF NoLostWakeup, SignalNoted
<1> QED
  BY <1>1, <1>4, <1>6 DEF IInv

LEMMA SignalWakesIInv ==
  ASSUME IInv, NEW u \in Tasks \cup {NoTask}, NEW n \in Sigs, SignalWakes(u, n)
  PROVE  IInv'
<1>1. /\ u \in Tasks /\ u \in Waiting /\ u \notin Ready /\ u \notin Halted
      /\ tasks \in Seq(Tasks) /\ IsInjective(tasks)
      /\ tasks_wait \in Seq(Tasks) /\ IsInjective(tasks_wait)
  <2>1. u \in Tasks
    BY DEF SignalWakes, FindTask, IInv, OneQueueEach, Ready, Waiting
  <2> QED
    BY <2>1 DEF IInv, TypeOK, OneQueueEach, SignalWakes
<1>2. /\ tasks' \in Seq(Tasks) /\ IsInjective(tasks') /\ Ready' = Ready \cup {u}
      /\ Len(tasks') = Len(tasks) + 1 /\ Head(tasks') = u
  BY <1>1, PushProperties DEF SignalWakes, Ready
<1>3. tasks' # <<>>
  BY <1>1, <1>2
<1>4. /\ tasks_wait' \in Seq(Tasks) /\ IsInjective(tasks_wait') /\ Waiting' = Waiting \ {u}
  BY <1>1, WithoutProperties DEF SignalWakes, Waiting
<1>5. CurrentIsHead'
  BY <1>2, <1>3 DEF CurrentIsHead, SignalWakes, irq_new_task
<1>6. FpuGuarded' /\ fpexc' \in BOOLEAN
  BY DEF FpuGuarded, SignalWakes, irq_new_task, fp
<1>7. sigReceived' \in [Tasks -> SUBSET Sigs] /\ state' \in [Tasks -> {"TS_INIT", "TS_RUN", "TS_WAIT"}]
  BY DEF IInv, TypeOK, SignalWakes, Awake
<1>8. Wakes(u, n) \in SUBSET Sigs
  BY <1>1 DEF Wakes, IInv, TypeOK
<1>9. tcbR0' \in [Tasks -> Word] /\ r0' \in Word
  <2>1. SaveContext(Dead) \in [Tasks -> Word]
    BY SavedIsTyped, WordValues DEF IInv
  <2>2. tcbR0' \in [Tasks -> Word]
    BY <1>8, <2>1, WordValues DEF SignalWakes
  <2> QED
    BY <1>1, <2>2 DEF SignalWakes, ex_context_exit, irq_new_task
<1>10. thistask' \in Tasks /\ spIrq' \in Tasks
  BY <1>1 DEF SignalWakes, irq_new_task
<1>11. TypeOK'
  BY <1>2, <1>4, <1>6, <1>7, <1>9, <1>10 DEF IInv, TypeOK, SignalWakes, fp
<1>12. OneQueueEach'
  BY <1>1, <1>2, <1>4 DEF IInv, TypeOK, OneQueueEach, SignalWakes, Awake, Halted
<1>13. NoLostWakeup'
  BY <1>1, <1>4 DEF IInv, TypeOK, NoLostWakeup, SignalWakes
<1>14. SteadyReady'
  BY <1>2 DEF IInv, SteadyReady
<1> QED
  BY <1>5, <1>6, <1>11, <1>12, <1>13, <1>14 DEF IInv

LEMMA WaitReturnsIInv ==
  ASSUME IInv, NEW mask \in SUBSET Sigs, WaitReturns(mask)
  PROVE  IInv'
<1>1. CurrentIsHead' /\ OneQueueEach' /\ FpuGuarded' /\ SteadyReady' /\ Waiting' = Waiting
  BY QueuesKept DEF WaitReturns, lists, cpu, fp
<1>2. tcbR0' \in [Tasks -> Word] /\ r0' \in Word
  <2>1. SaveContext(Mask(mask)) \in [Tasks -> Word]
    BY SavedIsTyped, WordValues DEF IInv
  <2> QED
    BY <2>1 DEF IInv, TypeOK, WaitReturns, ex_context_exit, cpu
<1>3. TypeOK'
  BY <1>2 DEF IInv, TypeOK, WaitReturns, lists, cpu, fp
<1>4. NoLostWakeup'
  BY <1>1 DEF IInv, TypeOK, NoLostWakeup, WaitReturns
<1> QED
  BY <1>1, <1>3, <1>4 DEF IInv

LEMMA WaitSleepsIInv ==
  ASSUME IInv, NEW mask \in SUBSET Sigs, WaitSleeps(mask)
  PROVE  IInv'
<1>1. /\ thistask \in Ready /\ thistask \notin Waiting /\ thistask \notin Halted
      /\ thistask \in Tasks /\ tasks_wait \in Seq(Tasks) /\ IsInjective(tasks_wait)
  BY CurrentIsReady DEF IInv, TypeOK, OneQueueEach
<1>2. /\ tasks' \in Seq(Tasks) /\ IsInjective(tasks') /\ Ready' = Ready \ {thistask}
      /\ tasks' # <<>> /\ Head(tasks') \in Tasks /\ Steady \subseteq Ready'
  BY AnotherIsReady DEF WaitSleeps, Ready
<1>3. /\ tasks_wait' \in Seq(Tasks) /\ IsInjective(tasks_wait')
      /\ Waiting' = Waiting \cup {thistask}
  BY <1>1, AppendElements DEF WaitSleeps, Waiting
<1>4. CurrentIsHead' /\ FpuGuarded' /\ fpexc' \in BOOLEAN
  BY <1>2, SwitchAgrees DEF WaitSleeps, fp
<1>5. thistask' \in Tasks /\ spIrq' \in Tasks
  BY <1>2 DEF WaitSleeps, SwitchToHead, irq_new_task
<1>6. tcbR0' \in [Tasks -> Word] /\ r0' \in Word
  <2>1. SaveContext(Mask(mask)) \in [Tasks -> Word]
    BY SavedIsTyped, WordValues DEF IInv
  <2> QED
    BY <1>5, <2>1 DEF IInv, TypeOK, WaitSleeps, ex_context_exit
<1>7. TypeOK'
  BY <1>2, <1>3, <1>4, <1>5, <1>6 DEF IInv, TypeOK, WaitSleeps, fp
<1>8. OneQueueEach'
  BY <1>1, <1>2, <1>3 DEF IInv, TypeOK, OneQueueEach, WaitSleeps, Halted
<1>9. NoLostWakeup'
  BY <1>1, <1>3 DEF IInv, TypeOK, NoLostWakeup, WaitSleeps
<1>10. SteadyReady'
  BY <1>2 DEF SteadyReady
<1> QED
  BY <1>4, <1>7, <1>8, <1>9, <1>10 DEF IInv

-----------------------------------------------------------------------------
(* Every step of the kernel preserves the invariant.                        *)
THEOREM NextIInv == IInv /\ [Next]_vars => IInv'
<1> SUFFICES ASSUME IInv, [Next]_vars
             PROVE  IInv'
  OBVIOUS
<1>1. CASE Vsync
  BY <1>1, VsyncIInv
<1>2. CASE TaskError
  BY <1>2, TaskErrorIInv
<1>3. CASE FpTrap
  BY <1>3, SwitchFpuIInv DEF FpTrap, IInv, TypeOK
<1>4. CASE FpOp
  BY <1>4, FpOpIInv
<1>5. CASE BadVfpInsn
  <2>1. retry' \subseteq Tasks
    BY <1>5 DEF BadVfpInsn, IInv, TypeOK
  <2> QED
    BY <1>5, <2>1, SwitchFpuIInv DEF BadVfpInsn
<1>6. CASE Syscall
  <2>1. CASE \E n \in Numbers : AllocSignal(n)
    BY <2>1, AllocSignalIInv
  <2>2. CASE \E n \in Sigs : FreeSignal(n)
    BY <2>2, FreeSignalIInv
  <2>3. CASE \E t \in Tasks \cup {NoTask}, n \in Sigs : Signal(t, n)
    BY <2>3, SignalNotedIInv, SignalWakesIInv DEF Signal
  <2>4. CASE \E mask \in SUBSET Sigs : Wait(mask)
    BY <2>4, WaitReturnsIInv, WaitSleepsIInv DEF Wait
  <2> QED
    BY <1>6, <2>1, <2>2, <2>3, <2>4 DEF Syscall
<1>7. CASE UNCHANGED vars
  BY <1>7 DEF vars, lists, signals, cpu, fp, IInv, TypeOK, CurrentIsHead, OneQueueEach,
              NoLostWakeup, FpuGuarded, SteadyReady, Ready, Waiting, Halted
<1> QED
  BY <1>1, <1>2, <1>3, <1>4, <1>5, <1>6, <1>7 DEF Next

(* In every reachable state of the kernel, whatever the tasks do: the types,*)
(* one queue per task, the agreement on the running task, no lost wakeup    *)
(* and the guarded fpu.                                                     *)
THEOREM KernelSafe == Spec => []IInv
<1>1. Init => IInv
  BY InitIInv
<1>2. IInv /\ [Next]_vars => IInv'
  BY NextIInv
<1> QED
  BY <1>1, <1>2, PTL DEF Spec

(* A context is always saved into the tcb of the task that was running.     *)
THEOREM ContextsAreOwn == Spec => []CurrentIsHead
BY KernelSafe, PTL DEF IInv

(* A task is on one list at a time, and its state says whether it waits.    *)
THEOREM QueuesSound == Spec => []OneQueueEach
BY KernelSafe, PTL DEF IInv

(* No task sleeps on a signal it has been sent.                             *)
THEOREM WakeupsKept == Spec => []NoLostWakeup
BY KernelSafe, PTL DEF IInv

(* The fpu is enabled for its owner only.                                   *)
THEOREM FpuSound == Spec => []FpuGuarded
BY KernelSafe, PTL DEF IInv

(* Every variable keeps its type.                                           *)
THEOREM TypesSound == Spec => []TypeOK
BY KernelSafe, PTL DEF IInv

-----------------------------------------------------------------------------
(* Nobody is overtaken: whatever leaves the list is its first task, and     *)
(* whatever enters it does so at an end, so the others move together.       *)

LEMMA MovedTogether ==
  ASSUME IInv, NEW d \in {-1, 1},
         \A k \in 2..Len(tasks) : k + d \in DOMAIN tasks' /\ tasks'[k + d] = tasks[k]
  PROVE  \A t \in Tasks : t \in Ready /\ t # thistask => BehindOf(t) \subseteq BehindOf(t)'
<1> SUFFICES ASSUME NEW t \in Ready, t # thistask, NEW x \in BehindOf(t)
             PROVE  x \in BehindOf(t)'
  OBVIOUS
<1>1. PICK j \in DOMAIN tasks : x = tasks[j] /\ \E i \in DOMAIN tasks : i < j /\ tasks[i] = t
  BY DEF BehindOf
<1>2. PICK i \in DOMAIN tasks : i < j /\ tasks[i] = t
  BY <1>1
<1>3. DOMAIN tasks = 1..Len(tasks) /\ Len(tasks) \in Nat
  BY DEF IInv, TypeOK
<1>4. i # 1
  BY <1>2, CurrentIsReady
<1>5. i \in 2..Len(tasks) /\ j \in 2..Len(tasks)
  BY <1>2, <1>3, <1>4
<1>6. i + d < j + d
  BY <1>2, <1>5
<1>7. i + d \in DOMAIN tasks' /\ tasks'[i + d] = t /\ j + d \in DOMAIN tasks' /\ tasks'[j + d] = x
  BY <1>1, <1>2, <1>5
<1> QED
  BY <1>6, <1>7 DEF BehindOf

\* the first task gone, as when it sleeps, faults or goes to the end
LEMMA FirstGone ==
  ASSUME IInv
  PROVE  LET rest == Without(tasks, thistask)
         IN  /\ rest \in Seq(Tasks) /\ Len(rest) = Len(tasks) - 1
             /\ \A k \in 2..Len(tasks) : rest[k - 1] = tasks[k]
<1>1. /\ tasks \in Seq(Tasks) /\ IsInjective(tasks) /\ thistask = tasks[1]
      /\ 1 \in 1..Len(tasks) /\ Len(tasks) \in Nat
  BY CurrentIsReady DEF IInv, TypeOK, OneQueueEach
<1> DEFINE rest == Without(tasks, thistask)
<1>2. /\ rest \in Seq(Tasks) /\ Len(rest) = Len(tasks) - 1
      /\ \A j \in 1..(Len(tasks) - 1) : rest[j] = IF j < 1 THEN tasks[j] ELSE tasks[j + 1]
  BY <1>1, WithoutPlaces
<1> HIDE DEF rest
<1>3. ASSUME NEW k \in 2..Len(tasks)
      PROVE  rest[k - 1] = tasks[k]
  <2>1. k - 1 \in 1..(Len(tasks) - 1) /\ ~(k - 1 < 1) /\ (k - 1) + 1 = k
    BY <1>1
  <2> QED
    BY <1>2, <2>1
<1> QED
  BY <1>2, <1>3 DEF rest

LEMMA StepMovesTogether ==
  ASSUME IInv, [Next]_vars
  PROVE  \A t \in Tasks : t \in Ready /\ t # thistask => BehindOf(t) \subseteq BehindOf(t)'
<1> DEFINE rest == Without(tasks, thistask)
<1>1. /\ thistask \in Tasks /\ tasks \in Seq(Tasks) /\ IsInjective(tasks) /\ Len(tasks) \in Nat
      /\ DOMAIN tasks = 1..Len(tasks)
  BY DEF IInv, TypeOK, OneQueueEach
<1>2. /\ rest \in Seq(Tasks) /\ Len(rest) = Len(tasks) - 1
      /\ \A k \in 2..Len(tasks) : rest[k - 1] = tasks[k]
  BY FirstGone
<1> HIDE DEF rest
<1>3. CASE Vsync
  <2>1. tasks' = Append(rest, thistask)
    BY <1>3 DEF Vsync, Rotated, rest
  <2>2. ASSUME NEW k \in 2..Len(tasks)
        PROVE  k + (-1) \in DOMAIN tasks' /\ tasks'[k + (-1)] = tasks[k]
    <3>1. k + (-1) = k - 1 /\ k - 1 \in 1..Len(rest)
      BY <1>1, <1>2
    <3> QED
      BY <1>1, <1>2, <2>1, <3>1
  <2> QED
    BY <2>2, MovedTogether
<1>4. CASE TaskError \/ \E mask \in SUBSET Sigs : WaitSleeps(mask)
  <2>1. tasks' = rest
    BY <1>4 DEF TaskError, Retired, WaitSleeps, rest
  <2>2. ASSUME NEW k \in 2..Len(tasks)
        PROVE  k + (-1) \in DOMAIN tasks' /\ tasks'[k + (-1)] = tasks[k]
    <3>1. k + (-1) = k - 1 /\ k - 1 \in 1..Len(rest)
      BY <1>1, <1>2
    <3> QED
      BY <1>2, <2>1, <3>1
  <2> QED
    BY <2>2, MovedTogether
<1>5. ASSUME NEW u \in Tasks \cup {NoTask}, NEW n \in Sigs, SignalWakes(u, n)
      PROVE  \A t \in Tasks : t \in Ready /\ t # thistask => BehindOf(t) \subseteq BehindOf(t)'
  <2>1. u \in Tasks /\ u \notin Ready /\ tasks' = Push(tasks, u)
    <3>1. u \in Tasks
      BY <1>5 DEF SignalWakes, FindTask, IInv, OneQueueEach, Ready, Waiting
    <3> QED
      BY <1>5, <3>1 DEF SignalWakes, IInv, TypeOK, OneQueueEach
  <2>2. /\ tasks' \in Seq(Tasks) /\ Len(tasks') = Len(tasks) + 1
        /\ \A i \in 1..Len(tasks) + 1 : tasks'[i] = IF i = 1 THEN u ELSE tasks[i - 1]
    BY <1>1, <2>1, PushProperties DEF Ready
  <2>3. ASSUME NEW k \in 2..Len(tasks)
        PROVE  k + 1 \in DOMAIN tasks' /\ tasks'[k + 1] = tasks[k]
    <3>1. k + 1 \in 1..Len(tasks) + 1 /\ k + 1 # 1 /\ (k + 1) - 1 = k
      BY <1>1
    <3> QED
      BY <2>2, <3>1
  <2> QED
    BY <2>3, MovedTogether
<1>6. ASSUME tasks' = tasks
      PROVE  \A t \in Tasks : BehindOf(t) \subseteq BehindOf(t)'
  BY <1>6 DEF BehindOf
<1>7. CASE FpTrap \/ FpOp \/ BadVfpInsn \/ UNCHANGED vars
  BY <1>6, <1>7 DEF FpTrap, FpOp, BadVfpInsn, SwitchFpu, vars, lists
<1>8. CASE Syscall
  BY <1>4, <1>5, <1>6, <1>8 DEF Syscall, AllocSignal, FreeSignal, Signal, SignalNoted, Wait,
                                WaitReturns, lists
<1> QED
  BY <1>3, <1>4, <1>7, <1>8 DEF Next

(* A task behind a ready one stays behind it until that one has run.        *)
THEOREM NobodyOvertakes == Spec => NoOvertaking
<1>1. IInv /\ [Next]_vars
        => [\A t \in Tasks : t \in Ready /\ t # thistask /\ t \in Ready'
              => BehindOf(t) \cap Ready' \subseteq BehindOf(t)']_vars
  BY StepMovesTogether
<1> QED
  BY <1>1, KernelSafe, PTL DEF Spec, NoOvertaking

-----------------------------------------------------------------------------
(* The refinement: the kernel implements TaskMachine, whatever its tasks,   *)
(* signals and floating point registers are.  Each action of the kernel is  *)
(* one action of the machine, or none where it only decides who runs or who *)
(* owns the fpu.                                                            *)

(* A context saved and another one loaded: to a task its r0 only changes if *)
(* it is the one that was running.                                          *)
LEMMA OwnR0Saved ==
  ASSUME IInv, CurrentIsHead', NEW w, tcbR0' = SaveContext(w), ex_context_exit
  PROVE  OwnR0' = [OwnR0 EXCEPT ![thistask] = w]
<1>1. /\ thistask \in Tasks /\ spIrq = thistask /\ spIrq' = thistask'
      /\ tcbR0 \in [Tasks -> Word]
  BY DEF IInv, TypeOK, CurrentIsHead
<1>2. OwnR0' = [t \in Tasks |-> tcbR0'[t]]
  BY <1>1 DEF OwnR0, ex_context_exit
<1> QED
  BY <1>1, <1>2 DEF OwnR0, SaveContext

LEMMA OwnR0Kept ==
  ASSUME IInv, CurrentIsHead', tcbR0' = SaveContext(r0), ex_context_exit
  PROVE  OwnR0' = OwnR0
<1>1. OwnR0' = [OwnR0 EXCEPT ![thistask] = r0]
  BY OwnR0Saved
<1> QED
  BY <1>1 DEF OwnR0

\* while the same task runs on, its r0 is live
LEMMA OwnR0Live ==
  ASSUME IInv, UNCHANGED <<thistask, tcbR0>>
  PROVE  OwnR0' = [OwnR0 EXCEPT ![thistask] = r0']
BY DEF OwnR0, IInv, TypeOK

LEMMA OwnFpKept == ASSUME UNCHANGED fp PROVE OwnFp' = OwnFp
BY DEF OwnFp, fp

LEMMA QueueSetsKept ==
  ASSUME UNCHANGED lists
  PROVE  Ready' = Ready /\ Waiting' = Waiting
BY DEF lists, Ready, Waiting

-----------------------------------------------------------------------------
(* The steps the tasks do not notice.                                       *)

LEMMA VsyncStutters ==
  ASSUME IInv, IInv', Vsync
  PROVE  UNCHANGED M!absVars
<1>1. /\ thistask \in Ready /\ thistask \in Tasks
      /\ tasks \in Seq(Tasks) /\ IsInjective(tasks)
  BY CurrentIsReady DEF IInv, TypeOK, OneQueueEach
<1> DEFINE rest == Without(tasks, thistask)
<1>2. /\ rest \in Seq(Tasks) /\ IsInjective(rest) /\ Range(rest) = Ready \ {thistask}
  BY <1>1, WithoutProperties DEF Ready
<1>3. tasks' = Append(rest, thistask)
  BY DEF Vsync, Rotated
<1> HIDE DEF rest
<1>4. Ready' = Ready
  <2>1. thistask \notin Range(rest)
    BY <1>2
  <2>2. Range(tasks') = Range(rest) \cup {thistask}
    BY <1>1, <1>2, <1>3, <2>1, AppendElements
  <2> QED
    BY <1>1, <1>2, <2>2 DEF Ready
<1>5. OwnR0' = OwnR0
  BY OwnR0Kept DEF Vsync, IInv
<1>6. OwnFp' = OwnFp
  BY OwnFpKept DEF Vsync
<1> QED
  BY <1>4, <1>5, <1>6 DEF M!absVars, Vsync, signals, Waiting

LEMMA SwitchFpuStutters ==
  ASSUME IInv, IInv', SwitchFpu
  PROVE  UNCHANGED M!absVars
<1>1. /\ spIrq = thistask /\ thistask \in Tasks /\ tcbR0 \in [Tasks -> Word]
      /\ tcbFp \in [Tasks -> FpVals] /\ fptask \in Tasks \cup {NoTask}
  BY DEF IInv, TypeOK, CurrentIsHead
<1>2. OwnR0' = OwnR0
  BY <1>1 DEF OwnR0, SwitchFpu, SaveContext
<1>3. OwnFp' = [t \in Tasks |-> tcbFp'[t]]
  BY <1>1 DEF OwnFp, SwitchFpu
<1>4. OwnFp' = OwnFp
  <2>1. CASE fptask = NoTask
    BY <1>1, <1>3, <2>1, TasksAssumption DEF OwnFp, SwitchFpu, FpSaved
  <2>2. CASE fptask # NoTask
    BY <1>1, <1>3, <2>2 DEF OwnFp, SwitchFpu, FpSaved
  <2> QED
    BY <2>1, <2>2
<1> QED
  BY <1>2, <1>4, QueueSetsKept DEF M!absVars, SwitchFpu, signals

-----------------------------------------------------------------------------
(* The steps they do.                                                       *)

LEMMA TaskErrorRetires ==
  ASSUME IInv, IInv', TaskError
  PROVE  thistask \notin Steady /\ M!Retire(thistask)
<1>1. Ready' = Ready \ {thistask}
  BY AnotherIsReady DEF TaskError, Retired, Ready
<1>2. OwnR0' = OwnR0
  BY OwnR0Kept DEF TaskError, IInv
<1>3. OwnFp' = OwnFp
  BY OwnFpKept DEF TaskError
<1> QED
  BY <1>1, <1>2, <1>3 DEF M!Retire, TaskError, signals, Waiting

LEMMA FpOpFloats ==
  ASSUME IInv, IInv', FpOp
  PROVE  M!Float(thistask)
<1>1. fptask = thistask /\ thistask \in Tasks /\ tcbFp \in [Tasks -> FpVals]
  BY DEF IInv, TypeOK, FpuGuarded, FpOp
<1>2. OwnFp' = [OwnFp EXCEPT ![thistask] = fpu']
  BY <1>1 DEF OwnFp, FpOp
<1>3. OwnR0' = OwnR0
  BY DEF OwnR0, FpOp, cpu
<1> QED
  BY <1>2, <1>3, QueueSetsKept DEF M!Float, FpOp, signals

LEMMA AllocSignalAllocs ==
  ASSUME IInv, IInv', NEW n \in Numbers, AllocSignal(n)
  PROVE  M!Alloc(thistask)
<1>1. thistask \in Tasks /\ sigAllocated \in [Tasks -> SUBSET Sigs]
  BY DEF IInv, TypeOK
<1> DEFINE free == Sigs \ sigAllocated[thistask]
           res == Allocation(n)
<1>2. res \in free \/ res = -1
  <2>1. CASE n = -1 /\ free # {}
    <3>1. free \subseteq Nat
      BY DataAssumption
    <3>2. PICK k \in free : \A j \in free : k <= j
      BY <2>1, <3>1, LeastNat
    <3>3. Lowest(free) \in free
      BY <3>2 DEF Lowest
    <3> QED
      BY <2>1, <3>3 DEF Allocation
  <2>2. CASE ~(n = -1 /\ free # {})
    BY <2>2 DEF Allocation
  <2> QED
    BY <2>1, <2>2
<1>3. -1 \notin Sigs
  BY DataAssumption
<1>4. /\ r0' = Num(res)
      /\ sigAllocated' = [sigAllocated EXCEPT ![thistask] = @ \cup ({res} \cap Sigs)]
  BY DEF AllocSignal
<1>5. OwnR0' = [OwnR0 EXCEPT ![thistask] = Num(res)]
  BY <1>4, OwnR0Live DEF AllocSignal, cpu
<1>6. OwnFp' = OwnFp
  BY OwnFpKept DEF AllocSignal
<1>7. UNCHANGED <<Ready, Waiting, sigWaiting, sigReceived>>
  BY QueueSetsKept DEF AllocSignal
<1> HIDE DEF free, res
<1>8. CASE res \in free
  <2>1. res \in Sigs \ sigAllocated[thistask]
    BY <1>8 DEF free
  <2>2. sigAllocated' = [sigAllocated EXCEPT ![thistask] = @ \cup {res}]
    BY <1>4, <2>1
  <2> QED
    BY <1>5, <1>6, <1>7, <2>1, <2>2 DEF M!Alloc, M!Num, Num
<1>9. CASE res = -1
  <2>1. sigAllocated' = sigAllocated
    BY <1>1, <1>3, <1>4, <1>9
  <2> QED
    BY <1>5, <1>6, <1>7, <1>9, <2>1 DEF M!Alloc, M!Num, Num
<1> QED
  BY <1>2, <1>8, <1>9

LEMMA FreeSignalFrees ==
  ASSUME IInv, IInv', NEW n \in Sigs, FreeSignal(n)
  PROVE  M!Free(thistask, n)
<1>1. /\ thistask \in Tasks /\ sigAllocated \in [Tasks -> SUBSET Sigs]
  BY DEF IInv, TypeOK
<1>2. OwnR0' = [OwnR0 EXCEPT ![thistask] = Dead]
  BY OwnR0Live DEF FreeSignal, cpu
<1>3. OwnFp' = OwnFp
  BY OwnFpKept DEF FreeSignal
<1>4. UNCHANGED <<Ready, Waiting>>
  BY QueueSetsKept DEF FreeSignal
<1>5. CASE n \in sigAllocated[thistask]
  <2>1. /\ sigAllocated' = [sigAllocated EXCEPT ![thistask] = @ \ {n}]
        /\ sigWaiting' = [sigWaiting EXCEPT ![thistask] = @ \ {n}]
        /\ sigReceived' = [sigReceived EXCEPT ![thistask] = @ \ {n}]
    BY <1>5 DEF FreeSignal, Clear
  <2> QED
    BY <1>2, <1>3, <1>4, <1>5, <2>1 DEF M!Free, M!Dead, Dead
<1>6. CASE n \notin sigAllocated[thistask]
  <2>1. sigAllocated' = [sigAllocated EXCEPT ![thistask] = @ \ {n}]
    BY <1>1, <1>6 DEF FreeSignal, signals
  <2>2. UNCHANGED <<sigWaiting, sigReceived>>
    BY <1>6 DEF FreeSignal, signals
  <2> QED
    BY <1>2, <1>3, <1>4, <1>6, <2>1, <2>2 DEF M!Free, M!Dead, Dead
<1> QED
  BY <1>5, <1>6

LEMMA SignalNotedSignals ==
  ASSUME IInv, IInv', NEW u \in Tasks \cup {NoTask}, NEW n \in Sigs, SignalNoted(u, n)
  PROVE  M!Signal(thistask, u, n)
<1>1. OwnR0' = [OwnR0 EXCEPT ![thistask] = Dead]
  BY OwnR0Saved DEF SignalNoted, IInv
<1>2. OwnFp' = OwnFp
  BY OwnFpKept DEF SignalNoted
<1>3. UNCHANGED <<Ready, Waiting, sigAllocated, sigWaiting>>
  BY QueueSetsKept DEF SignalNoted
<1>4. CASE ~FindTask(u)
  <2>1. u \notin Ready \cup Waiting
    BY <1>4 DEF FindTask, Ready, Waiting
  <2>2. sigReceived' = sigReceived
    BY <1>4 DEF SignalNoted
  <2> QED
    BY <1>1, <1>2, <1>3, <2>1, <2>2 DEF M!Signal, M!Dead, Dead
<1>5. CASE FindTask(u)
  <2>1. u \in Tasks /\ u \in Ready \cup Waiting
    BY <1>5 DEF FindTask, Ready, Waiting, IInv, OneQueueEach
  <2>2. sigReceived' = [sigReceived EXCEPT ![u] = @ \cup {n}]
    BY <1>5 DEF SignalNoted
  <2>3. u \in Ready \/ (u \in Waiting /\ n \notin sigWaiting[u])
    <3>1. CASE u \in Waiting
      <4>1. state[u] = "TS_WAIT"
        BY <2>1, <3>1 DEF IInv, OneQueueEach
      <4>2. Wakes(u, n) = {}
        BY <1>5, <4>1 DEF SignalNoted
      <4> QED
        BY <3>1, <4>2 DEF Wakes
    <3> QED
      BY <2>1, <3>1
  <2> QED
    BY <1>1, <1>2, <1>3, <2>2, <2>3 DEF M!Signal, M!Dead, Dead
<1> QED
  BY <1>4, <1>5

LEMMA SignalWakesSignals ==
  ASSUME IInv, IInv', NEW u \in Tasks \cup {NoTask}, NEW n \in Sigs, SignalWakes(u, n)
  PROVE  M!Signal(thistask, u, n)
<1>1. /\ u \in Tasks /\ u \in Waiting /\ u \notin Ready
      /\ tasks \in Seq(Tasks) /\ IsInjective(tasks)
      /\ tasks_wait \in Seq(Tasks) /\ IsInjective(tasks_wait)
  <2>1. u \in Tasks
    BY DEF SignalWakes, FindTask, IInv, OneQueueEach, Ready, Waiting
  <2> QED
    BY <2>1 DEF IInv, TypeOK, OneQueueEach, SignalWakes
<1>2. Ready' = Ready \cup {u}
  BY <1>1, PushProperties DEF SignalWakes, Ready
<1>3. Waiting' = Waiting \ {u}
  BY <1>1, WithoutProperties DEF SignalWakes, Waiting
<1>4. Wakes(u, n) = {n} /\ n \in sigWaiting[u]
  <2>1. sigReceived[u] \cap sigWaiting[u] = {}
    BY <1>1 DEF IInv, NoLostWakeup
  <2> QED
    BY <2>1 DEF SignalWakes, Wakes
<1>5. OwnR0' = [OwnR0 EXCEPT ![thistask] = Dead, ![u] = Mask({n})]
  <2>1. /\ thistask \in Tasks /\ spIrq = thistask /\ tcbR0 \in [Tasks -> Word]
        /\ thistask # u
    BY <1>1, CurrentIsReady DEF IInv, TypeOK, CurrentIsHead
  <2>2. tcbR0' = [[tcbR0 EXCEPT ![thistask] = Dead] EXCEPT ![u] = Mask({n})]
    BY <1>4, <2>1 DEF SignalWakes, SaveContext
  <2>3. thistask' = u /\ r0' = tcbR0'[u]
    BY DEF SignalWakes, irq_new_task, ex_context_exit
  <2>4. OwnR0' = [t \in Tasks |-> tcbR0'[t]]
    BY <2>3 DEF OwnR0
  <2> QED
    BY <1>1, <2>1, <2>2, <2>4 DEF OwnR0
<1>6. OwnFp' = OwnFp
  BY OwnFpKept DEF SignalWakes
<1>7. /\ sigReceived' = [sigReceived EXCEPT ![u] = @ \cup {n}]
      /\ UNCHANGED <<sigAllocated, sigWaiting>>
  BY DEF SignalWakes
<1> QED
  BY <1>1, <1>2, <1>3, <1>4, <1>5, <1>6, <1>7 DEF M!Signal, M!Dead, M!Mask, Dead, Mask

LEMMA WaitReturnsWaits ==
  ASSUME IInv, IInv', NEW mask \in SUBSET Sigs, WaitReturns(mask)
  PROVE  thistask \notin Steady /\ M!WaitReturns(thistask, mask)
<1>1. OwnR0' = [OwnR0 EXCEPT ![thistask] = Mask(mask)]
  BY OwnR0Saved DEF WaitReturns, IInv
<1>2. OwnFp' = OwnFp
  BY OwnFpKept DEF WaitReturns
<1>3. \E S \in SUBSET mask : /\ sigReceived[thistask] \cap mask \subseteq S
                             /\ OwnR0' = [OwnR0 EXCEPT ![thistask] = M!Mask(S)]
  <2> WITNESS mask \in SUBSET mask
  <2> QED
    BY <1>1 DEF M!Mask, Mask
<1> QED
  BY <1>2, <1>3, QueueSetsKept DEF M!WaitReturns, WaitReturns

LEMMA WaitSleepsWaits ==
  ASSUME IInv, IInv', NEW mask \in SUBSET Sigs, WaitSleeps(mask)
  PROVE  thistask \notin Steady /\ M!WaitSleeps(thistask, mask)
<1>1. /\ thistask \in Tasks /\ thistask \notin Waiting
      /\ tasks_wait \in Seq(Tasks) /\ IsInjective(tasks_wait)
  BY CurrentIsReady DEF IInv, TypeOK, OneQueueEach
<1>2. Ready' = Ready \ {thistask}
  BY AnotherIsReady DEF WaitSleeps, Ready
<1>3. Waiting' = Waiting \cup {thistask}
  BY <1>1, AppendElements DEF WaitSleeps, Waiting
<1>4. OwnR0' = [OwnR0 EXCEPT ![thistask] = Mask(mask)]
  BY OwnR0Saved DEF WaitSleeps, IInv
<1>5. OwnFp' = OwnFp
  BY OwnFpKept DEF WaitSleeps
<1> QED
  BY <1>2, <1>3, <1>4, <1>5 DEF M!WaitSleeps, WaitSleeps, M!Mask, Mask

-----------------------------------------------------------------------------
THEOREM InitMaps == Init => M!Init
<1> SUFFICES ASSUME Init PROVE M!Init
  OBVIOUS
<1>1. Ready = Tasks
  BY BootAssumption DEF Init, Ready
<1>2. Waiting = {}
  BY DEF Init, Waiting, Range
<1>3. OwnR0 = [t \in Tasks |-> Dead]
  BY DEF Init, OwnR0
<1>4. OwnFp = [t \in Tasks |-> FpZero]
  BY TasksAssumption DEF Init, OwnFp
<1> QED
  BY <1>1, <1>2, <1>3, <1>4 DEF Init, M!Init, M!Dead, Dead

THEOREM NextMaps == IInv /\ IInv' /\ [Next]_vars => [M!Next]_M!absVars
<1> SUFFICES ASSUME IInv, IInv', [Next]_vars
             PROVE  M!Next \/ UNCHANGED M!absVars
  OBVIOUS
<1>1. thistask \in Ready
  BY CurrentIsReady
<1>2. CASE Vsync
  BY <1>2, VsyncStutters
<1>3. CASE FpTrap \/ BadVfpInsn
  BY <1>3, SwitchFpuStutters DEF FpTrap, BadVfpInsn
<1>4. CASE TaskError
  BY <1>1, <1>4, TaskErrorRetires DEF M!Next
<1>5. CASE FpOp
  BY <1>1, <1>5, FpOpFloats DEF M!Next
<1>6. CASE Syscall
  <2>1. CASE \E n \in Numbers : AllocSignal(n)
    BY <1>1, <2>1, AllocSignalAllocs DEF M!Next
  <2>2. CASE \E n \in Sigs : FreeSignal(n)
    BY <1>1, <2>2, FreeSignalFrees DEF M!Next
  <2>3. CASE \E u \in Tasks \cup {NoTask}, n \in Sigs : Signal(u, n)
    BY <1>1, <2>3, SignalNotedSignals, SignalWakesSignals DEF M!Next, Signal
  <2>4. CASE \E mask \in SUBSET Sigs : Wait(mask)
    BY <1>1, <2>4, WaitReturnsWaits, WaitSleepsWaits DEF M!Next, Wait
  <2> QED
    BY <1>6, <2>1, <2>2, <2>3, <2>4 DEF Syscall
<1>7. CASE UNCHANGED vars
  BY <1>7 DEF vars, lists, signals, cpu, fp, M!absVars, Ready, Waiting, OwnR0, OwnFp
<1> QED
  BY <1>2, <1>3, <1>4, <1>5, <1>6, <1>7 DEF Next

(* Whatever the interrupts, the other tasks and the fpu traps do, a task of *)
(* the kernel sees what it would see on a processor of its own.             *)
THEOREM KernelRefines == Spec => ImplementsTaskMachine
<1>1. IInv /\ IInv' /\ [Next]_vars => [M!Next]_M!absVars
  BY NextMaps
<1> QED
  BY <1>1, InitMaps, KernelSafe, PTL DEF Spec, ImplementsTaskMachine, M!Spec
=============================================================================
