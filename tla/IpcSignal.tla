------------------------------ MODULE IpcSignal ------------------------------
(***************************************************************************)
(* The kernel of src/ipc-signal: round-robin tasks in user mode, signals    *)
(* between them, faulting tasks retired, and floating point registers that  *)
(* are switched only when another task uses them (ipc-signal.c, context.S). *)
(*                                                                          *)
(* Every entry to the kernel (svc, undefined instruction, irq) runs with    *)
(* interrupts masked until it returns to user mode, so each is one action;  *)
(* the interleaving is that of the user instructions of the current task    *)
(* with the vsync interrupt.  Of a task's integer registers only r0 is      *)
(* kept, which carries arguments and results; the others are saved and      *)
(* restored by the same instructions.  The floating point bank is one value.*)
(***************************************************************************)
EXTENDS NodeSeqs, FiniteSets

CONSTANTS Tasks,
          Steady,     \* the tasks that never Wait nor fault, like task4
          BadVfp,     \* the tasks with an undefined instruction that is encoded like a VFP one
          BootOrders, \* the orders main may add the tasks in
          NoTask,     \* the null pointer; as an id, one that no task has
          Sigs,       \* the signal numbers, 0..31 in the code
          FpVals, FpZero

Numbers == Sigs \cup {-1}

ASSUME TasksAssumption == /\ NoTask \notin Tasks
                          /\ Steady \subseteq Tasks
                          /\ BadVfp \subseteq Tasks
\* there is no idle task: some task must always be ready to run
ASSUME SteadyAssumption == Steady # {}
ASSUME BootAssumption == \A s \in BootOrders : /\ s \in Seq(Tasks)
                                               /\ IsInjective(s)
                                               /\ Range(s) = Tasks
ASSUME DataAssumption == Sigs \subseteq Nat /\ FpZero \in FpVals

(* Values of r0: a signal mask, a number, or one its task no longer needs.  *)
Mask(S) == <<"mask", S>>
Num(n) == <<"num", n>>
Dead == <<"dead", 0>>
Word == {Mask(S) : S \in SUBSET Sigs} \cup {Num(n) : n \in Numbers} \cup {Dead}

VARIABLES
  \* globals and task structures
  thistask, fptask,
  tasks, tasks_wait, tasks_halted,          \* the three lists, as sequences
  state, sigAllocated, sigWaiting, sigReceived,
  tcbR0, tcbFp,                             \* what each tcb holds
  \* the processor
  spIrq,                                    \* the task whose tcb sp_irq points to
  fpexc,                                    \* is the fpu enabled
  r0, fpu,                                  \* live in user mode
  retry                                     \* tasks re-executing an undefined instruction

lists == <<tasks, tasks_wait, tasks_halted>>
signals == <<sigAllocated, sigWaiting, sigReceived>>
cpu == <<thistask, spIrq, fpexc>>
fp == <<fptask, fpu, tcbFp>>
vars == <<lists, state, signals, cpu, fp, r0, tcbR0, retry>>

-----------------------------------------------------------------------------
(* Entry, exit and task switch (context.S).                                 *)

\* srsdb and stm through sp_irq: the context goes where sp_irq points
SaveContext(w) == [tcbR0 EXCEPT ![spIrq] = w]

\* Definitions marked "slip" are one-line slips in the same code; the
\* specification does not use them, PROJECT.json says which property each breaks.

\* slip: a switch that leaves the fpu as the previous task had it
irq_new_task_nofp(t) == spIrq' = t /\ UNCHANGED fpexc

irq_new_task(t) == /\ spIrq' = t
                   /\ fpexc' = (fptask = t)

ex_context_exit == r0' = tcbR0'[spIrq']

\* slip: the new task is not noted in thistask
SwitchUnnoted == irq_new_task(Head(tasks')) /\ UNCHANGED thistask

\* thistask = tasks.Head; irq_new_task(...)
SwitchToHead == /\ thistask' = Head(tasks')
                /\ irq_new_task(thistask')

-----------------------------------------------------------------------------
(* Interrupts and faults.                                                   *)

\* slip: the current task back to the head, where it came from
RotatedToHead == Push(Without(tasks, thistask), thistask)

\* slip: the ready list turned the other way, its last task to the head
RotatedBack == Push(Without(tasks, tasks[Len(tasks)]), tasks[Len(tasks)])

Rotated == Append(Without(tasks, thistask), thistask)

\* irq_entry with dispc_handler: the only interrupt main enables is vsync
Vsync ==
    /\ tcbR0' = SaveContext(r0)
    /\ tasks' = Rotated
    /\ SwitchToHead
    /\ ex_context_exit
    /\ UNCHANGED <<tasks_wait, tasks_halted, state, signals, fp, retry>>

\* what the current task may do is up to its program
User == thistask \notin retry

\* slip: the faulty task only loses its turn
Postponed == tasks' = Rotated /\ UNCHANGED tasks_halted

Retired == /\ tasks' = Without(tasks, thistask)
           /\ tasks_halted' = Append(tasks_halted, thistask)

\* an undefined instruction that is not in the VFP space, or svc with r7 > 3
TaskError ==
    /\ User /\ thistask \notin Steady
    /\ tcbR0' = SaveContext(r0)
    /\ Retired
    /\ SwitchToHead
    /\ ex_context_exit
    /\ UNCHANGED <<tasks_wait, state, signals, fp, retry>>

-----------------------------------------------------------------------------
(* The floating point registers.                                            *)

\* slip: the previous owner's registers are not stored
FpUnsaved == tcbFp

FpSaved == IF fptask = NoTask THEN tcbFp ELSE [tcbFp EXCEPT ![fptask] = fpu]

\* uni_entry on an instruction of the VFP space: whatever the cause, make the
\* interrupted task the owner and execute the instruction again
SwitchFpu ==
    /\ tcbR0' = SaveContext(r0)
    /\ tcbFp' = FpSaved
    /\ fptask' = spIrq
    /\ fpexc' = TRUE
    /\ fpu' = tcbFp'[spIrq]
    /\ UNCHANGED <<thistask, spIrq, r0, lists, state, signals>>

\* a floating point instruction while the fpu is disabled
FpTrap == /\ User /\ ~fpexc
          /\ SwitchFpu
          /\ UNCHANGED retry

\* ... and while it is enabled
FpOp == /\ User /\ fpexc
        /\ fpu' \in FpVals
        /\ UNCHANGED <<fptask, tcbFp, lists, state, signals, cpu, r0, tcbR0, retry>>

\* an undefined instruction with a VFP encoding traps every time
BadVfpInsn == /\ thistask \in BadVfp
              /\ SwitchFpu
              /\ retry' = retry \cup {thistask}

-----------------------------------------------------------------------------
(* System calls.  AllocSignal and FreeSignal are called and returned from   *)
(* like functions; Signal and Wait save the whole context first.            *)

Lowest(S) == CHOOSE n \in S : \A m \in S : n <= m

\* slip: ffs counts from 1
AllocationFromOne(n) ==
    LET free == Sigs \ sigAllocated[thistask]
    IN  IF n = -1 /\ free # {} THEN Lowest(free) + 1 ELSE -1

\* svc_AllocSignal's result: any free signal for -1, else the one asked for
Allocation(n) ==
    LET free == Sigs \ sigAllocated[thistask]
    IN  CASE n = -1 /\ free # {} -> Lowest(free)
          [] n \in free          -> n
          [] OTHER               -> -1

AllocSignal(n) ==
    /\ User
    /\ LET res == Allocation(n)
       IN  /\ r0' = Num(res)
           /\ sigAllocated' = [sigAllocated EXCEPT ![thistask] = @ \cup ({res} \cap Sigs)]
    /\ UNCHANGED <<sigWaiting, sigReceived, lists, state, cpu, fp, tcbR0, retry>>

Clear(masks, n) == [masks EXCEPT ![thistask] = @ \ {n}]

FreeSignal(n) ==
    /\ User
    /\ r0' = Dead
    /\ IF n \in sigAllocated[thistask]
       THEN /\ sigAllocated' = Clear(sigAllocated, n)
            /\ sigWaiting' = Clear(sigWaiting, n)
            /\ sigReceived' = Clear(sigReceived, n)
       ELSE UNCHANGED signals
    /\ UNCHANGED <<lists, state, cpu, fp, tcbR0, retry>>

\* slips: only one of its two loops
FindSleeping(id) == id \in Range(tasks_wait)
FindReady(id) == id \in Range(tasks)

\* the two lists findTask searches
FindTask(id) == id \in Range(tasks) \cup Range(tasks_wait)

\* slip: the received signals read before the new one is added
WakesLate(t, n) == sigReceived[t] \cap sigWaiting[t]

\* the signals task t, if it is asleep, would wake up to when sent n
Wakes(t, n) == (sigReceived[t] \cup {n}) \cap sigWaiting[t]

\* Signal(t, n) that wakes no one: no such task, or it is not waiting for n
SignalNoted(t, n) ==
    /\ User
    /\ FindTask(t) => ~(state[t] = "TS_WAIT" /\ Wakes(t, n) # {})
    /\ sigReceived' = IF FindTask(t) THEN [sigReceived EXCEPT ![t] = @ \cup {n}]
                                     ELSE sigReceived
    /\ tcbR0' = SaveContext(Dead)
    /\ UNCHANGED cpu
    /\ ex_context_exit
    /\ UNCHANGED <<sigAllocated, sigWaiting, lists, state, fp, retry>>

\* slip: the task's state is left as it was
Drowsy(t) == UNCHANGED state

Awake(t) == state' = [state EXCEPT ![t] = "TS_RUN"]

\* Signal(t, n) that wakes t: it runs at once, ahead of the caller
SignalWakes(t, n) ==
    /\ User
    /\ FindTask(t) /\ state[t] = "TS_WAIT" /\ Wakes(t, n) # {}
    /\ sigReceived' = [sigReceived EXCEPT ![t] = @ \cup {n}]
    /\ tasks_wait' = Without(tasks_wait, t)
    /\ tasks' = Push(tasks, t)
    /\ Awake(t)
    /\ tcbR0' = [SaveContext(Dead) EXCEPT ![t] = Mask(Wakes(t, n))]
    /\ thistask' = t
    /\ irq_new_task(t)
    /\ ex_context_exit
    /\ UNCHANGED <<sigAllocated, sigWaiting, tasks_halted, fp, retry>>

\* svc_Wait's "return sigs" only sets the kernel's r0: ex_context_exit loads
\* the task's from its tcb, which still holds the argument
WaitReturns(mask) ==
    /\ User /\ thistask \notin Steady
    /\ sigReceived[thistask] \cap mask # {}
    /\ sigReceived' = [sigReceived EXCEPT ![thistask] = @ \ mask]
    /\ tcbR0' = SaveContext(Mask(mask))
    /\ UNCHANGED cpu
    /\ ex_context_exit
    /\ UNCHANGED <<sigAllocated, sigWaiting, lists, state, fp, retry>>

WaitSleeps(mask) ==
    /\ User /\ thistask \notin Steady
    /\ sigReceived[thistask] \cap mask = {}
    /\ sigWaiting' = [sigWaiting EXCEPT ![thistask] = mask]
    /\ state' = [state EXCEPT ![thistask] = "TS_WAIT"]
    /\ tasks' = Without(tasks, thistask)
    /\ tasks_wait' = Append(tasks_wait, thistask)
    /\ tcbR0' = SaveContext(Mask(mask))
    /\ SwitchToHead
    /\ ex_context_exit
    /\ UNCHANGED <<sigAllocated, sigReceived, tasks_halted, fp, retry>>

-----------------------------------------------------------------------------
\* main, up to the jump to user mode: the first task is the code in main
Init ==
    /\ tasks \in BootOrders
    /\ tasks_wait = <<>>
    /\ tasks_halted = <<>>
    /\ state = [t \in Tasks |-> "TS_INIT"]
    /\ sigAllocated = [t \in Tasks |-> {}]
    /\ sigWaiting = [t \in Tasks |-> {}]
    /\ sigReceived = [t \in Tasks |-> {}]
    /\ thistask = Head(tasks)
    /\ spIrq = thistask
    /\ fptask = NoTask
    /\ fpexc = FALSE
    /\ fpu \in FpVals
    /\ tcbFp = [t \in Tasks |-> FpZero]
    /\ r0 = Dead
    /\ tcbR0 = [t \in Tasks |-> Dead]
    /\ retry = {}

Signal(t, n) == SignalNoted(t, n) \/ SignalWakes(t, n)
Wait(mask) == WaitReturns(mask) \/ WaitSleeps(mask)

Syscall == \/ \E n \in Numbers : AllocSignal(n)
           \/ \E n \in Sigs : FreeSignal(n)
           \/ \E t \in Tasks \cup {NoTask}, n \in Sigs : Signal(t, n)
           \/ \E mask \in SUBSET Sigs : Wait(mask)

Next == Vsync \/ TaskError \/ FpTrap \/ FpOp \/ BadVfpInsn \/ Syscall

Spec == Init /\ [][Next]_vars

\* the vsync interrupt keeps coming: the display controller raises it whatever
\* the tasks do, and interrupts are masked only inside the kernel
FairSpec == Spec /\ WF_vars(Vsync)

\* ... and a task that is given the processor again and again executes
\* instructions on it (a frame is millions of them)
RunningSpec == FairSpec /\ \A t \in Tasks : SF_vars(thistask = t /\ BadVfpInsn)

-----------------------------------------------------------------------------
(* Every variable holds a value of its C type.                              *)
TypeOK ==
    /\ tasks \in Seq(Tasks) /\ tasks_wait \in Seq(Tasks) /\ tasks_halted \in Seq(Tasks)
    /\ thistask \in Tasks /\ spIrq \in Tasks /\ fptask \in Tasks \cup {NoTask}
    /\ state \in [Tasks -> {"TS_INIT", "TS_RUN", "TS_WAIT"}]
    /\ sigAllocated \in [Tasks -> SUBSET Sigs]
    /\ sigWaiting \in [Tasks -> SUBSET Sigs]
    /\ sigReceived \in [Tasks -> SUBSET Sigs]
    /\ fpexc \in BOOLEAN /\ fpu \in FpVals /\ tcbFp \in [Tasks -> FpVals]
    /\ r0 \in Word /\ tcbR0 \in [Tasks -> Word]
    /\ retry \subseteq Tasks

Waiting == Range(tasks_wait)
Halted == Range(tasks_halted)
Ready == Range(tasks)

(* Three things name the running task: thistask for the C code, sp_irq for  *)
(* the code that saves contexts, and the head of the ready list for the     *)
(* next switch.  They agree at every instruction a task executes, or a      *)
(* context would be saved into another task's tcb.                          *)
CurrentIsHead == /\ tasks # <<>>
                 /\ thistask = Head(tasks)
                 /\ spIrq = thistask

(* Every task is on exactly one of the three lists, once, and is in state   *)
(* TS_WAIT exactly when that is the wait list, which is what lets           *)
(* svc_Signal decide by the state alone whether to move the task.           *)
OneQueueEach ==
    /\ IsInjective(tasks) /\ IsInjective(tasks_wait) /\ IsInjective(tasks_halted)
    /\ Ready \cup Waiting \cup Halted = Tasks
    /\ Ready \cap Waiting = {} /\ Ready \cap Halted = {} /\ Waiting \cap Halted = {}
    /\ \A t \in Tasks : state[t] = "TS_WAIT" <=> t \in Waiting

(* No wakeup is lost: a task never sleeps on a signal it has already been   *)
(* sent, in whatever order Signal, Wait and FreeSignal came.                *)
NoLostWakeup == \A t \in Waiting : sigReceived[t] \cap sigWaiting[t] = {}

(* The fpu is enabled exactly for the task whose registers are in it, so a  *)
(* task's first use of another task's registers always traps.               *)
FpuGuarded == fpexc <=> fptask = thistask

(* The kernel has no idle task; what keeps its ready list from running      *)
(* empty is that some task never leaves it.                                 *)
SteadyReady == Steady \subseteq Ready

(* All of the above at once, which every action of the kernel preserves.    *)
IInv == TypeOK /\ CurrentIsHead /\ OneQueueEach /\ NoLostWakeup /\ FpuGuarded /\ SteadyReady

BehindOf(t) == {tasks[j] : j \in {k \in DOMAIN tasks : \E i \in DOMAIN tasks : i < k /\ tasks[i] = t}}

(* No task is overtaken: a task behind a ready one stays behind it until    *)
(* that one has had the processor.  Tasks woken by a Signal do go in front, *)
(* but only tasks that were asleep, so a ready task is passed a bounded     *)
(* number of times.                                                         *)
NoOvertaking ==
    [][\A t \in Tasks : t \in Ready /\ t # thistask /\ t \in Ready'
          => BehindOf(t) \cap Ready' \subseteq BehindOf(t)']_vars

(* Each ready task is eventually given the processor, although every Signal *)
(* may put another task at the head of the list.                            *)
ReadyRuns == \A t \in Tasks : t \in Ready ~> thistask = t

(* A task that executes an undefined instruction is eventually retired, as  *)
(* the comment on uni_entry says (context.S:126).                           *)
BadCodeRetired == \A t \in Tasks : t \in retry ~> t \in Halted

(* Wait returns with signals that have been received (ipc-signal.c:253),    *)
(* not with its own argument.                                               *)
WaitReturnsReceived ==
    [][\A mask \in SUBSET Sigs :
          WaitReturns(mask) => r0' = Mask(sigReceived[thistask] \cap mask)]_vars

(* The kernel implements a machine that gives every task a processor of its *)
(* own: no interrupt, task switch or fpu trap changes a register a task can *)
(* see, and r0 changes under it only when its Wait returns.                 *)
OwnR0 == [t \in Tasks |-> IF t = thistask THEN r0 ELSE tcbR0[t]]
OwnFp == [t \in Tasks |-> IF t = fptask THEN fpu ELSE tcbFp[t]]

M == INSTANCE TaskMachine WITH ready <- Ready, waiting <- Waiting,
        alloc <- sigAllocated, awaits <- sigWaiting, got <- sigReceived,
        acc <- OwnR0, fpr <- OwnFp
ImplementsTaskMachine == M!Spec
=============================================================================
