------------------------------ MODULE IpcTasks ------------------------------
(***************************************************************************)
(* The four tasks of src/ipc-signal on the kernel of IpcSignal.  task1 and  *)
(* task2 wait for signal 16, draw, and count rounds in a float and in an    *)
(* integer, which they compare; task3 draws a few times and executes an     *)
(* illegal instruction; task4 draws and tells the other two when to run.    *)
(* Drawing calls nothing in the kernel: it is the time between two steps.   *)
(* The float is taken to stay in a register, the worst case for the kernel. *)
(***************************************************************************)
EXTENDS IpcSignal

CONSTANTS t1, t2, t3, t4,
          Every,       \* task2 adds when count > Every: 3 in the code
          Draws,       \* task3 faults when count > Draws: 5 in the code
          Rounds,      \* bound: the additions each of task1 and task2 is followed for
          FloatExact   \* the largest float that adding 1 still changes: 2^24 in the code

ASSUME ProgramAssumption == /\ Tasks = {t1, t2, t3, t4} /\ Cardinality(Tasks) = 4
                            /\ Steady = {t4} /\ BadVfp = {}
                            /\ BootOrders = {<<t1, t2, t3, t4>>}
                            /\ Sigs = {16}
ASSUME CountAssumption == Every \in Nat /\ Draws \in Nat
ASSUME FloatAssumption == /\ Rounds \in Nat /\ FloatExact \in Nat
                          /\ FpVals = 0..FloatExact /\ FpZero = 0

VARIABLES pc,      \* where each task is in its program
          count,   \* its variable of that name
          itotal,  \* its integer total
          told     \* history: was it signalled since its last Wait was over

prog == <<pc, count, itotal>>
progVars == <<vars, prog, told>>

At(t, label) == thistask = t /\ pc[t] = label

Goto(t, label) == pc' = [pc EXCEPT ![t] = label]

-----------------------------------------------------------------------------
(* task1 and task2.                                                         *)

Listeners == {t1, t2}

\* task1 adds every round, task2 once in Every + 1
Counts(t) == count[t] + 1 > (IF t = t1 THEN 0 ELSE Every)

Allocate(t) == /\ At(t, "alloc") /\ AllocSignal(16)
               /\ Goto(t, "wait")
               /\ UNCHANGED <<count, itotal, told>>

Await(t) == /\ At(t, "wait")
            /\ Wait({16})
            /\ told' = [told EXCEPT ![t] = t \in Waiting' /\ told[t]]
            /\ Goto(t, "stuff")
            /\ UNCHANGED <<count, itotal>>

DrawAndCount(t) ==
    /\ At(t, "stuff")
    /\ count' = [count EXCEPT ![t] = IF Counts(t) THEN 0 ELSE @ + 1]
    /\ Goto(t, IF Counts(t) /\ itotal[t] < Rounds THEN "float" ELSE "wait")
    /\ UNCHANGED <<vars, itotal, told>>

\* the instruction at "float" or "compare" traps while the fpu is disabled
Trapped(t) == /\ At(t, "float") \/ At(t, "compare")
              /\ FpTrap
              /\ UNCHANGED <<prog, told>>

\* total += 1; itotal += 1, in single precision
Add(t) == /\ At(t, "float") /\ FpOp
          /\ fpu' = IF fpu = FloatExact THEN fpu ELSE fpu + 1
          /\ itotal' = [itotal EXCEPT ![t] = @ + 1]
          /\ Goto(t, "compare")
          /\ UNCHANGED <<count, told>>

AfterCompare(t) == IF fpu = itotal[t] THEN "wait" ELSE "funny"

\* if ((int)total != itotal)
Compare(t) == /\ At(t, "compare") /\ FpOp /\ fpu' = fpu
              /\ Goto(t, AfterCompare(t))
              /\ UNCHANGED <<count, itotal, told>>

-----------------------------------------------------------------------------
(* task3 and task4.                                                         *)

Draw3 == /\ At(t3, "stuff")
         /\ count' = [count EXCEPT ![t3] = @ + 1]
         /\ Goto(t3, IF count[t3] + 1 > Draws THEN "cdp" ELSE "stuff")
         /\ UNCHANGED <<vars, itotal, told>>

Illegal3 == /\ At(t3, "cdp") /\ TaskError
            /\ UNCHANGED <<prog, told>>

\* bound: of count only its two low bits matter
Draw4 == /\ At(t4, "stuff")
         /\ count' = [count EXCEPT ![t4] = (@ + 1) % 4]
         /\ Goto(t4, "tell1")
         /\ UNCHANGED <<vars, itotal, told>>

Tell(t, due, next) ==
    /\ \/ /\ due /\ SignalNoted(t, 16)
          /\ told' = [told EXCEPT ![t] = TRUE]
       \/ /\ due /\ SignalWakes(t, 16)
          /\ told' = [told EXCEPT ![t] = FALSE]
       \/ /\ ~due
          /\ UNCHANGED <<vars, told>>
    /\ Goto(t4, next)
    /\ UNCHANGED <<count, itotal>>

Tell1 == At(t4, "tell1") /\ Tell(t1, count[t4] % 2 = 1, "tell2")
Tell2 == At(t4, "tell2") /\ Tell(t2, count[t4] \div 2 = 1, "stuff")

Jiffy == Vsync /\ UNCHANGED <<prog, told>>

-----------------------------------------------------------------------------
ProgInit == /\ Init
            /\ pc = [t \in Tasks |-> IF t \in Listeners THEN "alloc" ELSE "stuff"]
            /\ count = [t \in Tasks |-> 0]
            /\ itotal = [t \in Tasks |-> 0]
            /\ told = [t \in Tasks |-> FALSE]

ListenerStep(t) == \/ Allocate(t) \/ Await(t) \/ DrawAndCount(t)
                   \/ Trapped(t) \/ Add(t) \/ Compare(t)

ProgNext == \/ Jiffy
            \/ \E t \in Listeners : ListenerStep(t)
            \/ Draw3 \/ Illegal3
            \/ Draw4 \/ Tell1 \/ Tell2

ProgSpec == ProgInit /\ [][ProgNext]_progVars

(* A frame is millions of instructions: a task that gets the processor      *)
(* again and again takes its next step, and a floating point instruction    *)
(* that trapped is executed in the same frame often enough.                 *)
ProgFairness ==
    /\ WF_progVars(Jiffy)
    /\ \A t \in Listeners : /\ SF_progVars(Allocate(t) \/ Await(t) \/ DrawAndCount(t) \/ Trapped(t))
                            /\ SF_progVars(Add(t) \/ Compare(t))
    /\ SF_progVars(Draw3 \/ Illegal3)
    /\ SF_progVars(Draw4 \/ Tell1 \/ Tell2)

FairProgSpec == ProgSpec /\ ProgFairness

-----------------------------------------------------------------------------
(* No task ever prints "fpu funny": its float total is its own, whichever   *)
(* tasks used the fpu between the addition and the comparison.  (For Rounds *)
(* above FloatExact the float itself would stop counting.)                  *)
NeverFunny == \A t \in Tasks : pc[t] # "funny"

(* A signal sent while its task is busy is not lost: the task's next Wait   *)
(* does not sleep.                                                          *)
ToldIsHeard ==
    [][\A t \in Listeners : t \in Waiting' /\ t \notin Waiting => ~told[t]]_progVars

(* task1 and task2 are told, wake up and draw again and again, also after   *)
(* task3 has been retired.                                                  *)
ListenersRun == \A t \in Listeners : []<>At(t, "stuff")

(* task3 is retired at its illegal instruction and never runs again.        *)
FaultyRetired == <>[](t3 \in Halted /\ thistask # t3)
=============================================================================
