--------------------------- MODULE IpcTasksProofs ---------------------------
(***************************************************************************)
(* The programs of src/ipc-signal on its kernel: for every number of rounds *)
(* the floats of task1 and task2 count right, and no signal they are sent   *)
(* is lost.  The programs only restrict when a task makes a system call, so *)
(* everything proved of the kernel holds under them, and what they rely on  *)
(* is the machine it implements: a task's float changes by its own          *)
(* instructions only.                                                       *)
(***************************************************************************)
EXTENDS IpcTasks, IpcSignalProofs, FiniteSetTheorems

LEMMA ThreeAtMost == ASSUME NEW a, NEW b, NEW c PROVE Cardinality({a, b, c}) < 4
<1>1. IsFiniteSet({a}) /\ Cardinality({a}) = 1
  BY FS_Singleton
<1>2. IsFiniteSet({a} \cup {b}) /\ Cardinality({a} \cup {b}) \in 1..2
  BY <1>1, FS_AddElement
<1>3. Cardinality(({a} \cup {b}) \cup {c}) \in 1..3
  BY <1>2, FS_AddElement
<1>4. {a, b, c} = ({a} \cup {b}) \cup {c}
  OBVIOUS
<1> QED
  BY <1>3, <1>4

(* The four tasks of the program are four.                                  *)
LEMMA TheTasks ==
  /\ Tasks = {t1, t2, t3, t4} /\ Listeners \subseteq Tasks
  /\ t3 \notin Listeners /\ t4 \notin Listeners /\ t3 # t4
<1>1. Cardinality({t1, t2, t3, t4}) = 4 /\ Tasks = {t1, t2, t3, t4}
  BY ProgramAssumption
<1>2. /\ {t1, t2, t3, t4} # {t2, t3, t4} /\ {t1, t2, t3, t4} # {t1, t3, t4}
      /\ {t1, t2, t3, t4} # {t1, t2, t4}
  <2>1. /\ Cardinality({t2, t3, t4}) < 4 /\ Cardinality({t1, t3, t4}) < 4
        /\ Cardinality({t1, t2, t4}) < 4
    BY ThreeAtMost
  <2> QED
    BY <1>1, <2>1
<1>3. t1 # t3 /\ t1 # t4 /\ t2 # t3 /\ t2 # t4 /\ t3 # t4
  BY <1>2
<1> QED
  BY <1>1, <1>3 DEF Listeners

LEMMA TheSignal == 16 \in Sigs /\ 16 \in Numbers /\ {16} \in SUBSET Sigs
BY ProgramAssumption DEF Numbers

-----------------------------------------------------------------------------
(* The steps of the programs are steps of the kernel.                       *)

LEMMA ProgramSteps ==
  ASSUME [ProgNext]_progVars
  PROVE  [Next]_vars
<1>1. CASE Jiffy
  BY <1>1 DEF Jiffy, Next
<1>2. ASSUME NEW t \in Listeners, ListenerStep(t)
      PROVE  [Next]_vars
  BY <1>2, TheSignal DEF ListenerStep, Allocate, Await, DrawAndCount, Trapped, Add, Compare,
                         Next, Syscall
<1>3. CASE Draw3 \/ Illegal3 \/ Draw4
  BY <1>3 DEF Draw3, Illegal3, Draw4, Next
<1>4. CASE Tell1 \/ Tell2
  BY <1>4, TheSignal, TheTasks DEF Tell1, Tell2, Tell, Next, Syscall, Signal, Listeners
<1>5. CASE UNCHANGED progVars
  BY <1>5 DEF progVars
<1> QED
  BY <1>1, <1>2, <1>3, <1>4, <1>5 DEF ProgNext

(* What holds of the kernel holds of it under its programs.                 *)
THEOREM ProgramsAreTasks == ProgSpec => Spec
<1>1. ProgInit => Init
  BY DEF ProgInit
<1> QED
  BY <1>1, ProgramSteps, PTL DEF ProgSpec, Spec

-----------------------------------------------------------------------------
(* The floats.  A task's own float is its integer total at every            *)
(* instruction, whoever owns the fpu, and at "float" there is a round left. *)

Labels == {"alloc", "wait", "stuff", "float", "compare", "cdp", "tell1", "tell2"}

TotalsAgree ==
    /\ pc \in [Tasks -> Labels]
    /\ itotal \in [Tasks -> 0..Rounds]
    /\ \A t \in Tasks : OwnFp[t] = itotal[t] /\ (pc[t] = "float" => itotal[t] < Rounds)

LEMMA InitTotals == ProgInit => TotalsAgree
<1> SUFFICES ASSUME ProgInit PROVE TotalsAgree
  OBVIOUS
<1>1. OwnFp = [t \in Tasks |-> 0]
  BY InitMaps, FloatAssumption DEF ProgInit, M!Init
<1> QED
  BY <1>1, FloatAssumption DEF ProgInit, TotalsAgree, Labels

\* a step that leaves every float and total alone and gets to no addition
LEMMA TotalsKept ==
  ASSUME TotalsAgree, OwnFp' = OwnFp, itotal' = itotal, NEW t \in Tasks,
         NEW label \in Labels \ {"float"}, Goto(t, label) \/ UNCHANGED pc
  PROVE  TotalsAgree'
BY DEF TotalsAgree, Goto

LEMMA FpOpChangesOwn ==
  ASSUME IInv, FpOp
  PROVE  fpu = OwnFp[thistask] /\ thistask \in Tasks
         /\ OwnFp' = [OwnFp EXCEPT ![thistask] = fpu']
BY DEF OwnFp, FpOp, IInv, TypeOK, FpuGuarded

LEMMA AddCounts ==
  ASSUME Rounds <= FloatExact, IInv, TotalsAgree, NEW t \in Listeners, Add(t)
  PROVE  TotalsAgree'
<1>1. t \in Tasks /\ t = thistask /\ pc[t] = "float"
  BY TheTasks DEF Add, At
<1>2. fpu = itotal[t] /\ fpu < Rounds /\ fpu \in Nat
  BY <1>1, FpOpChangesOwn, FloatAssumption DEF Add, TotalsAgree
<1>3. fpu' = fpu + 1 /\ fpu + 1 \in 0..Rounds
  BY <1>2, FloatAssumption DEF Add
<1>4. OwnFp' = [OwnFp EXCEPT ![t] = fpu + 1]
  BY <1>1, <1>3, FpOpChangesOwn DEF Add
<1>5. itotal' = [itotal EXCEPT ![t] = fpu + 1]
  BY <1>1, <1>2 DEF Add
<1>6. pc' = [pc EXCEPT ![t] = "compare"]
  BY DEF Add, Goto
<1>7. DOMAIN OwnFp = Tasks
  BY DEF OwnFp
<1> QED
  BY <1>1, <1>3, <1>4, <1>5, <1>6, <1>7 DEF TotalsAgree, Labels

LEMMA CompareAgrees ==
  ASSUME IInv, TotalsAgree, NEW t \in Listeners, Compare(t)
  PROVE  TotalsAgree'
<1>1. t \in Tasks /\ t = thistask
  BY TheTasks DEF Compare, At
<1>2. fpu = itotal[t]
  BY <1>1, FpOpChangesOwn DEF Compare, TotalsAgree
<1>3. OwnFp' = OwnFp
  BY <1>1, FpOpChangesOwn DEF Compare, OwnFp
<1>4. Goto(t, "wait") /\ itotal' = itotal
  BY <1>2 DEF Compare, AfterCompare
<1> QED
  BY <1>1, <1>3, <1>4, TotalsKept DEF Labels

LEMMA OtherStepsKeepTotals ==
  ASSUME IInv, IInv', TotalsAgree, [ProgNext]_progVars,
         ~ \E t \in Listeners : Add(t) \/ Compare(t)
  PROVE  TotalsAgree'
<1> USE TheTasks, TheSignal
<1>1. CASE Jiffy
  BY <1>1, VsyncStutters, TotalsKept, t1 \in Tasks DEF Jiffy, prog, M!absVars, Labels
<1>2. ASSUME NEW t \in Listeners, Allocate(t)
      PROVE  TotalsAgree'
  BY <1>2, TotalsKept, OwnFpKept DEF Allocate, AllocSignal, Labels
<1>3. ASSUME NEW t \in Listeners, Await(t)
      PROVE  TotalsAgree'
  BY <1>3, TotalsKept, OwnFpKept DEF Await, Wait, WaitReturns, WaitSleeps, Labels
<1>4. ASSUME NEW t \in Listeners, DrawAndCount(t)
      PROVE  TotalsAgree'
  <2>1. OwnFp' = OwnFp /\ itotal' = itotal
    BY <1>4, OwnFpKept DEF DrawAndCount, vars
  <2>2. CASE Counts(t) /\ itotal[t] < Rounds
    BY <1>4, <2>1, <2>2 DEF DrawAndCount, TotalsAgree, Goto, Labels
  <2>3. CASE ~(Counts(t) /\ itotal[t] < Rounds)
    BY <1>4, <2>1, <2>3, TotalsKept DEF DrawAndCount, Labels
  <2> QED
    BY <2>2, <2>3
<1>5. ASSUME NEW t \in Listeners, Trapped(t)
      PROVE  TotalsAgree'
  BY <1>5, SwitchFpuStutters, TotalsKept DEF Trapped, FpTrap, prog, M!absVars, Labels
<1>6. CASE Draw3
  <2>1. OwnFp' = OwnFp /\ itotal' = itotal
    BY <1>6, OwnFpKept DEF Draw3, vars
  <2> QED
    BY <1>6, <2>1, TotalsKept DEF Draw3, Labels
<1>7. CASE Illegal3
  BY <1>7, TotalsKept, OwnFpKept DEF Illegal3, TaskError, prog, Labels
<1>8. CASE Draw4
  <2>1. OwnFp' = OwnFp /\ itotal' = itotal
    BY <1>8, OwnFpKept DEF Draw4, vars
  <2> QED
    BY <1>8, <2>1, TotalsKept DEF Draw4, Labels
<1>9. CASE Tell1 \/ Tell2
  <2>1. OwnFp' = OwnFp /\ itotal' = itotal
    BY <1>9, OwnFpKept DEF Tell1, Tell2, Tell, SignalNoted, SignalWakes, vars
  <2>2. Goto(t4, "tell2") \/ Goto(t4, "stuff")
    BY <1>9 DEF Tell1, Tell2, Tell
  <2> QED
    BY <2>1, <2>2, TotalsKept DEF Labels
<1>10. CASE UNCHANGED progVars
  BY <1>10, OwnFpKept, TotalsKept, t1 \in Tasks DEF progVars, vars, prog, Labels
<1> QED
  BY <1>1, <1>2, <1>3, <1>4, <1>5, <1>6, <1>7, <1>8, <1>9, <1>10 DEF ProgNext, ListenerStep

(* As long as the float itself can count, no task's total goes wrong: the   *)
(* lazy switching of the registers is never seen.                           *)
THEOREM FloatsRight == Rounds <= FloatExact => (ProgSpec => []NeverFunny)
<1> SUFFICES ASSUME Rounds <= FloatExact PROVE ProgSpec => []NeverFunny
  OBVIOUS
<1>1. IInv /\ IInv' /\ TotalsAgree /\ [ProgNext]_progVars => TotalsAgree'
  BY AddCounts, CompareAgrees, OtherStepsKeepTotals
<1>2. TotalsAgree => NeverFunny
  BY DEF TotalsAgree, NeverFunny, Labels
<1> QED
  BY <1>1, <1>2, InitTotals, ProgramsAreTasks, KernelSafe, PTL DEF ProgSpec

-----------------------------------------------------------------------------
(* The signals.  A task that was told has the signal: nothing but its Wait  *)
(* takes it away, and no listener is ever retired, so each is found.        *)

ToldHaveSignal == /\ told \in [Tasks -> BOOLEAN]
                  /\ \A t \in Listeners : t \notin Halted /\ (told[t] => 16 \in sigReceived[t])

LEMMA InitTold == ProgInit => ToldHaveSignal
<1> SUFFICES ASSUME ProgInit PROVE ToldHaveSignal
  OBVIOUS
<1>1. Halted = {}
  BY DEF ProgInit, Init, Halted, Range
<1> QED
  BY <1>1, TheTasks DEF ProgInit, ToldHaveSignal

LEMMA ToldKept ==
  ASSUME ToldHaveSignal, UNCHANGED <<told, sigReceived, tasks_halted>>
  PROVE  ToldHaveSignal'
BY DEF ToldHaveSignal, Halted

LEMMA AwaitKeepsTold ==
  ASSUME IInv, ToldHaveSignal, NEW t \in Listeners, Await(t)
  PROVE  ToldHaveSignal' /\ (t \in Waiting' => ~told[t]) /\ Waiting' \subseteq Waiting \cup {t}
<1>1. /\ t \in Tasks /\ t = thistask /\ t \notin Waiting
      /\ tasks_wait \in Seq(Tasks) /\ IsInjective(tasks_wait)
      /\ sigReceived \in [Tasks -> SUBSET Sigs]
  BY TheTasks, CurrentIsReady DEF Await, At, IInv, TypeOK, OneQueueEach
<1>2. told' = [told EXCEPT ![t] = t \in Waiting' /\ told[t]] /\ UNCHANGED tasks_halted
  BY DEF Await, Wait, WaitReturns, WaitSleeps, lists
<1>3. CASE WaitReturns({16})
  <2>1. t \notin Waiting' /\ Waiting' = Waiting
    BY <1>1, <1>3 DEF WaitReturns, lists, Waiting
  <2>2. sigReceived' = [sigReceived EXCEPT ![t] = @ \ {16}]
    BY <1>1, <1>3 DEF WaitReturns
  <2> QED
    BY <1>1, <1>2, <2>1, <2>2, TheTasks DEF ToldHaveSignal, Halted
<1>4. CASE WaitSleeps({16})
  <2>1. ~told[t]
    BY <1>1, <1>4 DEF WaitSleeps, ToldHaveSignal
  <2>2. Waiting' = Waiting \cup {t}
    BY <1>1, <1>4, AppendElements DEF WaitSleeps, Waiting
  <2> QED
    BY <1>1, <1>2, <1>4, <2>1, <2>2, TheTasks DEF WaitSleeps, ToldHaveSignal, Halted
<1> QED
  BY <1>3, <1>4 DEF Await, Wait

LEMMA TellKeepsTold ==
  ASSUME IInv, ToldHaveSignal, NEW t \in Listeners, NEW due \in BOOLEAN, NEW next,
         Tell(t, due, next)
  PROVE  ToldHaveSignal' /\ Waiting' \subseteq Waiting
<1>1. t \in Tasks /\ t \in Ready \cup Waiting /\ sigReceived \in [Tasks -> SUBSET Sigs]
  BY TheTasks DEF ToldHaveSignal, IInv, TypeOK, OneQueueEach
<1>2. CASE due /\ SignalNoted(t, 16) /\ told' = [told EXCEPT ![t] = TRUE]
  <2>1. sigReceived' = [sigReceived EXCEPT ![t] = @ \cup {16}]
    BY <1>1, <1>2 DEF SignalNoted, FindTask, Ready, Waiting
  <2> QED
    BY <1>1, <1>2, <2>1, TheTasks DEF ToldHaveSignal, Halted, SignalNoted, lists, Waiting
<1>3. CASE due /\ SignalWakes(t, 16) /\ told' = [told EXCEPT ![t] = FALSE]
  <2>1. Waiting' = Waiting \ {t}
    BY <1>3, WithoutProperties DEF SignalWakes, Waiting, IInv, TypeOK, OneQueueEach
  <2> QED
    BY <1>1, <1>3, <2>1, TheTasks DEF ToldHaveSignal, Halted, SignalWakes
<1>4. CASE ~due /\ UNCHANGED <<vars, told>>
  BY <1>4, ToldKept DEF vars, lists, signals, Waiting
<1> QED
  BY <1>2, <1>3, <1>4 DEF Tell

LEMMA IllegalKeepsTold ==
  ASSUME IInv, ToldHaveSignal, Illegal3
  PROVE  ToldHaveSignal'
<1>1. /\ thistask = t3 /\ thistask \in Tasks /\ thistask \notin Halted
      /\ tasks_halted \in Seq(Tasks) /\ IsInjective(tasks_halted)
  BY CurrentIsReady DEF Illegal3, At, IInv, TypeOK, OneQueueEach
<1>2. Halted' = Halted \cup {t3}
  BY <1>1, AppendElements DEF Illegal3, TaskError, Retired, Halted
<1> QED
  BY <1>2, TheTasks DEF Illegal3, TaskError, signals, ToldHaveSignal

LEMMA StepsKeepTold ==
  ASSUME IInv, ToldHaveSignal, [ProgNext]_progVars
  PROVE  /\ ToldHaveSignal'
         /\ \A t \in Listeners : t \in Waiting' /\ t \notin Waiting => ~told[t]
<1>1. CASE Jiffy
  BY <1>1, ToldKept DEF Jiffy, Vsync, signals, Waiting
<1>2. ASSUME NEW t \in Listeners, Allocate(t) \/ DrawAndCount(t) \/ Trapped(t) \/ Add(t) \/ Compare(t)
      PROVE  ToldHaveSignal' /\ Waiting' = Waiting
  BY <1>2, ToldKept DEF Allocate, AllocSignal, DrawAndCount, Trapped, FpTrap, SwitchFpu, Add,
        Compare, FpOp, vars, lists, signals, Waiting
<1>3. ASSUME NEW t \in Listeners, Await(t)
      PROVE  ToldHaveSignal' /\ (t \in Waiting' => ~told[t]) /\ Waiting' \subseteq Waiting \cup {t}
  BY <1>3, AwaitKeepsTold
<1>4. CASE Draw3 \/ Draw4
  BY <1>4, ToldKept DEF Draw3, Draw4, vars, lists, signals, Waiting
<1>5. CASE Illegal3
  BY <1>5, IllegalKeepsTold DEF Illegal3, TaskError, Waiting
<1>6. CASE Tell1 \/ Tell2
  <2>1. t1 \in Listeners /\ t2 \in Listeners
    BY DEF Listeners
  <2> QED
    BY <1>6, <2>1, TellKeepsTold DEF Tell1, Tell2
<1>7. CASE UNCHANGED progVars
  BY <1>7, ToldKept DEF progVars, vars, lists, signals, Waiting
<1> QED
  BY <1>1, <1>2, <1>3, <1>4, <1>5, <1>6, <1>7 DEF ProgNext, ListenerStep

(* A signal sent while its task is busy makes the task's next Wait return.  *)
THEOREM SignalsHeard == ProgSpec => ToldIsHeard
<1>1. IInv /\ ToldHaveSignal /\ [ProgNext]_progVars => ToldHaveSignal'
  BY StepsKeepTold
<1>2. IInv /\ ToldHaveSignal /\ [ProgNext]_progVars
        => [\A t \in Listeners : t \in Waiting' /\ t \notin Waiting => ~told[t]]_progVars
  BY StepsKeepTold
<1> QED
  BY <1>1, <1>2, InitTold, ProgramsAreTasks, KernelSafe, PTL DEF ProgSpec, ToldIsHeard
=============================================================================
