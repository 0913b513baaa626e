-------------------------- MODULE IrqContextProofs --------------------------
(***************************************************************************)
(* For any number of tasks, and a device that may set its status bits at    *)
(* any time: the handler keeps what a switch relies on, it gives one turn   *)
(* per event, and a task's registers change by its own instructions only.   *)
(***************************************************************************)
EXTENDS IrqContext, CommonProofs, TLAPS

USE TasksAssumption, DataAssumption

(* The current task is ready, and another one is if it may be retired.      *)
LEMMA CurrentIsReady ==
  ASSUME IInv
  PROVE  LET rest == Without(tasks, thistask)
         IN  /\ thistask \in Ready /\ thistask \notin Halted
             /\ rest \in Seq(Tasks) /\ IsInjective(rest)
             /\ Range(rest) = Ready \ {thistask}
<1>1. thistask = tasks[1] /\ 1 \in DOMAIN tasks
  BY DEF IInv, TypeOK, Switchable
<1>2. thistask \in Ready
  BY <1>1 DEF Ready, Range
<1>3. tasks \in Seq(Tasks) /\ IsInjective(tasks)
  BY DEF IInv, TypeOK, Switchable
<1> QED
  BY <1>2, <1>3, WithoutProperties DEF IInv, Switchable, Ready

(* Saving through sp_irq keeps the tcbs typed.                              *)
LEMMA SavedIsTyped ==
  ASSUME TypeOK, User, SaveContext
  PROVE  tcbRegs' \in [Tasks -> Words]
BY DEF TypeOK, SaveContext

THEOREM InitIInv == Init => IInv
<1> SUFFICES ASSUME Init PROVE IInv
  OBVIOUS
<1>1. /\ tasks \in Seq(Tasks) /\ IsInjective(tasks) /\ Range(tasks) = Tasks
  BY BootAssumption DEF Init
<1>2. PICK t \in Steady : TRUE
  OBVIOUS
<1>3. tasks # <<>> /\ Head(tasks) \in Tasks
  BY <1>1, <1>2, HeadProperties
<1>4. <<>> \in Seq(Tasks) /\ Range(<<>>) = {} /\ IsInjective(<<>>)
  BY DEF Range, IsInjective
<1>5. tcbRegs \in [Tasks -> Words] /\ tcbFp \in [Tasks -> FpVals]
  BY DEF Init
<1>6. TypeOK
  BY <1>1, <1>3, <1>4, <1>5 DEF Init, TypeOK, User, Bits
<1>7. Switchable
  BY <1>1, <1>3, <1>4 DEF Init, Switchable, Ready, Halted
<1>8. Handshake
  BY DEF Init, Handshake
<1> QED
  BY <1>6, <1>7, <1>8 DEF IInv

-----------------------------------------------------------------------------
(* The steps that change neither the lists nor who is running.              *)

LEMMA InPlaceIInv ==
  ASSUME IInv,
         \/ \E b \in Bits : Raise(b)
         \/ irq_entry \/ ReadStatus \/ ClearStatus \/ irq_exit \/ UserOp \/ FpOp
         \/ UNCHANGED vars
  PROVE  IInv'
<1>1. CASE \E b \in Bits : Raise(b)
  <2>1. PICK b \in Bits : Raise(b)
    BY <1>1
  <2>2. raised' \in BOOLEAN /\ (raised => raised')
    BY <2>1 DEF IInv, TypeOK, Raise
  <2>3. TypeOK'
    BY <2>1, <2>2 DEF IInv, TypeOK, Raise, lists, cpu, fp, User
  <2>4. Switchable'
    BY <2>1 DEF IInv, Switchable, Raise, lists, cpu, fp, Ready, Halted
  <2>5. Handshake'
    <3>1. "event" \in status' => "event" \in status \/ raised'
      BY <2>1 DEF Raise
    <3>2. status \subseteq status' /\ UNCHANGED <<demo, mode, seen, fptask>>
      BY <2>1 DEF Raise, fp
    <3> QED
      BY <2>2, <3>1, <3>2 DEF IInv, Handshake, HasFpu
  <2> QED
    BY <2>3, <2>4, <2>5 DEF IInv
<1>2. CASE irq_entry
  <2>1. TypeOK'
    BY <1>2, SavedIsTyped DEF IInv, TypeOK, irq_entry, lists, device, cpu, fp, User
  <2> QED
    BY <1>2, <2>1 DEF IInv, Switchable, Handshake, irq_entry, lists, device, cpu, fp, User, HasFpu, Ready, Halted
<1>3. CASE ReadStatus
  BY <1>3 DEF IInv, TypeOK, Switchable, Handshake, ReadStatus, lists, cpu, fp, User, HasFpu, Ready, Halted
<1>4. CASE ClearStatus
  <2>1. /\ status' \subseteq status /\ "event" \notin status'
    BY <1>4 DEF IInv, Handshake, ClearStatus, Cleared
  <2> QED
    BY <1>4, <2>1 DEF IInv, TypeOK, Switchable, Handshake, ClearStatus, lists, cpu, fp, User, HasFpu, Ready, Halted
<1>5. CASE irq_exit
  BY <1>5 DEF IInv, TypeOK, Switchable, Handshake, irq_exit, LoadContext, lists, device, cpu, fp, User, HasFpu, Ready, Halted
<1>6. CASE UserOp
  BY <1>6 DEF IInv, TypeOK, Switchable, Handshake, UserOp, lists, device, cpu, fp, User, HasFpu, Ready, Halted
<1>7. CASE FpOp
  BY <1>7 DEF IInv, TypeOK, Switchable, Handshake, FpOp, lists, device, cpu, User, HasFpu, Ready, Halted
<1>8. CASE UNCHANGED vars
  BY <1>8 DEF IInv, TypeOK, Switchable, Handshake, vars, lists, device, cpu, fp, User, HasFpu, Ready, Halted
<1> QED
  BY <1>1, <1>2, <1>3, <1>4, <1>5, <1>6, <1>7, <1>8

(* A switch to the head leaves thistask, sp_irq and the fpu in agreement.   *)
LEMMA SwitchAgrees ==
  ASSUME IInv, SwitchToHead, tasks' # <<>>, Head(tasks') \in Tasks, UNCHANGED <<demo, fptask>>
  PROVE  /\ thistask' = Head(tasks') /\ spIrq' = thistask'
         /\ thistask' \in Tasks /\ fpexc' \in BOOLEAN
         /\ fpexc' <=> fptask' = thistask'
BY DEF IInv, TypeOK, Switchable, Handshake, SwitchToHead, irq_new_task, HasFpu

LEMMA TurnIInv ==
  ASSUME IInv, Turn
  PROVE  IInv'
<1> DEFINE rest == Without(tasks, thistask)
<1>1. /\ thistask \in Ready /\ rest \in Seq(Tasks) /\ IsInjective(rest)
      /\ Range(rest) = Ready \ {thistask}
  BY CurrentIsReady
<1>2. thistask \in Tasks /\ thistask \notin Range(rest) /\ tasks' = Append(rest, thistask)
  BY <1>1 DEF IInv, TypeOK, Turn, Rotated
<1> HIDE DEF rest
<1>3. /\ tasks' \in Seq(Tasks) /\ IsInjective(tasks') /\ Ready' = Ready
  <2>1. /\ tasks' \in Seq(Tasks) /\ IsInjective(tasks')
        /\ Range(tasks') = Range(rest) \cup {thistask}
    BY <1>1, <1>2, AppendElements
  <2> QED
    BY <1>1, <2>1 DEF Ready
<1>4. tasks' # <<>> /\ Head(tasks') \in Tasks
  BY <1>1, <1>3, HeadProperties DEF Ready
<1>5. /\ thistask' = Head(tasks') /\ spIrq' = thistask'
      /\ thistask' \in Tasks /\ fpexc' \in BOOLEAN
      /\ fpexc' <=> fptask' = thistask'
  BY <1>4, SwitchAgrees DEF Turn, fp
<1>6. TypeOK'
  BY <1>3, <1>5 DEF IInv, TypeOK, Turn, fp, User
<1>7. Switchable'
  BY <1>3, <1>4, <1>5 DEF IInv, Switchable, Turn, Halted
<1>8. Handshake'
  BY DEF IInv, Handshake, Turn, fp, HasFpu
<1> QED
  BY <1>6, <1>7, <1>8 DEF IInv

LEMMA uni_entryIInv ==
  ASSUME IInv, uni_entry
  PROVE  IInv'
<1>1. tcbRegs' \in [Tasks -> Words]
  BY SavedIsTyped DEF IInv, uni_entry
<1>2. tcbFp' \in [Tasks -> FpVals]
  BY DEF IInv, TypeOK, uni_entry, FpSaved
<1>3. TypeOK'
  BY <1>1, <1>2 DEF IInv, TypeOK, uni_entry, lists, device, User
<1>4. Switchable'
  BY DEF IInv, Switchable, uni_entry, lists, Ready, Halted
<1>5. Handshake'
  BY DEF IInv, Handshake, uni_entry, device, HasFpu
<1> QED
  BY <1>3, <1>4, <1>5 DEF IInv

LEMMA uni_handlerIInv ==
  ASSUME IInv, uni_handler
  PROVE  IInv'
<1> DEFINE rest == Without(tasks, thistask)
<1>1. /\ thistask \in Ready /\ thistask \notin Halted
      /\ rest \in Seq(Tasks) /\ IsInjective(rest) /\ Range(rest) = Ready \ {thistask}
  BY CurrentIsReady
<1> HIDE DEF rest
<1>2. /\ tasks' = rest /\ tasks_halted' = Append(tasks_halted, thistask)
      /\ thistask \in Tasks /\ tasks_halted \in Seq(Tasks) /\ IsInjective(tasks_halted)
  BY DEF IInv, TypeOK, Switchable, uni_handler, Retired, rest
<1>3. /\ tasks_halted' \in Seq(Tasks) /\ IsInjective(tasks_halted')
      /\ Halted' = Halted \cup {thistask}
  BY <1>1, <1>2, AppendElements DEF Halted
<1>4. PICK t \in Steady : t \in Range(rest)
  BY <1>1 DEF IInv, Switchable, uni_handler
<1>5. tasks' # <<>> /\ Head(tasks') \in Tasks
  BY <1>1, <1>2, <1>4, HeadProperties
<1>6. /\ thistask' = Head(tasks') /\ spIrq' = thistask'
      /\ thistask' \in Tasks /\ fpexc' \in BOOLEAN
      /\ fpexc' <=> fptask' = thistask'
  BY <1>5, SwitchAgrees DEF uni_handler, fp
<1>7. tcbRegs' \in [Tasks -> Words]
  BY SavedIsTyped DEF IInv, uni_handler
<1>8. TypeOK'
  BY <1>1, <1>2, <1>3, <1>6, <1>7 DEF IInv, TypeOK, uni_handler, LoadContext, device, fp, User
<1>9. Switchable'
  BY <1>1, <1>2, <1>3, <1>5, <1>6 DEF IInv, Switchable, uni_handler, Ready
<1>10. Handshake'
  BY DEF IInv, Handshake, uni_handler, device, fp, HasFpu
<1> QED
  BY <1>8, <1>9, <1>10 DEF IInv

LEMMA NextIInv == IInv /\ [Next]_vars => IInv'
BY InPlaceIInv, TurnIInv, uni_entryIInv, uni_handlerIInv DEF Next, Handler

(* What a switch relies on holds at every step of the program.              *)
THEOREM HandlerSafe == Spec => []IInv
BY InitIInv, NextIInv, PTL DEF Spec

(* Each turn answers an event that came after the turn before it.           *)
THEOREM TurnsAreOwed == Spec => OneTurnPerEvent
<1>1. IInv /\ [Next]_vars => [Turn => raised]_vars
  BY DEF IInv, Handshake, Turn
<1> QED
  BY <1>1, HandlerSafe, PTL DEF Spec, OneTurnPerEvent

-----------------------------------------------------------------------------
(* A step in which no task's tcb or bank changes, nor who owns which, and   *)
(* the live registers of the running one are where they were.               *)
LEMMA OwnKept ==
  ASSUME IInv, [Next]_vars, NEW t \in Tasks, ~(t = thistask /\ (UserOp \/ FpOp))
  PROVE  Own(t)' = Own(t)
<1> USE DEF IInv, TypeOK, Switchable, Handshake, Own, User
<1>1. CASE \E b \in Bits : Raise(b)
  BY <1>1 DEF Raise, lists, cpu, fp
<1>2. CASE irq_entry
  BY <1>2 DEF irq_entry, SaveContext, cpu, fp
<1>3. CASE ReadStatus
  BY <1>3 DEF ReadStatus, cpu, fp
<1>4. CASE ClearStatus
  BY <1>4 DEF ClearStatus, cpu, fp
<1>5. CASE irq_exit
  BY <1>5 DEF irq_exit, LoadContext, cpu, fp
<1>6. CASE Turn
  BY <1>6 DEF Turn, fp
<1>7. CASE UserOp
  BY <1>7 DEF UserOp, cpu, fp
<1>8. CASE FpOp
  BY <1>8 DEF FpOp, cpu
<1>9. CASE uni_entry
  <2>1. (IF t = fptask' THEN fpu' ELSE tcbFp'[t]) = (IF t = fptask THEN fpu ELSE tcbFp[t])
    BY <1>9 DEF uni_entry, FpSaved
  <2>2. thistask' = thistask /\ mode' = "user" /\ mode = "user" /\ regs' = regs
    BY <1>9 DEF uni_entry
  <2>3. t # thistask => tcbRegs'[t] = tcbRegs[t]
    BY <1>9 DEF uni_entry, SaveContext
  <2> QED
    BY <2>1, <2>2, <2>3
<1>10. CASE uni_handler
  <2>1. mode = "user" /\ mode' = "user" /\ UNCHANGED fp
    BY <1>10 DEF uni_handler
  <2>2. tcbRegs' = [tcbRegs EXCEPT ![thistask] = regs]
    BY <1>10 DEF uni_handler, SaveContext
  <2>3. regs' = tcbRegs'[thistask']
    BY <1>10 DEF uni_handler, LoadContext, SwitchToHead, irq_new_task
  <2> QED
    BY <2>1, <2>2, <2>3 DEF fp
<1>11. CASE UNCHANGED vars
  BY <1>11 DEF vars, cpu, fp
<1> QED
  BY <1>1, <1>2, <1>3, <1>4, <1>5, <1>6, <1>7, <1>8, <1>9, <1>10, <1>11 DEF Next, Handler

(* No interrupt, trap, switch or other task changes a task's registers.     *)
THEOREM RegistersAreOwn == Spec => OwnRegisters
<1>1. IInv /\ [Next]_vars
      => [\A t \in Tasks : Own(t)' = Own(t) \/ (t = thistask /\ (UserOp \/ FpOp))]_vars
  BY OwnKept
<1> QED
  BY <1>1, HandlerSafe, PTL DEF Spec, OwnRegisters
=============================================================================
