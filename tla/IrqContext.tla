----------------------------- MODULE IrqContext -----------------------------
(***************************************************************************)
(* The three demos that lead up to the kernel of src/ipc-signal.  Each runs *)
(* its tasks round robin: irq-context on the display's vsync interrupt,     *)
(* irq-timer on the overflow of a timer, and irq-context-fp on vsync, with  *)
(* the floating point registers switched on use and faulty tasks retired.   *)
(*                                                                          *)
(* IpcSignal takes an interrupt as one action.  Here the handler is divided *)
(* where the device can change what it reads: the device sets status bits   *)
(* while the handler runs, and the handler's last store clears some.        *)
(***************************************************************************)
EXTENDS NodeSeqs

CONSTANTS Tasks, NoTask,
          Demos,    \* which of the three programs
          Steady,   \* the tasks that never fault
          BootOrder,
          Words,    \* what a task may have in its integer registers
          Junk,     \* what the kernel leaves in them
          FpVals

ASSUME TasksAssumption == NoTask \notin Tasks /\ Steady \subseteq Tasks /\ Steady # {}
ASSUME BootAssumption == /\ BootOrder \in Seq(Tasks) /\ IsInjective(BootOrder)
                         /\ Range(BootOrder) = Tasks
ASSUME DataAssumption == /\ Demos \subseteq {"irq-context", "irq-timer", "irq-context-fp"}
                         /\ Junk \notin Words

VARIABLES
  demo,                                \* chosen when the program is built
  thistask, fptask, tasks, tasks_halted,
  tcbRegs, tcbFp,                      \* what each tcb holds
  mode,                                \* "user", or how far the handler is
  spIrq, fpexc, regs, fpu,             \* the processor
  status,                              \* the device's interrupt status register
  seen,                                \* the handler's copy of it
  raised                               \* history: an event since the last turn

lists == <<tasks, tasks_halted>>
device == <<status, seen, raised>>
cpu == <<thistask, spIrq, fpexc>>
fp == <<fptask, fpu, tcbFp>>
vars == <<demo, lists, tcbRegs, mode, regs, device, cpu, fp>>

\* the bit each program enables (vsync, overflow), and the others together
Bits == {"event", "other"}

HasFpu == demo = "irq-context-fp"
User == mode = "user"

-----------------------------------------------------------------------------
(* The device, and the interrupt it raises while the enabled bit is set.    *)

Raise(b) == /\ status' = status \cup {b}
            /\ raised' = (raised \/ b = "event")
            /\ UNCHANGED <<demo, lists, tcbRegs, mode, regs, seen, cpu, fp>>

SaveContext == tcbRegs' = [tcbRegs EXCEPT ![spIrq] = regs]
LoadContext == regs' = tcbRegs'[spIrq']

\* slip: the fpu is left enabled for whoever comes next
irq_new_task_nofp(t) == spIrq' = t /\ UNCHANGED fpexc

irq_new_task(t) == /\ spIrq' = t
                   /\ fpexc' = IF HasFpu THEN fptask = t ELSE fpexc

SwitchToHead == /\ thistask' = Head(tasks')
                /\ irq_new_task(thistask')

\* slip: the registers of the interrupted task are not stored
irq_entry_unsaved == /\ User /\ "event" \in status
                     /\ regs' = Junk
                     /\ mode' = "handler"
                     /\ UNCHANGED <<demo, lists, tcbRegs, device, cpu, fp>>

\* the one enabled interrupt; user mode cannot mask it
irq_entry == /\ User /\ "event" \in status
             /\ SaveContext
             /\ regs' = Junk
             /\ mode' = "handler"
             /\ UNCHANGED <<demo, lists, device, cpu, fp>>

ReadStatus == /\ mode = "handler"
              /\ seen' = status
              /\ mode' = "switch"
              /\ UNCHANGED <<demo, lists, tcbRegs, regs, status, raised, cpu, fp>>

\* slip: the current task is put back where it came from
RotatedToHead == Push(Without(tasks, thistask), thistask)

Rotated == Append(Without(tasks, thistask), thistask)

\* the handler's test of the bit: the interrupt was raised by nothing else
Turn == /\ mode = "switch" /\ "event" \in seen
        /\ tasks' = Rotated
        /\ SwitchToHead
        /\ raised' = FALSE
        /\ mode' = "clear"
        /\ UNCHANGED <<demo, tasks_halted, tcbRegs, regs, status, seen, fp>>

\* slip: the bits that are left after the write are the ones it was to clear
ClearedWrong == status \cap seen

\* the timer's handler writes ~0, the display's what it has read
Cleared == IF demo = "irq-timer" THEN {} ELSE status \ seen

ClearStatus == /\ mode = "clear"
               /\ status' = Cleared
               /\ mode' = "exit"
               /\ UNCHANGED <<demo, lists, tcbRegs, regs, seen, raised, cpu, fp>>

irq_exit == /\ mode = "exit"
            /\ mode' = "user"
            /\ UNCHANGED <<demo, lists, tcbRegs, device, cpu, fp>>
            /\ LoadContext

-----------------------------------------------------------------------------
(* What a task does: instructions on its registers, and what traps.         *)

UserOp == /\ User
          /\ regs' \in Words
          /\ UNCHANGED <<demo, lists, tcbRegs, mode, device, cpu, fp>>

FpOp == /\ User /\ HasFpu /\ fpexc
        /\ fpu' \in FpVals
        /\ UNCHANGED <<demo, lists, tcbRegs, mode, regs, device, cpu, fptask, tcbFp>>

FpSaved == IF fptask = NoTask THEN tcbFp ELSE [tcbFp EXCEPT ![fptask] = fpu]

\* uni_entry on a VFP encoding.  The fpu is disabled, or the instruction is
\* undefined all the same; uni_entry does not look which.
uni_entry == /\ User /\ HasFpu
             /\ SaveContext
             /\ tcbFp' = FpSaved
             /\ fptask' = spIrq
             /\ fpexc' = TRUE
             /\ fpu' = tcbFp'[spIrq]
             /\ UNCHANGED <<demo, lists, mode, regs, device, thistask, spIrq>>

Retired == /\ tasks' = Without(tasks, thistask)
           /\ tasks_halted' = Append(tasks_halted, thistask)

\* uni_entry on any other undefined instruction
uni_handler == /\ User /\ HasFpu /\ thistask \notin Steady
               /\ SaveContext
               /\ Retired
               /\ SwitchToHead
               /\ LoadContext
               /\ UNCHANGED <<demo, mode, device, fp>>

-----------------------------------------------------------------------------
\* main, up to the jump to user mode; the status register was cleared, but the
\* display or the timer is running
Init == /\ demo \in Demos
        /\ tasks = BootOrder /\ tasks_halted = <<>>
        /\ thistask = Head(BootOrder) /\ spIrq = thistask
        /\ fptask = NoTask /\ fpexc = FALSE
        /\ regs \in Words /\ tcbRegs \in {[t \in Tasks |-> w] : w \in Words}
        /\ fpu \in FpVals /\ tcbFp \in {[t \in Tasks |-> v] : v \in FpVals}
        /\ mode = "user"
        /\ status = {} /\ seen = {} /\ raised = FALSE

Handler == irq_entry \/ ReadStatus \/ Turn \/ ClearStatus \/ irq_exit
Next == (\E b \in Bits : Raise(b)) \/ Handler \/ UserOp \/ FpOp \/ uni_entry \/ uni_handler

Spec == Init /\ [][Next]_vars

\* frames and overflows keep coming, and the handler is not kept from running
FairSpec == Spec /\ WF_vars(Raise("event")) /\ WF_vars(Handler)

-----------------------------------------------------------------------------
Ready == Range(tasks)
Halted == Range(tasks_halted)

(* Every variable holds a value of its C type; the kernel's own values are  *)
(* never in a task's registers (irq_entry saves all, the exit restores all).*)
TypeOK == /\ demo \in Demos /\ mode \in {"user", "handler", "switch", "clear", "exit"}
          /\ tasks \in Seq(Tasks) /\ tasks_halted \in Seq(Tasks)
          /\ thistask \in Tasks /\ spIrq \in Tasks /\ fptask \in Tasks \cup {NoTask}
          /\ tcbRegs \in [Tasks -> Words] /\ (User => regs \in Words)
          /\ fpexc \in BOOLEAN /\ fpu \in FpVals /\ tcbFp \in [Tasks -> FpVals]
          /\ status \subseteq Bits /\ seen \subseteq Bits /\ raised \in BOOLEAN

(* The running task is named by thistask, sp_irq and the ready list alike,  *)
(* every task is on one list, and the fpu is enabled for its owner only: at *)
(* every step of the handler, as the handler is not interrupted but its     *)
(* device goes on.                                                          *)
Switchable == /\ tasks # <<>> /\ thistask = Head(tasks) /\ spIrq = thistask
              /\ IsInjective(tasks) /\ IsInjective(tasks_halted)
              /\ Ready \cup Halted = Tasks /\ Ready \cap Halted = {}
              /\ Steady \subseteq Ready
              /\ fpexc <=> fptask = thistask

(* What connects the handler with the device: while the handler has not     *)
(* given the turn, the event is there and not yet served; after its         *)
(* clearing, an event in the register is a new one.                         *)
Handshake == /\ mode \in {"user", "exit"} => ("event" \in status => raised)
             /\ mode \in {"handler", "switch"} => "event" \in status /\ raised
             /\ mode \in {"switch", "clear"} => "event" \in seen
             /\ ~HasFpu => fptask = NoTask

(* All of this at once, which every step preserves.                         *)
IInv == TypeOK /\ Switchable /\ Handshake

Own(t) == <<IF t = thistask /\ User THEN regs ELSE tcbRegs[t],
            IF t = fptask THEN fpu ELSE tcbFp[t]>>

(* A task's registers change by its own instructions only: no interrupt, at *)
(* whichever instruction it comes, no trap and no other task changes them.  *)
OwnRegisters ==
    [][\A t \in Tasks : Own(t)' = Own(t) \/ (t = thistask /\ (UserOp \/ FpOp))]_vars

(* One event gives one turn: the handler never finds an event again that it *)
(* has served, because it clears the bit between its turn and its return.   *)
OneTurnPerEvent == [][Turn => raised]_vars

(* Every task that is not retired is given the processor again and again,   *)
(* although an event that comes between a turn and the clearing is lost.    *)
AllRun == \A t \in Tasks : t \in Ready ~> (t \in Halted \/ (User /\ thistask = t))
=============================================================================
