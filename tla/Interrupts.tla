----------------------------- MODULE Interrupts -----------------------------
(***************************************************************************)
(* lib/interrupts.c and the interrupt entry of lib/exceptions.S, in front   *)
(* of one device.  The entry tells the controller that the interrupt is     *)
(* being handled before the handler has looked at the device, so the        *)
(* controller may ask again for the same event.                             *)
(*                                                                          *)
(* irq_enable and irq_disable are divided between the store in irq_depth    *)
(* and the instruction that changes the mask, as an interrupt may come      *)
(* between them.  They are called by main only, as their comment demands.   *)
(***************************************************************************)
EXTENDS Integers

CONSTANT Deepest   \* bound: how often main disables interrupts

ASSUME DeepestAssumption == Deepest \in Nat \ {0}

VARIABLES
  irq_depth,   \* how often interrupts are disabled
  masked,      \* the I bit of cpsr
  call,        \* what is left to do of a call
  mir,         \* the line is masked in the controller
  irq_vector,  \* what the vector table has for it
  status,      \* the device's status register: the enabled bit
  irq,         \* the controller's request to the processor
  handler,     \* how far the handler is, "none" when main runs
  held         \* history: main's calls of irq_disable not yet undone

mainSide == <<irq_depth, call, held>>
controller == <<mir, irq_vector>>
irqVars == <<mainSide, controller, masked, status, irq, handler>>

MainRuns == handler = "none"

\* the device has an event; a second one before the clearing leaves no trace
Event == /\ status' = TRUE
         /\ irq' = (irq \/ ~mir)
         /\ UNCHANGED <<mainSide, controller, masked, handler>>

\* ex_irq: NEWIRQAGR, with the device's line still up if there was an event;
\* interrupts stay masked, as the nested case is commented out
ex_irq == /\ MainRuns /\ ~masked /\ irq
          /\ irq' = status
          /\ masked' = TRUE
          /\ handler' = irq_vector
          /\ UNCHANGED <<mainSide, controller, status>>

\* the end of a handler (of exception_irq: all of it), and ex_irq_done
ex_irq_done == /\ handler = "done"
               /\ handler' = "none"
               /\ masked' = FALSE
               /\ UNCHANGED <<mainSide, controller, status, irq>>

HandlerGoes(from, to) == /\ handler = from /\ handler' = to
                         /\ UNCHANGED <<mainSide, controller, masked, status, irq>>

\* a store in the status register: the line goes down, but the controller may
\* have latched the request in the meantime
Cleared == status' = FALSE /\ irq' \in {FALSE, irq}

HandlerClears(from, to) == /\ handler = from /\ handler' = to
                           /\ Cleared
                           /\ UNCHANGED <<mainSide, controller, masked>>
MainClears == /\ MainRuns /\ Cleared
              /\ UNCHANGED <<mainSide, controller, masked, handler>>

-----------------------------------------------------------------------------
(* What main calls.                                                         *)

MainCalls == MainRuns /\ call = "none"

irq_set_handler(entry) == /\ MainCalls
                          /\ irq_vector' = entry
                          /\ UNCHANGED <<mainSide, masked, mir, status, irq, handler>>
irq_set_mask(on) == /\ MainCalls
                    /\ mir' = ~on
                    /\ irq' = (irq \/ (on /\ status))
                    /\ UNCHANGED <<mainSide, masked, irq_vector, status, handler>>

\* slip: interrupts are enabled whenever there was something to undo
EnablesAlways == irq_depth > 0

Enables == irq_depth = 1

irq_enable == /\ MainCalls
              /\ irq_depth' = IF irq_depth <= 0 THEN irq_depth ELSE irq_depth - 1
              /\ held' = IF held = 0 THEN 0 ELSE held - 1
              /\ call' = IF Enables THEN "cpsie" ELSE "none"
              /\ UNCHANGED <<controller, masked, status, irq, handler>>
cpsie == /\ MainRuns /\ call = "cpsie"
         /\ call' = "none" /\ masked' = FALSE
         /\ UNCHANGED <<irq_depth, held, controller, status, irq, handler>>

irq_disable == /\ MainCalls /\ held < Deepest
               /\ masked' = (masked \/ irq_depth = 0)
               /\ held' = held + 1
               /\ call' = "count"
               /\ UNCHANGED <<irq_depth, controller, status, irq, handler>>
CountDisable == /\ MainRuns /\ call = "count"
                /\ irq_depth' = irq_depth + 1
                /\ call' = "none"
                /\ UNCHANGED <<held, controller, masked, status, irq, handler>>

-----------------------------------------------------------------------------
\* main is entered from the start-up code, with every vector exception_irq
IrqInit == /\ irq_depth = 1 /\ held = 1 /\ masked = TRUE /\ call = "none"
           /\ mir = TRUE /\ irq_vector = "done"
           /\ status = FALSE /\ irq = FALSE /\ handler = "none"

\* a handler that clears its device, as all of the repository do
IrqNext == \/ Event \/ ex_irq \/ ex_irq_done
           \/ HandlerClears("clear", "done")
           \/ irq_set_handler("clear") \/ (\E on \in BOOLEAN : irq_set_mask(on))
           \/ irq_enable \/ cpsie \/ irq_disable \/ CountDisable

IrqSpec == IrqInit /\ [][IrqNext]_irqVars

(* Between a call of irq_disable and the irq_enable that undoes it, however *)
(* deep they are nested and wherever an interrupt came while they were      *)
(* called, no handler runs; when nothing is to be undone any more and       *)
(* irq_enable has returned, interrupts are taken again.                     *)
CriticalUndisturbed == /\ held > 0 => masked /\ MainRuns
                       /\ held = 0 /\ MainCalls => ~masked
                       /\ irq_depth = held - (IF call = "count" THEN 1 ELSE 0)
=============================================================================
