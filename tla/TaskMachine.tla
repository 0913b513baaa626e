----------------------------- MODULE TaskMachine -----------------------------
(***************************************************************************)
(* What the kernel of src/ipc-signal promises a task: a processor of its    *)
(* own.  Each task has its r0 and its floating point registers, which       *)
(* change only by its own instructions and system calls, or when the Wait   *)
(* it sleeps in returns.  Which ready task runs next, time slices, traps    *)
(* and who owns the fpu are invisible.  So is whom a signal was for: that    *)
(* none is lost is for the kernel's own invariants to say.                  *)
(***************************************************************************)
EXTENDS Integers

CONSTANTS Tasks, Steady, NoTask, Sigs, FpVals, FpZero

VARIABLES ready, waiting,    \* the tasks that may run, those asleep; the others are retired
          alloc, awaits, got,\* signals allocated, awaited and received
          acc, fpr           \* each task's own r0 and floating point registers

absVars == <<ready, waiting, alloc, awaits, got, acc, fpr>>

Mask(S) == <<"mask", S>>
Num(n) == <<"num", n>>
Dead == <<"dead", 0>>

Init == /\ ready = Tasks
        /\ waiting = {}
        /\ alloc = [t \in Tasks |-> {}]
        /\ awaits = alloc
        /\ got = alloc
        /\ acc = [t \in Tasks |-> Dead]
        /\ fpr = [t \in Tasks |-> FpZero]

\* a new signal only if it is one the task does not have
Alloc(t) == /\ \/ \E n \in Sigs \ alloc[t] : /\ acc' = [acc EXCEPT ![t] = Num(n)]
                                             /\ alloc' = [alloc EXCEPT ![t] = @ \cup {n}]
               \/ /\ acc' = [acc EXCEPT ![t] = Num(-1)]
                  /\ UNCHANGED alloc
            /\ UNCHANGED <<ready, waiting, awaits, got, fpr>>

\* with the signal go its traces: a later Wait does not return for it
Free(t, n) == /\ alloc' = [alloc EXCEPT ![t] = @ \ {n}]
              /\ \/ n \in alloc[t] /\ awaits' = [awaits EXCEPT ![t] = @ \ {n}]
                                   /\ got' = [got EXCEPT ![t] = @ \ {n}]
                 \/ n \notin alloc[t] /\ UNCHANGED <<awaits, got>>
              /\ acc' = [acc EXCEPT ![t] = Dead]
              /\ UNCHANGED <<ready, waiting, fpr>>

\* a signal is remembered unless the task is retired, and wakes the task if it
\* sleeps on it; the sender's own registers are none the worse
Signal(t, u, n) ==
    \/ /\ u \notin ready \cup waiting
       /\ acc' = [acc EXCEPT ![t] = Dead]
       /\ UNCHANGED <<ready, waiting, alloc, awaits, got, fpr>>
    \/ /\ u \in ready \/ (u \in waiting /\ n \notin awaits[u])
       /\ got' = [got EXCEPT ![u] = @ \cup {n}]
       /\ acc' = [acc EXCEPT ![t] = Dead]
       /\ UNCHANGED <<ready, waiting, alloc, awaits, fpr>>
    \/ /\ u \in waiting /\ n \in awaits[u]
       /\ got' = [got EXCEPT ![u] = @ \cup {n}]
       /\ waiting' = waiting \ {u}
       /\ ready' = ready \cup {u}
       /\ acc' = [acc EXCEPT ![t] = Dead, ![u] = Mask({n})]
       /\ UNCHANGED <<alloc, awaits, fpr>>

\* Wait returns at once if a signal of its mask is there, and takes it
WaitReturns(t, mask) ==
    /\ got[t] \cap mask # {}
    /\ got' = [got EXCEPT ![t] = @ \ mask]
    /\ \E S \in SUBSET mask : /\ got[t] \cap mask \subseteq S
                              /\ acc' = [acc EXCEPT ![t] = Mask(S)]
    /\ UNCHANGED <<ready, waiting, alloc, awaits, fpr>>

WaitSleeps(t, mask) ==
    /\ got[t] \cap mask = {}
    /\ awaits' = [awaits EXCEPT ![t] = mask]
    /\ ready' = ready \ {t}
    /\ waiting' = waiting \cup {t}
    /\ acc' = [acc EXCEPT ![t] = Mask(mask)]
    /\ UNCHANGED <<alloc, got, fpr>>

Retire(t) == /\ ready' = ready \ {t}
             /\ UNCHANGED <<waiting, alloc, awaits, got, acc, fpr>>

Float(t) == /\ \E v \in FpVals : fpr' = [fpr EXCEPT ![t] = v]
            /\ UNCHANGED <<ready, waiting, alloc, awaits, got, acc>>

Next == \E t \in ready :
           \/ Alloc(t) \/ Float(t)
           \/ \E n \in Sigs : Free(t, n)
           \/ \E u \in Tasks \cup {NoTask}, n \in Sigs : Signal(t, u, n)
           \/ t \notin Steady /\ Retire(t)
           \/ \E mask \in SUBSET Sigs : t \notin Steady /\ (WaitReturns(t, mask) \/ WaitSleeps(t, mask))

Spec == Init /\ [][Next]_absVars
=============================================================================
