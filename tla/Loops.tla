------------------------------- MODULE Loops -------------------------------
(* A loop of the code, as a function from the state before a round to the   *)
(* state after it, which is the same state where the loop has ended.        *)
EXTENDS Integers

\* the state after k rounds from state x on
Loop(Round, x, k) ==
    LET state[i \in Nat] == IF i = 0 THEN x ELSE Round[state[i - 1]]
    IN  state[k]
=============================================================================
