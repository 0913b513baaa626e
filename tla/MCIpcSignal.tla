---------------------------- MODULE MCIpcSignal ----------------------------
(* main may add the tasks in any order; t3 stands for the steady task4.     *)
EXTENDS IpcSignal, TLC

CONSTANTS t1, t2, t3, none, zero, one

MCOrders == {s \in [1..Cardinality(Tasks) -> Tasks] : Range(s) = Tasks}
MCOneOrder == {<<t1, t2, t3>>}
MCSymmetry == Permutations({t1, t2})
=============================================================================
