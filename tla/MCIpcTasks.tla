----------------------------- MODULE MCIpcTasks -----------------------------
EXTENDS IpcTasks, TLC

MCTasks == {t1, t2, t3, t4}
MCOrders == {<<t1, t2, t3, t4>>}
MCFloats == 0..FloatExact
=============================================================================
