---------------------------- MODULE MCIrqContext ----------------------------
(* The demos have four tasks; three show a current, a next and a last one.  *)
EXTENDS IrqContext

CONSTANTS t1, t2, t3, none, junk, zero, one

MCOrder == <<t1, t2, t3>>
=============================================================================
