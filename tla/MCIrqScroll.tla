---------------------------- MODULE MCIrqScroll ----------------------------
(* irq-scroll as it is built: all of its sizes are the program's own.       *)
EXTENDS IrqScroll

MCTv == TvModes["PAL"]
=============================================================================
