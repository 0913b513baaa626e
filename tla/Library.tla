------------------------------- MODULE Library -------------------------------
(***************************************************************************)
(* The parts of the library and of the demos that share no state with any   *)
(* other, each with its own variables: one behaviour runs one of them.      *)
(***************************************************************************)
EXTENDS ExecLists, Interrupts, Fills, Waves, MemoryMap, BootMap, Monitor

CONSTANTS Units,   \* the parts
          Tones    \* bound: the notes that are played

ASSUME TonesAssumption == Tones \subseteq [wvlen : Nat \ {0}, len : Nat] /\ Tones # {}

VARIABLE unit

listVars == vars
libVars == <<unit, listVars, irqVars, drawVars, fillVars, waveVars, mapVars, bootVars, monitorVars>>

\* an input of a part that does not run is any
Inputs(u, S) == IF unit = u THEN S ELSE {CHOOSE x \in S : TRUE}

LibInit ==
    /\ unit \in Units
    /\ Init /\ IrqInit /\ graphics_init /\ SweepInit /\ MonitorInit
    /\ \E b \in Inputs("fills", Boxes) : FillInit(b)
    /\ \E t \in Inputs("note", Tones) : NoteInit(t)
    /\ \E c \in Inputs("memory_map", Sdrc) : MapInit(c)
    /\ \E k \in Inputs("boot_map", Kernels) : BootInit(k)

NotLists == UNCHANGED <<unit, irqVars, drawVars, fillVars, waveVars, mapVars, bootVars, monitorVars>>
NotIrq == UNCHANGED <<unit, listVars, drawVars, fillVars, waveVars, mapVars, bootVars, monitorVars>>
NotDraw == UNCHANGED <<unit, listVars, irqVars, fillVars, waveVars, mapVars, bootVars, monitorVars>>
NotFills == UNCHANGED <<unit, listVars, irqVars, drawVars, waveVars, mapVars, bootVars, monitorVars>>
NotWaves == UNCHANGED <<unit, listVars, irqVars, drawVars, fillVars, mapVars, bootVars, monitorVars>>
NotMap == UNCHANGED <<unit, listVars, irqVars, drawVars, fillVars, waveVars, bootVars, monitorVars>>
NotBoot == UNCHANGED <<unit, listVars, irqVars, drawVars, fillVars, waveVars, mapVars, monitorVars>>
NotMonitor == UNCHANGED <<unit, listVars, irqVars, drawVars, fillVars, waveVars, mapVars, bootVars>>

LibNext == \/ unit = "lists" /\ Next /\ NotLists
           \/ unit = "interrupts" /\ IrqNext /\ NotIrq
           \/ unit = "graphics" /\ DrawNext /\ NotDraw
           \/ unit = "fills" /\ FillNext /\ NotFills
           \/ unit = "note" /\ NoteNext /\ NotWaves
           \/ unit = "sweep" /\ SweepSample /\ NotWaves
           \/ unit = "memory_map" /\ MapNext /\ NotMap
           \/ unit = "boot_map" /\ MapPage /\ NotBoot
           \/ unit = "monitor" /\ MonitorNext /\ NotMonitor

LibSpec == LibInit /\ [][LibNext]_libVars
=============================================================================
