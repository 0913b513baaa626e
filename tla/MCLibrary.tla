------------------------------ MODULE MCLibrary ------------------------------
(* Two lists and four nodes give every position a removed node can have     *)
(* (only, first, inner, last) next to another list.  The bitmap is as wide  *)
(* as three of the largest chunks.  The tones are g2 and f3.                *)
EXTENDS Library, TLC

CONSTANTS n1, n2, n3, n4, ready, wait

MCNodes == {n1, n2, n3, n4}
MCLists == {ready, wait}
Symmetry == Permutations(MCNodes) \cup Permutations(MCLists)

MCUnits == {"lists", "interrupts", "graphics", "fills", "note", "sweep",
            "memory_map", "boot_map", "monitor"}
MCTones == [wvlen : {ftable[6], ftable[7]}, len : {256}]
=============================================================================
