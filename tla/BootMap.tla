------------------------------ MODULE BootMap ------------------------------
(***************************************************************************)
(* boot/start-kernel.S, the start of a kernel that is linked to run at the  *)
(* top of memory: it clears bss, builds its page tables there from a table  *)
(* of ranges, page by page, and turns the mmu on while it runs from one of  *)
(* the pages.  A second-level table serves a megabyte and is taken from     *)
(* kernel_pages when an address of it comes up for the first time.          *)
(* Addresses are page numbers.                                              *)
(***************************************************************************)
EXTENDS Integers, Sequences, FiniteSets

CONSTANTS Texts, Datas   \* sets of sizes of a kernel's text, and of its data and bss

Kernel_pages == 64

\* a kernel fits in the tables that the page it is loaded at and the stack leave
ASSUME KernelAssumption == /\ Texts \subseteq Nat \ {0} /\ Datas \subseteq Nat \ (0..1)
                           /\ \A t \in Texts, d \in Datas : t + d <= (Kernel_pages - 2) * 256

VARIABLES
  kernel,   \* its sizes
  l1,       \* kernel_ttb: the second-level table of a megabyte, 0 if none
  l2,       \* kernel_pages: the entries written, by table and index
  taken,    \* how many tables have been taken
  entry,    \* the range of ttb_map that is being mapped
  va, pa    \* r4 and r5

bootVars == <<kernel, l1, l2, taken, entry, va, pa>>

LOADADDR == 2048 * 256 + 8
Top == 4096 * 256
__executable_start == 3840 * 256
__data_start__ == __executable_start + kernel.text
__bss_end__ == __data_start__ + kernel.data
\* the last two pages of bss stand for the registers of two devices
UART3 == __bss_end__ - 2
GPIO5 == __bss_end__ - 1

\* virtual start, physical start, virtual end, flags; _start is at LOADADDR
ttb_map == << [va |-> LOADADDR, pa |-> LOADADDR, end |-> LOADADDR + 1, flags |-> "CODE"],
              [va |-> Top - 9, pa |-> 2048 * 256, end |-> Top - 1, flags |-> "DATA"],
              [va |-> __executable_start, pa |-> LOADADDR, end |-> __data_start__,
               flags |-> "CODE"],
              [va |-> __data_start__, pa |-> LOADADDR + kernel.text, end |-> __bss_end__,
               flags |-> "DATA"],
              [va |-> UART3, pa |-> 299040, end |-> UART3 + 1, flags |-> "NDEV"],
              [va |-> GPIO5, pa |-> 299094, end |-> GPIO5 + 1, flags |-> "NDEV"] >>

Mega(p) == p \div 256
Index(p) == p % 256

-----------------------------------------------------------------------------
Kernels == [text : Texts, data : Datas]

\* bss, and with it both tables, has been cleared
BootInit(k) == /\ kernel = k
               /\ l1 = [m \in {} |-> 0] /\ l2 = [e \in {} |-> 0]
               /\ taken = 0 /\ entry = 1
               /\ va = LOADADDR /\ pa = LOADADDR

\* slip: the pointer to the free tables is not moved on
SameTable(m) == IF m \in DOMAIN l1 THEN l1[m] ELSE 1

\* of the megabyte m: the table it has, or the next free one
Table(m) == IF m \in DOMAIN l1 THEN l1[m] ELSE taken + 1

MapPage == /\ entry <= Len(ttb_map)
           /\ LET m == Mega(va)
                  slot == <<Table(m), Index(va)>>
              IN /\ taken' = IF m \in DOMAIN l1 THEN taken ELSE taken + 1
                 /\ l1' = [k \in DOMAIN l1 \cup {m} |-> IF k = m THEN Table(m) ELSE l1[k]]
                 /\ l2' = [s \in DOMAIN l2 \cup {slot} |->
                             IF s = slot THEN [pa |-> pa, flags |-> ttb_map[entry].flags]
                             ELSE l2[s]]
           /\ IF va + 1 # ttb_map[entry].end
              THEN va' = va + 1 /\ pa' = pa + 1 /\ UNCHANGED entry
              ELSE /\ entry' = entry + 1
                   /\ IF entry < Len(ttb_map)
                      THEN va' = ttb_map[entry + 1].va /\ pa' = ttb_map[entry + 1].pa
                      ELSE UNCHANGED <<va, pa>>
           /\ UNCHANGED kernel

-----------------------------------------------------------------------------
BootWalk(p) == LET s == <<l1[Mega(p)], Index(p)>>
               IN IF s \in DOMAIN l2 THEN l2[s] ELSE [pa |-> 0, flags |-> "none"]

Holds(r, p) == p \in r.va..(r.end - 1)
Wanted(p) == LET last == CHOOSE k \in DOMAIN ttb_map :
                            /\ Holds(ttb_map[k], p)
                            /\ \A j \in (k + 1)..Len(ttb_map) : ~Holds(ttb_map[j], p)
             IN [pa |-> ttb_map[last].pa + p - ttb_map[last].va, flags |-> ttb_map[last].flags]

AllPages == UNION {r.va..(r.end - 1) : r \in {ttb_map[k] : k \in DOMAIN ttb_map}}
MegaPages == UNION {(m * 256)..(m * 256 + 255) : m \in DOMAIN l1}

(* When the mmu is turned on, every page of a range goes where the last     *)
(* range that has it says, whichever megabytes share a table and wherever   *)
(* the kernel ends; no other page is mapped, above all not the one above    *)
(* the stack; the page that turns it on stays where it is; and no more      *)
(* tables are used than there are.                                          *)
BootMapRight ==
    entry > Len(ttb_map) =>
        /\ \A p \in MegaPages : BootWalk(p) = IF p \in AllPages THEN Wanted(p)
                                              ELSE [pa |-> 0, flags |-> "none"]
        /\ AllPages \subseteq MegaPages /\ Top - 1 \notin AllPages
        /\ BootWalk(LOADADDR).pa = LOADADDR
        /\ taken <= Kernel_pages
=============================================================================
