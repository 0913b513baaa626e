----------------------------- MODULE MemoryMap -----------------------------
(***************************************************************************)
(* lib/mmu-simple.c: one table of a megabyte per entry, everything mapped   *)
(* to itself.  A range whose ends are multiples of 16M is made of           *)
(* supersections: 16 entries each, all alike, of which the hardware reads   *)
(* any.  Addresses are in kilobytes.                                        *)
(***************************************************************************)
EXTENDS Integers, Sequences

CONSTANTS Sizes,    \* bound: sizes of a bank of memory, in units of 2M
          Starts    \* bound: where the second begins, in units of 128M

ASSUME BankAssumption == Sizes \subseteq 1..512 /\ Starts \subseteq 0..15

VARIABLES
  sdrc,   \* the memory controller's registers
  pt,     \* mmu_pt: the entries that are not a fault
  mapped  \* how many ranges have been mapped

mapVars == <<sdrc, pt, mapped>>

MB == 1024
Addresses == 4096 * MB
NCS0 == 2048 * MB
Slots == 0..4095

Mapping(base, end, attr) == [base |-> base * MB, end |-> end * MB, attr |-> attr]

\* in megabytes from 1024: code may be read, data and registers also written
iomap == << Mapping(1024, 1025, "code"), Mapping(1026, 1027, "data"),
            Mapping(1152, 1168, "device"), Mapping(1168, 1169, "device"),
            Mapping(1280, 1281, "device"), Mapping(1344, 1352, "device"),
            Mapping(1472, 1520, "device"), Mapping(1664, 1680, "device"),
            Mapping(1728, 1744, "device"), Mapping(1744, 1760, "device"),
            Mapping(1760, 1776, "device") >>

\* the sizes are in units of 2M, the start of the second bank in 128M and 32M
ram0_size == sdrc.size0 * 2 * MB
ram1_size == sdrc.size1 * 2 * MB

\* CS1STARTLOW is not shifted down before it is shifted up, and is lost
ram1_base == (NCS0 + sdrc.high * 128 * MB + sdrc.low * 8192 * MB) % Addresses

Ranges == iomap \o << [base |-> NCS0, end |-> NCS0 + ram0_size, attr |-> "data"],
                      [base |-> ram1_base, end |-> (ram1_base + ram1_size) % Addresses,
                       attr |-> "dma"] >>

RoundUp(a) == (((a + MB - 1) \div MB) * MB) % Addresses

\* slip: only the start of a range is looked at
SuperByStart(r) == r.base % (16 * MB) = 0

IsSuper(r) == r.base % (16 * MB) = 0 /\ r.end % (16 * MB) = 0

\* the entries from the start of a range round to its end, none if they agree
Covered(r) == LET s == RoundUp(r.base) \div MB
                  e == RoundUp(r.end) \div MB
              IN {(s + k) % 4096 : k \in 0..(((e - s) % 4096) - 1)}

\* the bits a supersection has no use for are stored all the same
map_section(r) ==
    LET covered == Covered(r)
        e(p) == [addr |-> p, type |-> IF IsSuper(r) THEN "super" ELSE "section", attr |-> r.attr]
    IN pt' = [p \in covered \cup DOMAIN pt |-> IF p \in covered THEN e(p) ELSE pt[p]]

-----------------------------------------------------------------------------
\* two banks, the second above the first and below the end of the addresses,
\* or missing
Sdrc == {c \in [size0 : Sizes, size1 : Sizes \cup {0}, high : Starts, low : 0..3] :
            LET start == 128 * c.high + 32 * c.low
            IN 2 * c.size0 <= start /\ start + 2 * c.size1 <= 2048}

\* map_empty
MapInit(c) == sdrc = c /\ pt = [p \in {} |-> 0] /\ mapped = 0

MapNext == /\ mapped < Len(Ranges)
           /\ map_section(Ranges[mapped + 1])
           /\ mapped' = mapped + 1
           /\ UNCHANGED sdrc

-----------------------------------------------------------------------------
\* what the hardware makes of an address in the megabyte va
Sixteen(va) == {q \in Slots : q \div 16 = va \div 16}
Translated(va) ==
    IF va \notin DOMAIN pt THEN <<va, "none">>
    ELSE IF pt[va].type = "section" THEN <<pt[va].addr, pt[va].attr>>
    ELSE IF \A q \in Sixteen(va) : /\ q \in DOMAIN pt /\ pt[q].type = "super"
                                    /\ pt[q].attr = pt[va].attr
    THEN <<(pt[va].addr \div 16) * 16 + (va % 16), pt[va].attr>> ELSE <<va, "undefined">>

\* the memory that is there
Bank1 == 2048 + sdrc.high * 128 + sdrc.low * 32
Attribute(va) ==
    CASE va \in 2048..(2047 + 2 * sdrc.size0) -> "data"
      [] va \in Bank1..(Bank1 + 2 * sdrc.size1 - 1) -> "dma"
      [] \E k \in DOMAIN iomap : va * MB >= iomap[k].base /\ va * MB < iomap[k].end ->
           iomap[CHOOSE k \in DOMAIN iomap : va * MB >= iomap[k].base /\ va * MB < iomap[k].end].attr
      [] OTHER -> "none"

\* from where the second bank is put to its end, when it is put too low
Misplaced == IF sdrc.low = 0 THEN {}
             ELSE (2048 + sdrc.high * 128)..(Bank1 + 2 * sdrc.size1 - 1)

(* When the mmu is turned on every address of a device and of either bank   *)
(* of memory is mapped to itself with the attributes of its kind, and no    *)
(* other address is mapped: however large the banks are, and also when the  *)
(* second one ends where the addresses do.  A start of the second bank that *)
(* is no multiple of 128M, which the code rounds down, spoils nothing but   *)
(* the addresses from the rounded start to the end of that bank.            *)
IdentityMap == mapped = Len(Ranges) =>
                  \A va \in Slots \ Misplaced : Translated(va) = <<va, Attribute(va)>>
=============================================================================
