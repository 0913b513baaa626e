------------------------------- MODULE Fills -------------------------------
(***************************************************************************)
(* render-rect: the ways it fills a rectangle, one after the other on       *)
(* random boxes for ever.  What distinguishes them is how they divide a     *)
(* row: the assembler ones write up to an aligned address, then whole       *)
(* chunks, as many as the row would have if it began aligned, and then what *)
(* the low bits of the rest say.  All pixels of a row are consecutive.      *)
(* memset16_armneon, which clears memory and draws no box, is left out.     *)
(***************************************************************************)
EXTENDS Graphics

\* the screen is 1024 pixels wide: every row of it begins with a whole chunk
ASSUME StrideAssumption == Width % 32 = 0

VARIABLES box,      \* a routine, where, and how large
          row,      \* rows drawn so far
          filled    \* of the last row: the first pixel, and the one after its last

fillVars == <<box, row, filled>>

\* slip: half as many chunks are counted as are written
BodyInBytes(n, chunk) == chunk * ((n * 2) \div chunk)

Body(n, chunk) == chunk * (n \div chunk)

\* pixels written for a row of n that starts at a; align and chunk in pixels.
\* end is where the first row of the box ends: r7 stays there for the rows below
AsmRow(a, n, end, align, chunk) ==
    LET head == (align - (a % align)) % align
        rest == end - (a + head + Body(n, chunk))
    IN head + Body(n, chunk) + (rest % chunk)

\* drawRect_long: the test for a last odd pixel, made once for the first row, is
\* the wrong way round, so that it paints one pixel more or one less than n
LongRow(a, n, end) == (a % 2) + 2 * (n \div 2) + ((end + 1) % 2)

Routines == {"short", "long", "arm", "neon", "neon2", "neon3", "neon4", "dma"}
AsmRoutines == {"arm", "neon", "neon2", "neon3", "neon4"}

\* drawRect_neon4 calls the routine of drawRect_neon3
RowPixels(routine, a, n, end) ==
    CASE routine \in {"short", "dma"} -> n
      [] routine = "long" -> LongRow(a, n, end)
      [] routine \in {"arm", "neon", "neon2"} -> AsmRow(a, n, end, 4, 16)
      [] routine \in {"neon3", "neon4"} -> AsmRow(a, n, end, 8, 32)

\* the assembler loops test at the end: a box without rows has one
RowCount(routine, h) == IF routine \in AsmRoutines /\ h < 1 THEN 1 ELSE h

\* main's loop: w and h are rand() % (size - 50), x and y follow from them
RandomBox(b) == /\ b.w \in 0..(Width - 51) /\ b.x \in 25..(Width - b.w - 26)
                /\ b.h \in 0..(Height - 51) /\ b.y \in 25..(Height - b.h - 26)

Boxes == {b \in [routine : Routines, w : 0..(Width - 51), h : 0..(Height - 51),
                  x : 25..(Width - 26), y : 25..(Height - 26)] : RandomBox(b)}

-----------------------------------------------------------------------------
FillInit(b) == box = b /\ row = 0 /\ filled = Nothing

Size == Clipped(box, box.w, box.h)
Start == Point(box.x, box.y + row)
FirstEnd == Point(box.x, box.y) + Size[1]

FillRow == /\ row < RowCount(box.routine, Size[2])
           /\ filled' = <<Start, Start + RowPixels(box.routine, Start, Size[1], FirstEnd)>>
           /\ row' = row + 1
           /\ UNCHANGED box

\* the box is done; in time the same one comes again
NextBox == /\ row >= RowCount(box.routine, Size[2])
           /\ row' = 0 /\ filled' = Nothing
           /\ UNCHANGED box

FillNext == FillRow \/ NextBox

(* Whatever the box, the routines write no further than the bitmap.  "long"  *)
(* is at most one pixel out in a row.  None of the others leaves out a pixel, *)
(* although the assembler ones look for the end of the first row in each: from *)
(* an aligned address they paint exactly the row, from any other at most one  *)
(* chunk too much.                                                           *)
BoxesPainted ==
    /\ filled[2] <= Pixels
    /\ row > 0 =>
         LET excess == filled[2] - filled[1] - box.w
         IN IF box.routine = "long" THEN excess \in -1..1
            ELSE /\ excess \in {0, 16, 32}
                 /\ filled[1] % 8 = 0 \/ box.routine \in {"short", "dma"} => excess = 0
=============================================================================
