------------------------------ MODULE Graphics ------------------------------
(***************************************************************************)
(* lib/graphics.c: a rastport with a position and, kept beside it, a        *)
(* pointer into the bitmap.  Only rectangles are clipped, and only at the   *)
(* right and the lower edge: the rest relies on what the programs ask for.  *)
(*                                                                          *)
(* Addresses are counted in pixels from the start of the bitmap.            *)
(***************************************************************************)
EXTENDS Integers

CONSTANTS Width, Height   \* of the bitmap

ASSUME BitmapAssumption == Width \in Nat \ {0} /\ Height \in Nat /\ Height > 20

VARIABLES
  rp,     \* x, y and point
  drawn   \* the first pixel the last call wrote, and the one after its last

drawVars == <<rp, drawn>>

\* font_misc_fixed
FontWidth == 6
FontHeight == 12
Baseline == 9
LineHeight == 13

Nothing == <<0, 0>>
Pixels == Width * Height
Point(px, py) == px + py * Width

Clipped(r, w, h) == <<IF w + r.x > Width THEN Width - r.x ELSE w,
                      IF h + r.y > Height THEN Height - r.y ELSE h>>

\* n rows of m pixels from a
Rows(a, m, n) == IF m <= 0 \/ n <= 0 THEN Nothing ELSE <<a, a + (n - 1) * Width + m>>

-----------------------------------------------------------------------------
graphics_init == rp = [x |-> 0, y |-> 0, point |-> 0] /\ drawn = Nothing

Moved(px, py) == [x |-> px, y |-> py, point |-> Point(px, py)]

moveTo(px, py) == rp' = Moved(px, py) /\ drawn' = Nothing
drawPixel == drawn' = <<rp.point, rp.point + 1>> /\ UNCHANGED rp
drawRect(w, h) == LET c == Clipped(rp, w, h)
                  IN drawn' = Rows(rp.point, c[1], c[2]) /\ UNCHANGED rp

\* The baseline is taken off in shorts where the stride is in bytes, so text
\* is twice as many rows above the position as the font wants it to be.
drawChar == /\ drawn' = Rows(rp.point - 2 * Baseline * Width, FontWidth, FontHeight)
            /\ rp' = [rp EXCEPT !.x = @ + FontWidth, !.point = @ + FontWidth]

\* slip: the text goes on below the last line
NewlineUnwrapped(px) == Moved(px, rp.y + LineHeight)

\* a newline in drawString, whose first character was at px
Newline(px) == IF rp.y + 20 > Height THEN Moved(px, 20) ELSE Moved(px, rp.y + LineHeight)
newline(px) == rp' = Newline(px) /\ drawn' = Nothing

-----------------------------------------------------------------------------
\* What the programs do: they clear the screen, set pixels on it, and write
\* short texts that start in row 20.
Margins == {0, 20, Width - 1}
DrawNext == \/ \E px \in Margins, py \in {0, 20, Height - 1} : moveTo(px, py)
            \/ rp.x < Width /\ drawPixel
            \/ \E w, h \in {1, 32, Width} : drawRect(w, h)
            \/ rp.y >= 20 /\ rp.x + FontWidth <= Width /\ drawChar
            \/ rp.y >= 20 /\ newline(20)

(* Every pixel that is written is one of the bitmap's, and the pointer is   *)
(* where the position says, whatever calls were made before.                *)
DrawsInBitmap == /\ drawn[1] >= 0 /\ drawn[2] <= Pixels
                 /\ rp.point = Point(rp.x, rp.y)
=============================================================================
