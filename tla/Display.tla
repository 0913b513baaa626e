------------------------------ MODULE Display ------------------------------
(***************************************************************************)
(* lib/video.c: the display controller.  Its registers are shadowed: what   *)
(* is stored in them is shown from the first vsync after GO has been set    *)
(* for the output (lcd or tv) they belong to; the hardware clears GO then.  *)
(* Nothing stops the program from storing while GO is set, and a vsync then *)
(* shows half of one setting and half of another.                           *)
(*                                                                          *)
(* The start-up functions are straight-line code, so each is the sequence   *)
(* of its instructions; the program that calls them executes one at a time. *)
(***************************************************************************)
EXTENDS Integers, Sequences, FiniteSetsExt

CONSTANTS FB,    \* the address of the frame buffer
          Tv     \* the size of a field on the tv output: PAL or NTSC

ASSUME TvAssumption == Tv \in [w : Nat, h : Nat]

\* in ascending order; the timings of a mode are named by its height
modes == << [w |-> 640, h |-> 480], [w |-> 800, h |-> 600],
            [w |-> 1024, h |-> 768], [w |-> 1280, h |-> 1024] >>
TvModes == [PAL |-> [w |-> 720, h |-> 287], NTSC |-> [w |-> 720, h |-> 240]]

Lesser(a, b) == IF a < b THEN a ELSE b

\* the smallest mode that holds w x h, or else the largest there is
LcdMode(w, h) ==
    LET fit == {i \in DOMAIN modes : w <= modes[i].w /\ h <= modes[i].h}
    IN modes[IF fit = {} THEN Len(modes) ELSE Min(fit)]

\* what omap_attach_framebuffer stores: the bitmap is cut to the output v and
\* centred; a field of the interlaced tv is every other row
Layer(bm, v, tv) ==
    LET width  == Lesser(bm.width, v.w)
        height == Lesser(bm.height, v.h)
    IN [ba0 |-> bm.data + (IF tv THEN bm.stride ELSE 0), ba1 |-> bm.data,
        position |-> <<(v.w - width) \div 2, (v.h - height) \div 2>>,
        size |-> <<width, height>>,
        rowinc |-> 1 + (IF tv THEN bm.stride ELSE 0)
                     + (IF bm.width > v.w THEN bm.stride - v.w * 2 ELSE 0)]

-----------------------------------------------------------------------------
(* Instructions: stores in the registers of a unit, GO, and the busy wait.  *)

Units == {"mode", "gfx", "tvmode", "vid2"}
Output(u) == IF u \in {"mode", "gfx"} THEN "lcd" ELSE "tv"

Store(u, f, v) == [op |-> "store", unit |-> u, field |-> f, value |-> v]
Go(out) == [op |-> "go", out |-> out]
Wait(out) == [op |-> "wait", out |-> out]

omap_venc_init == << Store("tvmode", "size", <<Tv.w, Tv.h>>) >>
omap_dispc_init == << Store("gfx", "enabled", FALSE), Go("lcd"), Wait("lcd") >>
omap_set_lcd_mode(w, h) ==
    LET m == LcdMode(w, h)
    IN << Store("mode", "size", <<m.w, m.h>>), Store("mode", "timing_h", m.h),
          Store("mode", "timing_v", m.h), Go("lcd"), Wait("lcd") >>

omap_attach_framebuffer(u, bm, v) ==
    LET l == Layer(bm, v, Output(u) = "tv")
    IN << Store(u, "ba0", l.ba0), Store(u, "ba1", l.ba1), Store(u, "position", l.position),
          Store(u, "size", l.size), Store(u, "rowinc", l.rowinc), Store(u, "enabled", TRUE),
          Go(Output(u)), Wait(Output(u)) >>

video_init(w, h) == omap_venc_init \o omap_dispc_init \o omap_set_lcd_mode(w, h)

-----------------------------------------------------------------------------
(* The addresses a layer's dma reads: of a row its pixels, and from there   *)
(* rowinc - 1 bytes on to the next one.                                     *)

Pitch(l) == l.size[1] * 2 + l.rowinc - 1
LastByte(l, ba) == ba + (l.size[2] - 1) * Pitch(l) + l.size[1] * 2 - 1
ReadsWithin(l, lo, hi) == /\ l.ba0 >= lo /\ LastByte(l, l.ba0) < hi
                          /\ l.ba1 >= lo /\ LastByte(l, l.ba1) < hi
=============================================================================
