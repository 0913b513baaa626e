----------------------------- MODULE IrqScroll -----------------------------
(***************************************************************************)
(* irq-scroll: the vsync handler moves the picture up and down over two     *)
(* screens of memory, one above the other, while main draws boxes on the    *)
(* first, and one on the second whenever the handler says that it is out of *)
(* sight.  The handler stores in the display's registers one after the      *)
(* other, and the display goes on between its stores.                       *)
(***************************************************************************)
EXTENDS Display, Interrupts

CONSTANTS WIDTH, HEIGHT,
          STEP      \* the rows that a frame moves the picture

ASSUME ScreenAssumption == WIDTH \in Nat \ {0} /\ HEIGHT \in Nat \ {0} /\ FB \in Nat
ASSUME StepAssumption == STEP \in Nat \ {0} /\ HEIGHT % STEP = 0
\* 768 rows for two fields of 287 or 240: the tv shows no row that is not there
ASSUME FieldsAssumption == 2 * Tv.h <= HEIGHT

VARIABLES
  reg, live,          \* what is stored in the registers, and what is shown
  go,                 \* the outputs whose GO bit is set
  pc,                 \* main: the next instruction of Boot, or past it
  line, dir, hidden,  \* shared by the handler's calls; hidden also with main
  rastport            \* main's r: which screen the box goes to

display == <<reg, live, go>>
scroll == <<line, dir, hidden>>
vars == <<irqVars, display, scroll, pc, rastport>>

Bitmap == [data |-> FB, width |-> WIDTH, height |-> HEIGHT, stride |-> WIDTH * 2]
Lcd == LcdMode(1280, 1024)

\* main, up to its loop
Boot == video_init(1280, 1024)
        \o omap_attach_framebuffer("gfx", Bitmap, Lcd)
        \o omap_attach_framebuffer("vid2", Bitmap, Tv)
        \o << [op |-> "handler"], [op |-> "mask"], [op |-> "clear"],
              [op |-> "enable"], [op |-> "cpsie"] >>

-----------------------------------------------------------------------------
(* The display.                                                             *)

Shown(out) == [u \in Units |-> IF Output(u) = out /\ out \in go THEN reg[u] ELSE live[u]]

LcdVsync == /\ live' = Shown("lcd") /\ go' = go \ {"lcd"}
            /\ Event
            /\ UNCHANGED <<reg, scroll, pc, rastport>>
TvVsync == /\ "tv" \in go
           /\ live' = Shown("tv") /\ go' = go \ {"tv"}
           /\ UNCHANGED <<irqVars, reg, scroll, pc, rastport>>

Stored(u, f, v) == reg' = [reg EXCEPT ![u] = [g \in DOMAIN @ \cup {f} |->
                                               IF g = f THEN v ELSE @[g]]]

-----------------------------------------------------------------------------
(* dispc_handler                                                            *)

Picture == FB + line * WIDTH * 2

HandlerStep == UNCHANGED <<live, pc, rastport>>

\* slip: it takes every request for an event
ReadStatusUnseen == /\ HandlerGoes("status", "ba0")
                    /\ UNCHANGED <<display, scroll>> /\ HandlerStep

\* of a request without an event it makes nothing
ReadStatus == /\ HandlerGoes("status", IF status THEN "ba0" ELSE "done")
              /\ UNCHANGED <<display, scroll>> /\ HandlerStep
StoreBA0 == /\ HandlerGoes("ba0", "ba1")
            /\ Stored("gfx", "ba0", Picture)
            /\ UNCHANGED <<go, scroll>> /\ HandlerStep
StoreBA1 == /\ HandlerGoes("ba1", "go")
            /\ Stored("gfx", "ba1", Picture)
            /\ UNCHANGED <<go, scroll>> /\ HandlerStep
SetGo == /\ HandlerGoes("go", "turn")
         /\ go' = go \cup {"lcd"}
         /\ UNCHANGED <<reg, scroll>> /\ HandlerStep

\* slip: looks whether the picture has gone past the second screen
DirectionLate == CASE line = 0 -> 1 [] line > HEIGHT -> -1 [] OTHER -> dir

Direction == CASE line = 0 -> 1 [] line = HEIGHT -> -1 [] OTHER -> dir

\* slip: the second screen is announced at the wrong end
HidesAtEnd == hidden \/ line = HEIGHT + STEP

Hides == hidden \/ line = 0

Scroll == /\ HandlerGoes("turn", "clear")
          /\ dir' = Direction
          /\ hidden' = Hides
          /\ line' = line + dir' * STEP
          /\ UNCHANGED display /\ HandlerStep

ClearStatus == /\ HandlerClears("clear", "done")
               /\ UNCHANGED <<display, scroll>> /\ HandlerStep

EnterHandler == ex_irq /\ UNCHANGED <<display, scroll>> /\ HandlerStep
LeaveHandler == ex_irq_done /\ UNCHANGED <<display, scroll>> /\ HandlerStep

\* slip: the event is cleared before the new picture is handed over
dispc_handler_clearfirst ==
    \/ /\ HandlerClears("status", IF status THEN "ba0" ELSE "done")
       /\ UNCHANGED <<display, scroll>> /\ HandlerStep
    \/ StoreBA0 \/ StoreBA1 \/ SetGo \/ Scroll
    \/ /\ HandlerGoes("clear", "done")
       /\ UNCHANGED <<display, scroll>> /\ HandlerStep

dispc_handler == ReadStatus \/ StoreBA0 \/ StoreBA1 \/ SetGo \/ Scroll \/ ClearStatus

-----------------------------------------------------------------------------
(* main                                                                     *)

Booting == pc <= Len(Boot)
At(op) == MainRuns /\ Booting /\ Boot[pc].op = op
MainStep == UNCHANGED <<live, scroll, rastport>>
NextInstruction == pc' = pc + 1 /\ MainStep

BootStore == /\ At("store")
             /\ Stored(Boot[pc].unit, Boot[pc].field, Boot[pc].value)
             /\ NextInstruction /\ UNCHANGED <<irqVars, go>>
BootGo == /\ At("go")
          /\ go' = go \cup {Boot[pc].out}
          /\ NextInstruction /\ UNCHANGED <<irqVars, reg>>
BootWait == /\ At("wait") /\ Boot[pc].out \notin go
            /\ NextInstruction /\ UNCHANGED <<irqVars, reg, go>>
BootIrq == /\ \/ At("handler") /\ irq_set_handler("status")
              \/ At("mask") /\ irq_set_mask(TRUE)
              \/ At("clear") /\ MainClears
              \/ At("enable") /\ irq_enable
              \/ At("cpsie") /\ cpsie
           /\ NextInstruction /\ UNCHANGED <<reg, go>>

\* the loop: at 0 the test of hidden, then the clearing, then the box
Loop(k) == MainRuns /\ pc = Len(Boot) + k /\ UNCHANGED <<irqVars, display, line, dir>>
TestHidden == /\ Loop(1)
              /\ pc' = IF hidden THEN pc + 1 ELSE pc + 2
              /\ rastport' = "rp"
              /\ UNCHANGED hidden
ClearHidden == /\ Loop(2)
               /\ hidden' = FALSE /\ rastport' = "rp1"
               /\ pc' = pc + 1
DrawBox == /\ Loop(3)
           /\ pc' = Len(Boot) + 1
           /\ UNCHANGED <<hidden, rastport>>

-----------------------------------------------------------------------------
\* the registers as another program left them
Init == /\ IrqInit
        /\ reg = [u \in Units |-> [f \in {} |-> 0]] /\ live = reg /\ go = {}
        /\ pc = 1
        /\ line = 0 /\ dir = 1 /\ hidden = FALSE /\ rastport = "rp"

Handler == EnterHandler \/ dispc_handler \/ LeaveHandler
Main == BootStore \/ BootGo \/ BootWait \/ BootIrq \/ TestHidden \/ ClearHidden \/ DrawBox
Next == LcdVsync \/ TvVsync \/ Handler \/ Main

Spec == Init /\ [][Next]_vars

\* frames keep coming, nothing keeps the handler from running, and it takes a
\* small part of a frame, so that main goes on between two of its calls
FairSpec == Spec /\ WF_vars(LcdVsync) /\ WF_vars(TvVsync) /\ WF_vars(Handler) /\ SF_vars(Main)

-----------------------------------------------------------------------------
Enabled(u) == "enabled" \in DOMAIN live[u] /\ live[u].enabled

(* A register is stored in only while the GO bit of its output is clear: no *)
(* frame shows half of a setting.  Start-up waits for that; the handler     *)
(* does not, and relies on there being a frame between a GO and its next    *)
(* event, because it clears the event last.                                 *)
NoHalfSetting == [][\A u \in Units : reg'[u] # reg[u] => Output(u) \notin go]_vars

(* Both layers show only what is in the memory of the two screens, in every *)
(* frame, whatever the handler has stored by then.                          *)
PictureInMemory ==
    /\ Enabled("gfx") => ReadsWithin(live["gfx"], FB, FB + 2 * WIDTH * 2 * HEIGHT)
    /\ Enabled("vid2") => ReadsWithin(live["vid2"], FB, FB + WIDTH * 2 * HEIGHT)

(* The picture never jumps: when the frames go on to another picture it is  *)
(* STEP rows away, although events are lost and handler calls repeated.     *)
Smooth == [][Enabled("gfx") /\ Enabled("gfx")' =>
             LET moved == live'["gfx"].ba0 - live["gfx"].ba0
             IN moved \in {0, STEP * WIDTH * 2, -STEP * WIDTH * 2}]_vars

(* main draws on the second screen again and again: the picture always      *)
(* returns to the first screen, and the flag, which both clear and set      *)
(* without a lock, is not lost for good.                                    *)
SecondScreenDrawn == []<>(pc = Len(Boot) + 3 /\ rastport = "rp1")
=============================================================================
