--------------------------- MODULE IrqScrollProofs ---------------------------
(***************************************************************************)
(* irq-scroll and the interrupts below it.                                  *)
(***************************************************************************)
EXTENDS IrqScroll, TLAPS

(* Nested irq_disable and irq_enable, for every depth.  The invariant adds  *)
(* to CriticalUndisturbed when the mask bit lags behind the count: between  *)
(* the two halves of a call, and while a handler runs.                      *)

MaskInv ==
    /\ irq_depth \in Nat /\ held \in Nat /\ masked \in BOOLEAN
    /\ call \in {"none", "count", "cpsie"} /\ irq_vector \in {"clear", "done"}
    /\ handler \in {"none", "clear", "done"}
    /\ irq_depth = held - (IF call = "count" THEN 1 ELSE 0)
    /\ call = "cpsie" => held = 0
    /\ ~MainRuns => masked /\ held = 0 /\ call = "none"
    /\ held > 0 \/ call = "cpsie" => masked
    /\ MainRuns /\ masked => held > 0 \/ call = "cpsie"

LEMMA MaskInvInit == IrqInit => MaskInv
BY DEF IrqInit, MaskInv, MainRuns

LEMMA MaskInvNext == MaskInv /\ [IrqNext]_irqVars => MaskInv'
<1> SUFFICES ASSUME MaskInv, [IrqNext]_irqVars
             PROVE  MaskInv'
  OBVIOUS
<1> USE DEF MaskInv, MainRuns
<1>1. CASE Event
  BY <1>1 DEF Event, mainSide, controller
<1>2. CASE ex_irq
  BY <1>2 DEF ex_irq, mainSide, controller
<1>3. CASE ex_irq_done
  <2>1. held' = 0 /\ call' = "none" /\ irq_depth' = 0 /\ handler' = "none"
    BY <1>3 DEF ex_irq_done, mainSide
  <2>2. ~masked' /\ masked' \in BOOLEAN
    BY <1>3 DEF ex_irq_done
  <2>3. irq_vector' \in {"clear", "done"}
    BY <1>3 DEF ex_irq_done, controller
  <2>4. ~(held' > 0)
    BY <2>1
  <2> QED
    BY <2>1, <2>2, <2>3, <2>4
<1>4. CASE HandlerClears("clear", "done")
  BY <1>4 DEF HandlerClears, mainSide, controller
<1>5. CASE irq_set_handler("clear")
  BY <1>5 DEF irq_set_handler, MainCalls, mainSide
<1>6. CASE \E on \in BOOLEAN : irq_set_mask(on)
  BY <1>6 DEF irq_set_mask, MainCalls, mainSide
<1>7. CASE irq_enable
  BY <1>7 DEF irq_enable, Enables, MainCalls, controller
<1>8. CASE cpsie
  <2>1. held' = 0 /\ call' = "none" /\ irq_depth' = 0 /\ handler' = "none"
    BY <1>8 DEF cpsie
  <2>2. ~masked' /\ masked' \in BOOLEAN
    BY <1>8 DEF cpsie
  <2>3. irq_vector' \in {"clear", "done"}
    BY <1>8 DEF cpsie, controller
  <2>4. ~(held' > 0)
    BY <2>1
  <2> QED
    BY <2>1, <2>2, <2>3, <2>4
<1>9. CASE irq_disable
  <2>1. call = "none" /\ held = irq_depth /\ (masked <=> held > 0) /\ handler' = "none"
    BY <1>9 DEF irq_disable, MainCalls
  <2>2. masked \/ irq_depth = 0
    BY <2>1
  <2>3. masked' /\ masked' \in BOOLEAN
    BY <1>9, <2>2 DEF irq_disable
  <2> QED
    BY <1>9, <2>1, <2>3 DEF irq_disable, controller
<1>10. CASE CountDisable
  BY <1>10 DEF CountDisable, controller
<1>11. CASE UNCHANGED irqVars
  BY <1>11 DEF irqVars, mainSide, controller
<1> QED
  BY <1>1, <1>2, <1>3, <1>4, <1>5, <1>6, <1>7, <1>8, <1>9, <1>10, <1>11 DEF IrqNext

(* No handler runs between irq_disable and the irq_enable that undoes it,   *)
(* whatever the nesting.                                                    *)
THEOREM CriticalSound == IrqSpec => []CriticalUndisturbed
<1>1. MaskInv => CriticalUndisturbed
  BY DEF MaskInv, CriticalUndisturbed, MainRuns, MainCalls
<1> QED
  BY <1>1, MaskInvInit, MaskInvNext, PTL DEF IrqSpec

-----------------------------------------------------------------------------
(* The start-up code of irq-scroll, instruction by instruction.             *)

LEMMA LcdIs == Lcd = [w |-> 1280, h |-> 1024]
<1> DEFINE fit(i) == 1280 <= modes[i].w /\ 1024 <= modes[i].h
           fitting == {i \in DOMAIN modes : fit(i)}
<1>1. DOMAIN modes = 1..4
  BY DEF modes
<1>2. modes[1].w = 640 /\ modes[2].w = 800 /\ modes[3].w = 1024
  BY DEF modes
<1>3. modes[4] = [w |-> 1280, h |-> 1024]
  BY DEF modes
<1>4. ~fit(1) /\ ~fit(2) /\ ~fit(3) /\ fit(4)
  BY <1>2, <1>3
<1>5. Lcd = modes[IF fitting = {} THEN Len(modes) ELSE Min(fitting)]
  BY DEF Lcd, LcdMode
<1> HIDE DEF fit
<1>6. fitting = {4}
  BY <1>1, <1>4
<1>7. Min({4}) = 4
  BY DEF Min
<1> HIDE DEF fitting
<1> QED
  BY <1>3, <1>5, <1>6, <1>7

GfxLayer == Layer(Bitmap, Lcd, FALSE)
TvLayer == Layer(Bitmap, Tv, TRUE)

Bare(o) == [op |-> o]

\* instruction i stores v in a field of a unit
Stores(i, u, f, v) == /\ Boot[i].op = "store"
                      /\ Boot[i].unit = u /\ Boot[i].field = f /\ Boot[i].value = v
Switches(i, u) == Boot[i].op = "store" /\ Boot[i].unit = u /\ Boot[i].field = "enabled"
Turns(i, op, out) == Boot[i].op = op /\ Boot[i].out = out

(* Which instruction is where.                                              *)
LEMMA BootIs ==
  /\ Len(Boot) = 30
  /\ Boot[1].op = "store" /\ Boot[1].unit = "tvmode"
  /\ Switches(2, "gfx") /\ Boot[2].value = FALSE /\ Turns(3, "go", "lcd") /\ Turns(4, "wait", "lcd")
  /\ \A i \in 5..7 : Boot[i].op = "store" /\ Boot[i].unit = "mode"
  /\ Turns(8, "go", "lcd") /\ Turns(9, "wait", "lcd")
  /\ Stores(10, "gfx", "ba0", GfxLayer.ba0) /\ Stores(11, "gfx", "ba1", GfxLayer.ba1)
  /\ Stores(12, "gfx", "position", GfxLayer.position)
  /\ Stores(13, "gfx", "size", GfxLayer.size) /\ Stores(14, "gfx", "rowinc", GfxLayer.rowinc)
  /\ Switches(15, "gfx") /\ Boot[15].value = TRUE
  /\ Turns(16, "go", "lcd") /\ Turns(17, "wait", "lcd")
  /\ Stores(18, "vid2", "ba0", TvLayer.ba0) /\ Stores(19, "vid2", "ba1", TvLayer.ba1)
  /\ Stores(20, "vid2", "position", TvLayer.position)
  /\ Stores(21, "vid2", "size", TvLayer.size) /\ Stores(22, "vid2", "rowinc", TvLayer.rowinc)
  /\ Switches(23, "vid2") /\ Boot[23].value = TRUE
  /\ Turns(24, "go", "tv") /\ Turns(25, "wait", "tv")
  /\ Boot[26].op = "handler" /\ Boot[27].op = "mask" /\ Boot[28].op = "clear"
  /\ Boot[29].op = "enable" /\ Boot[30].op = "cpsie"
<1> DEFINE m == LcdMode(1280, 1024)
           size == Store("mode", "size", <<m.w, m.h>>)
           timing_h == Store("mode", "timing_h", m.h)
           timing_v == Store("mode", "timing_v", m.h)
           tvsize == Store("tvmode", "size", <<Tv.w, Tv.h>>)
           off == Store("gfx", "enabled", FALSE)
           gfxon == Store("gfx", "enabled", TRUE)
           tvon == Store("vid2", "enabled", TRUE)
           v == << tvsize >>
           d == << off, Go("lcd"), Wait("lcd") >>
           l == << size, timing_h, timing_v, Go("lcd"), Wait("lcd") >>
           g == << Store("gfx", "ba0", GfxLayer.ba0), Store("gfx", "ba1", GfxLayer.ba1),
                   Store("gfx", "position", GfxLayer.position),
                   Store("gfx", "size", GfxLayer.size),
                   Store("gfx", "rowinc", GfxLayer.rowinc), gfxon, Go("lcd"), Wait("lcd") >>
           t == << Store("vid2", "ba0", TvLayer.ba0), Store("vid2", "ba1", TvLayer.ba1),
                   Store("vid2", "position", TvLayer.position),
                   Store("vid2", "size", TvLayer.size),
                   Store("vid2", "rowinc", TvLayer.rowinc), tvon, Go("tv"), Wait("tv") >>
<1>1. Output("gfx") = "lcd" /\ Output("vid2") = "tv"
  BY DEF Output
<1>2. omap_venc_init = v /\ omap_dispc_init = d /\ omap_set_lcd_mode(1280, 1024) = l
  BY DEF omap_venc_init, omap_dispc_init, omap_set_lcd_mode
<1>3. /\ omap_attach_framebuffer("gfx", Bitmap, Lcd) = g
      /\ omap_attach_framebuffer("vid2", Bitmap, Tv) = t
  BY <1>1 DEF omap_attach_framebuffer, GfxLayer, TvLayer
<1>4. /\ size.op = "store" /\ size.unit = "mode" /\ timing_h.op = "store" /\ timing_h.unit = "mode"
      /\ timing_v.op = "store" /\ timing_v.unit = "mode"
      /\ tvsize.op = "store" /\ tvsize.unit = "tvmode"
  BY DEF Store
<1> HIDE DEF m, size, timing_h, timing_v, tvsize, off, gfxon, tvon, v, d, l, g, t
<1>5. Boot = v \o d \o l \o g \o t
             \o << Bare("handler"), Bare("mask"), Bare("clear"), Bare("enable"), Bare("cpsie") >>
  BY <1>2, <1>3 DEF Boot, video_init, Bare
<1> DEFINE all == v \o d \o l \o g \o t
             \o << Bare("handler"), Bare("mask"), Bare("clear"), Bare("enable"), Bare("cpsie") >>
<1>6. /\ Len(all) = 30
      /\ all[1] = tvsize
      /\ all[2] = off /\ all[3] = Go("lcd") /\ all[4] = Wait("lcd")
      /\ all[5] = size /\ all[6] = timing_h /\ all[7] = timing_v
      /\ all[8] = Go("lcd") /\ all[9] = Wait("lcd")
  BY DEF v, d, l, g, t
<1>7. /\ all[10] = Store("gfx", "ba0", GfxLayer.ba0)
      /\ all[11] = Store("gfx", "ba1", GfxLayer.ba1)
      /\ all[12] = Store("gfx", "position", GfxLayer.position)
      /\ all[13] = Store("gfx", "size", GfxLayer.size)
      /\ all[14] = Store("gfx", "rowinc", GfxLayer.rowinc)
      /\ all[15] = gfxon
      /\ all[16] = Go("lcd") /\ all[17] = Wait("lcd")
  BY DEF v, d, l, g, t
<1>8. /\ all[18] = Store("vid2", "ba0", TvLayer.ba0)
      /\ all[19] = Store("vid2", "ba1", TvLayer.ba1)
      /\ all[20] = Store("vid2", "position", TvLayer.position)
      /\ all[21] = Store("vid2", "size", TvLayer.size)
      /\ all[22] = Store("vid2", "rowinc", TvLayer.rowinc)
      /\ all[23] = tvon
      /\ all[24] = Go("tv") /\ all[25] = Wait("tv")
  BY DEF v, d, l, g, t
<1>9. /\ all[26] = Bare("handler") /\ all[27] = Bare("mask") /\ all[28] = Bare("clear")
      /\ all[29] = Bare("enable") /\ all[30] = Bare("cpsie")
  BY DEF v, d, l, g, t
<1> HIDE DEF all
<1>10. Boot = all
  BY <1>5 DEF all
<1>11. /\ off.op = "store" /\ off.unit = "gfx" /\ off.field = "enabled" /\ off.value = FALSE
       /\ gfxon.op = "store" /\ gfxon.unit = "gfx" /\ gfxon.field = "enabled" /\ gfxon.value = TRUE
       /\ tvon.op = "store" /\ tvon.unit = "vid2" /\ tvon.field = "enabled" /\ tvon.value = TRUE
  BY DEF off, gfxon, tvon, Store
<1>12. /\ Switches(2, "gfx") /\ Boot[2].value = FALSE
       /\ Switches(15, "gfx") /\ Boot[15].value = TRUE
       /\ Switches(23, "vid2") /\ Boot[23].value = TRUE
  BY <1>6, <1>7, <1>8, <1>10, <1>11 DEF Switches
<1>13. /\ Stores(10, "gfx", "ba0", GfxLayer.ba0) /\ Stores(11, "gfx", "ba1", GfxLayer.ba1)
       /\ Stores(12, "gfx", "position", GfxLayer.position)
       /\ Stores(13, "gfx", "size", GfxLayer.size) /\ Stores(14, "gfx", "rowinc", GfxLayer.rowinc)
  BY <1>7, <1>10 DEF Stores, Store
<1>14. /\ Stores(18, "vid2", "ba0", TvLayer.ba0) /\ Stores(19, "vid2", "ba1", TvLayer.ba1)
       /\ Stores(20, "vid2", "position", TvLayer.position)
       /\ Stores(21, "vid2", "size", TvLayer.size) /\ Stores(22, "vid2", "rowinc", TvLayer.rowinc)
  BY <1>8, <1>10 DEF Stores, Store
<1>15. /\ Turns(3, "go", "lcd") /\ Turns(4, "wait", "lcd") /\ Turns(8, "go", "lcd")
       /\ Turns(9, "wait", "lcd") /\ Turns(16, "go", "lcd") /\ Turns(17, "wait", "lcd")
       /\ Turns(24, "go", "tv") /\ Turns(25, "wait", "tv")
  BY <1>6, <1>7, <1>8, <1>10 DEF Turns, Go, Wait
<1>16. /\ Boot[26].op = "handler" /\ Boot[27].op = "mask" /\ Boot[28].op = "clear"
       /\ Boot[29].op = "enable" /\ Boot[30].op = "cpsie"
  BY <1>9, <1>10 DEF Bare
<1> QED
  BY <1>4, <1>6, <1>10, <1>12, <1>13, <1>14, <1>15, <1>16

LEMMA OpAt ==
  ASSUME pc \in 1..33
  PROVE  /\ At("store") => pc \in {1, 2} \cup 5..7 \cup 10..15 \cup 18..23
         /\ At("go") => \/ pc \in {3, 8, 16} /\ Boot[pc].out = "lcd"
                        \/ pc = 24 /\ Boot[pc].out = "tv"
         /\ At("wait") => \/ pc \in {4, 9, 17} /\ Boot[pc].out = "lcd"
                          \/ pc = 25 /\ Boot[pc].out = "tv"
         /\ At("handler") => pc = 26
         /\ At("mask") => pc = 27
         /\ At("clear") => pc = 28
         /\ At("enable") => pc = 29
         /\ At("cpsie") => pc = 30
<1>1. Booting => \/ pc \in 1..10 \/ pc \in 11..20 \/ pc \in 21..30
  BY BootIs DEF Booting
<1>2. \A op : At(op) => Booting /\ Boot[pc].op = op
  BY DEF At
<1>3. CASE pc \in 1..10
  BY <1>2, <1>3, BootIs DEF Stores, Switches, Turns
<1>4. CASE pc \in 11..20
  BY <1>2, <1>4, BootIs DEF Stores, Switches, Turns
<1>5. CASE pc \in 21..30
  BY <1>2, <1>5, BootIs DEF Stores, Switches, Turns
<1> QED
  BY <1>1, <1>2, <1>3, <1>4, <1>5

-----------------------------------------------------------------------------
(* The order of things.  Until the last instruction of the start-up no      *)
(* interrupt is taken; GO is set where main waits for it, and by the        *)
(* handler; and once main is in its loop an event that is not being handled *)
(* means that there has been a frame since the last GO.                     *)

Handling == {"status", "ba0", "ba1", "go", "turn", "clear", "done"}

Control ==
    /\ pc \in 1..33 /\ masked \in BOOLEAN /\ status \in BOOLEAN
    /\ MainRuns \/ handler \in Handling
    /\ pc < 31 => masked /\ MainRuns
    /\ pc < 30 => irq_depth = 1 /\ call = "none"
    /\ pc > 26 => irq_vector = "status"

GoOrder ==
    /\ "tv" \in go => pc = 25
    /\ "lcd" \in go => pc \in {4, 9, 17} \cup 31..33
    /\ pc > 30 /\ status /\ handler \notin {"turn", "clear"} => "lcd" \notin go
    /\ handler \in {"ba0", "ba1", "go"} => status

LEMMA InitControl == Init => Control /\ GoOrder
<1> SUFFICES ASSUME Init PROVE Control /\ GoOrder
  OBVIOUS
<1>1. /\ pc = 1 /\ go = {} /\ MainRuns /\ irq_depth = 1 /\ call = "none" /\ handler = "none"
      /\ masked /\ ~status /\ masked \in BOOLEAN /\ status \in BOOLEAN
  BY DEF Init, IrqInit, MainRuns
<1> QED
  BY <1>1 DEF Control, GoOrder

LEMMA NextControl ==
  ASSUME Control, GoOrder, [Next]_vars
  PROVE  Control' /\ GoOrder'
<1> USE DEF Control, GoOrder, MainRuns, Handling
<1>1. pc \in 1..33 /\ (MainRuns /\ ~masked => pc > 30)
  OBVIOUS
<1>2. CASE LcdVsync
  BY <1>2 DEF LcdVsync, Event, mainSide, controller, scroll
<1>3. CASE TvVsync
  BY <1>3 DEF TvVsync, irqVars, mainSide, controller, scroll
<1>4. CASE EnterHandler
  BY <1>4 DEF EnterHandler, ex_irq, HandlerStep, mainSide, controller, display,
         scroll
<1>5. CASE ReadStatus
  BY <1>5 DEF ReadStatus, HandlerGoes, HandlerStep, mainSide, controller, display,
         scroll
<1>6. CASE StoreBA0
  BY <1>6 DEF StoreBA0, HandlerGoes, HandlerStep, mainSide, controller, scroll
<1>7. CASE StoreBA1
  BY <1>7 DEF StoreBA1, HandlerGoes, HandlerStep, mainSide, controller, scroll
<1>8. CASE SetGo
  BY <1>8 DEF SetGo, HandlerGoes, HandlerStep, mainSide, controller, scroll
<1>9. CASE Scroll
  BY <1>9 DEF Scroll, HandlerGoes, HandlerStep, mainSide, controller, display
<1>10. CASE ClearStatus
  BY <1>10 DEF ClearStatus, HandlerClears, Cleared, HandlerStep, mainSide, controller, display,
         scroll
<1>11. CASE LeaveHandler
  BY <1>11 DEF LeaveHandler, ex_irq_done, HandlerStep, mainSide, controller, display,
         scroll
<1>12. CASE BootStore
  <2>1. pc \in {1, 2} \cup 5..7 \cup 10..15 \cup 18..23 /\ pc' = pc + 1
    BY <1>1, <1>12, OpAt DEF BootStore, NextInstruction
  <2> QED
    BY <1>12, <2>1 DEF BootStore, NextInstruction, MainStep, irqVars, mainSide, controller, scroll
<1>13. CASE BootGo
  <2>1. /\ \/ pc \in {3, 8, 16} /\ Boot[pc].out = "lcd"
           \/ pc = 24 /\ Boot[pc].out = "tv"
        /\ pc' = pc + 1
    BY <1>1, <1>13, OpAt DEF BootGo, NextInstruction
  <2> QED
    BY <1>13, <2>1 DEF BootGo, NextInstruction, MainStep, irqVars, mainSide, controller, scroll
<1>14. CASE BootWait
  <2>1. /\ \/ pc \in {4, 9, 17} /\ Boot[pc].out = "lcd"
           \/ pc = 25 /\ Boot[pc].out = "tv"
        /\ pc' = pc + 1
    BY <1>1, <1>14, OpAt DEF BootWait, NextInstruction
  <2> QED
    BY <1>14, <2>1 DEF BootWait, NextInstruction, MainStep, irqVars, mainSide, controller, scroll
<1>15. CASE BootIrq
  <2> USE DEF NextInstruction, MainStep, MainCalls, mainSide, controller, scroll
  <2>1. CASE At("handler") /\ irq_set_handler("status")
    BY <1>1, <1>15, <2>1, OpAt DEF BootIrq, irq_set_handler
  <2>2. CASE At("mask") /\ irq_set_mask(TRUE)
    BY <1>1, <1>15, <2>2, OpAt DEF BootIrq, irq_set_mask
  <2>3. CASE At("clear") /\ MainClears
    <3>1. pc = 28 /\ pc' = 29 /\ UNCHANGED <<handler, masked, go>>
          /\ irq_depth' = irq_depth /\ call' = call /\ irq_vector' = irq_vector
      BY <1>1, <1>15, <2>3, OpAt DEF BootIrq, MainClears
    <3>2. ~status' /\ status' \in BOOLEAN
      BY <2>3 DEF MainClears, Cleared
    <3> QED
      BY <3>1, <3>2
  <2>4. CASE At("enable") /\ irq_enable
    BY <1>1, <1>15, <2>4, OpAt DEF BootIrq, irq_enable
  <2>5. CASE At("cpsie") /\ cpsie
    <3>1. pc = 30 /\ pc' = 31 /\ UNCHANGED <<handler, status, irq_vector, go>>
      BY <1>1, <1>15, <2>5, OpAt DEF BootIrq, cpsie
    <3>2. ~masked' /\ masked' \in BOOLEAN
      BY <2>5 DEF cpsie
    <3> QED
      BY <3>1, <3>2
  <2> QED
    BY <1>15, <2>1, <2>2, <2>3, <2>4, <2>5 DEF BootIrq
<1>16. CASE TestHidden \/ ClearHidden \/ DrawBox
  <2>1. pc \in 31..33 /\ pc' \in 31..33
    BY <1>16, BootIs DEF TestHidden, ClearHidden, DrawBox, Loop
  <2> QED
    BY <1>16, <2>1 DEF TestHidden, ClearHidden, DrawBox, Loop, irqVars, mainSide, controller,
           display
<1>17. CASE UNCHANGED vars
  BY <1>17 DEF vars, irqVars, mainSide, controller, display
<1> QED
  BY <1>2, <1>3, <1>4, <1>5, <1>6, <1>7, <1>8, <1>9, <1>10, <1>11, <1>12, <1>13, <1>14, <1>15,
     <1>16, <1>17 DEF Next, Handler, dispc_handler, Main

-----------------------------------------------------------------------------
(* What the stores do to the registers.                                     *)

LEMMA StoredIs ==
  ASSUME DOMAIN reg = Units, NEW u \in Units, NEW f, NEW v, Stored(u, f, v)
  PROVE  /\ DOMAIN reg' = Units
         /\ \A w \in Units \ {u} : reg'[w] = reg[w]
         /\ DOMAIN reg'[u] = DOMAIN reg[u] \cup {f}
         /\ reg'[u][f] = v
         /\ \A g \in DOMAIN reg[u] \ {f} : reg'[u][g] = reg[u][g]
<1>1. reg'[u] = [g \in DOMAIN reg[u] \cup {f} |-> IF g = f THEN v ELSE reg[u][g]]
  BY DEF Stored
<1> QED
  BY <1>1 DEF Stored

LEMMA StoreAt ==
  ASSUME pc \in 1..33, At("store")
  PROVE  /\ Boot[pc].unit \in Units
         /\ Boot[pc].unit = "tvmode" => pc = 1
         /\ Boot[pc].unit = "gfx" => pc \in {2} \cup 10..15
         /\ Boot[pc].unit = "mode" => pc \in 5..7
         /\ Boot[pc].unit = "vid2" => pc \in 18..23
<1>1. pc \in {1, 2} \cup 5..7 \cup 10..15 \cup 18..23
  BY OpAt
<1>2. CASE pc \in {1, 2} \cup 5..7
  BY <1>2, BootIs DEF Switches, Units
<1>3. CASE pc \in 10..15
  BY <1>3, BootIs DEF Switches, Stores, Units
<1>4. CASE pc \in 18..23
  BY <1>4, BootIs DEF Switches, Stores, Units
<1> QED
  BY <1>1, <1>2, <1>3, <1>4

Registers == DOMAIN reg = Units /\ DOMAIN live = Units

LEMMA InitRegisters == Init => Registers
BY DEF Init, Registers

LEMMA NextRegisters ==
  ASSUME Control, Registers, [Next]_vars
  PROVE  Registers'
<1> USE DEF Registers
<1>1. pc \in 1..33
  BY DEF Control
<1>2. CASE LcdVsync
  BY <1>2 DEF LcdVsync, Shown
<1>3. CASE TvVsync
  BY <1>3 DEF TvVsync, Shown
<1>4. CASE BootStore
  BY <1>1, <1>4, StoreAt, StoredIs DEF BootStore, NextInstruction, MainStep
<1>5. CASE StoreBA0 \/ StoreBA1
  BY <1>5, StoredIs DEF StoreBA0, StoreBA1, HandlerStep, Units
<1>6. CASE UNCHANGED <<reg, live>>
  BY <1>6
<1>7. [Next]_vars => \/ LcdVsync \/ TvVsync \/ BootStore \/ StoreBA0 \/ StoreBA1
                     \/ UNCHANGED <<reg, live>>
  BY DEF Next, Handler, dispc_handler, Main, EnterHandler, LeaveHandler, ReadStatus, SetGo, Scroll,
         ClearStatus, HandlerStep, display, BootGo, BootWait, BootIrq, NextInstruction, MainStep,
         TestHidden, ClearHidden, DrawBox, Loop, vars
<1> QED
  BY <1>2, <1>3, <1>4, <1>5, <1>6, <1>7

(* No register is stored in while the GO bit of its output is set: start-up *)
(* waits for the frame, and the handler runs only for an event that a frame *)
(* after the last GO has raised.                                            *)
THEOREM NoHalfSettingSound == Spec => NoHalfSetting
<1> DEFINE Whole == \A u \in Units : reg'[u] # reg[u] => Output(u) \notin go
<1>1. Control /\ GoOrder /\ Registers /\ [Next]_vars => Whole
  <2> SUFFICES ASSUME Control, GoOrder, Registers, [Next]_vars, NEW u \in Units, reg'[u] # reg[u]
               PROVE  Output(u) \notin go
    OBVIOUS
  <2>1. pc \in 1..33
    BY DEF Control
  <2>2. CASE BootStore
    <3> DEFINE w == Boot[pc].unit
    <3>1. At("store") /\ Stored(w, Boot[pc].field, Boot[pc].value)
      BY <2>2 DEF BootStore
    <3>2. /\ w \in Units
          /\ w = "tvmode" => pc = 1
          /\ w = "gfx" => pc \in {2} \cup 10..15
          /\ w = "mode" => pc \in 5..7
          /\ w = "vid2" => pc \in 18..23
      BY <2>1, <3>1, StoreAt
    <3>3. u = w
      <4> HIDE DEF w
      <4> QED
        BY <3>1, <3>2, StoredIs DEF Registers
    <3> HIDE DEF w
    <3>4. w \in {"mode", "gfx"} => "lcd" \notin go
      BY <3>2 DEF GoOrder
    <3>5. w \in {"tvmode", "vid2"} => "tv" \notin go
      BY <3>2 DEF GoOrder
    <3> QED
      BY <3>2, <3>3, <3>4, <3>5 DEF Output, Units
  <2>3. CASE StoreBA0 \/ StoreBA1
    <3>1. u = "gfx"
      BY <2>3, StoredIs DEF StoreBA0, StoreBA1, Units, Registers
    <3>2. handler \in {"ba0", "ba1"}
      BY <2>3 DEF StoreBA0, StoreBA1, HandlerGoes
    <3>3. "lcd" \notin go
      BY <3>2 DEF GoOrder, Control, MainRuns
    <3> QED
      BY <3>1, <3>3 DEF Output
  <2>4. [Next]_vars => BootStore \/ StoreBA0 \/ StoreBA1 \/ UNCHANGED reg
    BY DEF Next, Handler, dispc_handler, Main, EnterHandler, LeaveHandler, ReadStatus, SetGo, Scroll,
           ClearStatus, display, BootGo, BootWait, BootIrq, TestHidden, ClearHidden, DrawBox, Loop,
           LcdVsync, TvVsync, vars
  <2> QED
    BY <2>2, <2>3, <2>4
<1>2. Control /\ GoOrder /\ Registers /\ [Next]_vars => [Whole]_vars
  BY <1>1
<1> HIDE DEF Whole
<1>3. Spec => [][Whole]_vars
  BY <1>2, InitControl, NextControl, InitRegisters, NextRegisters, PTL DEF Spec
<1> QED
  BY <1>3 DEF NoHalfSetting, Whole

-----------------------------------------------------------------------------
(* Where the picture is: a whole number of steps down, never past the       *)
(* second screen, and on its first row until the handler is called.         *)

Steps == HEIGHT \div STEP

LEMMA StepsAre == Steps \in Nat \ {0} /\ HEIGHT = Steps * STEP
BY ScreenAssumption, StepAssumption DEF Steps

LEMMA Ordered ==
  ASSUME NEW a \in Nat, NEW b \in Nat, NEW c \in Nat, a <= b
  PROVE  a * c <= b * c /\ a * c \in Nat /\ b * c \in Nat
<1>1. b * c = a * c + (b - a) * c
  OBVIOUS
<1>2. (b - a) * c \in Nat /\ a * c \in Nat /\ b * c \in Nat
  OBVIOUS
<1> QED
  BY <1>1, <1>2

Rows == /\ \E k \in 0..Steps : line = k * STEP
        /\ dir \in {-1, 1}
        /\ pc < 31 => line = 0

LEMMA LineIn == Rows => line \in 0..HEIGHT
<1> SUFFICES ASSUME NEW k \in 0..Steps, line = k * STEP PROVE line \in 0..HEIGHT
  BY DEF Rows
<1> QED
  BY StepsAre, StepAssumption, ScreenAssumption, Ordered

LEMMA InitRows == Init => Rows
<1>1. 0 \in 0..Steps /\ 0 * STEP = 0
  BY StepsAre, StepAssumption
<1> QED
  BY <1>1 DEF Init, Rows

LEMMA ScrollMoves ==
  ASSUME Rows, Scroll
  PROVE  /\ dir' \in {-1, 1} /\ line' = line + dir' * STEP
         /\ \E k \in 0..Steps : line' = k * STEP
<1>1. PICK k \in 0..Steps : line = k * STEP
  BY DEF Rows
<1>2. dir' = Direction /\ line' = line + dir' * STEP
  BY DEF Scroll
<1>3. dir' \in {-1, 1} /\ (line = 0 => dir' = 1) /\ (line = HEIGHT => dir' = -1)
  BY <1>2, ScreenAssumption DEF Direction, Rows
<1>4. k = 0 => line = 0
  BY <1>1, StepAssumption
<1>5. k = Steps => line = HEIGHT
  BY <1>1, StepsAre
<1>6. k + dir' \in 0..Steps
  <2>1. CASE dir' = 1
    <3>1. k # Steps
      BY <1>3, <1>5, <2>1
    <3> QED
      BY <2>1, <3>1, StepsAre
  <2>2. CASE dir' = -1
    <3>1. k # 0
      BY <1>3, <1>4, <2>2
    <3> QED
      BY <2>2, <3>1, StepsAre
  <2> QED
    BY <1>3, <2>1, <2>2
<1>7. line' = (k + dir') * STEP
  BY <1>1, <1>2, <1>3, StepAssumption
<1> QED
  BY <1>2, <1>3, <1>6, <1>7

LEMMA NextRows ==
  ASSUME Control, Rows, [Next]_vars
  PROVE  Rows'
<1>1. CASE Scroll
  <2>1. pc' = pc /\ pc > 30
    BY <1>1 DEF Scroll, HandlerGoes, HandlerStep, Control, MainRuns
  <2> QED
    BY <1>1, <2>1, ScrollMoves DEF Rows, Control
<1>2. CASE UNCHANGED <<line, dir>> /\ (pc' < 31 => pc < 31)
  BY <1>2 DEF Rows
<1>3. [Next]_vars => Scroll \/ UNCHANGED <<line, dir>>
  BY DEF Next, Handler, dispc_handler, Main, EnterHandler, LeaveHandler, ReadStatus, SetGo,
         StoreBA0, StoreBA1, ClearStatus, scroll, BootStore, BootGo, BootWait, BootIrq,
         NextInstruction, MainStep, TestHidden, ClearHidden, DrawBox, Loop, LcdVsync, TvVsync, vars
<1>4. pc' < 31 => pc < 31
  <2>1. CASE TestHidden \/ ClearHidden \/ DrawBox
    BY <2>1, BootIs DEF TestHidden, ClearHidden, DrawBox, Loop
  <2>2. CASE BootStore \/ BootGo \/ BootWait \/ BootIrq
    <3>1. Booting
      BY <2>2 DEF BootStore, BootGo, BootWait, BootIrq, At
    <3> QED
      BY <3>1, BootIs DEF Booting, Control
  <2>3. CASE pc' = pc
    BY <2>3
  <2>4. [Next]_vars => \/ TestHidden \/ ClearHidden \/ DrawBox
                      \/ BootStore \/ BootGo \/ BootWait \/ BootIrq \/ pc' = pc
    BY DEF Next, Handler, dispc_handler, Main, EnterHandler, LeaveHandler, ReadStatus, SetGo,
           StoreBA0, StoreBA1, ClearStatus, Scroll, HandlerStep, LcdVsync, TvVsync, vars
  <2> QED
    BY <2>1, <2>2, <2>3, <2>4
<1> QED
  BY <1>1, <1>2, <1>3, <1>4

-----------------------------------------------------------------------------
(* What is in the registers of the two layers, and what is shown of it: a   *)
(* layer is enabled after the rest of its registers have been stored, and   *)
(* the handler only ever replaces an address of gfx by another.             *)

On(l) == "enabled" \in DOMAIN l /\ l.enabled
Holds(l, f, v) == f \in DOMAIN l /\ l[f] = v
Based(l, f) == \E k \in 0..HEIGHT : Holds(l, f, FB + k * WIDTH * 2)

GfxSet(l) == /\ Based(l, "ba0") /\ Based(l, "ba1")
             /\ Holds(l, "size", GfxLayer.size) /\ Holds(l, "rowinc", GfxLayer.rowinc)
TvSet(l) == /\ Holds(l, "ba0", TvLayer.ba0) /\ Holds(l, "ba1", TvLayer.ba1)
            /\ Holds(l, "size", TvLayer.size) /\ Holds(l, "rowinc", TvLayer.rowinc)

GfxStored == /\ pc > 10 => Based(reg["gfx"], "ba0")
             /\ pc > 11 => Based(reg["gfx"], "ba1")
             /\ pc > 13 => Holds(reg["gfx"], "size", GfxLayer.size)
             /\ pc > 14 => Holds(reg["gfx"], "rowinc", GfxLayer.rowinc)
             /\ On(reg["gfx"]) => pc > 15
TvStored == /\ pc > 18 => Holds(reg["vid2"], "ba0", TvLayer.ba0)
            /\ pc > 19 => Holds(reg["vid2"], "ba1", TvLayer.ba1)
            /\ pc > 21 => Holds(reg["vid2"], "size", TvLayer.size)
            /\ pc > 22 => Holds(reg["vid2"], "rowinc", TvLayer.rowinc)
            /\ On(reg["vid2"]) => pc > 23
Settings == /\ GfxStored /\ TvStored
            /\ On(live["gfx"]) => pc > 15 /\ GfxSet(live["gfx"])
            /\ On(live["vid2"]) => TvSet(live["vid2"])

LEMMA StoredHolds ==
  ASSUME Registers, NEW u \in Units, NEW f, NEW v, Stored(u, f, v)
  PROVE  /\ Holds(reg'[u], f, v)
         /\ \A g, w : g # f /\ Holds(reg[u], g, w) => Holds(reg'[u], g, w)
         /\ \A g : g # f /\ Based(reg[u], g) => Based(reg'[u], g)
         /\ \A w \in Units \ {u} : reg'[w] = reg[w]
         /\ f # "enabled" /\ On(reg'[u]) => On(reg[u])
<1>1. DOMAIN reg = Units
  BY DEF Registers
<1>2. /\ \A w \in Units \ {u} : reg'[w] = reg[w]
      /\ DOMAIN reg'[u] = DOMAIN reg[u] \cup {f}
      /\ reg'[u][f] = v
      /\ \A g \in DOMAIN reg[u] \ {f} : reg'[u][g] = reg[u][g]
  BY <1>1, StoredIs
<1>3. /\ Holds(reg'[u], f, v)
      /\ \A g, w : g # f /\ Holds(reg[u], g, w) => Holds(reg'[u], g, w)
  BY <1>2 DEF Holds
<1>4. ASSUME f # "enabled", On(reg'[u])
      PROVE  On(reg[u])
  <2>1. "enabled" \in DOMAIN reg'[u] /\ reg'[u]["enabled"]
    BY <1>4 DEF On
  <2>2. "enabled" \in DOMAIN reg[u] \ {f}
    BY <1>2, <1>4, <2>1
  <2>3. reg'[u]["enabled"] = reg[u]["enabled"]
    BY <1>2, <2>2
  <2>4. reg[u]["enabled"]
    BY <2>1, <2>3
  <2> QED
    BY <2>2, <2>4 DEF On
<1> QED
  BY <1>2, <1>3, <1>4 DEF Based

LEMMA GfxIs == GfxLayer.ba0 = FB /\ GfxLayer.ba1 = FB
BY ScreenAssumption DEF GfxLayer, Layer, Bitmap

LEMMA Bases == /\ \A l, f : Holds(l, f, FB) => Based(l, f)
               /\ \A l, f : Rows /\ Holds(l, f, Picture) => Based(l, f)
<1>1. 0 \in 0..HEIGHT /\ FB + 0 * WIDTH * 2 = FB
  BY ScreenAssumption
<1>2. Rows => line \in 0..HEIGHT
  BY LineIn
<1> QED
  BY <1>1, <1>2 DEF Based, Picture

LEMMA InitSettings == Init => Settings
<1> SUFFICES ASSUME Init PROVE Settings
  OBVIOUS
<1>1. pc = 1 /\ reg["gfx"] = [f \in {} |-> 0] /\ reg["vid2"] = [f \in {} |-> 0] /\ live = reg
  BY DEF Init, Units
<1>2. ~On(reg["gfx"]) /\ ~On(reg["vid2"])
  BY <1>1 DEF On
<1> QED
  BY <1>1, <1>2 DEF Settings, GfxStored, TvStored

\* a store of the start-up code
LEMMA BootSettings ==
  ASSUME Control, Registers, Settings, BootStore
  PROVE  Settings'
<1> DEFINE u == Boot[pc].unit
           f == Boot[pc].field
           v == Boot[pc].value
<1>1. pc \in 1..33 /\ At("store") /\ Stored(u, f, v) /\ pc' = pc + 1 /\ live' = live
  BY DEF BootStore, NextInstruction, MainStep, Control
<1>2. /\ u \in Units
      /\ u = "tvmode" => pc = 1
      /\ u = "gfx" => pc \in {2} \cup 10..15
      /\ u = "mode" => pc \in 5..7
      /\ u = "vid2" => pc \in 18..23
  BY <1>1, StoreAt
<1>3. /\ Holds(reg'[u], f, v)
      /\ \A g, w : g # f /\ Holds(reg[u], g, w) => Holds(reg'[u], g, w)
      /\ \A g : g # f /\ Based(reg[u], g) => Based(reg'[u], g)
      /\ \A w \in Units \ {u} : reg'[w] = reg[w]
      /\ f # "enabled" /\ On(reg'[u]) => On(reg[u])
  <2> HIDE DEF u, f, v
  <2> QED
    BY <1>1, <1>2, StoredHolds
<1>4. pc \in {1, 2} \cup 5..7 \cup 10..15 \cup 18..23
  BY <1>1, OpAt
<1> HIDE DEF u, f, v
<1>5. GfxStored'
  <2>1. CASE u # "gfx"
    <3>1. reg'["gfx"] = reg["gfx"] /\ pc \notin 10..15
      BY <1>2, <1>3, <1>4, <2>1, BootIs DEF Units, u, Switches, Stores
    <3> QED
      BY <1>1, <1>4, <3>1 DEF Settings, GfxStored
  <2>2. CASE pc = 2
    <3>1. v = FALSE /\ f = "enabled" /\ u = "gfx"
      BY <2>2, BootIs DEF Switches, u, f, v
    <3>2. ~On(reg'["gfx"])
      BY <1>3, <3>1 DEF Holds, On
    <3> QED
      BY <1>1, <2>2, <3>2 DEF GfxStored
  <2>3. CASE pc \in 10..14
    <3>1. u = "gfx" /\ f # "enabled"
      BY <2>3, BootIs DEF Stores, u, f
    <3>2. ~On(reg'["gfx"])
      BY <1>3, <2>3, <3>1 DEF Settings, GfxStored
    <3>3. pc = 10 => f = "ba0" /\ Based(reg'["gfx"], "ba0")
      BY <1>3, <3>1, BootIs, GfxIs, Bases DEF Stores, f, v
    <3>4. pc = 11 => f = "ba1" /\ Based(reg'["gfx"], "ba1")
      BY <1>3, <3>1, BootIs, GfxIs, Bases DEF Stores, f, v
    <3>5. pc = 12 => f = "position"
      BY BootIs DEF Stores, f, v
    <3>6. pc = 13 => f = "size" /\ Holds(reg'["gfx"], "size", GfxLayer.size)
      BY <1>3, <3>1, BootIs DEF Stores, f, v
    <3>7. pc = 14 => f = "rowinc" /\ Holds(reg'["gfx"], "rowinc", GfxLayer.rowinc)
      BY <1>3, <3>1, BootIs DEF Stores, f, v
    <3> QED
      BY <1>1, <1>3, <2>3, <3>1, <3>2, <3>3, <3>4, <3>5, <3>6, <3>7 DEF Settings, GfxStored
  <2>4. CASE pc = 15
    <3>1. f = "enabled" /\ u = "gfx"
      BY <2>4, BootIs DEF Switches, u, f
    <3> QED
      BY <1>1, <1>3, <2>4, <3>1 DEF Settings, GfxStored
  <2> QED
    BY <1>2, <2>1, <2>2, <2>3, <2>4
<1>6. TvStored'
  <2>1. CASE u # "vid2"
    <3>1. reg'["vid2"] = reg["vid2"] /\ pc \notin 18..23
      BY <1>2, <1>3, <1>4, <2>1, BootIs DEF Units, u, Switches, Stores
    <3> QED
      BY <1>1, <1>4, <3>1 DEF Settings, TvStored
  <2>2. CASE pc \in 18..22
    <3>1. u = "vid2" /\ f # "enabled"
      BY <2>2, BootIs DEF Stores, u, f
    <3>2. ~On(reg'["vid2"])
      BY <1>3, <2>2, <3>1 DEF Settings, TvStored
    <3>3. pc = 18 => f = "ba0" /\ Holds(reg'["vid2"], "ba0", TvLayer.ba0)
      BY <1>3, <3>1, BootIs DEF Stores, f, v
    <3>4. pc = 19 => f = "ba1" /\ Holds(reg'["vid2"], "ba1", TvLayer.ba1)
      BY <1>3, <3>1, BootIs DEF Stores, f, v
    <3>5. pc = 20 => f = "position"
      BY BootIs DEF Stores, f, v
    <3>6. pc = 21 => f = "size" /\ Holds(reg'["vid2"], "size", TvLayer.size)
      BY <1>3, <3>1, BootIs DEF Stores, f, v
    <3>7. pc = 22 => f = "rowinc" /\ Holds(reg'["vid2"], "rowinc", TvLayer.rowinc)
      BY <1>3, <3>1, BootIs DEF Stores, f, v
    <3> QED
      BY <1>1, <1>3, <2>2, <3>1, <3>2, <3>3, <3>4, <3>5, <3>6, <3>7 DEF Settings, TvStored
  <2>3. CASE pc = 23
    <3>1. f = "enabled" /\ u = "vid2"
      BY <2>3, BootIs DEF Switches, u, f
    <3> QED
      BY <1>1, <1>3, <2>3, <3>1 DEF Settings, TvStored
  <2> QED
    BY <1>2, <2>1, <2>2, <2>3
<1> QED
  BY <1>1, <1>5, <1>6 DEF Settings

\* an address stored by the handler
LEMMA HandlerSettings ==
  ASSUME Control, Registers, Rows, Settings, NEW f \in {"ba0", "ba1"}, Stored("gfx", f, Picture),
         handler \in {"ba0", "ba1"}, UNCHANGED <<live, pc>>
  PROVE  Settings' /\ Holds(reg'["gfx"], f, Picture)
<1>1. /\ Holds(reg'["gfx"], f, Picture)
      /\ \A g, w : g # f /\ Holds(reg["gfx"], g, w) => Holds(reg'["gfx"], g, w)
      /\ \A g : g # f /\ Based(reg["gfx"], g) => Based(reg'["gfx"], g)
      /\ \A w \in Units \ {"gfx"} : reg'[w] = reg[w]
      /\ f # "enabled" /\ On(reg'["gfx"]) => On(reg["gfx"])
  BY StoredHolds DEF Units
<1>2. Based(reg'["gfx"], f)
  BY <1>1, Bases
<1>3. pc > 30 /\ pc' = pc
  BY DEF Control, MainRuns
<1>4. GfxStored'
  BY <1>1, <1>2, <1>3 DEF Settings, GfxStored
<1>5. TvStored'
  BY <1>1, <1>3 DEF Settings, TvStored, Units
<1> QED
  BY <1>1, <1>4, <1>5 DEF Settings

\* a frame
LEMMA FrameSettings ==
  ASSUME Control, Registers, Settings, NEW out, live' = Shown(out), UNCHANGED <<reg, pc>>
  PROVE  Settings'
<1>1. /\ live'["gfx"] = reg["gfx"] \/ live'["gfx"] = live["gfx"]
      /\ live'["vid2"] = reg["vid2"] \/ live'["vid2"] = live["vid2"]
  BY DEF Shown, Units
<1>2. GfxStored' /\ TvStored'
  BY DEF Settings, GfxStored, TvStored
<1>3. On(reg["gfx"]) => pc > 15 /\ GfxSet(reg["gfx"])
  BY DEF Settings, GfxStored, GfxSet, Control
<1>4. On(reg["vid2"]) => TvSet(reg["vid2"])
  BY DEF Settings, TvStored, TvSet, Control
<1> QED
  BY <1>1, <1>2, <1>3, <1>4 DEF Settings

LEMMA NextSettings ==
  ASSUME Control, Registers, Rows, Settings, [Next]_vars
  PROVE  Settings'
<1>1. CASE LcdVsync \/ TvVsync
  BY <1>1, FrameSettings DEF LcdVsync, TvVsync
<1>2. CASE BootStore
  BY <1>2, BootSettings
<1>3. CASE StoreBA0 \/ StoreBA1
  BY <1>3, HandlerSettings DEF StoreBA0, StoreBA1, HandlerGoes, HandlerStep
<1>4. CASE UNCHANGED <<reg, live>> /\ pc' = pc
  BY <1>4 DEF Settings, GfxStored, TvStored
<1>5. CASE BootGo \/ BootWait \/ BootIrq
  <2>1. pc \in 1..33
    BY DEF Control
  <2>2. At("go") \/ At("wait") => pc \in {3, 4, 8, 9, 16, 17, 24, 25}
    BY <2>1, OpAt
  <2>3. At("handler") \/ At("mask") \/ At("clear") \/ At("enable") \/ At("cpsie") => pc \in 26..30
    BY <2>1, OpAt
  <2>4. \/ At("go") \/ At("wait")
        \/ At("handler") \/ At("mask") \/ At("clear") \/ At("enable") \/ At("cpsie")
    BY <1>5 DEF BootGo, BootWait, BootIrq
  <2>5. pc' = pc + 1 /\ UNCHANGED <<reg, live>>
    BY <1>5 DEF BootGo, BootWait, BootIrq, NextInstruction, MainStep
  <2> QED
    BY <2>2, <2>3, <2>4, <2>5 DEF Settings, GfxStored, TvStored
<1>6. CASE TestHidden \/ ClearHidden \/ DrawBox
  <2>1. pc \in 31..33 /\ pc' \in 31..33
    BY <1>6, BootIs DEF TestHidden, ClearHidden, DrawBox, Loop
  <2>2. UNCHANGED <<reg, live>>
    BY <1>6 DEF TestHidden, ClearHidden, DrawBox, Loop, display
  <2> QED
    BY <2>1, <2>2 DEF Settings, GfxStored, TvStored
<1>7. [Next]_vars => \/ LcdVsync \/ TvVsync \/ BootStore \/ StoreBA0 \/ StoreBA1
                     \/ BootGo \/ BootWait \/ BootIrq \/ TestHidden \/ ClearHidden \/ DrawBox
                     \/ UNCHANGED <<reg, live>> /\ pc' = pc
  BY DEF Next, Handler, dispc_handler, Main, EnterHandler, LeaveHandler, ReadStatus, SetGo, Scroll,
         ClearStatus, HandlerStep, display, vars
<1> QED
  BY <1>1, <1>2, <1>3, <1>4, <1>5, <1>6, <1>7

-----------------------------------------------------------------------------
(* From the registers to the bytes that are read.                           *)

Row == WIDTH * 2

\* the last byte of h rows that begin in row k of the memory
LEMMA RowsEnd ==
  ASSUME NEW k \in Nat, NEW h \in Nat, NEW total \in Nat, k + h <= total
  PROVE  k * WIDTH * 2 + h * (WIDTH * 2) <= total * (WIDTH * 2)
<1>1. WIDTH * 2 \in Nat
  BY ScreenAssumption
<1>2. (k + h) * (WIDTH * 2) <= total * (WIDTH * 2)
  BY <1>1, Ordered
<1>3. (k + h) * (WIDTH * 2) = k * WIDTH * 2 + h * (WIDTH * 2)
  BY ScreenAssumption
<1> QED
  BY <1>2, <1>3

LEMMA GfxReads ==
  ASSUME NEW l, GfxSet(l)
  PROVE  ReadsWithin(l, FB, FB + 2 * WIDTH * 2 * HEIGHT)
<1> DEFINE w == Lesser(WIDTH, 1280)
           h == Lesser(HEIGHT, 1024)
<1>1. w \in Nat /\ w <= WIDTH /\ h \in Nat /\ h <= HEIGHT /\ h > 0
  BY ScreenAssumption DEF Lesser
<1>2. GfxLayer.size = <<w, h>>
  BY LcdIs DEF GfxLayer, Layer, Bitmap
<1>3. GfxLayer.rowinc = 1 + (IF WIDTH > 1280 THEN WIDTH * 2 - 2560 ELSE 0)
  BY LcdIs, ScreenAssumption DEF GfxLayer, Layer, Bitmap
<1>4. l.size[1] = w /\ l.size[2] = h
  BY <1>2 DEF GfxSet, Holds
<1>5. Pitch(l) = Row
  <2>1. l.rowinc = 1 + (IF WIDTH > 1280 THEN WIDTH * 2 - 2560 ELSE 0)
    BY <1>3 DEF GfxSet, Holds
  <2> QED
    BY <1>4, <2>1, ScreenAssumption DEF Pitch, Lesser, Row
<1> HIDE DEF w, h
<1>6. ASSUME NEW ba, NEW k \in 0..HEIGHT, ba = FB + k * WIDTH * 2
      PROVE  ba >= FB /\ LastByte(l, ba) < FB + 2 * WIDTH * 2 * HEIGHT
  <2>1. k * WIDTH * 2 + h * (WIDTH * 2) <= (2 * HEIGHT) * (WIDTH * 2)
    BY <1>1, RowsEnd, ScreenAssumption
  <2>2. k * WIDTH * 2 \in Nat
    BY ScreenAssumption
  <2>3. (h - 1) * Row + 2 * w <= h * (WIDTH * 2)
    BY <1>1, ScreenAssumption DEF Row
  <2>4. LastByte(l, ba) = ba + (h - 1) * Row + w * 2 - 1
    BY <1>4, <1>5 DEF LastByte
  <2>5. 2 * WIDTH * 2 * HEIGHT = (2 * HEIGHT) * (WIDTH * 2)
    BY ScreenAssumption
  <2>6. (h - 1) * Row \in Int /\ h * (WIDTH * 2) \in Int /\ (2 * HEIGHT) * (WIDTH * 2) \in Int
    BY <1>1, ScreenAssumption DEF Row
  <2> HIDE DEF Row
  <2> QED
    BY <1>1, <1>6, <2>1, <2>2, <2>3, <2>4, <2>5, <2>6, ScreenAssumption
<1> QED
  BY <1>6 DEF ReadsWithin, GfxSet, Based, Holds

LEMMA TvReads ==
  ASSUME NEW l, TvSet(l)
  PROVE  ReadsWithin(l, FB, FB + WIDTH * 2 * HEIGHT)
<1> DEFINE w == Lesser(WIDTH, Tv.w)
           h == Lesser(HEIGHT, Tv.h)
<1>1. Tv.w \in Nat /\ Tv.h \in Nat
  BY TvAssumption
<1>2. w \in Nat /\ w <= WIDTH /\ h \in Nat /\ 2 * h <= HEIGHT
  BY <1>1, ScreenAssumption, FieldsAssumption DEF Lesser
<1>3. TvLayer.size = <<w, h>> /\ TvLayer.ba0 = FB + Row /\ TvLayer.ba1 = FB
  BY DEF TvLayer, Layer, Bitmap, Row
<1>4. TvLayer.rowinc = 1 + WIDTH * 2 + (IF WIDTH > Tv.w THEN WIDTH * 2 - Tv.w * 2 ELSE 0)
  BY DEF TvLayer, Layer, Bitmap
<1>5. l.size[1] = w /\ l.size[2] = h /\ l.ba0 = FB + Row /\ l.ba1 = FB
  BY <1>3 DEF TvSet, Holds
<1>6. Pitch(l) = 2 * Row
  <2>1. l.rowinc = 1 + WIDTH * 2 + (IF WIDTH > Tv.w THEN WIDTH * 2 - Tv.w * 2 ELSE 0)
    BY <1>4 DEF TvSet, Holds
  <2> QED
    BY <1>1, <1>5, <2>1, ScreenAssumption DEF Pitch, Lesser, Row
<1> HIDE DEF w, h
<1>7. Row \in Nat /\ 2 * w <= Row
  BY <1>2, ScreenAssumption DEF Row
<1>8. (2 * h) * Row <= HEIGHT * Row /\ (2 * h) * Row \in Nat /\ HEIGHT * Row \in Nat
  BY <1>2, <1>7, Ordered, ScreenAssumption
<1>9. (h - 1) * (2 * Row) = (2 * h) * Row - 2 * Row
  BY <1>2, <1>7
<1>10. WIDTH * 2 * HEIGHT = HEIGHT * Row
  BY ScreenAssumption DEF Row
<1>11. \A ba : LastByte(l, ba) = ba + (h - 1) * (2 * Row) + w * 2 - 1
  BY <1>5, <1>6 DEF LastByte
<1>12. /\ l.ba0 >= FB /\ LastByte(l, l.ba0) < FB + WIDTH * 2 * HEIGHT
       /\ l.ba1 >= FB /\ LastByte(l, l.ba1) < FB + WIDTH * 2 * HEIGHT
  <2> DEFINE drawn == (2 * h) * Row
             whole == HEIGHT * Row
  <2>1. \A ba : LastByte(l, ba) = ba + (drawn - 2 * Row) + w * 2 - 1
    BY <1>9, <1>11
  <2>2. drawn <= whole /\ drawn \in Nat /\ whole \in Nat /\ WIDTH * 2 * HEIGHT = whole
    BY <1>8, <1>10
  <2> HIDE DEF drawn, whole
  <2> QED
    BY <1>2, <1>5, <1>7, <2>1, <2>2, ScreenAssumption
<1> QED
  BY <1>12 DEF ReadsWithin

ScrollInv == Control /\ GoOrder /\ Registers /\ Rows /\ Settings

LEMMA InitScrollInv == Init => ScrollInv
BY InitControl, InitRegisters, InitRows, InitSettings DEF ScrollInv

LEMMA NextScrollInv == ScrollInv /\ [Next]_vars => ScrollInv'
BY NextControl, NextRegisters, NextRows, NextSettings DEF ScrollInv

(* Both layers show only what is in the memory of the two screens, for      *)
(* every size of the bitmap and of a field: a layer is enabled after its    *)
(* other registers have been stored, and the handler's addresses are those  *)
(* of rows of the first screen, or the row below it.                        *)
THEOREM PictureSound == Spec => []PictureInMemory
<1>1. ScrollInv => PictureInMemory
  <2>1. \A u : Enabled(u) <=> On(live[u])
    BY DEF Enabled, On
  <2> QED
    BY <2>1, GfxReads, TvReads DEF ScrollInv, Settings, PictureInMemory
<1> QED
  BY <1>1, InitScrollInv, NextScrollInv, PTL DEF Spec

-----------------------------------------------------------------------------
(* What is shown follows what is stored, a step behind at most.             *)

Leap == STEP * WIDTH * 2
Near(a, b) == a - b \in {0, Leap, -Leap}

Base == reg["gfx"].ba0
Following ==
    /\ Enabled("gfx") => Near(Base, live["gfx"].ba0)
    /\ Enabled("gfx") /\ "lcd" \notin go /\ handler \notin {"ba1", "go"} => Base = live["gfx"].ba0
    /\ pc > 10 => Near(Base, Picture)
    /\ pc > 10 /\ handler \in {"ba1", "go", "turn"} => Base = Picture

\* what Enabled("gfx") gives, here and after a step
LEMMA WhenEnabled ==
  ASSUME ScrollInv
  PROVE  /\ Enabled("gfx") => pc > 15 /\ live["gfx"].ba0 \in Int
         /\ pc > 10 => Base \in Int
         /\ Picture \in Int /\ Leap \in Int
<1>1. Enabled("gfx") => On(live["gfx"])
  BY DEF Enabled, On
<1>2. \A l : Based(l, "ba0") => l.ba0 \in Int
  BY ScreenAssumption DEF Based, Holds
<1>3. Enabled("gfx") => pc > 15 /\ Based(live["gfx"], "ba0")
  BY <1>1 DEF ScrollInv, Settings, GfxSet
<1>4. pc > 10 => Based(reg["gfx"], "ba0")
  BY DEF ScrollInv, Settings, GfxStored
<1>5. line \in Int
  BY LineIn DEF ScrollInv
<1> QED
  BY <1>2, <1>3, <1>4, <1>5, ScreenAssumption, StepAssumption DEF Base, Picture, Leap

LEMMA InitFollowing == Init => Following
<1> SUFFICES ASSUME Init PROVE Following
  OBVIOUS
<1>1. pc = 1 /\ live["gfx"] = [f \in {} |-> 0]
  BY DEF Init, Units
<1>2. ~Enabled("gfx")
  BY <1>1 DEF Enabled
<1> QED
  BY <1>1, <1>2 DEF Following

LEMMA NextFollowing ==
  ASSUME ScrollInv, ScrollInv', Following, [Next]_vars
  PROVE  Following'
<1> DEFINE shown == live["gfx"].ba0
<1>1. pc \in 1..33 /\ (pc < 31 => handler = "none")
  BY DEF ScrollInv, Control, MainRuns
<1>2. CASE LcdVsync
  <2>1. UNCHANGED <<Base, Picture, pc, handler>> /\ go' = go \ {"lcd"}
    BY <1>2 DEF LcdVsync, Event, Base, Picture, scroll
  <2>2. CASE "lcd" \in go
    <3>1. live'["gfx"] = reg["gfx"]
      BY <1>2, <2>2 DEF LcdVsync, Shown, Units, Output
    <3>2. live'["gfx"].ba0 = Base
      BY <3>1 DEF Base
    <3>3. Enabled("gfx")' => pc > 15
      BY <3>1 DEF Enabled, ScrollInv, Settings, On, GfxStored
    <3>4. Enabled("gfx")' => Near(Base, Base)
      BY <1>1, <3>3, WhenEnabled DEF Near
    <3> QED
      BY <2>1, <3>2, <3>4 DEF Following
  <2>3. CASE "lcd" \notin go
    <3>1. live'["gfx"] = live["gfx"]
      BY <1>2, <2>3 DEF LcdVsync, Shown, Units, Output
    <3> QED
      BY <2>1, <2>3, <3>1 DEF Following, Enabled
  <2> QED
    BY <2>2, <2>3
<1>3. CASE TvVsync
  <2>1. UNCHANGED <<Base, Picture, pc, handler>> /\ go' = go \ {"tv"}
    BY <1>3 DEF TvVsync, irqVars, Base, Picture, scroll
  <2>2. live'["gfx"] = live["gfx"]
    BY <1>3 DEF TvVsync, Shown, Units, Output
  <2> QED
    BY <2>1, <2>2 DEF Following, Enabled
<1>4. CASE StoreBA0
  <2>1. /\ handler = "ba0" /\ handler' = "ba1"
        /\ UNCHANGED <<live, pc, go, Picture>>
    BY <1>4 DEF StoreBA0, HandlerGoes, HandlerStep, Picture, scroll
  <2>2. Base' = Picture
    BY <1>4, <2>1, HandlerSettings DEF StoreBA0, ScrollInv, Holds, Base
  <2>3. pc > 30 /\ "lcd" \notin go
    BY <2>1 DEF ScrollInv, GoOrder, Control, MainRuns
  <2>4. Enabled("gfx") => shown = Base
    BY <2>1, <2>3 DEF Following
  <2>5. Near(Base, Picture)
    BY <1>1, <2>3 DEF Following
  <2>6. Near(Picture, Picture) /\ Near(Picture, Base)
    BY <1>1, <2>3, <2>5, WhenEnabled DEF Near
  <2> QED
    BY <2>1, <2>2, <2>4, <2>6 DEF Following, Enabled
<1>5. CASE StoreBA1
  <2>1. /\ handler = "ba1" /\ handler' = "go"
        /\ UNCHANGED <<live, pc, go, Picture>>
    BY <1>5 DEF StoreBA1, HandlerGoes, HandlerStep, Picture, scroll
  <2>2. pc > 30
    BY <2>1 DEF ScrollInv, Control, MainRuns
  <2>3. Base' = Base
    <3>1. Based(reg["gfx"], "ba0") /\ Stored("gfx", "ba1", Picture)
      BY <1>1, <1>5, <2>2 DEF ScrollInv, Settings, GfxStored, StoreBA1
    <3>2. "ba0" \in DOMAIN reg["gfx"] \ {"ba1"}
      BY <3>1 DEF Based, Holds
    <3> QED
      BY <3>1, <3>2, StoredIs DEF Base, ScrollInv, Registers, Units
  <2> QED
    BY <2>1, <2>2, <2>3 DEF Following, Enabled
<1>6. CASE SetGo
  BY <1>6 DEF SetGo, HandlerGoes, HandlerStep, scroll, Following, Enabled, Base, Picture
<1>7. CASE Scroll
  <2>1. /\ handler = "turn" /\ handler' = "clear" /\ UNCHANGED <<pc, Base, live, go>>
    BY <1>7 DEF Scroll, HandlerGoes, HandlerStep, display, Base
  <2>2. Base = Picture \/ pc <= 10
    BY <1>1, <2>1 DEF Following
  <2>3. dir' \in {-1, 1} /\ line' = line + dir' * STEP /\ line \in Int
    BY <1>7, ScrollMoves, LineIn DEF ScrollInv
  <2>4. Near(Picture, Picture')
    <3>1. CASE dir' = 1
      <4>1. Picture' = Picture + Leap
        BY <2>3, <3>1, ScreenAssumption, StepAssumption DEF Picture, Leap
      <4> QED
        BY <4>1, WhenEnabled DEF Near
    <3>2. CASE dir' = -1
      <4>1. Picture' = Picture - Leap
        BY <2>3, <3>2, ScreenAssumption, StepAssumption DEF Picture, Leap
      <4> QED
        BY <4>1, WhenEnabled DEF Near
    <3> QED
      BY <2>3, <3>1, <3>2
  <2> QED
    BY <1>1, <2>1, <2>2, <2>4 DEF Following, Enabled
<1>8. CASE ReadStatus \/ ClearStatus
  BY <1>8 DEF ReadStatus, ClearStatus, HandlerGoes, HandlerClears, HandlerStep, display, scroll,
              Following, Enabled, Base, Picture
<1>9. CASE EnterHandler
  <2>1. handler' \notin {"ba1", "go", "turn"} /\ handler = "none"
    BY <1>9, <1>1 DEF EnterHandler, ex_irq, ScrollInv, Control, MainRuns
  <2> QED
    BY <1>9, <2>1 DEF EnterHandler, HandlerStep, display, scroll, Following, Enabled, Base, Picture
<1>10. CASE LeaveHandler
  BY <1>10 DEF LeaveHandler, ex_irq_done, HandlerStep, display, scroll,
               Following, Enabled, Base, Picture
<1>11. CASE BootStore
  <2>1. /\ pc' = pc + 1 /\ UNCHANGED <<go, live, Picture>>
        /\ handler = "none" /\ handler' = "none" /\ pc < 31
    BY <1>1, <1>11, BootIs
       DEF BootStore, At, Booting, NextInstruction, MainStep, irqVars, MainRuns, Picture, scroll
  <2>2. At("store") /\ Stored(Boot[pc].unit, Boot[pc].field, Boot[pc].value)
    BY <1>11 DEF BootStore
  <2>3. pc \in {1, 2} \cup 5..7 \cup 10..15 \cup 18..23
    BY <1>1, <2>2, OpAt
  <2>4. CASE Boot[pc].unit # "gfx"
    <3>1. reg'["gfx"] = reg["gfx"]
      <4> DEFINE u == Boot[pc].unit
      <4>1. u \in Units
        BY <1>1, <2>2, StoreAt
      <4> HIDE DEF u
      <4> QED
        BY <2>2, <2>4, <4>1, StoredIs DEF ScrollInv, Registers, Units, u
    <3>2. pc # 10
      BY <2>4, BootIs DEF Stores
    <3> QED
      BY <2>1, <2>3, <3>1, <3>2 DEF Following, Enabled, Base
  <2>5. CASE Boot[pc].unit = "gfx"
    <3>1. pc = 2 \/ pc \in 10..15
      BY <1>1, <2>2, <2>5, StoreAt
    <3>2. ~Enabled("gfx") /\ ~Enabled("gfx")'
      BY <2>1, <3>1, WhenEnabled DEF Enabled
    <3>3. CASE pc = 2
      BY <2>1, <3>2, <3>3 DEF Following
    <3>4. CASE pc = 10
      <4>1. Stored("gfx", "ba0", FB)
        BY <2>2, <3>4, BootIs, GfxIs DEF Stores
      <4>2. Base' = FB
        BY <4>1, StoredIs DEF ScrollInv, Registers, Units, Base
      <4>3. Picture' = FB
        BY <2>1, ScreenAssumption DEF ScrollInv, Rows, Picture
      <4>4. Near(FB, FB)
        BY ScreenAssumption DEF Near
      <4> QED
        BY <2>1, <3>2, <3>4, <4>2, <4>3, <4>4 DEF Following
    <3>5. CASE pc \in 11..15
      <4>1. Boot[pc].field # "ba0"
        BY <3>5, BootIs DEF Stores, Switches
      <4>2. Base' = Base
        <5> DEFINE f == Boot[pc].field
                   v == Boot[pc].value
        <5>1. f # "ba0" /\ Stored("gfx", f, v)
          BY <2>2, <2>5, <4>1
        <5> HIDE DEF f, v
        <5>2. "ba0" \in DOMAIN reg["gfx"]
          BY <3>5 DEF ScrollInv, Settings, GfxStored, Based, Holds
        <5> QED
          BY <5>1, <5>2, StoredIs DEF ScrollInv, Registers, Units, Base
      <4> QED
        BY <2>1, <3>2, <3>5, <4>2 DEF Following
    <3> QED
      BY <3>1, <3>3, <3>4, <3>5
  <2> QED
    BY <2>4, <2>5
<1>12. CASE BootGo \/ BootWait \/ BootIrq
  <2>1. Booting
    BY <1>12 DEF BootGo, BootWait, BootIrq, At
  <2>2. pc # 10
    BY BootIs, <1>12 DEF BootGo, BootWait, BootIrq, At, Stores
  <2>3. pc' = pc + 1 /\ UNCHANGED <<reg, live, line>> /\ pc < 31
    <3>1. pc < 31
      BY <1>1, <2>1, BootIs DEF Booting
    <3> QED
      BY <1>12, <3>1 DEF BootGo, BootWait, BootIrq, NextInstruction, MainStep, scroll
  <2>4. handler = "none" /\ handler' = "none"
    BY <1>1, <1>12, <2>3
       DEF BootGo, BootWait, BootIrq, irqVars, irq_set_handler, irq_set_mask, MainClears,
           irq_enable, cpsie
  <2>5. "lcd" \notin go' => "lcd" \notin go
    BY <1>12 DEF BootGo, BootWait, BootIrq
  <2> QED
    BY <1>1, <2>2, <2>3, <2>4, <2>5 DEF Following, Enabled, Base, Picture
<1>13. CASE TestHidden \/ ClearHidden \/ DrawBox
  <2>1. pc \in 31..33 /\ pc' \in 31..33
    BY <1>13, BootIs DEF TestHidden, ClearHidden, DrawBox, Loop
  <2>2. UNCHANGED <<reg, live, go, handler, line>>
    BY <1>13 DEF TestHidden, ClearHidden, DrawBox, Loop, display, irqVars
  <2> QED
    BY <2>1, <2>2 DEF Following, Enabled, Base, Picture
<1>14. CASE UNCHANGED vars
  BY <1>14 DEF vars, display, irqVars, scroll, Following, Enabled, Base, Picture
<1> QED
  BY <1>2, <1>3, <1>4, <1>5, <1>6, <1>7, <1>8, <1>9, <1>10, <1>11, <1>12, <1>13, <1>14
     DEF Next, Handler, dispc_handler, Main

(* The picture never jumps: what is shown changes with a frame only, to     *)
(* what is stored, and that is never more than one step away, however many  *)
(* events are lost and handler calls repeated.                              *)
THEOREM SmoothSound == Spec => Smooth
<1> DEFINE Near1 == Enabled("gfx") /\ Enabled("gfx")' =>
                      LET moved == live'["gfx"].ba0 - live["gfx"].ba0
                      IN moved \in {0, STEP * WIDTH * 2, -STEP * WIDTH * 2}
<1>1. ScrollInv /\ Following /\ [Next]_vars => Near1
  <2> SUFFICES ASSUME ScrollInv, Following, [Next]_vars, Enabled("gfx")
               PROVE  live'["gfx"].ba0 - live["gfx"].ba0 \in {0, STEP * WIDTH * 2, -STEP * WIDTH * 2}
    OBVIOUS
  <2>1. live["gfx"].ba0 \in Int /\ Near(Base, live["gfx"].ba0)
    BY WhenEnabled DEF Following
  <2>2. live'["gfx"] = live["gfx"] \/ live'["gfx"] = reg["gfx"]
    <3>1. LcdVsync \/ TvVsync \/ live' = live
      BY DEF Next, Handler, dispc_handler, Main, EnterHandler, LeaveHandler, ReadStatus, StoreBA0,
             StoreBA1, SetGo, Scroll, ClearStatus, HandlerStep, BootStore, BootGo, BootWait, BootIrq,
             NextInstruction, MainStep, TestHidden, ClearHidden, DrawBox, Loop, display, vars
    <3> QED
      BY <3>1 DEF LcdVsync, TvVsync, Shown, Units
  <2>3. live'["gfx"].ba0 - live["gfx"].ba0 \in {0, Leap, -Leap}
    BY <2>1, <2>2 DEF Near, Base
  <2>4. -Leap = -STEP * WIDTH * 2
    BY ScreenAssumption, StepAssumption DEF Leap
  <2> QED
    BY <2>3, <2>4 DEF Leap
<1>2. ScrollInv /\ Following /\ [Next]_vars => [Near1]_vars
  BY <1>1
<1>3. ScrollInv /\ Following /\ [Next]_vars => ScrollInv' /\ Following'
  BY NextScrollInv, NextFollowing
<1> HIDE DEF Near1
<1>4. Spec => [][Near1]_vars
  BY <1>2, <1>3, InitScrollInv, InitFollowing, PTL DEF Spec
<1> QED
  BY <1>4 DEF Smooth, Near1
=============================================================================
