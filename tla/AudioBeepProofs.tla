--------------------------- MODULE AudioBeepProofs ---------------------------
(***************************************************************************)
(* The two properties of audio-beep's polling, for fifos of every size.     *)
(* ChannelsKept looks at the next word only; that it stays true when that   *)
(* word has been sent needs the whole fifo to alternate and to end with the *)
(* word before the one main sends next.                                     *)
(*                                                                          *)
(* The i2c bus under it, for any calls and any number of spoiled transfers. *)
(* CallsDoTheirWork looks at the chip between two calls; that it holds      *)
(* again after the next one needs to know, for each byte on its way, which  *)
(* it is (Sent, Got), and that neither a status bit nor a byte is left over *)
(* from a transfer that was given up (UnderWay, Over, Spoiled).             *)
(***************************************************************************)
EXTENDS AudioBeep, TLAPS

Sides == {"left", "right"}
\* the channel of the word that main stores next
Coming == IF pc \in {"right", "tune_right"} THEN "right" ELSE "left"

Alternates == \A k \in 1..(Len(fifo) - 1) : fifo[k + 1] = Other(fifo[k])

TxInv == /\ fifo \in Seq(Sides) /\ slot \in Sides /\ odd \in BOOLEAN
         /\ xrst => /\ Alternates
                    /\ fifo # <<>> => Other(fifo[Len(fifo)]) = Coming
                    /\ NextWord = slot <=> ~odd
         /\ ~xrst => fifo = <<>>

RxInv == rxwords \in Nat /\ (pc = "rx_second" => rxwords > 1)

\* the actions that leave the fifos alone, and main where it is or at a word
\* of the same channel
Quiet == UNCHANGED <<xrst, fifo, slot, odd>> /\ Coming' = Coming

LEMMA QuietKeeps == ASSUME TxInv, Quiet PROVE TxInv'
BY DEF TxInv, Quiet, Alternates, NextWord, Coming

LEMMA SidesAlternate ==
  /\ \A s \in Sides : Other(s) \in Sides /\ Other(s) # s /\ Other(Other(s)) = s
  /\ \A s, t \in Sides : s # t => s = Other(t)
  /\ Coming \in Sides
BY DEF Sides, Other, Coming

LEMMA NextWordIsSide == ASSUME TxInv PROVE NextWord \in Sides
BY DEF TxInv, NextWord, Sides

(* A slot takes the next word, or repeats one when there is none.           *)
LEMMA SlotKeeps ==
  ASSUME TxInv, Slot
  PROVE  TxInv'
<1>1. Coming' = Coming
  BY DEF Slot, Coming
<1>2. CASE ~xrst
  BY <1>1, <1>2, QuietKeeps DEF Quiet, Slot
<1>3. CASE xrst /\ fifo = <<>>
  <2>1. fifo' = <<>> /\ slot' = Other(slot) /\ xrst' = xrst /\ (odd' <=> ~odd) /\ odd' \in BOOLEAN
    BY <1>3 DEF Slot, TxInv
  <2>2. NextWord = Coming /\ NextWord' = Coming
    BY <1>1, <1>3, <2>1 DEF NextWord, Coming
  <2>3. Coming = slot <=> ~odd
    BY <1>3, <2>2 DEF TxInv
  <2>4. Coming = slot' <=> ~odd'
    <3>1. slot \in Sides /\ Coming \in Sides
      BY SidesAlternate DEF TxInv
    <3>2. Coming = Other(slot) <=> ~(Coming = slot)
      BY <3>1, SidesAlternate
    <3> QED
      BY <2>1, <2>3, <3>2
  <2>5. slot' \in Sides
    BY <2>1, SidesAlternate DEF TxInv
  <2>6. Len(fifo') - 1 < 1
    BY <2>1
  <2>7. fifo' \in Seq(Sides)
    BY <2>1
  <2>8. Alternates'
    BY <2>6, <2>7 DEF Alternates
  <2> QED
    BY <1>3, <2>1, <2>2, <2>4, <2>5, <2>7, <2>8 DEF TxInv
<1>4. CASE xrst /\ fifo # <<>>
  <2>1. fifo' = Tail(fifo) /\ slot' = Other(slot) /\ xrst' = xrst /\ (odd' <=> odd) /\ odd' \in BOOLEAN
    BY <1>4 DEF Slot, TxInv
  <2>2. /\ fifo \in Seq(Sides) /\ Len(fifo) \in Nat \ {0}
        /\ fifo' \in Seq(Sides) /\ Len(fifo') = Len(fifo) - 1
        /\ \A k \in 1..(Len(fifo) - 1) : fifo'[k] = fifo[k + 1]
        /\ NextWord = fifo[1] /\ fifo[1] \in Sides
    BY <1>4, <2>1 DEF TxInv, NextWord
  <2>3. Alternates'
    <3> SUFFICES ASSUME NEW k \in 1..(Len(fifo') - 1)
                 PROVE  fifo'[k + 1] = Other(fifo'[k])
      BY DEF Alternates
    <3>1. k + 1 \in 1..(Len(fifo) - 1) /\ k \in 1..(Len(fifo) - 1)
      BY <2>2
    <3>2. fifo'[k + 1] = fifo[k + 1 + 1] /\ fifo'[k] = fifo[k + 1]
      BY <2>2, <3>1
    <3> QED
      BY <1>4, <3>1, <3>2 DEF TxInv, Alternates
  <2>4. (fifo' # <<>> => Other(fifo'[Len(fifo')]) = Coming) /\ NextWord' = Other(NextWord)
    <3>1. CASE Len(fifo) = 1
      <4>1. fifo' = <<>>
        BY <2>2, <3>1
      <4> QED
        BY <1>1, <1>4, <2>2, <3>1, <4>1 DEF TxInv, NextWord, Coming
    <3>2. CASE Len(fifo) > 1
      <4>1. fifo' # <<>> /\ Len(fifo') \in 1..(Len(fifo) - 1) /\ 1 \in 1..(Len(fifo) - 1)
        BY <2>2, <3>2
      <4>2. fifo'[Len(fifo')] = fifo[Len(fifo)] /\ fifo'[1] = fifo[1 + 1]
        BY <2>2, <4>1
      <4>3. NextWord' = fifo'[1]
        BY <2>2, <4>1 DEF NextWord
      <4>4. fifo[1 + 1] = Other(fifo[1])
        BY <1>4, <4>1 DEF TxInv, Alternates
      <4> QED
        BY <1>4, <2>2, <4>2, <4>3, <4>4 DEF TxInv
    <3> QED
      BY <2>2, <3>1, <3>2
  <2>5. NextWord' = slot' <=> ~odd'
    <3>1. slot \in Sides /\ NextWord \in Sides /\ (NextWord = slot <=> ~odd)
      BY <1>4, <2>2 DEF TxInv
    <3>2. Other(NextWord) = Other(slot) <=> NextWord = slot
      BY <3>1, SidesAlternate
    <3> QED
      BY <2>1, <2>4, <3>1, <3>2
  <2>6. slot' \in Sides
    BY <2>1, SidesAlternate DEF TxInv
  <2> QED
    BY <1>1, <1>4, <2>1, <2>2, <2>3, <2>4, <2>5, <2>6 DEF TxInv
<1> QED
  BY <1>2, <1>3, <1>4

(* A word is stored for the channel that comes next, if there is room.      *)
LEMMA SendKeeps ==
  ASSUME TxInv, NEW here, NEW side \in Sides, NEW to, Send(here, side, to),
         Coming = side, Coming' = Other(side)
  PROVE  TxInv'
<1>1. /\ xrst /\ xrst' = xrst /\ slot' = slot /\ odd' = odd /\ fifo' = Append(fifo, side)
  BY DEF Send, HasRoom, XRDY
<1>2. /\ fifo \in Seq(Sides) /\ fifo' \in Seq(Sides) /\ Len(fifo') = Len(fifo) + 1
      /\ Len(fifo) \in Nat /\ fifo' # <<>>
      /\ \A k \in 1..Len(fifo) : fifo'[k] = fifo[k]
      /\ fifo'[Len(fifo) + 1] = side
  BY <1>1 DEF TxInv
<1>3. Alternates'
  <2> SUFFICES ASSUME NEW k \in 1..(Len(fifo') - 1)
               PROVE  fifo'[k + 1] = Other(fifo'[k])
    BY DEF Alternates
  <2>1. k \in 1..Len(fifo) /\ fifo # <<>>
    BY <1>2
  <2>2. CASE k = Len(fifo)
    BY <1>1, <1>2, <2>1, <2>2 DEF TxInv
  <2>3. CASE k # Len(fifo)
    <3>1. k \in 1..(Len(fifo) - 1) /\ k + 1 \in 1..Len(fifo)
      BY <1>2, <2>1, <2>3
    <3> QED
      BY <1>1, <1>2, <2>1, <3>1 DEF TxInv, Alternates
  <2> QED
    BY <2>2, <2>3
<1>4. NextWord' = NextWord
  <2>1. CASE fifo = <<>>
    <3>1. fifo'[1] = side
      BY <1>2, <2>1
    <3> QED
      BY <1>2, <2>1, <3>1 DEF NextWord, Coming
  <2>2. CASE fifo # <<>>
    <3>1. 1 \in 1..Len(fifo)
      BY <1>2, <2>2
    <3>2. fifo'[1] = fifo[1]
      BY <1>2, <3>1
    <3> QED
      BY <1>2, <2>2, <3>2 DEF NextWord
  <2> QED
    BY <2>1, <2>2
<1>5. Other(fifo'[Len(fifo')]) = Coming'
  BY <1>2
<1> QED
  BY <1>1, <1>2, <1>3, <1>4, <1>5 DEF TxInv

-----------------------------------------------------------------------------
LEMMA TxInvInit == Init => TxInv
<1> SUFFICES ASSUME Init PROVE TxInv
  OBVIOUS
<1>1. fifo = <<>> /\ slot = "left" /\ ~odd /\ odd \in BOOLEAN /\ ~xrst
  BY DEF Init
<1>2. fifo \in Seq(Sides)
  BY <1>1
<1> QED
  BY <1>1, <1>2 DEF TxInv, Sides

LEMMA TxInvNext == TxInv /\ [Next]_vars => TxInv'
<1> SUFFICES ASSUME TxInv, [Next]_vars
             PROVE  TxInv'
  OBVIOUS
<1>1. CASE setup_mcbsp2
  <2>1. /\ xrst' /\ fifo' = <<>> /\ slot' = "left" /\ odd' = FALSE /\ pc' = "audio"
    BY <1>1 DEF setup_mcbsp2
  <2>2. NextWord' = "left" /\ fifo' \in Seq(Sides) /\ Len(fifo') = 0
    BY <2>1 DEF NextWord
  <2>3. Alternates'
    BY <2>2 DEF Alternates
  <2> QED
    BY <2>1, <2>2, <2>3 DEF TxInv, Sides
<1>2. CASE Calling \/ SetUp \/ ReadFirst \/ ReadSecond \/ ReadAll
  BY <1>2, QuietKeeps DEF Quiet, Coming, port, Calling, SetUp, ReadFirst, ReadSecond, ReadAll
<1>3. CASE BusWorks \/ BusSpoils \/ Pause \/ Resume
  BY <1>3, QuietKeeps DEF Quiet, Coming, port, BusWorks, BusSpoils, Pause, Resume
<1>4. CASE playnote
  <2>1. CASE Send("tune_left", "left", "tune_right")
    BY <2>1, SendKeeps DEF Send, Coming, Sides, Other
  <2>2. CASE Send("tune_right", "right", IF played + 1 = Tune THEN "rx" ELSE "tune_left")
    <3>1. pc = "tune_right" /\ pc' \in {"rx", "tune_left"}
      BY <2>2 DEF Send
    <3>2. Coming = "right" /\ Coming' = "left"
      BY <3>1 DEF Coming
    <3> QED
      BY <2>2, <3>2, SendKeeps DEF Sides, Other
  <2> QED
    BY <1>4, <2>1, <2>2 DEF playnote
<1>5. CASE SendLeft
  BY <1>5, SendKeeps DEF SendLeft, Send, Coming, Sides, Other
<1>6. CASE SendRight
  BY <1>6, SendKeeps DEF SendRight, Send, Coming, Sides, Other
<1>7. CASE TxTimeout
  <2>1. /\ ~xrst' /\ fifo' = <<>> /\ UNCHANGED <<slot, odd>>
    BY <1>7 DEF TxTimeout
  <2> QED
    BY <2>1 DEF TxInv
<1>8. CASE TxRestart
  <2>1. /\ xrst' /\ fifo = <<>> /\ fifo' = <<>> /\ slot' = "left" /\ pc \in {"left", "right"}
        /\ pc' = pc /\ (odd' <=> pc = "right") /\ odd' \in BOOLEAN
    BY <1>8 DEF TxRestart, OutOfReset, TxInv
  <2>2. NextWord' = pc /\ fifo' \in Seq(Sides) /\ Len(fifo') = 0
    BY <2>1 DEF NextWord
  <2>3. Alternates'
    BY <2>2 DEF Alternates
  <2> QED
    BY <2>1, <2>2, <2>3 DEF TxInv, Sides
<1>9. CASE Slot
  BY <1>9, SlotKeeps
<1>10. CASE UNCHANGED vars
  BY <1>10, QuietKeeps DEF Quiet, Coming, vars, port
<1> QED
  BY <1>1, <1>2, <1>3, <1>4, <1>5, <1>6, <1>7, <1>8, <1>9, <1>10 DEF Next, Main

(* Left and right words go into left and right slots, but for the slots and *)
(* words that were lost.                                                    *)
THEOREM ChannelsSound == Spec => []ChannelsKept
<1>1. TxInv => ChannelsKept
  BY DEF TxInv, ChannelsKept
<1> QED
  BY <1>1, TxInvInit, TxInvNext, PTL DEF Spec

-----------------------------------------------------------------------------
LEMMA LeastOfTwo ==
  ASSUME NEW a \in Nat, NEW b \in Nat
  PROVE  Min({a, b}) \in {a, b}
<1>1. \E x \in {a, b} : \A y \in {a, b} : x <= y
  <2>1. CASE a <= b
    BY <2>1
  <2>2. CASE b <= a
    BY <2>2
  <2> QED
    BY <2>1, <2>2
<1> QED
  BY <1>1 DEF Min

LEMMA RxInvNext == RxInv /\ [Next]_vars => RxInv'
<1> SUFFICES ASSUME RxInv, [Next]_vars
             PROVE  RxInv'
  OBVIOUS
<1>1. CASE setup_mcbsp2
  BY <1>1 DEF setup_mcbsp2, RxInv
<1>2. CASE Calling \/ SetUp \/ ReadAll \/ TxTimeout \/ TxRestart
  BY <1>2 DEF RxInv, port, Calling, SetUp, ReadAll, TxTimeout, TxRestart
<1>3. CASE BusWorks \/ BusSpoils \/ Pause \/ Resume
  BY <1>3 DEF RxInv, port, BusWorks, BusSpoils, Pause, Resume
<1>4. CASE playnote \/ SendLeft \/ SendRight
  BY <1>4 DEF RxInv, playnote, SendLeft, SendRight, Send
<1>5. CASE ReadFirst
  BY <1>5 DEF RxInv, ReadFirst, RRDY
<1>6. CASE ReadSecond
  BY <1>6 DEF RxInv, ReadSecond
<1>7. CASE Slot
  <2>1. rxwords' \in {rxwords + 1, RxFifo} /\ RxFifo \in Nat /\ RxFifo > 2 /\ pc' = pc
    BY <1>7, LeastOfTwo, PortAssumption DEF Slot, RxInv
  <2> QED
    BY <2>1 DEF RxInv
<1>8. CASE UNCHANGED vars
  BY <1>8 DEF RxInv, vars, port
<1> QED
  BY <1>1, <1>2, <1>3, <1>4, <1>5, <1>6, <1>7, <1>8 DEF Next, Main

(* The receive fifo is never read when it is empty.                         *)
THEOREM ReceiverSound == Spec => []ReadsReceived
<1>1. Init => RxInv
  BY DEF Init, RxInv
<1>2. RxInv => ReadsReceived
  BY DEF RxInv, ReadsReceived
<1> QED
  BY <1>1, <1>2, RxInvNext, PTL DEF Spec

-----------------------------------------------------------------------------
(* The i2c bus.                                                             *)

Effect(n) == [r \in Registers |-> AfterCalls(r, n)]

\* what has gone from the driver to the chip is the first part of the message,
\* and the chip has obeyed it when it is whole
Sent == /\ wire \in Seq(Nat) /\ tx \in Seq(Nat)
        /\ Len(wire) + Len(tx) = i /\ cnt = Len(Message) - Len(wire)
        /\ \A k \in 1..Len(wire) : wire[k] = Message[k]
        /\ \A k \in 1..Len(tx) : tx[k] = Message[Len(wire) + k]
        /\ rx = <<>> /\ "RRDY" \notin stat
        /\ "XRDY" \in stat => i < Len(Message)
        /\ wire # <<>> => pointer = Call.addr
        /\ file = IF Len(wire) = 2 THEN Effect(done + 1) ELSE Effect(done)

\* what has come from the chip is registers, from the one asked for on
Got == /\ buffer \in Seq(Nat) /\ rx \in Seq(Nat) /\ cnt \in Nat
       /\ Len(buffer) = i /\ i + Len(rx) = Call.count - cnt
       /\ \A k \in 1..i : buffer[k] = file[Call.addr + k - 1]
       /\ \A k \in 1..Len(rx) : rx[k] = file[Call.addr + i + k - 1]
       /\ "XRDY" \notin stat
       /\ "RRDY" \in stat => rx # <<>>
       /\ cnt > 0 => pointer = Call.addr + Call.count - cnt
       /\ file = Effect(done)

Moves == IF Con = "read" THEN Got ELSE Sent
Whole == stat \cap Refused = {}

Between == ~active /\ file = Effect(done)

ReadBack == done > 0 /\ Script[done].op = "read" =>
               buffer = [k \in 1..Script[done].count |-> file[Script[done].addr + k - 1]]

\* one transfer: under way, over, or spoiled and to be started again
UnderWay == active /\ Whole /\ Moves /\ ("ARDY" \in stat => i = 0)
Over == ~active /\ stat = {"ARDY"} /\ i = count /\ cnt = 0 /\ rx = <<>> /\ Moves
Spoiled == /\ Between /\ ~Whole /\ ~(Refused \subseteq stat)
           /\ stat \subseteq Refused \cup {"ARDY"}

Working ==
    /\ drv = "none" => Between /\ stat = {} /\ ReadBack
    /\ drv = "waitidle" => Between /\ stat = {} /\ part = 1
    /\ drv = "redoreg" => /\ Between /\ stat \subseteq {"ARDY"}
                          /\ Con = "read" => pointer = Call.addr
    /\ drv \in {"loop", "ardy"} => /\ con = Con /\ i \in 0..count /\ (drv = "ardy" => i = count)
                                   /\ UnderWay \/ Over \/ Spoiled

BusTypes == /\ done \in 0..Len(Script) /\ file \in [Registers -> Nat]
            /\ drv \in {"none", "waitidle", "redoreg", "loop", "ardy"}
            /\ stat \subseteq Refused \cup {"ARDY", "XRDY", "RRDY"}
            /\ drv # "none" => done < Len(Script) /\ part \in DOMAIN Parts

BusSound == BusTypes /\ Working
BusInv == trouble \in BOOLEAN /\ (~trouble => BusSound)

\* the three transfers there are
LEMMA Kinds ==
  ASSUME BusTypes, drv # "none"
  PROVE  /\ Call \in Calls /\ Call.addr \in Registers /\ Registers \subseteq Nat
         /\ \/ /\ Call.op = "write8" /\ part = 1 /\ Con = "write" /\ count = 2 /\ Len(Parts) = part
               /\ Len(Message) = 2 /\ Len(Message) = count
               /\ Message[1] = Call.addr /\ Message[2] = Call.v /\ Call.v \in Nat
            \/ /\ Call.op = "read" /\ part = 1 /\ Con = "addr" /\ count = 1 /\ Len(Parts) = 2
               /\ Len(Message) = 1 /\ Len(Message) = count /\ Message[1] = Call.addr
               /\ Call.count \in Nat \ {0}
            \/ /\ Call.op = "read" /\ part = 2 /\ Con = "read" /\ Len(Parts) = part
               /\ count = Call.count /\ Call.count \in Nat \ {0}
               /\ Call.addr..(Call.addr + Call.count - 1) \subseteq Registers
<1>1. done + 1 \in DOMAIN Script /\ part \in DOMAIN Parts
  BY ScriptAssumption DEF BusTypes
<1>2. Call \in Calls
  BY <1>1, ScriptAssumption DEF Call
<1>3. CASE Call.op = "write8"
  <2>1. Call.addr \in Registers /\ Call.v \in Nat
    BY <1>2, <1>3 DEF Calls
  <2>2. Parts = <<"write">> /\ part = 1
    BY <1>1, <1>3 DEF Parts
  <2>3. Con = "write"
    BY <2>2 DEF Con
  <2>4. Message = <<Call.addr, Call.v>>
    BY <2>3 DEF Message
  <2> QED
    BY <1>2, <1>3, <2>1, <2>2, <2>3, <2>4, RegistersAssumption DEF count
<1>4. CASE Call.op = "read"
  <2>1. Call.addr \in Registers /\ Call.count \in Nat \ {0}
    BY <1>2, <1>4 DEF Calls
  <2>2. Parts = <<"addr", "read">> /\ part \in {1, 2}
    BY <1>1, <1>4 DEF Parts
  <2>3. Call.addr..(Call.addr + Call.count - 1) \subseteq Registers
    BY <1>1, <1>4, ReadsAssumption DEF Call
  <2>4. CASE part = 1
    <3>1. Con = "addr"
      BY <2>2, <2>4 DEF Con
    <3>2. Message = <<Call.addr>>
      BY <3>1 DEF Message
    <3> QED
      BY <1>2, <1>4, <2>1, <2>2, <2>4, <3>1, <3>2, RegistersAssumption DEF count
  <2>5. CASE part = 2
    <3>1. Con = "read"
      BY <2>2, <2>5 DEF Con
    <3> QED
      BY <1>2, <1>4, <2>1, <2>2, <2>3, <2>5, <3>1, RegistersAssumption DEF count
  <2> QED
    BY <2>2, <2>4, <2>5
<1>5. Call.op \in {"write8", "read"}
  BY <1>2 DEF Calls
<1> QED
  BY <1>3, <1>4, <1>5

LEMMA SameCall ==
  ASSUME UNCHANGED <<done, part>>
  PROVE  /\ Call' = Call /\ Parts' = Parts /\ Con' = Con /\ Message' = Message /\ count' = count
BY DEF Call, Parts, Con, Message, count

-----------------------------------------------------------------------------
(* What one more call does to the registers.                                *)

LEMMA NothingWritten == Effect(0) = Before
<1>1. \A r \in Registers : AfterCalls(r, 0) = Before[r]
  BY DEF AfterCalls
<1> QED
  BY <1>1, RegistersAssumption DEF Effect

LEMMA OneMoreCall ==
  ASSUME NEW n \in Nat, n < Len(Script), NEW r \in Registers
  PROVE  AfterCalls(r, n + 1) = IF Script[n + 1].op = "write8" /\ Script[n + 1].addr = r
                                THEN Script[n + 1].v ELSE AfterCalls(r, n)
<1> DEFINE W(m) == {k \in 1..m : Script[k].op = "write8" /\ Script[k].addr = r}
<1>1. \A m : AfterCalls(r, m) = IF W(m) = {} THEN Before[r] ELSE Script[Max(W(m))].v
  BY DEF AfterCalls
<1>2. CASE Script[n + 1].op = "write8" /\ Script[n + 1].addr = r
  <2>1. n + 1 \in W(n + 1) /\ \A k \in W(n + 1) : k \in Int /\ k <= n + 1
    BY <1>2
  <2> HIDE DEF W
  <2>2. Max(W(n + 1)) = n + 1
    BY <2>1 DEF Max
  <2> QED
    BY <1>1, <1>2, <2>1, <2>2
<1>3. CASE ~(Script[n + 1].op = "write8" /\ Script[n + 1].addr = r)
  <2>1. W(n + 1) = W(n)
    BY <1>3
  <2> HIDE DEF W
  <2> QED
    BY <1>1, <1>3, <2>1
<1> QED
  BY <1>2, <1>3

LEMMA ReadsChangeNothing ==
  ASSUME BusTypes, done < Len(Script), Call.op = "read"
  PROVE  Effect(done + 1) = Effect(done)
<1>1. \A r \in Registers : AfterCalls(r, done + 1) = AfterCalls(r, done)
  BY OneMoreCall DEF BusTypes, Call
<1> QED
  BY <1>1 DEF Effect

LEMMA WriteChangesOne ==
  ASSUME BusTypes, done < Len(Script), Call.op = "write8", Call.addr \in Registers
  PROVE  Effect(done + 1) = [Effect(done) EXCEPT ![Call.addr] = Call.v]
<1>1. \A r \in Registers : AfterCalls(r, done + 1) = IF r = Call.addr THEN Call.v
                                                     ELSE AfterCalls(r, done)
  BY OneMoreCall DEF BusTypes, Call
<1> QED
  BY <1>1 DEF Effect

-----------------------------------------------------------------------------
(* The controller and the chip.                                             *)

\* the first of the bytes in t is moved to the end of s
LEMMA Passed ==
  ASSUME NEW s \in Seq(Nat), NEW t \in Seq(Nat), t # <<>>
  PROVE  LET a == Append(s, Head(t))
         IN /\ Len(s) \in Nat /\ Len(t) \in Nat \ {0} /\ t[1] \in Nat
            /\ a \in Seq(Nat) /\ Len(a) = Len(s) + 1
            /\ a[Len(s) + 1] = t[1] /\ \A k \in 1..Len(s) : a[k] = s[k]
            /\ Tail(t) \in Seq(Nat) /\ Len(Tail(t)) = Len(t) - 1
            /\ \A k \in 1..(Len(t) - 1) : Tail(t)[k] = t[k + 1]
<1>1. Len(t) \in Nat \ {0} /\ Head(t) = t[1] /\ t[1] \in Nat
  OBVIOUS
<1>2. /\ Tail(t) \in Seq(Nat) /\ Len(Tail(t)) = Len(t) - 1
      /\ \A k \in 1..(Len(t) - 1) : Tail(t)[k] = t[k + 1]
  OBVIOUS
<1> QED
  BY <1>1, <1>2

LEMMA AllSent ==
  ASSUME Sent, cnt = 0, NEW m \in Nat, m = Len(Message)
  PROVE  Len(wire) = m
<1>1. Len(wire) \in Nat /\ cnt = m - Len(wire)
  BY DEF Sent
<1> QED
  BY <1>1

LEMMA ActiveMeans ==
  ASSUME BusSound, active
  PROVE  /\ drv \in {"loop", "ardy"} /\ con = Con /\ UnderWay
         /\ i \in 0..count /\ (drv = "ardy" => i = count)
BY DEF BusSound, BusTypes, Working, Between, Over, Spoiled

\* it is enough that the transfer goes on, or is over
LEMMA GoesOn ==
  ASSUME BusSound, active, UNCHANGED <<done, driver, con>>,
         stat' \subseteq Refused \cup {"ARDY", "XRDY", "RRDY"}, file' \in [Registers -> Nat],
         UnderWay' \/ Over' \/ Spoiled'
  PROVE  BusSound'
<1>1. BusTypes'
  BY SameCall DEF driver, BusSound, BusTypes
<1>2. drv' \in {"loop", "ardy"} /\ con' = Con' /\ i' \in 0..count' /\ (drv' = "ardy" => i' = count')
  BY ActiveMeans, SameCall DEF driver
<1> QED
  BY <1>1, <1>2 DEF BusSound, Working

LEMMA AskByteSound == ASSUME BusSound, AskByte PROVE BusSound'
<1>1. active /\ UNCHANGED <<done, driver, transfer, chip>> /\ stat' = stat \cup {"XRDY"}
      /\ Transmits /\ cnt > Len(tx)
  BY DEF AskByte, ControllerGoes
<1>2. UnderWay /\ Con # "read" /\ drv # "none"
  BY <1>1, ActiveMeans DEF Transmits
<1>3. Sent
  BY <1>2 DEF UnderWay, Moves
<1>4. i < Len(Message)
  <2>1. Len(wire) \in Nat /\ Len(tx) \in Nat /\ Len(Message) \in Nat
    BY <1>2, <1>3, Kinds DEF Sent, BusSound
  <2> QED
    BY <1>1, <1>3, <2>1 DEF Sent
<1>5. Sent'
  BY <1>1, <1>3, <1>4, SameCall DEF Sent, driver, transfer, chip
<1>6. UnderWay'
  BY <1>1, <1>2, <1>5, SameCall DEF UnderWay, Whole, Moves, Refused, driver, transfer
<1> QED
  BY <1>1, <1>6, GoesOn DEF BusSound, BusTypes, driver, transfer, chip

LEMMA AcknowledgedSound ==
  ASSUME BusSound, Acknowledged
  PROVE  /\ BusSound' /\ done \in Nat /\ done < Len(Script)
         /\ file = Effect(done) /\ file' \in {Effect(done), Effect(done + 1)}
<1>1. /\ active /\ UNCHANGED <<done, driver, con, active, rx, stat>>
      /\ Transmits /\ cnt > 0 /\ tx # <<>>
      /\ wire' = Append(wire, Head(tx)) /\ tx' = Tail(tx) /\ cnt' = cnt - 1
      /\ pointer' = wire'[1]
      /\ file' = IF Len(wire') = 2 /\ wire'[1] \in Registers
                 THEN [file EXCEPT ![wire'[1]] = wire'[2]] ELSE file
  BY DEF Acknowledged, ControllerGoes
<1>2. UnderWay /\ Con # "read" /\ drv # "none" /\ i \in 0..count
  BY <1>1, ActiveMeans DEF Transmits
<1>3. Sent /\ BusTypes
  BY <1>2 DEF UnderWay, Moves, BusSound
<1>4. /\ wire \in Seq(Nat) /\ Len(wire) \in Nat
      /\ tx \in Seq(Nat) /\ Len(tx) \in Nat \ {0} /\ tx[1] \in Nat
      /\ wire' \in Seq(Nat) /\ tx' \in Seq(Nat)
      /\ Len(wire') = Len(wire) + 1 /\ Len(tx') = Len(tx) - 1
      /\ \A k \in 1..Len(wire) : wire'[k] = wire[k]
      /\ wire'[Len(wire) + 1] = tx[1]
      /\ \A k \in 1..(Len(tx) - 1) : tx'[k] = tx[k + 1]
  <2>1. wire \in Seq(Nat) /\ tx \in Seq(Nat)
    BY <1>3 DEF Sent
  <2> QED
    BY <1>1, <2>1, Passed
<1>5. /\ Len(wire) \in Nat /\ Len(tx) \in Nat /\ Len(wire) + Len(tx) = i
      /\ Len(Message) = count /\ count \in {1, 2}
      /\ Message[1] = Call.addr /\ Call.addr \in Registers
      /\ Len(Message) = 2 => Call.op = "write8" /\ Message[2] = Call.v /\ Call.v \in Nat
      /\ Len(Message) = 1 => Call.op = "read"
  <2>1. Len(wire) \in Nat /\ Len(tx) \in Nat /\ Len(wire) + Len(tx) = i
    BY <1>3, <1>4 DEF Sent
  <2>2. /\ Len(Message) = count /\ count \in {1, 2}
        /\ Message[1] = Call.addr /\ Call.addr \in Registers
        /\ Len(Message) = 2 => Call.op = "write8" /\ Message[2] = Call.v /\ Call.v \in Nat
        /\ Len(Message) = 1 => Call.op = "read"
    BY <1>2, <1>3, Kinds
  <2> QED
    BY <2>1, <2>2
<1>6. /\ tx[1] = Message[Len(wire) + 1]
      /\ \A k \in 1..Len(wire') : wire'[k] = Message[k]
  <2>1. tx[1] = Message[Len(wire) + 1]
    BY <1>3, <1>4, <1>5 DEF Sent
  <2>2. \A k \in 1..Len(wire) : wire[k] = Message[k]
    BY <1>3 DEF Sent
  <2>3. \A k \in 1..Len(wire') : k \in 1..Len(wire) \/ k = Len(wire) + 1
    BY <1>4, <1>5
  <2> QED
    BY <1>4, <2>1, <2>2, <2>3
<1>7. \A k \in 1..Len(tx') : tx'[k] = Message[Len(wire') + k]
  <2> SUFFICES ASSUME NEW k \in 1..Len(tx') PROVE tx'[k] = Message[Len(wire') + k]
    OBVIOUS
  <2>1. k + 1 \in 1..Len(tx) /\ k \in 1..(Len(tx) - 1)
    BY <1>4, <1>5
  <2>2. tx'[k] = tx[k + 1] /\ tx[k + 1] = Message[Len(wire) + (k + 1)]
    BY <1>3, <1>4, <2>1 DEF Sent
  <2>3. Len(wire) + (k + 1) = Len(wire') + k
    BY <1>4, <1>5
  <2> QED
    BY <2>2, <2>3
<1>8. wire'[1] = Call.addr
  BY <1>4, <1>5, <1>6
<1>9. /\ file' = IF Len(wire') = 2 THEN Effect(done + 1) ELSE Effect(done)
      /\ file = Effect(done)
      /\ file' \in [Registers -> Nat]
  <2>1. Len(wire) # 2 /\ file = Effect(done)
    <3>1. Len(wire) # 2
      BY <1>2, <1>4, <1>5
    <3> QED
      BY <1>3, <3>1 DEF Sent
  <2>2. CASE Len(wire') = 2
    <3>1. Call.op = "write8" /\ wire'[2] = Call.v /\ Call.v \in Nat
      <4> DEFINE m == count
      <4>1. m \in {1, 2} /\ Len(Message) = m /\ i \in 0..m
        BY <1>2, <1>5
      <4> HIDE DEF m
      <4>2. m = 2
        <5>1. /\ Len(wire') = Len(wire) + 1 /\ Len(wire) \in Nat /\ Len(tx) \in Nat \ {0}
              /\ Len(wire) + Len(tx) = i
          BY <1>4, <1>5
        <5>2. Len(wire) + 1 = 2
          BY <2>2, <5>1
        <5>3. i >= 2
          BY <5>1, <5>2
        <5> QED
          BY <4>1, <5>3
      <4>3. Len(Message) = 2 /\ 2 \in 1..Len(wire')
        BY <2>2, <4>1, <4>2
      <4> QED
        BY <1>5, <1>6, <4>3
    <3>2. file' = [Effect(done) EXCEPT ![Call.addr] = Call.v]
      BY <1>1, <1>5, <1>8, <2>1, <2>2, <3>1
    <3> QED
      BY <1>2, <1>3, <1>5, <2>1, <2>2, <3>1, <3>2, WriteChangesOne DEF BusTypes
  <2>3. CASE Len(wire') # 2
    BY <1>1, <1>3, <2>1, <2>3 DEF BusTypes
  <2> QED
    BY <2>2, <2>3
<1>10. cnt' = Len(Message') - Len(wire')
  BY <1>1, <1>3, <1>4, <1>5, SameCall DEF Sent, driver
<1>11. Sent'
  <2>1. wire' \in Seq(Nat) /\ tx' \in Seq(Nat) /\ Len(wire') + Len(tx') = i'
    BY <1>1, <1>4, <1>5 DEF driver
  <2>2. Call' = Call /\ Message' = Message /\ done' = done /\ i' = i /\ stat' = stat /\ rx' = rx
    BY <1>1, SameCall DEF driver
  <2>3. Effect(done)' = Effect(done) /\ Effect(done + 1)' = Effect(done + 1)
    BY <2>2 DEF Effect, AfterCalls
  <2> HIDE DEF Effect
  <2> QED
    BY <1>1, <1>3, <1>6, <1>7, <1>8, <1>9, <1>10, <2>1, <2>2, <2>3 DEF Sent
<1>12. UnderWay'
  BY <1>1, <1>2, <1>11, SameCall DEF UnderWay, Whole, Moves, driver
<1> QED
  <2>1. BusSound'
    BY <1>1, <1>3, <1>9, <1>12, GoesOn DEF BusTypes
  <2>2. done \in Nat /\ done < Len(Script)
    BY <1>2, <1>3 DEF BusTypes
  <2> QED
    BY <1>9, <2>1, <2>2

LEMMA ArrivesSound == ASSUME BusSound, Arrives PROVE BusSound'
<1>1. /\ active /\ UNCHANGED <<done, driver, con, active, tx, stat, wire, file>>
      /\ con = "read" /\ cnt > 0
      /\ rx' = Append(rx, file[pointer]) /\ cnt' = cnt - 1
      /\ pointer' = IF pointer + 1 \in Registers THEN pointer + 1 ELSE pointer
  BY DEF Arrives, ControllerGoes
<1>2. UnderWay /\ Con = "read" /\ drv # "none" /\ i \in 0..count
  BY <1>1, ActiveMeans
<1>3. Got /\ BusTypes
  BY <1>2 DEF UnderWay, Moves, BusSound
<1>4. /\ Call.addr \in Nat /\ Call.count \in Nat \ {0} /\ count = Call.count
      /\ Registers \subseteq Nat
      /\ Call.addr..(Call.addr + Call.count - 1) \subseteq Registers
  BY <1>2, <1>3, Kinds
<1>5. /\ i \in Nat /\ Len(rx) \in Nat /\ cnt \in Nat /\ i + Len(rx) = Call.count - cnt
      /\ pointer = Call.addr + (i + Len(rx)) /\ pointer \in Registers /\ pointer \in Nat
  <2>1. /\ i \in Nat /\ Len(rx) \in Nat /\ cnt \in Nat /\ i + Len(rx) = Call.count - cnt
        /\ pointer = Call.addr + (i + Len(rx))
    BY <1>1, <1>2, <1>3, <1>4 DEF Got
  <2>2. pointer \in Call.addr..(Call.addr + Call.count - 1)
    BY <1>1, <1>4, <2>1
  <2> QED
    BY <1>4, <2>1, <2>2
<1>6. /\ rx \in Seq(Nat) /\ file[pointer] \in Nat /\ rx' \in Seq(Nat) /\ Len(rx') = Len(rx) + 1
      /\ \A k \in 1..Len(rx) : rx'[k] = rx[k]
      /\ rx'[Len(rx) + 1] = file[pointer]
  BY <1>1, <1>3, <1>5 DEF Got, BusTypes
<1>7. \A k \in 1..Len(rx') : rx'[k] = file[Call.addr + i + k - 1]
  <2> SUFFICES ASSUME NEW k \in 1..Len(rx') PROVE rx'[k] = file[Call.addr + i + k - 1]
    OBVIOUS
  <2>1. CASE k \in 1..Len(rx)
    BY <1>3, <1>6, <2>1 DEF Got
  <2>2. CASE k = Len(rx) + 1
    <3>1. Call.addr + i + k - 1 = pointer
      BY <1>4, <1>5, <2>2
    <3> QED
      BY <1>6, <2>2, <3>1
  <2> QED
    BY <1>5, <1>6, <2>1, <2>2
<1>8. cnt' > 0 => pointer' = Call.addr + Call.count - cnt'
  <2> SUFFICES ASSUME cnt' > 0 PROVE pointer' = Call.addr + Call.count - cnt'
    OBVIOUS
  <2> DEFINE a == Call.addr
             c == Call.count
  <2>1. /\ a \in Nat /\ c \in Nat \ {0} /\ cnt' = cnt - 1 /\ cnt \in Nat /\ cnt' > 0
        /\ pointer \in Nat /\ pointer = a + (c - cnt) /\ cnt <= c
    BY <1>1, <1>4, <1>5
  <2>2. a..(a + c - 1) \subseteq Registers
    BY <1>4
  <2>3. pointer' = IF pointer + 1 \in Registers THEN pointer + 1 ELSE pointer
    BY <1>1
  <2> HIDE DEF a, c
  <2>4. pointer + 1 \in a..(a + c - 1)
    BY <2>1
  <2>5. pointer' = a + c - cnt'
    BY <2>1, <2>2, <2>3, <2>4
  <2> QED
    BY <2>5 DEF a, c
<1>9. Got'
  <2>1. Call' = Call /\ done' = done /\ i' = i /\ stat' = stat /\ file' = file /\ buffer' = buffer
    BY <1>1, SameCall DEF driver
  <2>2. Effect(done)' = Effect(done)
    BY <2>1 DEF Effect, AfterCalls
  <2> DEFINE c == Call.count
  <2>3. cnt' \in Nat /\ i + Len(rx') = c - cnt' /\ rx' # <<>>
    <3>1. c \in Nat /\ cnt' = cnt - 1 /\ cnt > 0 /\ cnt \in Nat /\ i + Len(rx) = c - cnt
      BY <1>1, <1>4, <1>5
    <3>2. rx' # <<>>
      BY <1>5, <1>6
    <3>3. i \in Nat /\ Len(rx) \in Nat /\ Len(rx') = Len(rx) + 1
      BY <1>5, <1>6
    <3> HIDE DEF c
    <3> QED
      BY <3>1, <3>2, <3>3
  <2>4. /\ buffer' \in Seq(Nat) /\ Len(buffer') = i' /\ "XRDY" \notin stat' /\ file' = Effect(done)'
        /\ \A k \in 1..i' : buffer'[k] = file'[Call'.addr + k - 1]
    BY <1>3, <2>1, <2>2 DEF Got
  <2>5. \A k \in 1..Len(rx') : rx'[k] = file'[Call'.addr + i' + k - 1]
    BY <1>7, <2>1
  <2>6. cnt' > 0 => pointer' = Call'.addr + Call'.count - cnt'
    BY <1>8, <2>1
  <2>7. cnt' \in Nat /\ i' + Len(rx') = Call'.count - cnt' /\ rx' # <<>>
    BY <2>1, <2>3
  <2> QED
    BY <1>6, <2>4, <2>5, <2>6, <2>7 DEF Got
<1>10. UnderWay'
  BY <1>1, <1>2, <1>9, SameCall DEF UnderWay, Whole, Moves, driver
<1> QED
  BY <1>1, <1>3, <1>10, GoesOn DEF BusTypes

LEMMA OfferByteSound == ASSUME BusSound, OfferByte PROVE BusSound'
<1>1. active /\ UNCHANGED <<done, driver, transfer, chip>> /\ stat' = stat \cup {"RRDY"}
      /\ rx # <<>>
  BY DEF OfferByte, ControllerGoes
<1>2. UnderWay /\ Moves
  BY <1>1, ActiveMeans DEF UnderWay
<1>3. Con = "read" /\ Got
  BY <1>1, <1>2 DEF Moves, Sent
<1>4. Got'
  BY <1>1, <1>3, SameCall DEF Got, driver, transfer, chip, Effect, AfterCalls
<1>5. UnderWay'
  BY <1>1, <1>2, <1>3, <1>4, SameCall DEF UnderWay, Whole, Moves, Refused, driver, transfer
<1> QED
  BY <1>1, <1>5, GoesOn DEF BusSound, BusTypes, driver, transfer, chip

LEMMA ReadySound == ASSUME BusSound, Ready PROVE BusSound'
<1>1. /\ active /\ UNCHANGED <<done, driver, con, cnt, tx, rx, chip>> /\ stat' = stat \cup {"ARDY"}
      /\ ~active' /\ cnt = 0 /\ rx = <<>>
  BY DEF Ready, ControllerGoes
<1>2. UnderWay /\ Moves /\ drv # "none" /\ i \in 0..count /\ BusTypes
  BY <1>1, ActiveMeans DEF UnderWay, BusSound
<1>3. i = count /\ "XRDY" \notin stat /\ "RRDY" \notin stat
  <2>1. CASE Con = "read"
    <3>1. Got /\ count = Call.count /\ Call.count \in Nat
      BY <1>2, <2>1, Kinds DEF Moves
    <3>2. /\ Len(rx) = 0 /\ i + Len(rx) = Call.count - cnt /\ "XRDY" \notin stat
          /\ ("RRDY" \in stat => rx # <<>>)
      BY <1>1, <3>1 DEF Got
    <3> QED
      BY <1>1, <1>2, <3>1, <3>2
  <2>2. CASE Con # "read"
    <3>1. Sent /\ count = Len(Message) /\ count \in Nat
      BY <1>2, <2>2, Kinds DEF Moves
    <3>2. /\ Len(wire) \in Nat /\ Len(tx) \in Nat /\ Len(wire) + Len(tx) = i
          /\ Len(wire) = count /\ "RRDY" \notin stat /\ ("XRDY" \in stat => i < count)
      BY <1>1, <3>1 DEF Sent
    <3> QED
      BY <1>2, <3>1, <3>2
  <2> QED
    BY <2>1, <2>2
<1>4. stat' = {"ARDY"}
  BY <1>1, <1>2, <1>3 DEF UnderWay, Whole, BusTypes, Refused
<1>5. Moves'
  <2>1. CASE Con = "read"
    BY <1>1, <1>2, <1>3, <1>4, <2>1, SameCall DEF Moves, Got, driver, chip, Effect, AfterCalls
  <2>2. CASE Con # "read"
    BY <1>1, <1>2, <1>3, <1>4, <2>2, SameCall DEF Moves, Sent, driver, chip
  <2> QED
    BY <2>1, <2>2
<1>6. Over'
  BY <1>1, <1>3, <1>4, <1>5, SameCall DEF Over, driver
<1> QED
  BY <1>1, <1>2, <1>4, <1>6, GoesOn DEF BusTypes, driver, chip

LEMMA SpoilSound ==
  ASSUME BusSound, NEW b \in Refused, NEW with \in SUBSET {"ARDY"}, Spoil(b, with)
  PROVE  BusSound'
<1>1. /\ active /\ UNCHANGED <<done, driver, con, chip>> /\ ~active' /\ cnt > 0
      /\ stat' = (stat \ {"XRDY", "RRDY"}) \cup {b} \cup with
  BY DEF Spoil
<1>2. UnderWay /\ Moves /\ drv # "none" /\ i \in 0..count /\ BusTypes
  BY <1>1, ActiveMeans DEF UnderWay, BusSound
<1>3. file = Effect(done)
  <2>1. CASE Con = "read"
    BY <1>2, <2>1 DEF Moves, Got
  <2>2. CASE Con # "read"
    <3>1. Sent /\ Len(Message) \in {1, 2}
      BY <1>2, <2>2, Kinds DEF Moves
    <3>2. Len(wire) \in Nat /\ cnt = Len(Message) - Len(wire)
      BY <3>1 DEF Sent
    <3>3. Len(wire) # 2
      <4> DEFINE m == Len(Message)
      <4>1. m \in Nat /\ m <= 2 /\ cnt = m - Len(wire)
        BY <3>1, <3>2
      <4> HIDE DEF m
      <4> QED
        BY <1>1, <3>2, <4>1
    <3> QED
      BY <3>1, <3>3 DEF Sent
  <2> QED
    BY <2>1, <2>2
<1>4. Between'
  BY <1>1, <1>3 DEF Between, chip, driver, Effect, AfterCalls
<1>5. ~Whole' /\ ~(Refused \subseteq stat') /\ stat' \subseteq Refused \cup {"ARDY"}
  BY <1>1, <1>2 DEF UnderWay, Whole, Refused, BusTypes
<1> QED
  BY <1>1, <1>2, <1>4, <1>5, GoesOn DEF Spoiled, BusTypes, chip

-----------------------------------------------------------------------------
(* The driver.                                                              *)

LEMMA StartCallSound == ASSUME BusSound, StartCall PROVE BusSound'
<1>1. /\ drv = "none" /\ drv' = "waitidle" /\ part' = 1 /\ done < Len(Script)
      /\ UNCHANGED <<done, stat, active, file>>
  BY DEF StartCall, transfer, chip
<1>2. BusTypes'
  BY <1>1 DEF BusSound, BusTypes, Parts, Call
<1>3. Between' /\ stat' = {}
  BY <1>1 DEF BusSound, Working, Between, Effect, AfterCalls
<1> QED
  BY <1>1, <1>2, <1>3 DEF BusSound, Working

LEMMA WaitidleSound == ASSUME BusSound, waitidle PROVE BusSound'
<1>1. drv = "waitidle" /\ drv' = "redoreg" /\ UNCHANGED <<done, part, stat, active, file>>
  BY DEF waitidle, transfer, chip
<1>2. BusTypes'
  BY <1>1, SameCall DEF BusSound, BusTypes
<1>3. Between' /\ stat' = {}
  BY <1>1 DEF BusSound, Working, Between, Effect, AfterCalls
<1>4. Con' # "read"
  <2>1. Con # "read"
    BY <1>1, Kinds DEF BusSound, Working
  <2> QED
    BY <1>1, <2>1, SameCall
<1> QED
  BY <1>1, <1>2, <1>3, <1>4 DEF BusSound, Working

LEMMA RedoregSound == ASSUME BusSound, redoreg PROVE BusSound'
<1>1. /\ drv = "redoreg" /\ drv' = "loop" /\ i' = 0 /\ buffer' = <<>>
      /\ con' = Con /\ cnt' = count /\ active'
      /\ tx' = <<>> /\ rx' = <<>> /\ wire' = <<>>
      /\ UNCHANGED <<done, part, stat, pointer, file>>
  BY DEF redoreg
<1>2. BusTypes /\ BusTypes'
  BY <1>1, SameCall DEF BusSound, BusTypes
<1>3. file = Effect(done) /\ stat \subseteq {"ARDY"} /\ (Con = "read" => pointer = Call.addr)
  BY <1>1 DEF BusSound, Working, Between
<1>4. /\ count \in Nat \ {0} /\ (Con # "read" => Len(Message) = count)
      /\ (Con = "read" => count = Call.count)
      /\ (Con = "read" => Call.addr \in Nat /\ Call.count \in Nat)
  BY <1>1, <1>2, Kinds
<1>5. CASE Con = "read"
  <2>1. Got'
    BY <1>1, <1>3, <1>4, <1>5, SameCall DEF Got, Effect, AfterCalls
  <2>2. UnderWay'
    BY <1>1, <1>3, <1>5, <2>1, SameCall DEF UnderWay, Whole, Refused, Moves
  <2> QED
    BY <1>1, <1>2, <1>4, <2>2, SameCall DEF BusSound, Working
<1>6. CASE Con # "read"
  <2>1. Sent'
    BY <1>1, <1>3, <1>4, <1>6, SameCall DEF Sent, Effect, AfterCalls
  <2>2. UnderWay'
    BY <1>1, <1>3, <1>6, <2>1, SameCall DEF UnderWay, Whole, Refused, Moves
  <2> QED
    BY <1>1, <1>2, <1>4, <2>2, SameCall DEF BusSound, Working
<1> QED
  BY <1>5, <1>6

\* only a transfer that was spoiled has been refused
LEMMA RestartSound == ASSUME BusSound, ~trouble', Restart PROVE BusSound'
<1>1. /\ drv = "loop" /\ drv' = "redoreg" /\ ~Whole
      /\ stat' = stat \ {IF "NACK" \in stat THEN "NACK" ELSE "AL"}
      /\ UNCHANGED <<done, part, active, pointer, file>> /\ ~Displaced
  BY DEF Restart, Polling, Whole, Ack, transfer, chip
<1>2. Spoiled
  BY <1>1 DEF BusSound, Working, UnderWay, Over, Whole, Refused
<1>3. stat' \subseteq {"ARDY"}
  BY <1>1, <1>2 DEF Spoiled, Whole, Refused
<1>4. BusTypes'
  BY <1>1, <1>3, SameCall DEF BusSound, BusTypes
<1>5. Between'
  BY <1>1, <1>2 DEF Spoiled, Between, Effect, AfterCalls
<1>6. Con' = "read" => pointer' = Call'.addr
  BY <1>1, SameCall DEF Displaced
<1> QED
  BY <1>1, <1>3, <1>4, <1>5, <1>6 DEF BusSound, Working

\* a byte still to be moved means that the transfer is not over
LEMMA PollingMeans ==
  ASSUME BusSound, Polling, stat \cap Refused = {}, stat # {}
  PROVE  active /\ UnderWay /\ con = Con /\ drv = "loop" /\ i \in 0..count /\ i < count
         /\ count \in Nat
<1>1. drv = "loop" /\ i \in 0..count /\ i < count /\ con = Con /\ (UnderWay \/ Over \/ Spoiled)
  BY DEF BusSound, Working, Polling
<1>2. count \in Nat
  BY <1>1, Kinds DEF BusSound
<1>3. ~Over /\ ~Spoiled
  BY <1>1, <1>2 DEF Over, Spoiled, Whole
<1> QED
  BY <1>1, <1>2, <1>3 DEF UnderWay

\* the driver goes on with the transfer
LEMMA StaysInLoop ==
  ASSUME BusSound, drv = "loop", UNCHANGED <<done, drv, part, con, file>>,
         stat' \subseteq stat, con = Con, i' \in 0..count, UnderWay'
  PROVE  BusSound'
<1>1. BusTypes'
  BY SameCall DEF BusSound, BusTypes
<1> QED
  BY <1>1, SameCall DEF BusSound, Working

LEMMA SkipReadySound == ASSUME BusSound, SkipReady PROVE BusSound'
<1>1. /\ Polling /\ stat \cap Refused = {} /\ stat # {}
      /\ stat' = stat \ {"ARDY"} /\ UNCHANGED <<done, driver, transfer, chip>>
  BY DEF SkipReady, Ack
<1>2. UnderWay /\ Moves /\ drv = "loop" /\ con = Con /\ i \in 0..count /\ count \in Nat
  BY <1>1, PollingMeans DEF UnderWay
<1>3. Moves'
  <2>1. CASE Con = "read"
    <3>1. Got'
      BY <1>1, <1>2, <2>1, SameCall DEF Moves, Got, driver, transfer, chip, Effect, AfterCalls
    <3> QED
      BY <1>1, <2>1, <3>1, SameCall DEF Moves, driver
  <2>2. CASE Con # "read"
    <3>1. Sent'
      BY <1>1, <1>2, <2>2, SameCall DEF Moves, Sent, driver, transfer, chip, Effect, AfterCalls
    <3> QED
      BY <1>1, <2>2, <3>1, SameCall DEF Moves, driver
  <2> QED
    BY <2>1, <2>2
<1>4. UnderWay'
  BY <1>1, <1>2, <1>3 DEF UnderWay, Whole, transfer
<1> QED
  BY <1>1, <1>2, <1>4, StaysInLoop DEF driver, transfer, chip

LEMMA SendByteSound == ASSUME BusSound, SendByte PROVE BusSound'
<1>1. /\ Polling /\ stat \cap Refused = {} /\ "ARDY" \notin stat /\ "XRDY" \in stat
      /\ tx' = Append(tx, Message[i + 1]) /\ i' = i + 1 /\ stat' = stat \ {"XRDY"}
      /\ UNCHANGED <<done, drv, part, buffer, con, cnt, active, rx, chip>>
  BY DEF SendByte, Ack, Refused
<1>2. /\ UnderWay /\ drv = "loop" /\ con = Con /\ active
      /\ i \in 0..count /\ i < count /\ count \in Nat
  BY <1>1, PollingMeans
<1>3. Con # "read" /\ Sent
  BY <1>1, <1>2 DEF UnderWay, Moves, Got
<1>4. /\ count \in {1, 2} /\ Len(Message) = count
      /\ Message[1] \in Nat /\ (count = 2 => Message[2] \in Nat)
  BY <1>2, <1>3, Kinds DEF BusSound
<1>5. i \in Nat /\ i + 1 \in 1..count /\ Message[i + 1] \in Nat
  BY <1>2, <1>4
<1>6. /\ wire \in Seq(Nat) /\ tx \in Seq(Nat) /\ Len(tx) \in Nat /\ Len(wire) \in Nat
      /\ Len(wire) + Len(tx) = i /\ \A k \in 1..Len(tx) : tx[k] = Message[Len(wire) + k]
  <2>1. wire \in Seq(Nat) /\ tx \in Seq(Nat)
    BY <1>3 DEF Sent
  <2>2. Len(tx) \in Nat /\ Len(wire) \in Nat
    BY <2>1
  <2>3. Len(wire) + Len(tx) = i /\ \A k \in 1..Len(tx) : tx[k] = Message[Len(wire) + k]
    BY <1>3 DEF Sent
  <2> QED
    BY <2>1, <2>2, <2>3
<1>7. /\ tx' \in Seq(Nat) /\ Len(tx') = Len(tx) + 1 /\ tx'[Len(tx) + 1] = Message[i + 1]
      /\ \A k \in 1..Len(tx) : tx'[k] = tx[k]
  BY <1>1, <1>5, <1>6
<1>8. \A k \in 1..Len(tx') : tx'[k] = Message[Len(wire) + k]
  <2>1. \A k \in 1..Len(tx') : k \in 1..Len(tx) \/ k = Len(tx) + 1
    BY <1>6, <1>7
  <2>2. Len(wire) + (Len(tx) + 1) = i + 1
    BY <1>6
  <2> QED
    BY <1>6, <1>7, <2>1, <2>2
<1>9. Sent'
  <2>1. Call' = Call /\ Message' = Message /\ done' = done /\ UNCHANGED <<wire, pointer, file>>
    BY <1>1, SameCall DEF chip
  <2>2. Effect(done)' = Effect(done) /\ Effect(done + 1)' = Effect(done + 1)
    BY <2>1 DEF Effect, AfterCalls
  <2>3. Len(wire') + Len(tx') = i'
    BY <1>1, <1>6, <1>7, <2>1
  <2> HIDE DEF Effect
  <2> QED
    BY <1>1, <1>3, <1>7, <1>8, <2>1, <2>2, <2>3 DEF Sent
<1>10. UnderWay'
  BY <1>1, <1>2, <1>3, <1>9, SameCall DEF UnderWay, Whole, Moves
<1>11. i' \in 0..count
  BY <1>1, <1>2
<1> QED
  BY <1>1, <1>2, <1>10, <1>11, StaysInLoop DEF chip

LEMMA ReceiveByteSound == ASSUME BusSound, ReceiveByte PROVE BusSound'
<1>1. /\ Polling /\ stat \cap Refused = {} /\ "ARDY" \notin stat /\ "RRDY" \in stat
      /\ buffer' = Append(buffer, IF rx = <<>> THEN 0 ELSE Head(rx))
      /\ rx' = (IF rx = <<>> THEN <<>> ELSE Tail(rx))
      /\ i' = i + 1 /\ stat' = stat \ {"RRDY"}
      /\ UNCHANGED <<done, drv, part, con, cnt, active, tx, chip>>
  BY DEF ReceiveByte, Ack, Refused
<1>2. /\ UnderWay /\ drv = "loop" /\ con = Con /\ active
      /\ i \in 0..count /\ i < count /\ count \in Nat
  BY <1>1, PollingMeans
<1>3. Con = "read" /\ Got /\ rx # <<>>
  BY <1>1, <1>2 DEF UnderWay, Moves, Sent, Got
<1>4. buffer' = Append(buffer, Head(rx)) /\ rx' = Tail(rx)
  BY <1>1, <1>3
<1>5. /\ buffer \in Seq(Nat) /\ rx \in Seq(Nat) /\ cnt \in Nat /\ i \in Nat /\ Len(buffer) = i
      /\ Call.addr \in Nat /\ Call.count \in Nat /\ i + Len(rx) = Call.count - cnt
  BY <1>2, <1>3, Kinds DEF Got, BusSound
<1>6. /\ Len(rx) \in Nat \ {0} /\ buffer' \in Seq(Nat) /\ Len(buffer') = i + 1
      /\ buffer'[i + 1] = rx[1] /\ \A k \in 1..i : buffer'[k] = buffer[k]
      /\ rx' \in Seq(Nat) /\ Len(rx') = Len(rx) - 1
      /\ \A k \in 1..(Len(rx) - 1) : rx'[k] = rx[k + 1]
  BY <1>3, <1>4, <1>5, Passed
<1> DEFINE a == Call.addr
<1>7. \A k \in 1..(i + 1) : buffer'[k] = file[a + k - 1]
  <2>1. /\ \A k \in 1..i : buffer[k] = file[a + k - 1]
        /\ \A k \in 1..Len(rx) : rx[k] = file[a + i + k - 1]
        /\ a \in Nat
    BY <1>3, <1>5 DEF Got
  <2> HIDE DEF a
  <2>2. buffer'[i + 1] = file[a + (i + 1) - 1]
    <3>1. 1 \in 1..Len(rx) /\ a + i + 1 - 1 = a + (i + 1) - 1
      BY <1>5, <1>6, <2>1
    <3> QED
      BY <1>6, <2>1, <3>1
  <2>3. \A k \in 1..(i + 1) : k \in 1..i \/ k = i + 1
    BY <1>5
  <2> QED
    BY <1>6, <2>1, <2>2, <2>3
<1>8. \A k \in 1..Len(rx') : rx'[k] = file[a + (i + 1) + k - 1]
  <2> SUFFICES ASSUME NEW k \in 1..Len(rx') PROVE rx'[k] = file[a + (i + 1) + k - 1]
    OBVIOUS
  <2>1. (\A j \in 1..Len(rx) : rx[j] = file[a + i + j - 1]) /\ a \in Nat
    BY <1>3, <1>5 DEF Got
  <2> HIDE DEF a
  <2>2. k \in 1..(Len(rx) - 1) /\ k + 1 \in 1..Len(rx)
    BY <1>5, <1>6
  <2>3. a + i + (k + 1) - 1 = a + (i + 1) + k - 1
    BY <1>5, <2>1, <2>2
  <2> QED
    BY <1>6, <2>1, <2>2, <2>3
<1>9. Got'
  <2>1. Call' = Call /\ done' = done /\ UNCHANGED <<cnt, pointer, file>>
    BY <1>1, SameCall DEF chip
  <2>2. Effect(done)' = Effect(done)
    BY <2>1 DEF Effect, AfterCalls
  <2>3. i' + Len(rx') = Call'.count - cnt'
    <3> DEFINE c == Call.count
    <3>1. c \in Nat /\ i + Len(rx) = c - cnt
      BY <1>5
    <3>2. i + 1 + (Len(rx) - 1) = c - cnt
      BY <1>5, <1>6, <3>1
    <3> QED
      BY <1>1, <1>6, <2>1, <3>2
  <2>4. /\ \A k \in 1..i' : buffer'[k] = file'[Call'.addr + k - 1]
        /\ \A k \in 1..Len(rx') : rx'[k] = file'[Call'.addr + i' + k - 1]
    BY <1>1, <1>7, <1>8, <2>1
  <2> HIDE DEF Effect
  <2> QED
    BY <1>1, <1>3, <1>6, <2>1, <2>2, <2>3, <2>4 DEF Got
<1>10. UnderWay'
  BY <1>1, <1>2, <1>3, <1>9, SameCall DEF UnderWay, Whole, Moves
<1>11. i' \in 0..count
  BY <1>1, <1>2
<1> QED
  BY <1>1, <1>2, <1>10, <1>11, StaysInLoop DEF chip

LEMMA LastByteSound == ASSUME BusSound, LastByte PROVE BusSound'
<1>1. /\ drv = "loop" /\ i = count /\ drv' = "ardy"
      /\ UNCHANGED <<done, part, i, buffer, stat, transfer, chip>>
  BY DEF LastByte
<1>2. BusTypes'
  BY <1>1, SameCall DEF BusSound, BusTypes, chip
<1>3. con = Con /\ i \in 0..count /\ (UnderWay \/ Over \/ Spoiled)
  BY <1>1 DEF BusSound, Working
<1>4. Moves' = Moves
  BY <1>1, SameCall DEF Moves, Got, Sent, transfer, chip, Effect, AfterCalls
<1>5. UnderWay' \/ Over' \/ Spoiled'
  BY <1>1, <1>3, <1>4, SameCall DEF UnderWay, Over, Spoiled, Whole, Between, transfer, chip,
     Effect, AfterCalls
<1> QED
  BY <1>1, <1>2, <1>3, <1>5, SameCall DEF BusSound, Working, transfer

\* ARDY of the transfer itself, and no refusal with it
LEMMA CompletedSound == ASSUME BusSound, ~trouble', Completed PROVE BusSound'
<1>1. /\ drv = "ardy" /\ "ARDY" \in stat /\ stat' = stat \ {"ARDY"} /\ Returns
      /\ stat \cap Refused = {}
      /\ UNCHANGED <<i, buffer, transfer, chip>>
  BY DEF Completed, Ack
<1>2. i = count /\ con = Con /\ (UnderWay \/ Over \/ Spoiled) /\ BusTypes
  BY <1>1 DEF BusSound, Working
<1>3. count \in Nat \ {0}
  BY <1>1, <1>2, Kinds
<1>4. Over
  BY <1>1, <1>2, <1>3 DEF UnderWay, Spoiled, Whole
<1>5. stat' = {} /\ ~active /\ ~active' /\ cnt = 0 /\ rx = <<>> /\ Moves
      /\ UNCHANGED <<file, pointer, i, buffer>>
  BY <1>1, <1>4 DEF Over, transfer, chip
<1>6. done < Len(Script) /\ done \in Nat /\ done + 1 \in 0..Len(Script) /\ Len(Script) \in Nat
  BY <1>1, <1>2, ScriptAssumption DEF BusTypes
<1>7. CASE Con = "addr"
  <2>1. part = 1 /\ Len(Parts) = 2 /\ Len(Message) = 1 /\ Call.op = "read"
    BY <1>1, <1>2, <1>7, Kinds
  <2>2. drv' = "redoreg" /\ part' = 2 /\ done' = done
    BY <1>1, <2>1 DEF Returns
  <2>3. Call' = Call /\ Parts' = Parts /\ Parts = <<"addr", "read">>
    BY <2>1, <2>2 DEF Call, Parts
  <2>4. Sent
    BY <1>5, <1>7 DEF Moves
  <2>5. Len(wire) = 1
    BY <1>5, <2>1, <2>4, AllSent
  <2>6. file = Effect(done) /\ pointer = Call.addr
    <3>1. wire # <<>> /\ Len(wire) # 2
      BY <2>5
    <3> QED
      BY <2>4, <3>1 DEF Sent
  <2>7. Between'
    BY <1>5, <2>2, <2>6 DEF Between, Effect, AfterCalls
  <2>8. BusTypes'
    BY <1>2, <1>5, <1>6, <2>2, <2>3 DEF BusTypes
  <2> QED
    BY <1>5, <2>2, <2>3, <2>6, <2>7, <2>8 DEF BusSound, Working
<1>8. CASE Con # "addr"
  <2>1. drv' = "none" /\ done' = done + 1
    <3>1. Len(Parts) = part /\ part \in {1, 2}
      BY <1>1, <1>2, <1>8, Kinds
    <3>2. ~(part < Len(Parts))
      BY <3>1
    <3> QED
      BY <1>1, <3>2 DEF Returns
  <2>2. BusTypes'
    BY <1>2, <1>5, <1>6, <2>1 DEF BusTypes
  <2>3. Script[done'] = Call
    BY <2>1 DEF Call
  <2>4. CASE Con = "write"
    <3>1. Call.op = "write8" /\ Len(Message) = 2
      BY <1>1, <1>2, <2>4, Kinds
    <3>2. Sent
      BY <1>5, <2>4 DEF Moves
    <3>3. Len(wire) = 2
      BY <1>5, <3>1, <3>2, AllSent
    <3>4. file = Effect(done + 1)
      BY <3>2, <3>3 DEF Sent
    <3>5. Between' /\ ReadBack'
      BY <1>5, <2>1, <2>3, <3>1, <3>4 DEF Between, ReadBack, Effect, AfterCalls
    <3> QED
      BY <1>5, <2>1, <2>2, <3>5 DEF BusSound, Working
  <2>5. CASE Con = "read"
    <3>1. Call.op = "read" /\ count = Call.count
      BY <1>1, <1>2, <2>5, Kinds
    <3>2. Got
      BY <1>5, <2>5 DEF Moves
    <3>3. file = Effect(done + 1)
      BY <1>2, <1>6, <3>1, <3>2, ReadsChangeNothing DEF Got
    <3>4. Between'
      BY <1>5, <2>1, <3>3 DEF Between, Effect, AfterCalls
    <3>5. buffer = [k \in 1..Call.count |-> file[Call.addr + k - 1]]
      BY <1>2, <3>1, <3>2 DEF Got
    <3>6. ReadBack'
      BY <1>5, <2>3, <3>5 DEF ReadBack
    <3> QED
      BY <1>5, <2>1, <2>2, <3>4, <3>6 DEF BusSound, Working
  <2> QED
    BY <1>1, <1>2, <1>8, <2>4, <2>5, Kinds
<1> QED
  BY <1>7, <1>8

-----------------------------------------------------------------------------
LEMMA StillSound ==
  ASSUME BusSound, UNCHANGED <<done, driver, stat, transfer, chip>>
  PROVE  BusSound'
<1>1. UNCHANGED <<done, drv, part, i, buffer, stat, con, cnt, active, tx, rx, wire, pointer, file>>
  BY DEF driver, transfer, chip
<1>2. BusTypes'
  BY <1>1, SameCall DEF BusSound, BusTypes
<1>3. Moves' = Moves /\ Between' = Between /\ Whole' = Whole /\ ReadBack' = ReadBack
  BY <1>1, SameCall DEF Moves, Got, Sent, Between, Whole, ReadBack, Effect, AfterCalls
<1>4. UnderWay' = UnderWay /\ Over' = Over /\ Spoiled' = Spoiled
  BY <1>1, <1>3, SameCall DEF UnderWay, Over, Spoiled
<1> QED
  BY <1>1, <1>2, <1>3, <1>4, SameCall DEF BusSound, Working

LEMMA BusInvInit == Init => BusInv
<1> SUFFICES ASSUME Init PROVE BusInv
  OBVIOUS
<1>1. /\ done = 0 /\ drv = "none" /\ part = 1 /\ stat = {} /\ ~active /\ file = Before /\ ~trouble
      /\ trouble \in BOOLEAN
  BY DEF Init, BusInit
<1>2. BusTypes
  BY <1>1, ScriptAssumption, RegistersAssumption DEF BusTypes
<1>3. Between /\ ReadBack
  BY <1>1, NothingWritten DEF Between, ReadBack
<1> QED
  BY <1>1, <1>2, <1>3 DEF BusInv, BusSound, Working

\* once there is trouble nothing is said any more
LEMMA TroubleStays == BusInv /\ [Next]_vars => trouble' \in BOOLEAN /\ (trouble => trouble')
<1> SUFFICES ASSUME BusInv, [Next]_vars PROVE trouble' \in BOOLEAN /\ (trouble => trouble')
  OBVIOUS
<1>1. trouble \in BOOLEAN
  BY DEF BusInv
<1>2. CASE Calling
  <2>1. CASE StartCall
    BY <1>1, <2>1 DEF StartCall
  <2>2. CASE Driver
    BY <1>1, <2>2 DEF Driver, waitidle, redoreg, Restart, SkipReady, SendByte, ReceiveByte,
       ReceiveTimeout, LastByte, Completed, CompleteTimeout
  <2> QED
    BY <1>2, <2>1, <2>2 DEF Calling
<1>3. CASE BusWorks
  BY <1>1, <1>3 DEF BusWorks, Works, AskByte, Acknowledged, Arrives, OfferByte, Ready, Unstick,
     ControllerGoes
<1>4. CASE BusSpoils
  BY <1>1, <1>4 DEF BusSpoils, Stick, Spoil
<1>5. CASE ~(Calling \/ BusWorks \/ BusSpoils)
  BY <1>1, <1>5 DEF Next, Main, busVars, vars, setup_mcbsp2, SetUp, playnote, Send, ReadFirst,
     ReadSecond, ReadAll, SendLeft, SendRight, TxTimeout, TxRestart, Slot, Pause, Resume
<1> QED
  BY <1>2, <1>3, <1>4, <1>5

LEMMA BusInvNext == BusInv /\ [Next]_vars => BusInv'
<1> SUFFICES ASSUME BusInv, [Next]_vars, ~trouble' PROVE BusSound'
  BY TroubleStays DEF BusInv
<1>1. BusSound
  BY TroubleStays DEF BusInv
<1>2. CASE Calling
  <2>1. CASE StartCall
    BY <1>1, <2>1, StartCallSound
  <2>2. CASE waitidle
    BY <1>1, <2>2, WaitidleSound
  <2>3. CASE redoreg
    BY <1>1, <2>3, RedoregSound
  <2>4. CASE Restart
    BY <1>1, <2>4, RestartSound
  <2>5. CASE SkipReady
    BY <1>1, <2>5, SkipReadySound
  <2>6. CASE SendByte
    BY <1>1, <2>6, SendByteSound
  <2>7. CASE ReceiveByte
    BY <1>1, <2>7, ReceiveByteSound
  <2>8. CASE ReceiveTimeout \/ CompleteTimeout
    BY <2>8 DEF ReceiveTimeout, CompleteTimeout
  <2>9. CASE LastByte
    BY <1>1, <2>9, LastByteSound
  <2>10. CASE Completed
    BY <1>1, <2>10, CompletedSound
  <2> QED
    BY <1>2, <2>1, <2>2, <2>3, <2>4, <2>5, <2>6, <2>7, <2>8, <2>9, <2>10 DEF Calling, Driver
<1>3. CASE BusWorks
  <2>1. CASE Unstick
    BY <1>1, <2>1, StillSound DEF Unstick
  <2> QED
    BY <1>1, <1>3, <2>1, AskByteSound, AcknowledgedSound, ArrivesSound, OfferByteSound, ReadySound
       DEF BusWorks, Works
<1>4. CASE BusSpoils
  <2>1. CASE Stick
    BY <1>1, <2>1, StillSound DEF Stick
  <2> QED
    BY <1>1, <1>4, <2>1, SpoilSound DEF BusSpoils
<1>5. CASE ~(Calling \/ BusWorks \/ BusSpoils)
  <2>1. UNCHANGED <<done, driver, stat, transfer, chip>>
    BY <1>5 DEF Next, Main, busVars, vars, setup_mcbsp2, SetUp, playnote, Send, ReadFirst,
       ReadSecond, ReadAll, SendLeft, SendRight, TxTimeout, TxRestart, Slot, Pause, Resume
  <2> QED
    BY <1>1, <2>1, StillSound
<1> QED
  BY <1>2, <1>3, <1>4, <1>5

(* Transfers that are refused, or lose the bus, and are started again have  *)
(* together the effect of one that was not: for any calls, any registers    *)
(* and any number of refusals.                                              *)
THEOREM CallsSound == Spec => []CallsDoTheirWork
<1>1. BusInv => CallsDoTheirWork
  <2> SUFFICES ASSUME BusInv, ~trouble, drv = "none"
               PROVE  /\ \A r \in Registers : file[r] = AfterCalls(r, done)
                      /\ done > 0 /\ Script[done].op = "read" =>
                           buffer = [k \in 1..Script[done].count |->
                                       file[Script[done].addr + k - 1]]
    BY DEF CallsDoTheirWork
  <2>1. file = Effect(done) /\ ReadBack
    BY DEF BusInv, BusSound, Working, Between
  <2> QED
    BY <2>1 DEF Effect, ReadBack
<1> QED
  BY <1>1, BusInvInit, BusInvNext, PTL DEF Spec

-----------------------------------------------------------------------------
(* The order of setup_audio's writes.                                       *)

\* powered down by the second write, up again by the last
LEMMA SetupCalls ==
  /\ Len(setup_audio) = 24
  /\ \A k \in {1, 2, 23, 24} : setup_audio[k].addr = AV_CODEC_MODE
  /\ \A k \in 3..22 : setup_audio[k].addr # AV_CODEC_MODE
  /\ setup_audio[2].op = "write8" /\ setup_audio[2].v = Off
BY DEF setup_audio, Routes, Levels, aregw, AV_CODEC_MODE, AV_AUDIO_IF, Off, On, Master

LEMMA ScriptBegins ==
  /\ \A k \in 1..24 : Script[k] = setup_audio[k]
  /\ Len(Script) = 25 /\ Script[25].op = "read"
  /\ AV_CODEC_MODE \in Registers
<1>1. Len(dump_audio) = 1 /\ dump_audio[1].op = "read"
  BY DEF dump_audio
<1>2. Script = setup_audio \o dump_audio
  BY ProgramAssumption
<1>3. /\ \A k \in 1..24 : Script[k] = setup_audio[k]
      /\ Len(Script) = 25 /\ Script[25] = dump_audio[1]
  BY <1>2 DEF setup_audio, dump_audio, Routes, Levels
<1>4. Script[1] \in Calls /\ Script[1].addr = AV_CODEC_MODE
  <2>1. 1 \in DOMAIN Script /\ 1 \in 1..24 /\ 1 \in {1, 2, 23, 24}
    BY <1>3, ScriptAssumption
  <2>2. Script[1] = setup_audio[1]
    BY <1>3, <2>1
  <2> QED
    BY <2>1, <2>2, SetupCalls, ScriptAssumption
<1>5. AV_CODEC_MODE \in Registers
  BY <1>4 DEF Calls
<1> QED
  BY <1>1, <1>3, <1>5

LEMMA PoweredDown ==
  ASSUME NEW n \in 2..22
  PROVE  AfterCalls(AV_CODEC_MODE, n) = Off
<1> DEFINE W == {k \in 1..n : Script[k].op = "write8" /\ Script[k].addr = AV_CODEC_MODE}
<1>1. 2 \in W /\ \A k \in W : k \in Int /\ k <= 2
  <2>1. \A k \in 3..n : Script[k].addr # AV_CODEC_MODE
    BY ScriptBegins, SetupCalls
  <2>2. Script[2].op = "write8" /\ Script[2].addr = AV_CODEC_MODE
    BY ScriptBegins, SetupCalls
  <2>3. \A k \in 1..n : k \in 3..n \/ k <= 2
    OBVIOUS
  <2> QED
    BY <2>1, <2>2, <2>3
<1> HIDE DEF W
<1>2. Max(W) = 2
  BY <1>1 DEF Max
<1>3. AfterCalls(AV_CODEC_MODE, n) = Script[Max(W)].v
  BY <1>1 DEF AfterCalls, W
<1> QED
  BY <1>2, <1>3, ScriptBegins, SetupCalls

(* Every register but the one with the power bit is written while the chip  *)
(* is powered down, however often a write had to be started again.          *)
THEOREM ConfigurationSound == Spec => ConfiguredWhileOff
<1> DEFINE Quietly == ~trouble' => \A r \in Registers \ {AV_CODEC_MODE} :
                         file'[r] # file[r] => file[AV_CODEC_MODE] = Off
<1>1. BusInv /\ [Next]_vars => Quietly
  <2> SUFFICES ASSUME BusInv, [Next]_vars, ~trouble', NEW r \in Registers \ {AV_CODEC_MODE},
                      file'[r] # file[r]
               PROVE  file[AV_CODEC_MODE] = Off
    OBVIOUS
  <2>1. BusSound
    BY TroubleStays DEF BusInv
  <2>2. Acknowledged
    BY DEF Next, Main, busVars, vars, chip, setup_mcbsp2, SetUp, playnote, Send, ReadFirst,
       ReadSecond, ReadAll, SendLeft, SendRight, TxTimeout, TxRestart, Slot, Pause, Resume,
       Calling, StartCall, Driver, waitidle, redoreg, Restart, SkipReady, SendByte, ReceiveByte,
       ReceiveTimeout, LastByte, Completed, CompleteTimeout, BusWorks, Works, AskByte, Arrives,
       OfferByte, Ready, Unstick, BusSpoils, Stick, Spoil
  <2>3. /\ done \in Nat /\ done < Len(Script)
        /\ file = Effect(done) /\ file' \in {Effect(done), Effect(done + 1)}
    BY <2>1, <2>2, AcknowledgedSound
  <2>4. AfterCalls(r, done + 1) # AfterCalls(r, done)
    BY <2>3 DEF Effect
  <2>5. Script[done + 1].op = "write8" /\ Script[done + 1].addr = r
    BY <2>3, <2>4, OneMoreCall
  <2>6. done + 1 \in 3..22
    <3>1. done + 1 \in 1..24
      BY <2>3, <2>5, ScriptBegins
    <3>2. done + 1 \notin {1, 2, 23, 24}
      BY <2>5, <3>1, ScriptBegins, SetupCalls
    <3> QED
      BY <3>1, <3>2
  <2>7. AfterCalls(AV_CODEC_MODE, done) = Off
    BY <2>3, <2>6, PoweredDown
  <2> QED
    BY <2>3, <2>7, ScriptBegins DEF Effect
<1>2. BusInv /\ [Next]_vars => [Quietly]_vars
  BY <1>1
<1> QED
  BY <1>2, BusInvInit, BusInvNext, PTL DEF Spec, ConfiguredWhileOff
=============================================================================
