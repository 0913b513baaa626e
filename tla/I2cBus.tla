------------------------------- MODULE I2cBus -------------------------------
(***************************************************************************)
(* lib/bus_i2c.c, the polled i2c master, with the controller it polls and a *)
(* chip with registers at the other end of the bus.                         *)
(*                                                                          *)
(* The driver reads the status register, acts on the first bit it knows and *)
(* clears that bit.  A byte that is not acknowledged, or a lost             *)
(* arbitration, makes it start the transfer again; every other wait ends    *)
(* with a timeout, after which the call returns as if it had succeeded.     *)
(* The polls are not counted: a wait may time out whenever nothing is going *)
(* to end it soon (Hopeless).                                               *)
(*                                                                          *)
(* The controller is not in the repository.  It is assumed to drop what is  *)
(* in its fifos when a transfer is given up or started anew: the driver     *)
(* never clears them.  Their thresholds are left at one byte, so the bits   *)
(* for draining them (RDR, XDR) are never set.                              *)
(***************************************************************************)
EXTENDS Integers, SequencesExt, FiniteSetsExt

CONSTANTS Registers,        \* of the chip
          Script,           \* the calls the program makes, in order
          Before,           \* the registers as they were before the program
          Aborts            \* bound: the transfers the chip or the bus spoils

\* bus_i2c_write8, and bus_i2c_read of count bytes
Calls == [op : {"write8"}, addr : Registers, v : Nat]
            \cup [op : {"read"}, addr : Registers, count : Nat \ {0}]

ASSUME RegistersAssumption == Registers \subseteq Nat /\ Before \in [Registers -> Nat]
ASSUME ScriptAssumption == Script \in Seq(Calls)
ASSUME AbortsAssumption == Aborts \in Nat
ASSUME ReadsAssumption == \A k \in DOMAIN Script :
                             Script[k].op = "read" =>
                                Script[k].addr..(Script[k].addr + Script[k].count - 1)
                                    \subseteq Registers

VARIABLES
  done,                        \* the calls that have returned
  drv, part, i,                \* the driver: where it is, which doit, its i
  buffer,                      \* what a read has stored
  stat, busy,                  \* the controller's status register
  con, cnt, active, tx, rx,    \* its transfer: bytes to go, whether it runs, fifos
  stuck,                       \* the chip or the bus holds the clock
  wire, pointer, file,         \* the chip: bytes since the start, its registers
  spoiled,                     \* counts Aborts
  trouble                      \* history: a call may not have done its work

driver == <<drv, part, i, buffer>>
transfer == <<con, cnt, active, tx, rx>>
chip == <<wire, pointer, file>>
bus == <<stuck, spoiled>>
busVars == <<done, driver, stat, busy, transfer, chip, bus, trouble>>

Call == Script[done + 1]
Parts == IF Call.op = "read" THEN <<"addr", "read">> ELSE <<"write">>
Con == Parts[part]
Message == IF Con = "write" THEN <<Call.addr, Call.v>> ELSE <<Call.addr>>
count == IF Con = "read" THEN Call.count ELSE Len(Message)

Transmits == con \in {"addr", "write"}
Refused == {"NACK", "AL"}
\* the controller waits for a byte of a transfer that the driver has left
Starved == \/ Transmits /\ tx = <<>> /\ "XRDY" \in stat
           \/ cnt = 0 /\ rx # <<>> /\ "RRDY" \in stat
Hopeless == stuck \/ ~active \/ Starved

-----------------------------------------------------------------------------
(* The driver.  A pass of its loop is one action: a bit that comes during   *)
(* the pass is seen in the next one.                                        *)

\* bus_i2c_read and bus_i2c_write, up to waitidle
StartCall == /\ drv = "none" /\ done < Len(Script)
             /\ drv' = "waitidle" /\ part' = 1 /\ i' = 0 /\ buffer' = <<>>
             /\ UNCHANGED <<done, stat, busy, transfer, chip, bus, trouble>>

\* a bus that stays busy is used all the same
waitidle == /\ drv = "waitidle" /\ (busy => Hopeless)
            /\ drv' = "redoreg"
            /\ trouble' = (trouble \/ busy)
            /\ UNCHANGED <<done, part, i, buffer, stat, busy, transfer, chip, bus>>

\* the stores in I2C_SA, I2C_CNT and I2C_CON: the controller sends a start
redoreg == /\ drv = "redoreg"
           /\ drv' = "loop" /\ i' = 0 /\ buffer' = <<>>
           /\ con' = Con /\ cnt' = count /\ active' = TRUE /\ busy' = TRUE
           /\ tx' = <<>> /\ rx' = <<>> /\ wire' = <<>>
           /\ UNCHANGED <<done, part, stat, pointer, file, bus, trouble>>

Polling == drv = "loop" /\ i < count
Ack(b) == stat' = stat \ {b}

\* the next doit of the call, or its return
Returns == IF part < Len(Parts)
           THEN drv' = "redoreg" /\ part' = part + 1 /\ UNCHANGED done
           ELSE drv' = "none" /\ part' = 1 /\ done' = done + 1

\* slip: a refused transfer is over
GiveUp == /\ Polling /\ stat \cap Refused # {}
          /\ Ack(IF "NACK" \in stat THEN "NACK" ELSE "AL")
          /\ Returns
          /\ UNCHANGED <<i, buffer, busy, transfer, chip, bus, trouble>>

\* a read that starts again does not send the register again: it goes on where
\* the chip has got to
Displaced == Con = "read" /\ pointer # Call.addr
Restart == /\ Polling /\ stat \cap Refused # {}
           /\ Ack(IF "NACK" \in stat THEN "NACK" ELSE "AL")
           /\ drv' = "redoreg"
           /\ trouble' = (trouble \/ Displaced)
           /\ UNCHANGED <<done, part, i, buffer, busy, transfer, chip, bus>>

\* a controller that is ready too early: neither progress nor a timeout
SkipReady == /\ Polling /\ stat \cap Refused = {} /\ "ARDY" \in stat
             /\ Ack("ARDY")
             /\ UNCHANGED <<done, driver, busy, transfer, chip, bus, trouble>>

SendByte == /\ Polling /\ stat \cap {"NACK", "AL", "ARDY"} = {} /\ "XRDY" \in stat
            /\ tx' = Append(tx, Message[i + 1])
            /\ i' = i + 1 /\ Ack("XRDY")
            /\ UNCHANGED <<done, drv, part, buffer, busy, con, cnt, active, rx, chip, bus, trouble>>

\* after a start that was repeated the bit may be set with an empty fifo
ReceiveByte == /\ Polling /\ stat \cap {"NACK", "AL", "ARDY", "XRDY"} = {} /\ "RRDY" \in stat
               /\ buffer' = Append(buffer, IF rx = <<>> THEN 0 ELSE Head(rx))
               /\ rx' = IF rx = <<>> THEN <<>> ELSE Tail(rx)
               /\ i' = i + 1 /\ Ack("RRDY")
               /\ UNCHANGED <<done, drv, part, busy, con, cnt, active, tx, chip, bus, trouble>>

ReceiveTimeout == /\ Polling /\ stat = {} /\ Hopeless
                  /\ Returns /\ trouble' = TRUE
                  /\ UNCHANGED <<i, buffer, stat, busy, transfer, chip, bus>>

LastByte == /\ drv = "loop" /\ i = count
            /\ drv' = "ardy"
            /\ UNCHANGED <<done, part, i, buffer, stat, busy, transfer, chip, bus, trouble>>

\* only ARDY is looked at: a refusal of the last byte is not noticed
Completed == /\ drv = "ardy" /\ "ARDY" \in stat
             /\ Ack("ARDY") /\ Returns
             /\ trouble' = (trouble \/ stat \cap Refused # {})
             /\ UNCHANGED <<i, buffer, busy, transfer, chip, bus>>
CompleteTimeout == /\ drv = "ardy" /\ "ARDY" \notin stat /\ Hopeless
                   /\ Returns /\ trouble' = TRUE
                   /\ UNCHANGED <<i, buffer, stat, busy, transfer, chip, bus>>

-----------------------------------------------------------------------------
(* The controller and the chip.                                             *)

ControllerGoes == active /\ ~stuck /\ UNCHANGED <<done, driver, trouble, bus>>

AskByte == /\ ControllerGoes /\ Transmits /\ cnt > Len(tx) /\ "XRDY" \notin stat
           /\ stat' = stat \cup {"XRDY"}
           /\ UNCHANGED <<transfer, busy, chip>>

\* the first byte of a message is the register, the second its value
Acknowledged == /\ ControllerGoes /\ Transmits /\ cnt > 0 /\ tx # <<>>
                /\ wire' = Append(wire, Head(tx)) /\ tx' = Tail(tx) /\ cnt' = cnt - 1
                /\ pointer' = wire'[1]
                /\ file' = IF Len(wire') = 2 /\ wire'[1] \in Registers
                           THEN [file EXCEPT ![wire'[1]] = wire'[2]] ELSE file
                /\ UNCHANGED <<con, active, rx, stat, busy>>

Arrives == /\ ControllerGoes /\ con = "read" /\ cnt > 0
           /\ rx' = Append(rx, file[pointer]) /\ cnt' = cnt - 1
           /\ pointer' = IF pointer + 1 \in Registers THEN pointer + 1 ELSE pointer
           /\ UNCHANGED <<con, active, tx, stat, busy, wire, file>>

OfferByte == /\ ControllerGoes /\ rx # <<>> /\ "RRDY" \notin stat
             /\ stat' = stat \cup {"RRDY"}
             /\ UNCHANGED <<transfer, busy, chip>>

\* the transfer is over when a read has been emptied; the address of a read
\* leaves the bus busy, as no stop is sent
Ready == /\ ControllerGoes /\ cnt = 0 /\ rx = <<>>
         /\ stat' = stat \cup {"ARDY"}
         /\ active' = FALSE
         /\ busy' = (con = "addr")
         /\ UNCHANGED <<con, cnt, tx, rx, chip>>

\* a byte is refused, or another master has the bus; ARDY may be set with it
Spoil(b, with) == /\ active /\ cnt > 0 /\ ~stuck /\ spoiled < Aborts
                  /\ stat' = (stat \ {"XRDY", "RRDY"}) \cup {b} \cup with
                  /\ active' = FALSE /\ cnt' = 0 /\ tx' = <<>> /\ rx' = <<>>
                  /\ busy' = FALSE
                  /\ spoiled' = spoiled + 1
                  /\ UNCHANGED <<done, driver, con, chip, stuck, trouble>>

\* the chip holds the clock for longer than the driver has patience
Stick == /\ active /\ ~stuck /\ spoiled < Aborts
         /\ stuck' = TRUE /\ spoiled' = spoiled + 1
         /\ UNCHANGED <<done, driver, stat, busy, transfer, chip, trouble>>
Unstick == /\ stuck /\ stuck' = FALSE
           /\ UNCHANGED <<done, driver, stat, busy, transfer, chip, spoiled, trouble>>

-----------------------------------------------------------------------------
BusInit == /\ done = 0 /\ drv = "none" /\ part = 1 /\ i = 0 /\ buffer = <<>>
           /\ stat = {} /\ busy = FALSE
           /\ con = "write" /\ cnt = 0 /\ active = FALSE /\ tx = <<>> /\ rx = <<>>
           /\ wire = <<>> /\ file = Before /\ pointer = Min(Registers)
           /\ stuck = FALSE /\ spoiled = 0 /\ trouble = FALSE

Driver == \/ waitidle \/ redoreg \/ Restart \/ SkipReady \/ SendByte \/ ReceiveByte
          \/ ReceiveTimeout \/ LastByte \/ Completed \/ CompleteTimeout
Works == AskByte \/ Acknowledged \/ Arrives \/ OfferByte \/ Ready \/ Unstick
Controller == \/ Works \/ Stick
              \/ \E b \in Refused, with \in SUBSET {"ARDY"} : Spoil(b, with)

-----------------------------------------------------------------------------
\* what is in register r after the first n calls
AfterCalls(r, n) ==
    LET writes == {k \in 1..n : Script[k].op = "write8" /\ Script[k].addr = r}
    IN IF writes = {} THEN Before[r] ELSE Script[Max(writes)].v

(* As long as no wait has timed out and no refusal of a last byte was       *)
(* missed, transfers that were refused or lost the bus and started again    *)
(* change nothing: between two calls the chip's registers are what the      *)
(* calls so far wrote, in their order, and a read has returned registers.   *)
CallsDoTheirWork ==
    ~trouble /\ drv = "none" =>
        /\ \A r \in Registers : file[r] = AfterCalls(r, done)
        /\ done > 0 /\ Script[done].op = "read" =>
             buffer = [k \in 1..Script[done].count |-> file[Script[done].addr + k - 1]]
=============================================================================
