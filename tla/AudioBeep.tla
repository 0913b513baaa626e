----------------------------- MODULE AudioBeep -----------------------------
(***************************************************************************)
(* audio-beep: sets up the serial port (mcbsp2) and, over the i2c bus, the  *)
(* audio chip that clocks it; plays a tune; then sends a wave for ever.     *)
(* Both directions are polled: words of the left and the right channel go   *)
(* alternately through one fifo, and the chip takes one in each slot.       *)
(*                                                                          *)
(* What the words are is in Waves; here they are tagged with their channel. *)
(***************************************************************************)
EXTENDS I2cBus

CONSTANTS TxFifo, RxFifo,   \* the words the port's fifos hold
          Tune,             \* how many samples the tune has
          Dump              \* how many registers dump_audio reads, 128 in the code

ASSUME PortAssumption == TxFifo \in Nat \ {0} /\ RxFifo \in Nat /\ RxFifo > 2
ASSUME TuneAssumption == Tune \in Nat \ {0} /\ Dump \in Nat \ {0}

VARIABLES
  pc,       \* main: the call it is in, or the channel it waits to send to
  played,   \* samples of the tune
  xrst,     \* the transmitter is out of reset
  fifo,     \* the words to be sent
  slot,     \* whose turn it is on the line
  rxwords,  \* how many words were received and not read
  paused,   \* the chip has stopped its clock though it is set up
  odd       \* history: an odd number of slots and words were lost

port == <<xrst, fifo, slot, rxwords, odd>>
vars == <<busVars, pc, played, port, paused>>

-----------------------------------------------------------------------------
(* setup_audio and dump_audio                                               *)

\* of the values that are written: powered down, powered up, clock master
Off == 0
On == 1
Master == 2
aregw(r, val) == [op |-> "write8", addr |-> r, v |-> val]

AV_CODEC_MODE == 1
AV_AUDIO_IF == 14

\* option, rx path and pll; the dac and its outputs; gains
Routes == << aregw(2, 3), aregw(67, 4), aregw(58, 5), aregw(23, 6),
             aregw(27, 7), aregw(28, 7), aregw(34, 8), aregw(19, 9), aregw(18, 9),
             aregw(35, 10) >>
\* boost and anti-pop; transmit gains, the adc and its inputs
Levels == << aregw(46, 0), aregw(36, 11), aregw(10, 0), aregw(11, 0),
             aregw(7, 12), aregw(8, 0), aregw(5, 13), aregw(6, 14), aregw(72, 0) >>

\* slip: the chip is left as the program before had it while it is set up
setup_audio_running == Routes \o << aregw(AV_AUDIO_IF, Master) >> \o Levels
                       \o << aregw(AV_CODEC_MODE, Off), aregw(AV_CODEC_MODE, On) >>

\* slip: the last write, that powers it up, is forgotten
setup_audio_unpowered == << aregw(AV_CODEC_MODE, Off), aregw(AV_CODEC_MODE, Off) >>
                         \o Routes \o << aregw(AV_AUDIO_IF, Master) >> \o Levels
                         \o << aregw(AV_CODEC_MODE, Off) >>

setup_audio == << aregw(AV_CODEC_MODE, Off), aregw(AV_CODEC_MODE, Off) >>
               \o Routes \o << aregw(AV_AUDIO_IF, Master) >> \o Levels
               \o << aregw(AV_CODEC_MODE, Off), aregw(AV_CODEC_MODE, On) >>

dump_audio == << [op |-> "read", addr |-> 0, count |-> Dump] >>

ChipRegisters == {c.addr : c \in ToSet(setup_audio)} \cup 0..Dump

\* a chip that is on, but does not make the clock
LeftOn == [r \in ChipRegisters |-> IF r = AV_CODEC_MODE THEN On ELSE 99]

ASSUME ProgramAssumption == Script = setup_audio \o dump_audio

-----------------------------------------------------------------------------
(* The port and the chip at its other end.                                  *)

Clock == file[AV_CODEC_MODE] = On /\ file[AV_AUDIO_IF] = Master /\ ~paused
XRDY == xrst /\ Len(fifo) < TxFifo

\* slip: the receive threshold is left at its reset value
RRDYatOne == rxwords > 0
\* THRSH1 is 2: more words than that
RRDY == rxwords > 2

Other(s) == IF s = "left" THEN "right" ELSE "left"

\* one word each way; a transmitter that has run dry sends the last word again
Slot == /\ Clock
        /\ rxwords' = Min({rxwords + 1, RxFifo})
        /\ IF xrst
           THEN /\ slot' = Other(slot)
                /\ fifo' = IF fifo = <<>> THEN <<>> ELSE Tail(fifo)
                /\ odd' = (odd # (fifo = <<>>))
           ELSE UNCHANGED <<slot, fifo, odd>>
        /\ UNCHANGED <<busVars, pc, played, xrst, paused>>

Pause == /\ ~paused /\ spoiled < Aborts /\ pc \notin {"mcbsp", "audio"}
         /\ paused' = TRUE /\ spoiled' = spoiled + 1
         /\ UNCHANGED <<done, driver, stat, busy, transfer, chip, stuck, trouble, pc, played, port>>
Resume == /\ paused /\ paused' = FALSE
          /\ UNCHANGED <<busVars, pc, played, port>>

-----------------------------------------------------------------------------
(* main                                                                     *)

setup_mcbsp2 == /\ pc = "mcbsp"
                /\ pc' = "audio"
                /\ xrst' = TRUE /\ fifo' = <<>> /\ slot' = "left" /\ odd' = FALSE
                /\ rxwords' = 0
                /\ UNCHANGED <<busVars, played, paused>>

Calling == /\ pc = "audio" /\ (StartCall \/ Driver)
           /\ UNCHANGED <<pc, played, port, paused>>
SetUp == /\ pc = "audio" /\ drv = "none" /\ done = Len(Script)
         /\ pc' = "tune_left"
         /\ UNCHANGED <<busVars, played, port, paused>>

\* slip: the second word is stored without looking whether there is room
ReadyUnasked(here) == here = "tune_right" \/ XRDY

HasRoom(here) == XRDY

\* a store in DXR; a full fifo loses it
Send(here, side, to) ==
    /\ pc = here /\ HasRoom(here)
    /\ fifo' = IF Len(fifo) < TxFifo THEN Append(fifo, side) ELSE fifo
    /\ pc' = to
    /\ UNCHANGED <<busVars, xrst, slot, rxwords, paused, odd>>

\* playmary and playnote: a sample, with no limit on the two waits
playnote == \/ Send("tune_left", "left", "tune_right") /\ UNCHANGED played
            \/ /\ Send("tune_right", "right", IF played + 1 = Tune THEN "rx" ELSE "tune_left")
               /\ played' = played + 1

ReadFirst == /\ pc = "rx" /\ RRDY
             /\ rxwords' = rxwords - 1 /\ pc' = "rx_second"
             /\ UNCHANGED <<busVars, played, xrst, fifo, slot, odd, paused>>
ReadSecond == /\ pc = "rx_second"
              /\ rxwords' = rxwords - 1 /\ pc' = "rx"
              /\ UNCHANGED <<busVars, played, xrst, fifo, slot, odd, paused>>
ReadAll == /\ pc = "rx" /\ ~RRDY
           /\ pc' = "left"
           /\ UNCHANGED <<busVars, played, port, paused>>

SendLeft == Send("left", "left", "right") /\ UNCHANGED played
SendRight == Send("right", "right", "rx") /\ UNCHANGED played

\* the port has not been ready for a million polls
TxTimeout == /\ pc \in {"left", "right"} /\ xrst /\ ~XRDY /\ ~Clock
             /\ xrst' = FALSE /\ fifo' = <<>>
             /\ UNCHANGED <<busVars, pc, played, slot, rxwords, odd, paused>>

\* slip: the bit that was cleared is not set again
BackToWork == FALSE

OutOfReset == TRUE

\* the next word goes into the first slot of a frame, whichever word it is
TxRestart == /\ pc \in {"left", "right"} /\ ~xrst
             /\ xrst' = OutOfReset
             /\ slot' = "left" /\ odd' = (pc = "right")
             /\ UNCHANGED <<busVars, pc, played, fifo, rxwords, paused>>

-----------------------------------------------------------------------------
Init == /\ BusInit
        /\ pc = "mcbsp" /\ played = 0
        /\ xrst = FALSE /\ fifo = <<>> /\ slot = "left" /\ rxwords = 0
        /\ paused = FALSE /\ odd = FALSE

Main == \/ setup_mcbsp2 \/ Calling \/ SetUp \/ playnote
        \/ ReadFirst \/ ReadSecond \/ ReadAll
        \/ SendLeft \/ SendRight \/ TxTimeout \/ TxRestart
BusWorks == Works /\ UNCHANGED <<pc, played, port, paused>>
BusSpoils == /\ \/ Stick
                \/ \E b \in Refused, with \in SUBSET {"ARDY"} : Spoil(b, with)
             /\ UNCHANGED <<pc, played, port, paused>>

Next == Main \/ BusWorks \/ BusSpoils \/ Slot \/ Pause \/ Resume

Spec == Init /\ [][Next]_vars

\* nothing interrupts main; the bus works unless it is stuck, and neither that
\* nor a pause of the clock lasts for ever
FairSpec == Spec /\ WF_vars(Main) /\ WF_vars(BusWorks) /\ WF_vars(Slot) /\ WF_vars(Resume)

-----------------------------------------------------------------------------
(* The chip is configured while it is powered down, as setup_audio means    *)
(* to, also when transfers have to be started again.                        *)
ConfiguredWhileOff ==
    [][~trouble' => \A r \in Registers \ {AV_CODEC_MODE} :
                       file'[r] # file[r] => file[AV_CODEC_MODE] = Off]_vars

\* the channel of the next word on the line
NextWord == IF fifo # <<>> THEN Head(fifo)
            ELSE IF pc \in {"right", "tune_right"} THEN "right" ELSE "left"

(* The words alternate, and only slots without a word and a restart of the  *)
(* port between the two words of a sample shift them against the slots: an  *)
(* odd number of these swaps left and right, an even number does not.       *)
ChannelsKept == xrst => (NextWord = slot <=> ~odd)

(* The two reads of a received sample never find the fifo empty.            *)
ReadsReceived == rxwords >= 0

(* If the i2c calls did their work the tune is played to its end and the    *)
(* wave begins.                                                             *)
TunePlayed == [](~trouble) => <>(pc = "rx")

(* Whatever happens to the clock, a sample of the wave that main has turned  *)
(* to is sent in the end: the port is restarted until it takes both words.   *)
WaveGoesOn == (pc = "left") ~> (pc = "rx")
=============================================================================
