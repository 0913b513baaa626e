------------------------------- MODULE Waves -------------------------------
(***************************************************************************)
(* The sound of audio-beep: playnote's note, a sawtooth under an envelope,  *)
(* with the trace that showsample draws of it; and main's sawtooth, whose   *)
(* length sweeps up and down on one channel and then on the other.          *)
(* (How the words reach the audio chip is in AudioBeep.)                    *)
(***************************************************************************)
EXTENDS Integers, Sequences

CONSTANTS SRATE,    \* samples in a second: 48000
          WVLEN,    \* SRATE / 440; a run may take a shorter one
          TraceWidth, TraceEvery  \* WIDTH, and the samples of one column, 32

ASSUME WaveAssumption == SRATE \in Nat /\ SRATE >= 100 /\ WVLEN \in Nat \ {0}
ASSUME TraceAssumption == TraceWidth \in Nat \ {0} /\ TraceEvery \in Nat \ {0}

VARIABLES
  tone,   \* of playnote: its parameters wvlen and len
  note,   \* its locals i, j, ampstart, st, amp and v
  trace,  \* of showsample: x and div, and the row it draws in
  sweep   \* of main: i, phase, pdir, side and phaselen

waveVars == <<tone, note, trace, sweep>>

\* C's division
Quot(a, b) == IF a >= 0 THEN a \div b ELSE -((-a) \div b)

MAX_ == 32767
SUS == 26213
adsr == << [target |-> MAX_, time |-> SRATE \div 20], [target |-> SUS, time |-> SRATE \div 20],
           [target |-> SUS, time |-> SRATE \div 5], [target |-> 0, time |-> SRATE \div 50] >>

\* a3 to f3, and g2
ftable == << (SRATE * 10) \div 2200, (SRATE * 10) \div 2470, (SRATE * 10) \div 2616,
             (SRATE * 10) \div 2937, (SRATE * 10) \div 3296, (SRATE * 10) \div 3492,
             (SRATE * 10) \div 1960 >>

Duration(i) == IF i = 3 THEN (adsr[i].time * tone.len) \div 256 ELSE adsr[i].time
Amplitude(n) == Quot((adsr[n.i].target - n.ampstart) * n.j, Duration(n.i)) + n.ampstart
Saw(n) == Quot((n.st * 2 - tone.wvlen) * Amplitude(n), tone.wvlen)

-----------------------------------------------------------------------------
(* playnote and showsample                                                  *)

NoteInit(t) == /\ tone = t
               /\ note = [i |-> 1, j |-> 0, ampstart |-> 0, st |-> 0, amp |-> 0, v |-> 0]
               /\ trace = [x |-> 0, div |-> 0, row |-> 192]

Column(c) == IF c >= TraceWidth THEN 0 ELSE c

showsample(ds) == trace' = [row |-> Quot(-ds * 128, 32768) + 192,
                            div |-> (trace.div + 1) % TraceEvery,
                            x |-> IF trace.div + 1 = TraceEvery THEN Column(trace.x + 1)
                                  ELSE trace.x]

PlaySample == /\ note.j < Duration(note.i)
              /\ note' = [note EXCEPT !.amp = Amplitude(note), !.v = Saw(note),
                                      !.j = @ + 1, !.st = (@ + 1) % tone.wvlen]
              /\ showsample(Saw(note))
              /\ UNCHANGED <<tone, sweep>>

\* slip: every segment starts from silence
StartsSilent(n) == 0
StartsFrom(n) == adsr[n.i].target

\* after the last segment the next note, which starts from silence
NextSegment == /\ note.j >= Duration(note.i)
               /\ note' = IF note.i < Len(adsr)
                          THEN [note EXCEPT !.i = @ + 1, !.j = 0, !.ampstart = StartsFrom(note)]
                          ELSE [note EXCEPT !.i = 1, !.j = 0, !.ampstart = 0, !.st = 0]
               /\ UNCHANGED <<tone, trace, sweep>>

-----------------------------------------------------------------------------
(* main's loop                                                              *)

SweepInit == sweep = [i |-> 0, phase |-> 0, pdir |-> 1, side |-> 1, phaselen |-> 0]

\* the unsigned word that is sent on the side that sounds
SweepWord == IF sweep.i > sweep.phase THEN 0
             ELSE Quot((sweep.i * 2 - WVLEN) * 32767, WVLEN) + 32768

\* slip: at its ends the sweep is turned, but not taken back
TurnedOnly(s) == IF s.phase < 0 \/ s.phase >= WVLEN
                 THEN [s EXCEPT !.pdir = -@, !.side = IF s.pdir < 0 THEN -@ ELSE @]
                 ELSE s

Turned(s) == IF s.phase < 0 \/ s.phase >= WVLEN
             THEN [s EXCEPT !.pdir = -@, !.phase = @ - s.pdir,
                            !.side = IF s.pdir < 0 THEN -@ ELSE @]
             ELSE s

SweepSample ==
    /\ LET s == [sweep EXCEPT !.i = (@ + 1) % WVLEN, !.phaselen = @ + 1]
       IN sweep' = IF s.phaselen > WVLEN * 4
                   THEN Turned([s EXCEPT !.phaselen = 0, !.phase = @ + s.pdir])
                   ELSE s
    /\ UNCHANGED <<tone, note, trace>>

NoteNext == PlaySample \/ NextSegment

-----------------------------------------------------------------------------
(* A note has no clicks: from one sample to the next its amplitude never    *)
(* moves by more than the steepest slopes of the envelope, across segments  *)
(* and notes too; samples fit 16 bits and the trace stays on the screen.    *)
ToneSteady == [][/\ note'.amp - note.amp <= MAX_ \div adsr[1].time + 1
                 /\ note.amp - note'.amp <= SUS \div adsr[4].time + 1
                 /\ note'.v \in -MAX_..MAX_
                 /\ trace'.x \in 0..(TraceWidth - 1) /\ trace'.row \in 64..320]_waveVars

(* When the sweep changes to the other channel neither has a sound: it is   *)
(* at its shortest before and after.  It never leaves the wave, and its     *)
(* words fit 16 bits.                                                       *)
SweepSilent == [][/\ sweep'.side # sweep.side => sweep.phase = 0 /\ sweep'.phase = 0
                  /\ sweep'.phase \in 0..(WVLEN - 1)
                  /\ SweepWord \in 0..65535]_sweep
=============================================================================
