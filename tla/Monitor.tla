------------------------------ MODULE Monitor ------------------------------
(***************************************************************************)
(* lib/debugmon.c on lib/debug.c: the crash monitor reads a line, in which  *)
(* a backspace takes one character back, finds up to two numbers in it, and *)
(* shows that many words of memory from that address, eight to a line, each *)
(* line with its address in front.  The serial port is left out.            *)
(* Characters are their codes.                                              *)
(***************************************************************************)
EXTENDS Loops, Sequences

CONSTANTS WordDigits,  \* the hexadecimal digits of an unsigned int: 8
          LINE,        \* the length of cmd: 128
          Keys         \* bound: the characters that are typed in a line

ASSUME MonitorAssumption == /\ WordDigits \in Nat \ {0} /\ LINE \in Nat \ {0}
                            /\ Keys \subseteq (0..126) \ {10, 13}

VARIABLES
  cmd,      \* the characters before p, or the line when it has been read
  dump,     \* addr, mlen and i of the m command; the addresses shown are text
  typing,   \* the monitor is in dreadline
  meant     \* history: the line as corrected; a backspace has no effect on an empty one

monitorVars == <<cmd, dump, typing, meant>>

Word32 == Loop([v \in Nat |-> 16 * v], 1, WordDigits)
BS == 8
Space == 32
Zero == 48
\* 'm', 'x' and 'X'
Ordinary(c) == IF c \in 97..122 THEN c - 32 ELSE c
Signed(v) == IF v >= Word32 \div 2 THEN v - Word32 ELSE v

-----------------------------------------------------------------------------
(* Numbers                                                                  *)

Digit(r) == IF r >= 10 THEN r - 10 + 97 ELSE r + Zero

\* a round of ufmt's loop: the last digit of what is left goes in front
Divide(base) ==
    [at \in [q : Nat, p : Seq(Nat)] |->
        IF at.q = 0 /\ at.p # <<>> THEN at
        ELSE [q |-> at.q \div base, p |-> <<Digit(at.q % base)>> \o at.p]]

\* bound: in no base an unsigned int has more digits than bits
ufmt(v, base) == Loop(Divide(base), [q |-> v, p |-> <<>>], 4 * WordDigits).p

\* uprint and nprint
uprint(v, base, width, pad) ==
    LET s == ufmt(v, base)
        n == IF width > Len(s) THEN width - Len(s) ELSE 0
    IN [i \in 1..n |-> pad] \o s

\* everything from 'A' on is taken for a digit, whatever the base
IsDigit(c) == Ordinary(c) \in Zero..57 \/ Ordinary(c) >= 65
DigitOf(c) == IF Ordinary(c) \in Zero..57 THEN c - Zero ELSE Ordinary(c) - 55

Accumulated(v, base, c) == (v * base + c) % Word32

\* a round of dstrtoul's loop
Accumulate(s, base) ==
    [at \in [next : 1..(Len(s) + 1), value : 0..(Word32 - 1)] |->
        IF at.next > Len(s) \/ ~IsDigit(s[at.next]) THEN at
        ELSE [next |-> at.next + 1, value |-> Accumulated(at.value, base, DigitOf(s[at.next]))]]

\* the value of the digits from k on, and where they end
dstrtoul(s, k, base) == Loop(Accumulate(s, base), [next |-> k, value |-> 0], Len(s))

SkipSpace(s) ==
    [k \in 1..(Len(s) + 1) |-> IF k <= Len(s) /\ s[k] = Space THEN k + 1 ELSE k]

parsenum(s, k) ==
    LET n == Loop(SkipSpace(s), k, Len(s))
        hex == n < Len(s) /\ s[n] = Zero /\ s[n + 1] \in {88, 120}
    IN IF hex THEN dstrtoul(s, n + 2, 16) ELSE dstrtoul(s, n, 10)

-----------------------------------------------------------------------------
MonitorInit == /\ cmd = <<>> /\ meant = <<>> /\ typing = TRUE
               /\ dump = [addr |-> 0, mlen |-> 0, i |-> 0, text |-> <<>>]

Shorter(s) == SubSeq(s, 1, Len(s) - 1)

\* slip: a backspace is echoed, but p stays
KeptChar(c) == IF c = BS /\ cmd # <<>> THEN cmd ELSE Append(cmd, c)

\* at the start of the line a backspace is a character like any other
Stored(c) == IF c = BS /\ cmd # <<>> THEN Shorter(cmd) ELSE Append(cmd, c)

Type(c) == /\ typing /\ Len(cmd) < LINE - 1
           /\ cmd' = Stored(c)
           /\ meant' = IF c # BS THEN Append(meant, c)
                       ELSE IF meant = <<>> THEN <<>> ELSE Shorter(meant)
           /\ UNCHANGED <<dump, typing>>

\* Return, or no room for another character; any command but m shows nothing
Enter == /\ typing
         /\ typing' = FALSE
         /\ dump' = LET first == parsenum(cmd, 2)
                    IN IF cmd # <<>> /\ cmd[1] = 109
                       THEN [addr |-> first.value, i |-> 0, text |-> <<>>,
                             mlen |-> Signed(parsenum(cmd, first.next).value)]
                       ELSE [addr |-> 0, mlen |-> 0, i |-> 0, text |-> <<>>]
         /\ UNCHANGED <<cmd, meant>>

\* the address, and the words up to the next line; %08x is for 32 bits
ShowLine == /\ ~typing /\ dump.i < dump.mlen
            /\ dump' = [dump EXCEPT !.i = @ + 8, !.addr = (@ + 32) % Word32,
                          !.text = <<Zero, 120>> \o uprint(dump.addr, 16, WordDigits, Zero)]
            /\ UNCHANGED <<cmd, typing, meant>>

Prompt == /\ ~typing /\ dump.i >= dump.mlen
          /\ cmd' = <<>> /\ meant' = <<>> /\ typing' = TRUE
          /\ dump' = [addr |-> 0, mlen |-> 0, i |-> 0, text |-> <<>>]

MonitorNext == (\E c \in Keys : Type(c)) \/ Enter \/ ShowLine \/ Prompt

-----------------------------------------------------------------------------
\* what numbers mean: the digits of s from j to k
Meaning(s, j, k, base) ==
    LET v[i \in 0..(k - j + 1)] == IF i = 0 THEN 0 ELSE v[i - 1] * base + DigitOf(s[j + i - 1])
    IN  v[k - j + 1]

(* The address in front of a line of memory is the address of its first     *)
(* word, also when typed in again as it is shown, and as wide as all        *)
(* others.  The command that is obeyed is the line the user ended up with,  *)
(* however often they went back, unless they went back on an empty line;    *)
(* a number in it means what its digits say, as long as it fits a word.     *)
NumbersReadBack ==
    /\ dump.text # <<>> =>
         /\ (parsenum(dump.text, 1).value + 32) % Word32 = dump.addr
         /\ Len(dump.text) = 2 + WordDigits
    /\ Len(cmd) < LINE
    /\ ~typing /\ (cmd = <<>> \/ cmd[1] # BS) /\ dump.i = 0 =>
         /\ cmd = meant
         /\ \A k \in 2..Len(meant) :
              /\ meant[1] = 109
              /\ \A j \in 2..k : meant[j] \in Zero..57
              /\ k = Len(meant) \/ meant[k + 1] = Space
              => dump.addr = Meaning(meant, 2, k, 10) % Word32
=============================================================================
