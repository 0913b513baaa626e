------------------------------ MODULE NodeSeqs ------------------------------
(***************************************************************************)
(* The sequences of nodes that stand for the contents of exec lists         *)
(* (lib/lists.c), and what the list operations do to them.  ExecLists       *)
(* shows that the pointer code does this; IpcSignal is written with it.     *)
(***************************************************************************)
EXTENDS Integers, Sequences, Functions

Position(s, n) == CHOOSE i \in DOMAIN s : s[i] = n

DropAt(s, i) == [j \in 1..(Len(s) - 1) |-> IF j < i THEN s[j] ELSE s[j + 1]]

\* s after Remove(n), which leaves a list alone that n is not on
Without(s, n) == IF n \in Range(s) THEN DropAt(s, Position(s, n)) ELSE s

\* s after AddHead(n)
Push(s, n) == <<n>> \o s

\* the node a list's Head points to, or null where that is the list's own end
FirstOf(s, null) == IF s = <<>> THEN null ELSE s[1]
=============================================================================
