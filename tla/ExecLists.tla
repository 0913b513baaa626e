------------------------------ MODULE ExecLists ------------------------------
(***************************************************************************)
(* lib/lists.c, the doubly linked "exec" lists every scheduler queue of     *)
(* puppybits is made of, at the level of the words it reads and writes.     *)
(*                                                                          *)
(* A header is three consecutive words, Head, Tail and TailPred, and the    *)
(* code overlays two nodes on them: &l->Head read as a node has Succ = Head *)
(* and Pred = Tail, and &l->Tail has Succ = Tail and Pred = TailPred.  So   *)
(* the word Tail is a field of both; it has to stay 0, because it is what   *)
(* ends a forward walk.                                                     *)
(*                                                                          *)
(* "order" is a history variable: the sequences the caller's operations     *)
(* ask for.  The code never reads it; it states the client protocol (a node *)
(* that is added is on no list, a node that is removed is on one).          *)
(***************************************************************************)
EXTENDS NodeSeqs, Loops, FiniteSets

CONSTANTS Nodes, Lists, NoNode

ASSUME NoNodeAssumption == NoNode \notin Nodes
ASSUME FiniteAssumption == IsFiniteSet(Nodes)

VARIABLES mem,     \* mem[a]: the address stored in the word at address a
          ret,     \* the node the last RemHead returned
          order

vars == <<mem, ret, order>>

-----------------------------------------------------------------------------
(* Addresses.  Each is the address of a word; a node's address is that of   *)
(* its Succ, a list's that of its Head.                                     *)

N(n) == <<"Succ", n>>
H(l) == <<"Head", l>>
T(l) == <<"Tail", l>>
TP(l) == <<"TailPred", l>>
Null == <<"Null", NoNode>>

Word == ({"Succ", "Pred"} \X Nodes) \cup ({"Head", "Tail", "TailPred"} \X Lists)

\* the word after a: where a->Pred is, for a node or a header read as a node
After(a) == <<CASE a[1] = "Succ" -> "Pred"
                [] a[1] = "Head" -> "Tail"
                [] OTHER         -> "TailPred", a[2]>>

Succ(m, a) == m[a]
Pred(m, a) == m[After(a)]
SetSucc(m, a, v) == [m EXCEPT ![a] = v]
SetPred(m, a, v) == [m EXCEPT ![After(a)] = v]

-----------------------------------------------------------------------------
(* What the functions of lists.c store, one store after the other.  The     *)
(* definitions marked "slip" are one-line slips in the same code; the       *)
(* specification does not use them, PROJECT.json says which property each   *)
(* one breaks.                                                              *)

\* slip: a header re-initialised for the forward direction only
HalfEmptied(m, l) == [m EXCEPT ![H(l)] = T(l), ![T(l)] = Null]

Emptied(m, l) == [m EXCEPT ![H(l)] = T(l), ![T(l)] = Null, ![TP(l)] = H(l)]

LinkedFirst(m, l, n) ==
    LET m1 == SetSucc(m, N(n), m[H(l)])
        m2 == SetPred(m1, N(n), H(l))
        m3 == SetPred(m2, m2[H(l)], N(n))
    IN  [m3 EXCEPT ![H(l)] = N(n)]

\* slip: TailPred stored before the old last node is reached through it
LinkedLastTooSoon(m, l, n) ==
    LET m1 == [SetPred(m, N(n), m[TP(l)]) EXCEPT ![TP(l)] = N(n)]
        m2 == SetSucc(m1, N(n), T(l))
    IN  SetSucc(m2, m2[TP(l)], N(n))

LinkedLast(m, l, n) ==
    LET m1 == SetPred(m, N(n), m[TP(l)])
        m2 == SetSucc(m1, N(n), T(l))
        m3 == SetSucc(m2, m2[TP(l)], N(n))
    IN  [m3 EXCEPT ![TP(l)] = N(n)]

\* slip: only the forward chain is closed over the removed node
UnlinkedForward(m, n) == SetSucc(m, Pred(m, N(n)), Succ(m, N(n)))

Unlinked(m, n) ==
    LET m1 == SetSucc(m, Pred(m, N(n)), Succ(m, N(n)))
    IN  SetPred(m1, Succ(m1, N(n)), Pred(m1, N(n)))

UnlinkedFirst(m, l) ==
    LET n  == m[H(l)]
        m1 == SetPred(m, Succ(m, n), H(l))
    IN  [m1 EXCEPT ![H(l)] = Succ(m1, n)]

\* slip: Head is compared with 0, which it never is, instead of its Succ
HeadNotNull(m, l) == m[H(l)] # Null

HasNode(m, l) == Succ(m, m[H(l)]) # Null

EmptyList(l) == mem[TP(l)] = H(l)

-----------------------------------------------------------------------------
(* The operations, under the client protocol.                               *)

Loose(n) == \A l \in Lists : n \notin Range(order[l])

NewList(l) == /\ mem' = Emptied(mem, l)
              /\ order' = [order EXCEPT ![l] = <<>>]
              /\ UNCHANGED ret

AddHead(l, n) == /\ Loose(n)
                 /\ mem' = LinkedFirst(mem, l, n)
                 /\ order' = [order EXCEPT ![l] = Push(order[l], n)]
                 /\ UNCHANGED ret

AddTail(l, n) == /\ Loose(n)
                 /\ mem' = LinkedLast(mem, l, n)
                 /\ order' = [order EXCEPT ![l] = Append(order[l], n)]
                 /\ UNCHANGED ret

\* Remove is not told the list: it follows the node's own pointers
Remove(l, n) == /\ n \in Range(order[l])
                /\ mem' = Unlinked(mem, n)
                /\ order' = [order EXCEPT ![l] = Without(order[l], n)]
                /\ UNCHANGED ret

RemHead(l) ==
    IF HasNode(mem, l)
    THEN /\ ret' = mem[H(l)][2]
         /\ mem' = UnlinkedFirst(mem, l)
         /\ order' = [order EXCEPT ![l] = Without(order[l], ret')]
    ELSE /\ ret' = NoNode
         /\ UNCHANGED <<mem, order>>

-----------------------------------------------------------------------------
Init == /\ mem = [w \in Word |-> CASE w[1] = "Head"     -> T(w[2])
                                   [] w[1] = "TailPred" -> H(w[2])
                                   [] OTHER             -> Null]
        /\ ret = NoNode
        /\ order = [l \in Lists |-> <<>>]

Next == \/ \E l \in Lists : NewList(l) \/ RemHead(l)
        \/ \E l \in Lists, n \in Nodes : AddHead(l, n) \/ AddTail(l, n) \/ Remove(l, n)

Spec == Init /\ [][Next]_vars

-----------------------------------------------------------------------------
(* Every word holds an address, every queue a sequence of nodes.            *)
TypeOK == /\ mem \in [Word -> Word \cup {Null}]
          /\ ret \in Nodes \cup {NoNode}
          /\ order \in [Lists -> Seq(Nodes)]

\* the address of the i-th node of a list l with the nodes s, its header's
\* overlays at either end
Place(l, s, i) == IF i = 0 THEN H(l)
                  ELSE IF i = Len(s) + 1 THEN T(l) ELSE N(s[i])

Chain(m, l, s) ==
    /\ m[T(l)] = Null
    /\ \A i \in 0..Len(s) : /\ m[Place(l, s, i)] = Place(l, s, i + 1)
                            /\ Pred(m, Place(l, s, i + 1)) = Place(l, s, i)

Linked(l) == Chain(mem, l, order[l])

OneListEach == /\ \A l \in Lists : IsInjective(order[l])
               /\ \A k, l \in Lists : k # l => Range(order[k]) \cap Range(order[l]) = {}

(* Both chains of every list run through exactly the nodes the caller put   *)
(* there, in order, whatever sequence of operations and of moves between    *)
(* lists came before, and no header's shared Tail word is ever overwritten. *)
ChainsIntact == /\ TypeOK /\ OneListEach
                /\ \A l \in Lists : Linked(l)

(* The loop of ipc-signal.c's findTask, from Head until a Succ is null,     *)
(* visits just those nodes: it neither misses one nor runs off the list.    *)
Visit == [at \in [a : Word \cup {Null}, seen : Seq(Nodes \cup Lists)] |->
             IF at.a = Null \/ Succ(mem, at.a) = Null THEN at
             ELSE [a |-> Succ(mem, at.a), seen |-> Append(at.seen, at.a[2])]]

\* bound: a round more than there are nodes
Walk(l) == Loop(Visit, [a |-> mem[H(l)], seen |-> <<>>], Cardinality(Nodes) + 1).seen

WalkVisitsAll == \A l \in Lists : Walk(l) = order[l]

(* EmptyList looks at TailPred alone and RemHead at the Succ of the node    *)
(* Head points to: both tell exactly whether there is a node to take.       *)
EmptyListAgrees == \A l \in Lists : /\ EmptyList(l) <=> order[l] = <<>>
                                    /\ HasNode(mem, l) <=> order[l] # <<>>

(* The pointer code does what lists.h promises: every call acts on its own  *)
(* list's sequence, and RemHead returns the node that was first.            *)
L == INSTANCE NodeLists
ImplementsLists == L!Spec
=============================================================================
