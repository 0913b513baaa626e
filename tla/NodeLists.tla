------------------------------ MODULE NodeLists ------------------------------
(***************************************************************************)
(* What lib/lists.h promises its clients: a list is a sequence of nodes,    *)
(* a node is on at most one list, and every operation acts on one           *)
(* sequence and leaves the others alone.                                    *)
(***************************************************************************)
EXTENDS NodeSeqs

CONSTANTS Nodes,   \* the nodes clients embed in their objects
          Lists,   \* the list headers
          NoNode   \* the null pointer

VARIABLES order,   \* order[l]: the nodes of l, head first
          ret      \* the node the last RemHead returned

absVars == <<order, ret>>

\* the client's side of the bargain: it adds only nodes that are on no list
Loose(n) == \A l \in Lists : n \notin Range(order[l])

Init == /\ order = [l \in Lists |-> <<>>]
        /\ ret = NoNode

NewList(l) == /\ order' = [order EXCEPT ![l] = <<>>]
              /\ ret' = ret

AddHead(l, n) == /\ Loose(n)
                 /\ order' = [order EXCEPT ![l] = Push(order[l], n)]
                 /\ ret' = ret

AddTail(l, n) == /\ Loose(n)
                 /\ order' = [order EXCEPT ![l] = Append(order[l], n)]
                 /\ ret' = ret

Remove(l, n) == /\ n \in Range(order[l])
                /\ order' = [order EXCEPT ![l] = Without(order[l], n)]
                /\ ret' = ret

RemHead(l) == /\ ret' = FirstOf(order[l], NoNode)
              /\ order' = [order EXCEPT ![l] = Without(order[l], ret')]

Next == \E l \in Lists :
           \/ NewList(l)
           \/ RemHead(l)
           \/ \E n \in Nodes : AddHead(l, n) \/ AddTail(l, n) \/ Remove(l, n)

Spec == Init /\ [][Next]_absVars
=============================================================================
