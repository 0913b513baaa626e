------------------------------- MODULE AvlTree -------------------------------
(***************************************************************************)
(* lib/avl.c: a binary search tree threaded by parent pointers, with the    *)
(* balance factor kept in the three low bits of the parent word.            *)
(*                                                                          *)
(* A factor of -1 is stored as 7 and -2 as 6, and getBalance returns the    *)
(* stored bits: the comparisons of the code with -1 and -2 are never true.  *)
(* The model compares what the code compares.  The two mirror images of     *)
(* each rotation are one definition with the side d as a parameter.         *)
(***************************************************************************)
EXTENDS Loops, Sequences, FiniteSets

CONSTANTS Nodes,   \* the nodes of the client
          Key      \* Key[n]: what cmpnode and cmpkey compare

ASSUME NodesAssumption == /\ Nodes \subseteq Nat \ {0} /\ IsFiniteSet(Nodes)
                          /\ Key \in [Nodes -> Int]

Null == 0
Tree == -1         \* "tree" cast to a node: its Link[0] is the root

Keys == {Key[n] : n \in Nodes}

\* bound: a loop up or down a tree has at most one round for each node
Deepest == Cardinality(Nodes)

VARIABLES m,       \* the tree in memory
          members  \* history: the nodes the client has put in and not taken out

vars == <<m, members>>

Empty == [link |-> [n \in Nodes \cup {Tree} |-> [d \in {0, 1} |-> Null]],
          par  |-> [n \in Nodes |-> Null],
          bal  |-> [n \in Nodes |-> 0],
          fault |-> FALSE]        \* a null pointer has been used

Trees == [link  : [Nodes \cup {Tree} -> [{0, 1} -> Nodes \cup {Null}]],
          par   : [Nodes -> Nodes \cup {Null}],
          bal   : [Nodes -> 0..7],
          fault : BOOLEAN]

-----------------------------------------------------------------------------
(* The accessors at the top of avl.c.  Definitions marked "slip" are        *)
(* one-line slips in the same code, used only to test the properties.       *)

Link(t, n, d) == t.link[n][d]
Parent(t, n) == t.par[n]
setLink(t, n, d, v) == [t EXCEPT !.link[n][d] = v]
setBoth(t, n, p, b) == [t EXCEPT !.par[n] = p, !.bal[n] = b % 8]

addBalance(t, n, s) == [t EXCEPT !.bal[n] = (@ + s) % 8]

\* slip: the child that changes parent keeps pointing to the old one
adoptNot(t, n, p) == t

\* if (n != NULL) setParent(n, p)
adopt(t, n, p) == IF n = Null THEN t ELSE [t EXCEPT !.par[n] = p]

\* a node that left the tree is the client's again; AVL_Insert and AVL_Move
\* write all its fields before they are read, so the model forgets them
Forget(t, n) == [t EXCEPT !.link[n] = Empty.link[n], !.par[n] = Null, !.bal[n] = 0]

Fault(t) == [t EXCEPT !.fault = TRUE]

Sign(d) == IF d = 1 THEN 1 ELSE -1
Side(k, n) == IF k > Key[n] THEN 1 ELSE 0
SideOf(t, q, n) == IF Link(t, q, 0) = n THEN 0 ELSE 1

-----------------------------------------------------------------------------
(* Finding.                                                                 *)

\* where a search is: the node with key k or null, the last node before it, the
\* side taken there, and the last unbalanced node on the way
Places == [p : Nodes \cup {Null}, q : Nodes \cup {Null}, dir : {0, 1},
           y : Nodes \cup {Null}]

\* the descent all searches share
Descend(t, k) ==
    [at \in Places |->
        IF at.p = Null \/ Key[at.p] = k THEN at
        ELSE LET d == Side(k, at.p)
             IN  [p |-> Link(t, at.p, d), q |-> at.p, dir |-> d,
                  y |-> IF t.bal[at.p] # 0 THEN at.p ELSE at.y]]

Search(t, k) ==
    LET root == Link(t, Tree, 0)
    IN  Loop(Descend(t, k), [p |-> root, q |-> Null, dir |-> 0, y |-> root], Deepest)

AVL_Find(t, k) == Search(t, k).p

Outward(t, d) == [n \in Nodes |-> IF Link(t, n, d) = Null THEN n ELSE Link(t, n, d)]

Outermost(t, n, d) == IF n = Null THEN Null ELSE Loop(Outward(t, d), n, Deepest)

AVL_First(t) == Outermost(t, Link(t, Tree, 0), 0)
AVL_Last(t) == Outermost(t, Link(t, Tree, 0), 1)

\* n and its parent q, as long as n is the child on side d
Upward(t, d) ==
    [at \in [n : Nodes, q : Nodes \cup {Null}] |->
        IF at.q = Null \/ at.n = Link(t, at.q, 1 - d) THEN at
        ELSE [n |-> at.q, q |-> Parent(t, at.q)]]

Climb(t, n, d) == Loop(Upward(t, d), [n |-> n, q |-> Parent(t, n)], Deepest).q

Neighbour(t, n, d) == IF Link(t, n, d) = Null THEN Climb(t, n, d)
                      ELSE Outermost(t, Link(t, n, d), 1 - d)

AVL_Next(t, n) == Neighbour(t, n, 1)
AVL_Prev(t, n) == Neighbour(t, n, 0)

\* slip: the last node of the descent, whichever side it went
NearestUnchecked(t, k, d) ==
    LET s == Search(t, k) IN IF s.p # Null THEN s.p ELSE s.q

\* the node with key k, or else its neighbour on side d
Nearest(t, k, d) ==
    LET s == Search(t, k)
    IN  IF s.p # Null \/ s.q = Null THEN s.p
        ELSE IF s.dir # d THEN s.q ELSE Neighbour(t, s.q, d)

AVL_FindNext(t, k) == Nearest(t, k, 1)
AVL_FindPrev(t, k) == Nearest(t, k, 0)

-----------------------------------------------------------------------------
(* Rotations of the subtree at y, whose side d is too high.  Each returns   *)
(* the tree with w in the place of y, still to be linked to y's parent.     *)

SingleRotation(t, y, d, bx, by) ==
    LET x  == Link(t, y, d)
        t1 == setLink(setLink(t, y, d, Link(t, x, 1 - d)), x, 1 - d, y)
        t2 == setBoth(setBoth(t1, x, Parent(t, y), bx), y, x, by)
    IN  [t |-> adopt(t2, Link(t2, y, d), y), w |-> x]

DoubleRotation(t, y, d) ==
    LET x  == Link(t, y, d)
        w  == Link(t, x, 1 - d)
        s  == Sign(d)
        t1 == setLink(setLink(t, x, 1 - d, Link(t, w, d)), w, d, x)
        t2 == setLink(setLink(t1, y, d, Link(t1, w, 1 - d)), w, 1 - d, y)
        b  == t.bal[w]
        t3 == setBoth(t2, x, w, IF b = s \/ b = 0 THEN 0 ELSE s)
        t4 == setBoth(t3, y, w, IF b = s THEN -s ELSE 0)
        t5 == setBoth(t4, w, Parent(t, y), 0)
        t6 == adopt(t5, Link(t5, x, 1 - d), x)
    IN  IF w = Null THEN [t |-> Fault(t), w |-> y]
        ELSE [t |-> adopt(t6, Link(t6, y, d), y), w |-> w]

-----------------------------------------------------------------------------
(* AVL_Insert, which returns a node of the same key and does nothing else   *)
(* where there is one.                                                      *)

\* the factors from n's parent up to y
Weigh(y) ==
    [at \in [t : Trees, p : Nodes] |->
        LET q == Parent(at.t, at.p)
        IN  CASE at.p = y             -> at
              [] at.p # y /\ q = Null -> [at EXCEPT !.t = Fault(at.t)]
              [] OTHER -> [t |-> addBalance(at.t, q, Sign(SideOf(at.t, q, at.p))), p |-> q]]

Reweigh(t, n, y) == Loop(Weigh(y), [t |-> t, p |-> n], Deepest).t

Place(t, w, y) ==
    LET p == Parent(t, w)
    IN  IF p = Null THEN setLink(t, Tree, 0, w)
        ELSE setLink(t, p, SideOf(t, p, y), w)

Rebalanced(t, y) ==
    LET heavy == {d \in {0, 1} : t.bal[y] = 2 * Sign(d)}
        d == CHOOSE d \in heavy : TRUE
        x == Link(t, y, d)
        r == IF t.bal[x] = Sign(d) THEN SingleRotation(t, y, d, 0, 0)
             ELSE DoubleRotation(t, y, d)
    IN  IF heavy = {} THEN t
        ELSE IF x = Null THEN Fault(t)
        ELSE IF r.t.fault THEN r.t ELSE Place(r.t, r.w, y)

Inserted(t, n, s) ==
    LET t1 == setBoth(setLink(setLink(t, n, 0, Null), n, 1, Null), n, s.q, 0)
    IN  IF s.q = Null THEN setLink(t1, Tree, 0, n)
        ELSE Rebalanced(Reweigh(setLink(t1, s.q, s.dir, n), n, s.y), s.y)

AVL_Insert(n) ==
    LET s == Search(m, Key[n])
    IN  /\ n \notin members
        /\ s.p = Null
        /\ m' = Inserted(m, n, s)
        /\ members' = members \cup {n}

-----------------------------------------------------------------------------
(* AVL_Move and the second half of AVL_Replace: item takes p's place.       *)

Moved(t, p, item) ==
    LET a  == Parent(t, p)
        t1 == [t EXCEPT !.link[item] = t.link[p],
                        !.par[item] = t.par[p], !.bal[item] = t.bal[p]]
        t2 == IF a = Null THEN Fault(t1) ELSE setLink(t1, a, SideOf(t1, a, p), item)
    IN  Forget(adopt(adopt(t2, Link(t, p, 0), item), Link(t, p, 1), item), p)

AVL_Move(p, item) ==
    /\ p \in members /\ item \notin members /\ Key[item] = Key[p]
    /\ m' = Moved(m, p, item)
    /\ members' = (members \ {p}) \cup {item}

AVL_Replace(item) ==
    LET s == Search(m, Key[item])
    IN  /\ item \notin members
        /\ m' = IF s.p = Null THEN Inserted(m, item, s) ELSE Moved(m, s.p, item)
        /\ members' = (members \ {s.p}) \cup {item}

-----------------------------------------------------------------------------
(* AVL_Remove.                                                              *)

\* unlink p from side dir of q; the lowest node one of whose sides got lower
Unlinked(t, p) ==
    LET pq  == Parent(t, p)
        q   == IF pq = Null THEN Tree ELSE pq
        dir == IF pq = Null THEN 0 ELSE SideOf(t, q, p)
        r   == Link(t, p, 1)
        s   == Outermost(t, r, 0)
        rs  == Parent(t, s)
        Inherit(u, n) == [u EXCEPT !.par[n] = t.par[p], !.bal[n] = t.bal[p]]
        tNone  == setLink(t, q, dir, Link(t, p, 0))
        tRight == setLink(setLink(t, r, 0, Link(t, p, 0)), q, dir, r)
        tDeep1 == setLink(t, rs, 0, Link(t, s, 1))
        tDeep2 == setLink(setLink(tDeep1, s, 0, Link(t, p, 0)), s, 1, Link(tDeep1, p, 1))
        tDeep3 == adopt(adopt(setLink(tDeep2, q, dir, s), Link(t, p, 0), s), Link(tDeep2, s, 1), s)
    IN  CASE r = Null -> [t |-> adopt(tNone, Link(t, p, 0), pq), q |-> q, dir |-> dir]
          [] r # Null /\ s = r ->
                [t |-> Inherit(adopt(tRight, Link(t, p, 0), r), r), q |-> r, dir |-> 1]
          [] OTHER -> [t |-> Inherit(adopt(tDeep3, Link(tDeep3, rs, 0), rs), s), q |-> rs, dir |-> 0]

\* rotate y, whose side d has become too high, back under q
Relieved(t, y, d, q, dir) ==
    LET x == Link(t, y, d)
        s == Sign(d)
        r == CASE t.bal[x] = -s -> DoubleRotation(t, y, d)
               [] t.bal[x] = 0  -> SingleRotation(t, y, d, -s, s)
               [] OTHER         -> SingleRotation(t, y, d, 0, 0)
    IN  IF x = Null THEN [t |-> Fault(t), done |-> TRUE]
        ELSE [t |-> IF r.t.fault THEN r.t ELSE setLink(r.t, q, dir, r.w),
              done |-> r.t.fault \/ t.bal[x] = 0]

\* a round of the loop: side dir of y has got lower by one
Lower(t, y, dir) ==
    LET q   == IF Parent(t, y) = Null THEN Tree ELSE Parent(t, y)
        up  == SideOf(t, q, y)
        d   == 1 - dir
        t1  == addBalance(t, y, Sign(d))
        r   == Relieved(t1, y, d, q, up)
    IN  CASE t1.bal[y] = Sign(d)     -> [t |-> t1, y |-> y, dir |-> dir, done |-> TRUE]
          [] t1.bal[y] = 2 * Sign(d) -> [t |-> r.t, y |-> q, dir |-> up, done |-> r.done]
          [] OTHER                   -> [t |-> t1, y |-> q, dir |-> up, done |-> FALSE]

Rise == [at \in [t : Trees, y : Nodes \cup {Tree}, dir : {0, 1}, done : BOOLEAN] |->
            IF at.done \/ at.y = Tree THEN at ELSE Lower(at.t, at.y, at.dir)]

Lowered(t, q, dir) ==
    Loop(Rise, [t |-> t, y |-> q, dir |-> dir, done |-> FALSE], Deepest).t

AVL_Remove(p) ==
    LET u == Unlinked(m, p)
    IN  /\ p \in members
        /\ m' = Forget(Lowered(u.t, u.q, u.dir), p)
        /\ members' = members \ {p}

-----------------------------------------------------------------------------
Init == m = Empty /\ members = {}

Next == /\ ~m.fault
        /\ \E n \in Nodes : AVL_Insert(n) \/ AVL_Remove(n)

\* ... with the two operations that put another node in a node's place
FullNext == \/ Next
            \/ /\ ~m.fault
               /\ \E n \in Nodes : AVL_Replace(n) \/ \E p \in Nodes : AVL_Move(p, n)

Spec == Init /\ [][Next]_vars
FullSpec == Init /\ [][FullNext]_vars

-----------------------------------------------------------------------------
(* Every field holds a node, null or a three-bit factor.                    *)
TypeOK == m \in Trees /\ members \subseteq Nodes

\* s[n] is the subtree at n in order, down to some level: one level more
Expand(t) ==
    [s \in [Nodes \cup {Null} -> Seq(Nodes)] |->
        [n \in Nodes \cup {Null} |->
            IF n = Null THEN <<>> ELSE s[Link(t, n, 0)] \o <<n>> \o s[Link(t, n, 1)]]]

\* the nodes of a tree in order
InOrder(t) == Loop(Expand(t), [n \in Nodes \cup {Null} |-> <<>>], Deepest)[Link(t, Tree, 0)]

Height(n) ==
    LET h[p \in Nodes \cup {Null}, k \in 0..Deepest] ==
            IF p = Null \/ k = 0 THEN 0
            ELSE LET l == h[Link(m, p, 0), k - 1]  r == h[Link(m, p, 1), k - 1]
                 IN  1 + IF l > r THEN l ELSE r
    IN  h[n, Deepest]

(* As long as no null pointer has been used, and whatever the rotations     *)
(* did, the tree holds the client's nodes, each once, in key order, and     *)
(* every parent word points back to the link above it.                      *)
SearchTree ==
    /\ TypeOK
    /\ ~m.fault =>
         /\ LET s == InOrder(m)
            IN  /\ {s[i] : i \in DOMAIN s} = members
                /\ \A i, j \in DOMAIN s : i < j => Key[s[i]] < Key[s[j]]
         /\ \A n \in members : IF Parent(m, n) = Null THEN Link(m, Tree, 0) = n
                               ELSE \E d \in {0, 1} : Link(m, Parent(m, n), d) = n

\* the members with a key of K, the least (d = 1) or greatest (d = 0) of them
Extreme(K, d) ==
    LET S == {n \in members : Key[n] \in K}
        Best(n) == \A p \in S : Sign(d) * Key[n] <= Sign(d) * Key[p]
    IN  IF S = {} THEN Null ELSE CHOOSE n \in S : Best(n)

Above(k) == {j \in Keys : j > k}
Below(k) == {j \in Keys : j < k}

(* The searches agree with the definition of what they look for: FindNext   *)
(* the least node >= the key, FindPrev the greatest <= it, Next and Prev    *)
(* the neighbours of a node, First and Last the ends.                       *)
SearchesAgree == m.fault \/
    /\ AVL_First(m) = Extreme(Keys, 1) /\ AVL_Last(m) = Extreme(Keys, 0)
    /\ \A k \in Keys : /\ AVL_Find(m, k) = Extreme({k}, 1)
                       /\ AVL_FindNext(m, k) = Extreme(Above(k) \cup {k}, 1)
                       /\ AVL_FindPrev(m, k) = Extreme(Below(k) \cup {k}, 0)
    /\ \A n \in members : /\ AVL_Next(m, n) = Extreme(Above(Key[n]), 1)
                          /\ AVL_Prev(m, n) = Extreme(Below(Key[n]), 0)

(* The balance factor is the difference of the heights, and never beyond    *)
(* -1 or +1, as the assertions of avl.c take for granted (avl.c:192).       *)
Balanced == \A n \in members :
                LET diff == Height(Link(m, n, 1)) - Height(Link(m, n, 0))
                IN  diff \in -1..1 /\ m.bal[n] = diff % 8
=============================================================================
