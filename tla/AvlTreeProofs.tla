---------------------------- MODULE AvlTreeProofs ----------------------------
(***************************************************************************)
(* What avl.c keeps however wrong its balance factors are, for any finite   *)
(* set of nodes and any keys: as long as no null pointer has been used, the *)
(* members are a binary search tree with parent pointers, and every search  *)
(* returns what it looks for.                                               *)
(*                                                                          *)
(* The invariant, Woven, says there are bounds on the keys of each subtree  *)
(* (Shape).  They make everything about a tree a fact about single nodes:   *)
(* a rotation, an insertion or a removal changes a few links and the bounds *)
(* of a few nodes, and a way down ends because fewer members fit between    *)
(* the bounds of a child than between those of its parent.                  *)
(***************************************************************************)
EXTENDS AvlTree, CommonProofs

-----------------------------------------------------------------------------
(* The shape of a search tree.  Every member n has bounds, b[n][0] and      *)
(* b[n][1], that the keys below it lie between; they are not in memory.     *)

\* 0 is the side of the lesser keys
Sides == {0, 1}

\* a is further to side d than b
Beyond(d, a, b) == IF d = 1 THEN a > b ELSE a < b

\* keys beyond every key there is
Limits == {lim \in [Sides -> Int] : \A n \in Nodes, d \in Sides : Beyond(d, lim[d], Key[n])}
Limit == CHOOSE lim \in Limits : TRUE

\* AVL_Insert puts in no second node of a key
Distinct(M) == \A n, p \in M : Key[n] = Key[p] => n = p

\* the root is a member and lies between the limits
Rooted(L, P, M, b) ==
    IF L[Tree][0] = Null THEN M = {}
    ELSE L[Tree][0] \in M /\ P[L[Tree][0]] = Null /\ b[L[Tree][0]] = Limit

\* every node lies between its bounds
Within(M, b) == \A n \in M, d \in Sides : Beyond(d, b[n][d], Key[n])

\* a child points back, and its parent is one of its bounds
Children(L, P, M, b) ==
    \A n \in M, d \in Sides : L[n][d] # Null =>
        /\ L[n][d] \in M /\ P[L[n][d]] = n
        /\ b[L[n][d]][d] = b[n][d] /\ b[L[n][d]][1 - d] = Key[n]

\* where nothing hangs, no member lies between the node and its bound: every
\* member is where a search for it comes to
Gaps(L, M, b) ==
    \A n \in M, d \in Sides, p \in M :
        L[n][d] = Null /\ Beyond(d, Key[p], Key[n]) => ~Beyond(d, b[n][d], Key[p])

\* and no two places where nothing hangs, facing each other, overlap
Apart(L, M, b) ==
    \A n, p \in M, d \in Sides :
        L[n][d] = Null /\ L[p][1 - d] = Null /\ Beyond(d, Key[p], Key[n])
          => ~Beyond(d, b[n][d], b[p][1 - d])

\* a bound is a limit or the key of a member
Marked(M, b) ==
    \A n \in M, d \in Sides : b[n][d] = Limit[d] \/ \E p \in M : b[n][d] = Key[p]

\* a member hangs on what its parent word says
Parents(L, P, M) ==
    \A n \in M : IF P[n] = Null THEN L[Tree][0] = n
                 ELSE P[n] \in M /\ \E d \in Sides : L[P[n]][d] = n

\* the types of the links, the parents and the bounds
Links == [Nodes \cup {Tree} -> [Sides -> Nodes \cup {Null}]]
Words == [Nodes -> Nodes \cup {Null}]
Bounds == [Nodes -> [Sides -> Int]]

\* M is a search tree under the links L and parents P: each member has bounds
\* b[n][0] and b[n][1] on the keys below it
Shape(L, P, M, b) ==
    /\ L \in Links /\ P \in Words /\ M \in SUBSET Nodes /\ b \in Bounds
    /\ Distinct(M) /\ Rooted(L, P, M, b) /\ Within(M, b) /\ Children(L, P, M, b)
    /\ Gaps(L, M, b) /\ Apart(L, M, b) /\ Marked(M, b) /\ Parents(L, P, M)

\* side e of q, which may be the tree itself, is where y hangs
Hangs(L, P, M, y, q, e) ==
    /\ y \in M /\ q \in M \cup {Tree} /\ e \in Sides /\ L[q][e] = y
    /\ IF q = Tree THEN e = 0 /\ P[y] = Null ELSE P[y] = q

(* Neither null nor the tree is a node.                                     *)
LEMMA NoNodes == Null \notin Nodes /\ Tree \notin Nodes /\ Null # Tree
BY NodesAssumption DEF Null, Tree

(* Keys are integers, which the bounds can be compared with.                *)
LEMMA KeyType == \A n \in Nodes : Key[n] \in Int
BY NodesAssumption

(* What is beyond j on one side is not on the other.                        *)
LEMMA BeyondApart ==
  ASSUME NEW d \in Sides, NEW i \in Int, NEW j \in Int, NEW k \in Int,
         Beyond(d, i, j), Beyond(1 - d, k, j)
  PROVE  i # k /\ Beyond(d, i, k) /\ ~Beyond(1 - d, i, j)
BY DEF Beyond, Sides

(* A child lies on its side of its parent, and hangs nowhere else. *)
LEMMA ChildFacts ==
  ASSUME NEW L, NEW P, NEW M, NEW b, Shape(L, P, M, b)
  PROVE  \A n \in M, d \in Sides : L[n][d] # Null =>
            /\ Beyond(d, Key[L[n][d]], Key[n])
            /\ L[n][d] # n
            /\ \A s \in Sides : s # d => L[n][s] # L[n][d]
            /\ L[L[n][d]][0] # n /\ L[L[n][d]][1] # n
<1> USE DEF Shape
<1> SUFFICES ASSUME NEW n \in M, NEW d \in Sides, L[n][d] # Null
             PROVE  /\ Beyond(d, Key[L[n][d]], Key[n])
                    /\ L[n][d] # n
                    /\ \A s \in Sides : s # d => L[n][s] # L[n][d]
                    /\ L[L[n][d]][0] # n /\ L[L[n][d]][1] # n
  OBVIOUS
<1> DEFINE c == L[n][d]
<1>1. c \in M /\ P[c] = n /\ b[c][d] = b[n][d] /\ b[c][1 - d] = Key[n]
  BY DEF Shape, Children
<1>2. 1 - d \in Sides /\ d \in Sides
  BY DEF Sides
<1>3. Key[n] \in Int /\ Key[c] \in Int /\ b[n][d] \in Int /\ b[n][1 - d] \in Int /\ b[c][d] \in Int
      /\ b[c][1 - d] \in Int
  BY <1>1, <1>2, KeyType DEF Bounds
<1>4. Beyond(d, b[c][d], Key[c]) /\ Beyond(1 - d, b[c][1 - d], Key[c])
      /\ Beyond(d, b[n][d], Key[n]) /\ Beyond(1 - d, b[n][1 - d], Key[n])
  BY <1>1, <1>2 DEF Shape, Within
<1>5. Beyond(d, Key[c], Key[n])
  BY <1>1, <1>2, <1>3, <1>4 DEF Beyond, Sides
<1>6. c # n
  BY <1>3, <1>5 DEF Beyond
<1>7. L[n][1 - d] # c
  <2>1. SUFFICES ASSUME L[n][1 - d] = c PROVE FALSE
    OBVIOUS
  <2>2. b[c][1 - (1 - d)] = Key[n] /\ 1 - (1 - d) = d
    BY <2>1, <1>1, <1>2, NoNodes DEF Shape, Children, Sides
  <2> QED
    BY <2>2, <1>1, <1>3, <1>4 DEF Beyond, Sides
<1>8. ASSUME NEW e \in Sides, L[c][e] = n PROVE FALSE
  <2>1. b[n][e] = b[c][e] /\ b[n][1 - e] = Key[c]
    BY <1>1, <1>8, NoNodes DEF Shape, Children
  <2>2. e = d \/ e = 1 - d
    BY DEF Sides
  <2>3. CASE e = d
    BY <2>1, <2>3, <1>3, <1>4, <1>5 DEF Beyond, Sides
  <2>4. CASE e = 1 - d
    <3>1. 1 - e = d
      BY <2>4 DEF Sides
    <3> QED
      BY <2>1, <2>4, <3>1, <1>1, <1>3, <1>4 DEF Beyond, Sides
  <2> QED BY <2>2, <2>3, <2>4
<1>9. L[c][0] # n /\ L[c][1] # n
  BY <1>8 DEF Sides
<1>10. ASSUME NEW s \in Sides, s # d PROVE L[n][s] # c
  <2>1. s = 1 - d
    BY <1>10 DEF Sides
  <2> QED BY <2>1, <1>7
<1> QED BY <1>5, <1>6, <1>10, <1>9

\* what is true of the child c on side s of n
IsChild(L, P, M, b, n, s, c) ==
    /\ c \in M /\ P[c] = n /\ b[c][s] = b[n][s] /\ b[c][1 - s] = Key[n]
    /\ Beyond(s, Key[c], Key[n]) /\ c # n
    /\ \A r \in Sides : L[c][r] # n /\ (r # s => L[n][r] # c)

(* A link that is not null leads to a child.                                *)
LEMMA ChildIsChild ==
  ASSUME NEW L, NEW P, NEW M, NEW b, Shape(L, P, M, b)
  PROVE  \A n \in M, s \in Sides : L[n][s] # Null => IsChild(L, P, M, b, n, s, L[n][s])
<1> SUFFICES ASSUME NEW n \in M, NEW s \in Sides, L[n][s] # Null
             PROVE  IsChild(L, P, M, b, n, s, L[n][s])
  OBVIOUS
<1>1. /\ L[n][s] \in M /\ P[L[n][s]] = n
      /\ b[L[n][s]][s] = b[n][s] /\ b[L[n][s]][1 - s] = Key[n]
  BY DEF Shape, Children
<1>2. /\ Beyond(s, Key[L[n][s]], Key[n]) /\ L[n][s] # n
      /\ \A r \in Sides : r # s => L[n][r] # L[n][s]
      /\ L[L[n][s]][0] # n /\ L[L[n][s]][1] # n
  BY ChildFacts
<1> QED BY <1>1, <1>2 DEF IsChild, Sides

(* Nothing else leads to where y hangs.                                     *)
LEMMA HangsOnce ==
  ASSUME NEW L, NEW P, NEW M, NEW b, Shape(L, P, M, b),
         NEW y, NEW q, NEW e, Hangs(L, P, M, y, q, e)
  PROVE  /\ \A n \in M, s \in Sides : L[n][s] = y => n = q /\ s = e
         /\ L[Tree][0] = y => q = Tree
         /\ q # y
<1>0. y \in M /\ M \subseteq Nodes /\ e \in Sides /\ P \in Words
  BY DEF Hangs, Shape
<1> USE <1>0
<1>1. y # Null /\ Tree \notin M
  BY NoNodes
<1>2. ASSUME NEW n \in M, NEW s \in Sides, L[n][s] = y PROVE n = q /\ s = e
  <2>1. P[y] = n /\ n # Null
    BY <1>1, <1>2, NoNodes DEF Shape, Children
  <2>2. n = q
    BY <2>1 DEF Hangs
  <2>3. s = e
    <3>1. SUFFICES ASSUME s # e PROVE FALSE
      OBVIOUS
    <3> QED
      BY <1>1, <1>2, <2>2, <3>1, ChildFacts DEF Hangs
  <2> QED BY <2>2, <2>3
<1>3. L[Tree][0] = y => q = Tree
  <2>1. L[Tree][0] = y => P[y] = Null
    BY <1>1 DEF Shape, Rooted
  <2> QED BY <2>1, NoNodes DEF Hangs
<1>4. q # y
  <2>1. CASE q = Tree
    BY <2>1, <1>1
  <2>2. CASE q # Tree
    BY <2>2, <1>1, ChildFacts DEF Hangs
  <2> QED BY <2>1, <2>2
<1> QED BY <1>2, <1>3, <1>4

(* Every member hangs somewhere, on a member or on the tree.                *)
LEMMA HangsSomewhere ==
  ASSUME NEW L, NEW P, NEW M, NEW b, Shape(L, P, M, b), NEW y \in M
  PROVE  Hangs(L, P, M, y, IF P[y] = Null THEN Tree ELSE P[y],
               IF P[y] = Null \/ L[P[y]][0] = y THEN 0 ELSE 1)
<1> USE DEF Shape
<1>1. CASE P[y] = Null
  BY <1>1 DEF Shape, Parents, Hangs, Sides
<1>2. CASE P[y] # Null
  <2>1. P[y] \in M /\ \E d \in Sides : L[P[y]][d] = y
    BY <1>2 DEF Shape, Parents
  <2>2. P[y] # Tree
    BY <2>1, NoNodes
  <2> QED BY <1>2, <2>1, <2>2 DEF Hangs, Sides
<1> QED BY <1>1, <1>2

-----------------------------------------------------------------------------
(* Rotations keep the shape.  y is the node that goes down, on side d of it *)
(* is x, and y hangs on side e of q.                                        *)

(* What y hangs on is none of the nodes a rotation at y moves.              *)
LEMMA GrandchildApart ==
  ASSUME NEW L, NEW P, NEW M, NEW b, Shape(L, P, M, b),
         NEW y, NEW q, NEW e, Hangs(L, P, M, y, q, e),
         NEW d \in Sides, L[y][d] # Null
  PROVE  q \notin {L[y][d], y, L[L[y][d]][1 - d], Null}
<1> DEFINE x == L[y][d]
           z == L[x][1 - d]
<1>0. /\ L \in Links /\ P \in Words /\ M \in SUBSET Nodes /\ b \in Bounds
      /\ y \in M /\ q \in M \cup {Tree} /\ e \in Sides
  BY DEF Shape, Hangs
<1> USE <1>0
<1>1. /\ 1 - d \in Sides /\ 1 - (1 - d) = d /\ 1 - d # d
      /\ \A s \in Sides : s = d \/ s = 1 - d
  BY DEF Sides
<1>c. \A n \in M, s \in Sides : L[n][s] # Null => L[n][s] # n /\ L[L[n][s]][0] # n /\ L[L[n][s]][1] # n
  BY ChildFacts
<1>2. /\ x \in M /\ P[x] = y /\ x # y /\ b[x][d] = b[y][d] /\ b[x][1 - d] = Key[y]
  BY <1>c DEF Shape, Children
<1>3. z # Null => /\ z \in M /\ b[z][1 - d] = Key[y] /\ b[z][d] = Key[x]
  <2>2. z # Null => /\ z \in M
                    /\ b[z][1 - d] = b[x][1 - d] /\ b[z][1 - (1 - d)] = Key[x]
    BY <1>1, <1>2 DEF Shape, Children
  <2> QED BY <2>2, <1>1, <1>2
<1>4. q # x /\ q # y /\ q # z /\ q # Null
  <2>1. q # y
    BY HangsOnce
  <2>2. q # x
    BY <1>2, <1>c, NoNodes DEF Hangs, Sides
  <2>3. q # z
    <3>1. SUFFICES ASSUME q = z, z # Null PROVE FALSE
      BY NoNodes DEF Hangs
    <3>2. P[y] = z /\ y \in M /\ L[z][e] = y /\ e \in Sides
      BY <3>1, <1>3, NoNodes DEF Hangs
    <3>3. b[y][e] = b[z][e] /\ b[y][1 - e] = Key[z]
      BY <3>1, <3>2, <1>3, NoNodes DEF Shape, Children
    <3>4. Key[y] \in Int /\ Key[x] \in Int /\ Key[z] \in Int
      BY <3>1, <1>2, <1>3, KeyType
    <3>5. Beyond(d, b[z][d], Key[z]) /\ Beyond(1 - d, b[z][1 - d], Key[z])
      BY <3>1, <1>1, <1>3 DEF Shape, Within
    <3>6. Beyond(e, b[y][e], Key[y]) /\ Beyond(1 - e, b[y][1 - e], Key[y]) /\ 1 - e \in Sides
      BY <3>2 DEF Shape, Within, Sides
    <3>7. CASE e = d
      BY <3>3, <3>4, <3>5, <3>6, <3>7, <1>3, <3>1 DEF Beyond, Sides
    <3>8. CASE e = 1 - d
      BY <3>3, <3>4, <3>5, <3>6, <3>8, <1>3, <3>1 DEF Beyond, Sides
    <3> QED BY <3>2, <3>7, <3>8, <1>1
  <2> QED BY <2>1, <2>2, <2>3, NoNodes
<1> QED BY <1>4

\* K and R are the links and parents after y has gone down on side 1 - d, x up
Rotated(L, P, K, R, M, y, d, q, e, x, z) ==
    /\ K[y][d] = z /\ K[x][1 - d] = y /\ K[q][e] = x
    /\ \A n \in M, s \in Sides :
          ~(n = y /\ s = d) /\ ~(n = x /\ s = 1 - d) /\ ~(n = q /\ s = e) => K[n][s] = L[n][s]
    /\ q # Tree => K[Tree][0] = L[Tree][0]
    /\ R[x] = P[y] /\ R[y] = x /\ (z # Null => R[z] = y)
    /\ \A n \in M : n \notin {x, y, z} => R[n] = P[n]

(* A rotation keeps the shape: what changes are the bounds of x and y.      *)
LEMMA RotationShape ==
  ASSUME NEW L, NEW P, NEW M, NEW b, Shape(L, P, M, b),
         NEW y, NEW q, NEW e, Hangs(L, P, M, y, q, e),
         NEW d \in Sides, NEW x, x = L[y][d], x # Null, NEW z, z = L[x][1 - d],
         NEW K \in Links, NEW R \in Words,
         Rotated(L, P, K, R, M, y, d, q, e, x, z)
  PROVE  \E c \in Bounds : Shape(K, R, M, c)
<1> DEFINE c == [n \in Nodes |-> IF n = x THEN b[y]
                                 ELSE IF n = y THEN [s \in Sides |-> IF s = d THEN Key[x] ELSE b[y][s]]
                                 ELSE b[n]]
<1>0. /\ L \in Links /\ P \in Words /\ M \in SUBSET Nodes /\ b \in Bounds
      /\ y \in M /\ q \in M \cup {Tree} /\ e \in Sides
  BY DEF Shape, Hangs
<1> USE <1>0
<1>k. /\ K[y][d] = z /\ K[x][1 - d] = y /\ K[q][e] = x
      /\ \A n \in M, s \in Sides :
            ~(n = y /\ s = d) /\ ~(n = x /\ s = 1 - d) /\ ~(n = q /\ s = e) => K[n][s] = L[n][s]
      /\ q # Tree => K[Tree][0] = L[Tree][0]
  BY DEF Rotated
<1>r. /\ R[x] = P[y] /\ R[y] = x /\ (z # Null => R[z] = y)
      /\ \A n \in M : n \notin {x, y, z} => R[n] = P[n]
  BY DEF Rotated
<1>1. /\ 1 - d \in Sides /\ 1 - (1 - d) = d /\ 1 - d # d
      /\ \A s \in Sides : s = d \/ s = 1 - d
  BY DEF Sides
<1>2. /\ x \in M /\ P[x] = y /\ x # y /\ b[x][d] = b[y][d] /\ b[x][1 - d] = Key[y]
      /\ Beyond(d, Key[x], Key[y])
  BY ChildFacts DEF Shape, Children
<1>3. z # Null => /\ z \in M /\ P[z] = x /\ z # x /\ z # y
                  /\ b[z][1 - d] = Key[y] /\ b[z][d] = Key[x]
  <2>1. \A n \in M, s \in Sides : L[n][s] # Null => L[n][s] # n /\ L[L[n][s]][0] # n /\ L[L[n][s]][1] # n
    BY ChildFacts
  <2>3. z # Null => z # x /\ z # y
    BY <2>1, <1>1, <1>2 DEF Sides
  <2>2. z # Null => /\ z \in M /\ P[z] = x
                    /\ b[z][1 - d] = b[x][1 - d] /\ b[z][1 - (1 - d)] = Key[x]
    BY <1>1, <1>2 DEF Shape, Children
  <2> QED BY <2>3, <2>2, <1>1, <1>2
<1>4. q # x /\ q # y /\ q # z /\ Null \notin M
  <2>1. q \notin {x, y, z, Null}
    BY GrandchildApart
  <2> QED BY <2>1, NoNodes
<1>h. /\ \A n \in M, s \in Sides : L[n][s] = y => n = q /\ s = e
      /\ \A n \in M, s, r \in Sides : L[n][s] # Null /\ r # s => L[n][r] # L[n][s]
  <2>1. \A n \in M, s \in Sides : L[n][s] = y => n = q /\ s = e
    BY HangsOnce
  <2>2. \A n \in M, s, r \in Sides : L[n][s] # Null /\ r # s => L[n][r] # L[n][s]
    BY ChildFacts
  <2> QED BY <2>1, <2>2
<1>5. c \in Bounds
  BY <1>2, KeyType DEF Bounds
<1>6. /\ c[x] = b[y] /\ c[y][d] = Key[x] /\ c[y][1 - d] = b[y][1 - d]
      /\ \A n \in M : n # x /\ n # y => c[n] = b[n]
  BY <1>1, <1>2
<1> HIDE DEF c
<1>7. \A n \in M : /\ Key[n] \in Int
                   /\ \A s \in Sides : b[n][s] \in Int /\ c[n][s] \in Int
  BY <1>5, KeyType DEF Bounds
<1>w. Distinct(M) /\ Within(M, b) /\ Gaps(L, M, b) /\ Apart(L, M, b) /\ Children(L, P, M, b)
      /\ Rooted(L, P, M, b) /\ Parents(L, P, M)
  BY DEF Shape
<1>8. Within(M, c)
  <2> SUFFICES ASSUME NEW n \in M, NEW s \in Sides PROVE Beyond(s, c[n][s], Key[n])
    BY DEF Within
  <2>1. CASE n = x
    <3>1. Beyond(d, b[x][d], Key[x]) /\ Beyond(1 - d, b[y][1 - d], Key[y])
      BY <1>w, <1>1, <1>2 DEF Within
    <3> QED BY <2>1, <3>1, <1>1, <1>2, <1>6, <1>7 DEF Beyond, Sides
  <2>2. CASE n = y
    BY <2>2, <1>w, <1>1, <1>2, <1>6, <1>7 DEF Within
  <2>3. CASE n # x /\ n # y
    BY <2>3, <1>w, <1>6 DEF Within
  <2> QED BY <2>1, <2>2, <2>3
<1>9. Rooted(K, R, M, c)
  <2>1. CASE q = Tree
    BY <2>1, <1>k, <1>r, <1>w, <1>2, <1>4, <1>6, NoNodes DEF Hangs, Rooted
  <2>2. CASE q # Tree
    <3>1. L[Tree][0] # y /\ K[Tree][0] = L[Tree][0] /\ L[Tree][0] # Null
      BY <2>2, <1>k, <1>w, HangsOnce DEF Rooted, Hangs
    <3>2. L[Tree][0] # x /\ L[Tree][0] # z
      BY <1>2, <1>3, <3>1, <1>w, NoNodes DEF Rooted
    <3> QED BY <3>1, <3>2, <1>r, <1>w, <1>6 DEF Rooted
  <2> QED BY <2>1, <2>2
<1>10. Children(K, R, M, c)
  <2> SUFFICES ASSUME NEW n \in M, NEW s \in Sides, K[n][s] # Null
               PROVE  /\ K[n][s] \in M /\ R[K[n][s]] = n
                      /\ c[K[n][s]][s] = c[n][s] /\ c[K[n][s]][1 - s] = Key[n]
    BY DEF Children
  <2>1. CASE n = y /\ s = d
    <3>1. z # Null /\ z \in M /\ c[z] = b[z] /\ R[z] = y /\ K[n][s] = z
      BY <2>1, <1>k, <1>r, <1>3, <1>6
    <3> QED BY <2>1, <3>1, <1>3, <1>6
  <2>2. CASE n = x /\ s = 1 - d
    BY <2>2, <1>k, <1>r, <1>1, <1>2, <1>6
  <2>3. CASE n = q /\ s = e
    <3>1. P[y] = q /\ L[q][e] = y /\ y # Null
      BY <2>3, <1>4, NoNodes DEF Hangs
    <3>2. b[y][e] = b[q][e] /\ b[y][1 - e] = Key[q]
      BY <2>3, <3>1, <1>w DEF Children
    <3> QED BY <2>3, <3>1, <3>2, <1>k, <1>r, <1>2, <1>4, <1>6
  <2>4. CASE ~(n = y /\ s = d) /\ ~(n = x /\ s = 1 - d) /\ ~(n = q /\ s = e)
    <3> DEFINE k == L[n][s]
    <3>1. K[n][s] = k /\ k # Null
      BY <2>4, <1>k
    <3>2. k \in M /\ P[k] = n /\ b[k][s] = b[n][s] /\ b[k][1 - s] = Key[n]
      BY <3>1, <1>w DEF Children
    <3>3. k # y
      BY <3>1, <2>4, <1>h
    <3>4. k # x
      <4>1. SUFFICES ASSUME k = x PROVE FALSE
        OBVIOUS
      <4>2. n = y /\ s = 1 - d
        BY <4>1, <3>2, <1>1, <1>2, <2>4
      <4> QED BY <4>1, <4>2, <1>h, <1>1
    <3>5. z # Null => k # z
      <4>1. SUFFICES ASSUME k = z, z # Null PROVE FALSE
        OBVIOUS
      <4>2. n = x /\ s = d
        BY <4>1, <3>2, <1>1, <1>3, <2>4
      <4>3. L[x][1 - d] # Null /\ x \in M /\ 1 - d \in Sides
        BY <4>1, <1>1, <1>2
      <4>5. L[x][d] # L[x][1 - d]
        BY <4>3, <1>1, <1>h
      <4> QED BY <4>1, <4>2, <4>5
    <3>6. R[k] = n /\ c[k] = b[k]
      BY <3>2, <3>3, <3>4, <3>5, <3>1, <1>6, <1>r
    <3>7. c[n][s] = b[n][s]
      BY <2>4, <1>1, <1>2, <1>6
    <3> HIDE DEF k
    <3> QED BY <3>1, <3>2, <3>6, <3>7
  <2> QED BY <2>1, <2>2, <2>3, <2>4
\* an empty side of the new tree is an empty side of the old one
<1>11. ASSUME NEW n \in M, NEW s \in Sides, K[n][s] = Null
       PROVE  \/ n = y /\ s = d /\ z = Null
              \/ L[n][s] = Null /\ c[n][s] = b[n][s] /\ ~(n = x /\ s = 1 - d)
  <2>1. ~(n = x /\ s = 1 - d) /\ ~(n = q /\ s = e)
    BY <1>11, <1>k, <1>2, NoNodes
  <2>2. CASE n = y /\ s = d
    BY <1>11, <2>2, <1>k
  <2>3. CASE ~(n = y /\ s = d)
    BY <1>11, <2>1, <2>3, <1>k, <1>1, <1>2, <1>6
  <2> QED BY <2>2, <2>3
<1>12. Gaps(K, M, c)
  <2> SUFFICES ASSUME NEW n \in M, NEW s \in Sides, NEW p \in M,
                      K[n][s] = Null, Beyond(s, Key[p], Key[n])
               PROVE  ~Beyond(s, c[n][s], Key[p])
    BY DEF Gaps
  <2>1. CASE n = y /\ s = d /\ z = Null
    <3>1. Beyond(1 - d, Key[p], Key[x]) => ~Beyond(1 - d, b[x][1 - d], Key[p])
      BY <2>1, <1>w, <1>1, <1>2 DEF Gaps
    <3> QED BY <2>1, <3>1, <1>1, <1>2, <1>6, <1>7 DEF Beyond, Sides
  <2>2. CASE L[n][s] = Null /\ c[n][s] = b[n][s]
    BY <2>2, <1>w DEF Gaps
  <2> QED BY <2>1, <2>2, <1>11
<1>13. Apart(K, M, c)
  <2> SUFFICES ASSUME NEW n \in M, NEW p \in M, NEW s \in Sides,
                      K[n][s] = Null, K[p][1 - s] = Null, Beyond(s, Key[p], Key[n])
               PROVE  ~Beyond(s, c[n][s], c[p][1 - s])
    BY DEF Apart
  <2>0. 1 - s \in Sides /\ 1 - (1 - s) = s
    BY DEF Sides
  <2>1. CASE L[n][s] = Null /\ c[n][s] = b[n][s] /\ L[p][1 - s] = Null /\ c[p][1 - s] = b[p][1 - s]
    BY <2>1, <1>w DEF Apart
  <2>2. CASE n = y /\ s = d /\ z = Null
    <3>1. p # x
      BY <2>2, <1>2, <1>k, NoNodes
    <3>2. L[p][1 - d] = Null /\ c[p][1 - d] = b[p][1 - d] /\ Beyond(d, Key[p], Key[y])
      BY <2>2, <1>1, <1>11
    <3>3. Beyond(1 - d, Key[x], Key[p]) => ~Beyond(1 - d, b[p][1 - d], Key[x])
      BY <3>2, <1>w, <1>1, <1>2 DEF Gaps
    <3>4. Beyond(1 - d, Key[p], Key[x]) => ~Beyond(1 - d, b[x][1 - d], Key[p])
      BY <2>2, <1>w, <1>1, <1>2 DEF Gaps
    <3>5. Key[p] # Key[x]
      BY <3>1, <1>2, <1>w DEF Distinct
    <3> QED BY <2>2, <3>2, <3>3, <3>4, <3>5, <1>1, <1>2, <1>6, <1>7 DEF Beyond, Sides
  <2>3. CASE p = y /\ 1 - s = d /\ z = Null
    <3>1. n # x /\ s = 1 - d
      BY <2>3, <2>0, <1>2, <1>k, NoNodes
    <3>2. L[n][1 - d] = Null /\ c[n][1 - d] = b[n][1 - d] /\ Beyond(1 - d, Key[y], Key[n])
      BY <2>3, <3>1, <1>1, <1>11
    <3>3. Beyond(1 - d, Key[x], Key[n]) => ~Beyond(1 - d, b[n][1 - d], Key[x])
      BY <3>2, <1>w, <1>1, <1>2 DEF Gaps
    <3>4. Beyond(1 - d, Key[n], Key[x]) => ~Beyond(1 - d, b[x][1 - d], Key[n])
      BY <2>3, <1>w, <1>1, <1>2 DEF Gaps
    <3>5. Key[n] # Key[x]
      BY <3>1, <1>2, <1>w DEF Distinct
    <3> QED BY <2>3, <3>1, <3>2, <3>3, <3>4, <3>5, <1>1, <1>2, <1>6, <1>7 DEF Beyond, Sides
  <2> QED BY <2>0, <2>1, <2>2, <2>3, <1>11
<1>14. Parents(K, R, M)
  <2> SUFFICES ASSUME NEW n \in M
               PROVE  IF R[n] = Null THEN K[Tree][0] = n
                      ELSE R[n] \in M /\ \E s \in Sides : K[R[n]][s] = n
    BY DEF Parents
  <2>1. CASE n = x
    BY <2>1, <1>4, <1>k, <1>r, NoNodes DEF Hangs
  <2>2. CASE n = y
    BY <2>2, <1>1, <1>2, <1>k, <1>r, NoNodes
  <2>3. CASE n = z
    BY <2>3, <1>1, <1>4, <1>k, <1>r, NoNodes
  <2>4. CASE n # x /\ n # y /\ n # z
    <3>1. R[n] = P[n]
      BY <2>4, <1>r
    <3>2. CASE P[n] = Null
      <4>1. L[Tree][0] = n
        BY <3>2, <1>w DEF Parents
      <4>2. q # Tree
        BY <4>1, <2>4, NoNodes DEF Hangs
      <4> QED BY <3>1, <3>2, <4>1, <4>2, <1>k
    <3>3. CASE P[n] # Null
      <4>1. PICK s \in Sides : P[n] \in M /\ L[P[n]][s] = n
        BY <3>3, <1>w DEF Parents
      <4>2. K[P[n]][s] = n
        BY <4>1, <2>4, <1>1, <1>k DEF Hangs
      <4> QED BY <3>1, <3>3, <4>1, <4>2
    <3> QED BY <3>2, <3>3
  <2> QED BY <2>1, <2>2, <2>3, <2>4
<1>15. Marked(M, c)
  <2>1. Marked(M, b)
    BY DEF Shape
  <2> SUFFICES ASSUME NEW n \in M, NEW s \in Sides
               PROVE  c[n][s] = Limit[s] \/ \E p \in M : c[n][s] = Key[p]
    BY DEF Marked
  <2>2. c[n][s] = b[n][s] \/ c[n][s] = b[y][s] \/ c[n][s] = Key[x]
    BY <1>1, <1>6
  <2> QED BY <2>1, <2>2, <1>2 DEF Marked
<1> QED BY <1>5, <1>8, <1>9, <1>10, <1>12, <1>13, <1>14, <1>15, <1>w DEF Shape

\* the nodes a double rotation moves: w goes up above x and y
Arms(L, y, d, x, w, u, v) ==
    /\ x # Null /\ x = L[y][d]
    /\ w # Null /\ w = L[x][1 - d]
    /\ u = L[w][d] /\ v = L[w][1 - d]

\* K and R are the links and parents after that
DoublyRotated(L, P, K, R, M, y, d, q, e, x, w, u, v) ==
    /\ K[x][1 - d] = u /\ K[w][d] = x /\ K[y][d] = v /\ K[w][1 - d] = y /\ K[q][e] = w
    /\ \A n \in M, s \in Sides :
          /\ ~(n = x /\ s = 1 - d) /\ n # w
          /\ ~(n = y /\ s = d) /\ ~(n = q /\ s = e)
          => K[n][s] = L[n][s]
    /\ q # Tree => K[Tree][0] = L[Tree][0]
    /\ R[x] = w /\ R[y] = w /\ R[w] = P[y] /\ (u # Null => R[u] = x) /\ (v # Null => R[v] = y)
    /\ \A n \in M : n \notin {x, y, w, u, v} => R[n] = P[n]

(* A double rotation keeps the shape.                                       *)
LEMMA DoubleRotationShape ==
  ASSUME NEW L, NEW P, NEW M, NEW b, Shape(L, P, M, b),
         NEW y, NEW q, NEW e, Hangs(L, P, M, y, q, e),
         NEW d \in Sides, NEW x, NEW w, NEW u, NEW v, Arms(L, y, d, x, w, u, v),
         NEW K \in Links, NEW R \in Words,
         DoublyRotated(L, P, K, R, M, y, d, q, e, x, w, u, v)
  PROVE  \E c : Shape(K, R, M, c)
<1> DEFINE L1 == [n \in Nodes \cup {Tree} |-> [s \in Sides |->
                     IF n = x /\ s = 1 - d THEN u ELSE IF n = w /\ s = d THEN x
                     ELSE IF n = y /\ s = d THEN w ELSE L[n][s]]]
           P1 == [n \in Nodes |-> IF n = w THEN y ELSE IF n = x THEN w
                                   ELSE IF n = u THEN x ELSE P[n]]
<1>0. /\ L \in Links /\ P \in Words /\ M \in SUBSET Nodes /\ b \in Bounds
      /\ y \in M /\ q \in M \cup {Tree} /\ e \in Sides
  BY DEF Shape, Hangs
<1> USE <1>0
<1>1. /\ 1 - d \in Sides /\ 1 - (1 - d) = d /\ 1 - d # d
      /\ \A s \in Sides : s = d \/ s = 1 - d
  BY DEF Sides
<1>2. /\ IsChild(L, P, M, b, y, d, x) /\ IsChild(L, P, M, b, x, 1 - d, w)
      /\ u # Null => IsChild(L, P, M, b, w, d, u)
      /\ v # Null => IsChild(L, P, M, b, w, 1 - d, v)
  <2>1. IsChild(L, P, M, b, y, d, x)
    BY ChildIsChild DEF Arms
  <2>2. x \in M
    BY <2>1 DEF IsChild
  <2>3. IsChild(L, P, M, b, x, 1 - d, w)
    BY <2>2, <1>1, ChildIsChild DEF Arms
  <2>4. w \in M
    BY <2>3 DEF IsChild
  <2>5. u # Null => IsChild(L, P, M, b, w, d, u)
    BY <2>4, ChildIsChild DEF Arms
  <2>6. v # Null => IsChild(L, P, M, b, w, 1 - d, v)
    BY <2>4, <1>1, ChildIsChild DEF Arms
  <2> QED BY <2>1, <2>3, <2>5, <2>6
<1>3. /\ x \in M /\ x # y /\ P[x] = y
      /\ w \in M /\ w # x /\ w # y /\ P[w] = x
      /\ b[w][1 - d] = Key[y] /\ b[w][d] = Key[x]
  <2>1. /\ x \in M /\ x # y /\ P[x] = y
        /\ w \in M /\ w # x /\ P[w] = x
        /\ b[w][1 - d] = b[x][1 - d] /\ b[x][1 - d] = Key[y] /\ b[w][1 - (1 - d)] = Key[x]
    BY <1>2 DEF IsChild
  <2>2. w # y
    BY <1>1, <1>2 DEF IsChild, Arms
  <2> QED BY <2>1, <2>2, <1>1
<1>4. u # Null => u \in M /\ u # w /\ u # x /\ u # y /\ u # v /\ P[u] = w
  <2>1. SUFFICES ASSUME u # Null PROVE u \in M /\ u # w /\ u # x /\ u # y /\ u # v /\ P[u] = w
    OBVIOUS
  <2>2. u \in M /\ u # w /\ u # x /\ P[u] = w /\ Beyond(d, Key[u], Key[w])
    <3>1. u \in M /\ u # w /\ P[u] = w /\ Beyond(d, Key[u], Key[w])
      BY <2>1, <1>2 DEF IsChild
    <3>2. u # x
      BY <1>1, <1>2 DEF IsChild, Arms
    <3> QED BY <3>1, <3>2
  <2>3. u # v
    <3>1. IsChild(L, P, M, b, w, d, u) /\ v = L[w][1 - d]
      BY <2>1, <1>2 DEF Arms
    <3> QED BY <3>1, <1>1 DEF IsChild
  <2>4. Beyond(1 - d, b[w][1 - d], Key[w])
    BY <1>1, <1>3 DEF Shape, Within
  <2>5. Key[u] # Key[y]
    <3>1. Key[u] \in Int /\ Key[w] \in Int /\ Key[y] \in Int
      BY <2>2, <1>3, KeyType
    <3>2. Beyond(1 - d, Key[y], Key[w])
      BY <2>4, <1>3
    <3> QED BY <3>1, <3>2, <2>2, BeyondApart
  <2> QED BY <2>2, <2>3, <2>5
<1>5. v # Null => v \in M /\ v # w /\ v # x /\ P[v] = w
  <2>1. v # Null => v \in M /\ v # w /\ P[v] = w
    BY <1>2 DEF IsChild
  <2>2. v # x
    BY <1>1, <1>2 DEF IsChild, Arms
  <2> QED BY <2>1, <2>2
<1>6. q # x /\ q # y /\ q # w /\ Null \notin M /\ Tree \notin M
  <2>1. q \notin {L[y][d], y, L[L[y][d]][1 - d], Null}
    BY GrandchildApart DEF Arms
  <2>2. x = L[y][d] /\ w = L[L[y][d]][1 - d]
    BY DEF Arms
  <2> QED BY <2>1, <2>2, NoNodes
<1>7. L1 \in Links
  BY <1>3, <1>4 DEF Links
<1>8. P1 \in Words
  BY <1>3 DEF Words
<1>9. /\ \A n \in M \cup {Tree}, s \in Sides :
            L1[n][s] = IF n = x /\ s = 1 - d THEN u ELSE IF n = w /\ s = d THEN x
                       ELSE IF n = y /\ s = d THEN w ELSE L[n][s]
      /\ \A n \in M : P1[n] = IF n = w THEN y ELSE IF n = x THEN w
                                ELSE IF n = u THEN x ELSE P[n]
  OBVIOUS
<1> HIDE DEF L1, P1
<1>10. \E c : Shape(L1, P1, M, c)
  <2>1. Hangs(L, P, M, x, y, d)
    BY <1>3, <1>6 DEF Hangs, Arms
  <2>2. Rotated(L, P, L1, P1, M, x, 1 - d, y, d, w, u)
    <3>1. /\ L1[x][1 - d] = u /\ L1[w][1 - (1 - d)] = x /\ L1[y][d] = w
          /\ y # Tree => L1[Tree][0] = L[Tree][0]
      <4>1. L1[x][1 - d] = u
        BY <1>1, <1>3, <1>9
      <4>2. L1[w][d] = x
        BY <1>1, <1>3, <1>9
      <4>3. L1[y][d] = w
        BY <1>1, <1>3, <1>9
      <4>4. L1[Tree][0] = L[Tree][0]
        BY <1>3, <1>6, <1>9 DEF Sides
      <4> QED BY <4>1, <4>2, <4>3, <4>4, <1>1
    <3>2. \A n \in M, s \in Sides :
             ~(n = x /\ s = 1 - d) /\ ~(n = w /\ s = 1 - (1 - d)) /\ ~(n = y /\ s = d)
               => L1[n][s] = L[n][s]
      BY <1>1, <1>9
    <3>3. /\ P1[w] = P[x] /\ P1[x] = w /\ (u # Null => P1[u] = x)
          /\ \A n \in M : n \notin {x, w, u} => P1[n] = P[n]
      BY <1>3, <1>4, <1>9
    <3> QED BY <3>1, <3>2, <3>3 DEF Rotated
  <2>3. w = L[x][1 - d] /\ u = L[w][1 - (1 - d)] /\ 1 - d \in Sides /\ w # Null
    BY <1>1 DEF Arms
  <2> QED BY <2>1, <2>2, <2>3, <1>7, <1>8, RotationShape
<1>11. PICK c : Shape(L1, P1, M, c)
  BY <1>10
<1>12. Hangs(L1, P1, M, y, q, e)
  BY <1>3, <1>4, <1>6, <1>9 DEF Hangs, Sides
<1>13. w = L1[y][d] /\ v = L1[w][1 - d] /\ w # Null
  <2>1. L1[y][d] = w
    BY <1>3, <1>9
  <2>2. L1[w][1 - d] = L[w][1 - d]
    BY <1>1, <1>3, <1>9
  <2> QED BY <2>1, <2>2 DEF Arms
<1>14. Rotated(L1, P1, K, R, M, y, d, q, e, w, v)
  <2>k. /\ K[x][1 - d] = u /\ K[w][d] = x /\ K[y][d] = v /\ K[w][1 - d] = y /\ K[q][e] = w
        /\ \A n \in M, s \in Sides :
              /\ ~(n = x /\ s = 1 - d) /\ n # w
              /\ ~(n = y /\ s = d) /\ ~(n = q /\ s = e)
              => K[n][s] = L[n][s]
        /\ q # Tree => K[Tree][0] = L[Tree][0]
    BY DEF DoublyRotated
  <2>r. /\ R[x] = w /\ R[y] = w /\ R[w] = P[y] /\ (u # Null => R[u] = x) /\ (v # Null => R[v] = y)
        /\ \A n \in M : n \notin {x, y, w, u, v} => R[n] = P[n]
    BY DEF DoublyRotated
  <2>1. K[y][d] = v /\ K[w][1 - d] = y /\ K[q][e] = w
    BY <2>k
  <2>2. ASSUME NEW n \in M, NEW s \in Sides, ~(n = y /\ s = d), ~(n = w /\ s = 1 - d), ~(n = q /\ s = e)
        PROVE  K[n][s] = L1[n][s]
    <3>1. CASE n = x /\ s = 1 - d
      BY <3>1, <2>k, <1>3, <1>9
    <3>2. CASE n = w
      <4>1. s = d
        BY <2>2, <3>2, <1>1
      <4>2. L1[n][s] = x
        BY <3>2, <4>1, <1>3, <1>9
      <4> QED BY <3>2, <4>1, <4>2, <2>k
    <3>3. CASE ~(n = x /\ s = 1 - d) /\ n # w
      <4>1. K[n][s] = L[n][s]
        BY <3>3, <2>2, <2>k
      <4>2. L1[n][s] = L[n][s]
        BY <3>3, <2>2, <1>9
      <4> QED BY <4>1, <4>2
    <3> QED BY <3>1, <3>2, <3>3
  <2>3. q # Tree => K[Tree][0] = L1[Tree][0]
    BY <2>k, <1>3, <1>6, <1>9 DEF Sides
  <2>4. R[w] = P1[y] /\ R[y] = w /\ (v # Null => R[v] = y)
    <3>1. y # w /\ y # x /\ y # u
      BY <1>3, <1>4, <1>6
    <3>2. P1[y] = P[y]
      BY <3>1, <1>9
    <3> QED BY <3>2, <2>r
  <2>5. ASSUME NEW n \in M, n \notin {w, y, v} PROVE R[n] = P1[n]
    <3>1. CASE n = x
      BY <3>1, <2>r, <1>3, <1>9
    <3>2. CASE n = u
      BY <3>2, <2>r, <1>3, <1>4, <1>6, <1>9
    <3>3. CASE n # x /\ n # u
      BY <2>5, <3>3, <2>r, <1>9
    <3> QED BY <3>1, <3>2, <3>3
  <2> QED BY <2>1, <2>2, <2>3, <2>4, <2>5 DEF Rotated
<1> QED BY <1>11, <1>12, <1>13, <1>14, RotationShape

-----------------------------------------------------------------------------
(* A new node.                                                              *)

(* The order of the keys, seen from either side.                            *)
LEMMA BeyondOrder ==
  ASSUME NEW d \in Sides, NEW i \in Int, NEW j \in Int
  PROVE  /\ Beyond(1 - d, i, j) <=> Beyond(d, j, i)
         /\ Beyond(d, i, j) => ~Beyond(d, j, i)
         /\ Beyond(d, i, j) \/ Beyond(d, j, i) \/ i = j
         /\ \A k \in Int : /\ Beyond(d, i, j) /\ Beyond(d, j, k) => Beyond(d, i, k)
                           /\ Beyond(d, i, j) /\ ~Beyond(d, k, j) => Beyond(d, i, k)
                           /\ ~Beyond(d, j, i) /\ Beyond(d, j, k) => Beyond(d, i, k)
BY DEF Beyond, Sides

\* side d of q is free, and k belongs there
Fits(L, M, b, k, q, d) ==
    /\ q \in M /\ d \in Sides /\ L[q][d] = Null
    /\ Beyond(d, k, Key[q]) /\ Beyond(d, b[q][d], k)

\* K and R are the links and parents with n put there
Added(L, P, K, R, M, n, q, d) ==
    /\ K[q][d] = n /\ K[n][0] = Null /\ K[n][1] = Null
    /\ \A a \in M, s \in Sides : ~(a = q /\ s = d) => K[a][s] = L[a][s]
    /\ K[Tree][0] = L[Tree][0]
    /\ R[n] = q /\ \A a \in M : R[a] = P[a]

(* A node added where it fits keeps the shape.                              *)
LEMMA InsertShape ==
  ASSUME NEW L, NEW P, NEW M, NEW b, Shape(L, P, M, b),
         NEW n \in Nodes, n \notin M, NEW q, NEW d, Fits(L, M, b, Key[n], q, d),
         NEW K \in Links, NEW R \in Words, Added(L, P, K, R, M, n, q, d)
  PROVE  \E c : Shape(K, R, M \cup {n}, c)
<1> DEFINE c == [a \in Nodes |-> IF a = n THEN [s \in Sides |-> IF s = d THEN b[q][d] ELSE Key[q]]
                                 ELSE b[a]]
           N == M \cup {n}
<1>0. /\ L \in Links /\ P \in Words /\ M \in SUBSET Nodes /\ b \in Bounds
      /\ q \in M /\ d \in Sides
  BY DEF Shape, Fits
<1> USE <1>0
<1>1. /\ 1 - d \in Sides /\ 1 - (1 - d) = d /\ 1 - d # d
      /\ \A s \in Sides : s = d \/ s = 1 - d
      /\ Null \notin N /\ Tree \notin N /\ n # q
  BY NoNodes DEF Sides
<1>w. Distinct(M) /\ Within(M, b) /\ Gaps(L, M, b) /\ Apart(L, M, b) /\ Children(L, P, M, b)
      /\ Rooted(L, P, M, b) /\ Parents(L, P, M)
  BY DEF Shape
<1>k. /\ K[q][d] = n /\ \A s \in Sides : K[n][s] = Null
      /\ \A a \in M, s \in Sides : ~(a = q /\ s = d) => K[a][s] = L[a][s]
      /\ K[Tree][0] = L[Tree][0]
  BY DEF Added, Sides
<1>r. R[n] = q /\ \A a \in M : R[a] = P[a]
  BY DEF Added
<1>2. c \in Bounds
  BY KeyType DEF Bounds
<1>3. /\ c[n][d] = b[q][d] /\ c[n][1 - d] = Key[q]
      /\ \A a \in M : c[a] = b[a]
  BY <1>1
<1> HIDE DEF c
<1>4. /\ Key[n] \in Int /\ Key[q] \in Int /\ b[q][d] \in Int
      /\ \A a \in M : /\ Key[a] \in Int
                      /\ \A s \in Sides : b[a][s] \in Int
  BY KeyType DEF Bounds
<1>5. L[q][d] = Null /\ Beyond(d, Key[n], Key[q]) /\ Beyond(d, b[q][d], Key[n])
  BY DEF Fits
\* the keys around the place
<1>6. \A p \in M : /\ Key[p] # Key[n]
                   /\ Beyond(d, Key[p], Key[n]) => ~Beyond(d, b[q][d], Key[p])
                   /\ p = q \/ Beyond(d, Key[q], Key[p]) \/ Beyond(d, Key[p], Key[n])
                   /\ Beyond(d, Key[p], Key[n]) => Beyond(d, Key[p], Key[q])
  <2> SUFFICES ASSUME NEW p \in M
               PROVE /\ Key[p] # Key[n]
                     /\ Beyond(d, Key[p], Key[n]) => ~Beyond(d, b[q][d], Key[p])
                     /\ p = q \/ Beyond(d, Key[q], Key[p]) \/ Beyond(d, Key[p], Key[n])
                     /\ Beyond(d, Key[p], Key[n]) => Beyond(d, Key[p], Key[q])
    OBVIOUS
  <2>1. Beyond(d, Key[p], Key[q]) => ~Beyond(d, b[q][d], Key[p])
    BY <1>5, <1>w DEF Gaps
  <2>2. Key[p] = Key[q] => p = q
    BY <1>w DEF Distinct
  <2>3. Key[p] \in Int
    BY <1>4
  <2> QED BY <2>1, <2>2, <2>3, <1>4, <1>5 DEF Beyond, Sides
\* an empty side of the new tree
<1>7. ASSUME NEW a \in N, NEW s \in Sides, K[a][s] = Null
      PROVE  a = n \/ (a \in M /\ L[a][s] = Null /\ c[a][s] = b[a][s] /\ ~(a = q /\ s = d))
  BY <1>7, <1>1, <1>k, <1>3
\* n on side s of a, where nothing is
<1>8. ASSUME NEW a \in M, a # q, L[a][d] = Null, Beyond(d, Key[n], Key[a])
      PROVE  ~Beyond(d, b[a][d], Key[q])
  <2>1. Beyond(d, Key[q], Key[a])
    BY <1>8, <1>6, <1>4 DEF Beyond, Sides
  <2> QED BY <2>1, <1>8, <1>w DEF Gaps
<1>9. ASSUME NEW a \in M, L[a][1 - d] = Null, Beyond(d, Key[a], Key[n])
      PROVE  ~Beyond(d, b[q][d], b[a][1 - d])
  <2>1. Beyond(d, Key[a], Key[q])
    BY <1>9, <1>6
  <2> QED BY <2>1, <1>9, <1>5, <1>w DEF Apart
<1>10. Distinct(N)
  BY <1>6, <1>w DEF Distinct
<1>11. Within(N, c)
  <2> SUFFICES ASSUME NEW a \in N, NEW s \in Sides PROVE Beyond(s, c[a][s], Key[a])
    BY DEF Within
  <2>1. CASE a = n
    BY <2>1, <1>1, <1>3, <1>4, <1>5, BeyondOrder
  <2>2. CASE a \in M
    BY <2>2, <1>3, <1>w DEF Within
  <2> QED BY <2>1, <2>2
<1>12. Rooted(K, R, N, c)
  BY <1>k, <1>r, <1>1, <1>3, <1>w DEF Rooted
<1>13. Children(K, R, N, c)
  <2> SUFFICES ASSUME NEW a \in N, NEW s \in Sides, K[a][s] # Null
               PROVE  /\ K[a][s] \in N /\ R[K[a][s]] = a
                      /\ c[K[a][s]][s] = c[a][s] /\ c[K[a][s]][1 - s] = Key[a]
    BY DEF Children
  <2>1. a \in M
    BY <1>k
  <2>2. CASE a = q /\ s = d
    BY <2>2, <1>k, <1>r, <1>3
  <2>3. CASE ~(a = q /\ s = d)
    <3>1. K[a][s] = L[a][s]
      BY <2>1, <2>3, <1>k
    <3>2. /\ L[a][s] \in M /\ P[L[a][s]] = a
          /\ b[L[a][s]][s] = b[a][s] /\ b[L[a][s]][1 - s] = Key[a]
      BY <2>1, <3>1, <1>w DEF Children
    <3> QED BY <2>1, <3>1, <3>2, <1>r, <1>3
  <2> QED BY <2>2, <2>3
<1>14. Gaps(K, N, c)
  <2> SUFFICES ASSUME NEW a \in N, NEW s \in Sides, NEW p \in N,
                      K[a][s] = Null, Beyond(s, Key[p], Key[a])
               PROVE  ~Beyond(s, c[a][s], Key[p])
    BY DEF Gaps
  <2>0. a # p
    BY <1>4 DEF Beyond
  <2>1. CASE a = n /\ s = d
    BY <2>0, <2>1, <1>3, <1>6
  <2>2. CASE a = n /\ s = 1 - d
    <3>1. p \in M /\ Key[p] \in Int
      BY <2>0, <2>2, <1>4
    <3> QED BY <2>2, <3>1, <1>1, <1>3, <1>4, <1>6, BeyondOrder
  <2>3. CASE p = n /\ s = d
    <3>1. a \in M /\ L[a][d] = Null /\ c[a][d] = b[a][d] /\ a # q
      BY <2>0, <2>3, <1>7
    <3>2. ~Beyond(d, b[a][d], Key[q])
      BY <3>1, <2>3, <1>8
    <3>3. b[a][d] \in Int
      BY <3>1, <1>4
    <3> QED BY <2>3, <3>1, <3>2, <3>3, <1>4, <1>5 DEF Beyond, Sides
  <2>4. CASE p = n /\ s = 1 - d
    <3>1. a \in M /\ L[a][1 - d] = Null /\ c[a][1 - d] = b[a][1 - d]
      BY <2>0, <2>4, <1>7
    <3>2. Key[a] \in Int /\ b[a][1 - d] \in Int
      BY <3>1, <1>1, <1>4
    <3>3. Beyond(d, Key[a], Key[n])
      BY <2>4, <3>2, <1>4 DEF Beyond, Sides
    <3>4. ~Beyond(d, b[q][d], b[a][1 - d])
      BY <3>1, <3>3, <1>9
    <3> QED BY <2>4, <3>1, <3>2, <3>4, <1>4, <1>5 DEF Beyond, Sides
  <2>5. CASE a \in M /\ p \in M
    <3>1. L[a][s] = Null /\ c[a][s] = b[a][s]
      BY <2>5, <1>7
    <3> QED BY <2>5, <3>1, <1>w DEF Gaps
  <2> QED BY <2>0, <2>1, <2>2, <2>3, <2>4, <2>5, <1>1
<1>15. Apart(K, N, c)
  <2> SUFFICES ASSUME NEW a \in N, NEW p \in N, NEW s \in Sides,
                      K[a][s] = Null, K[p][1 - s] = Null, Beyond(s, Key[p], Key[a])
               PROVE  ~Beyond(s, c[a][s], c[p][1 - s])
    BY DEF Apart
  <2>0. a # p /\ 1 - s \in Sides
    BY <1>4 DEF Beyond, Sides
  <2>1. CASE a = n /\ s = d
    <3>1. p \in M /\ L[p][1 - d] = Null /\ c[p][1 - d] = b[p][1 - d]
      BY <2>0, <2>1, <1>7, <1>1
    <3> QED BY <2>1, <3>1, <1>3, <1>9
  <2>2. CASE a = n /\ s = 1 - d
    <3>1. p \in M /\ L[p][d] = Null /\ c[p][d] = b[p][d] /\ p # q
      BY <2>0, <2>2, <1>7, <1>1
    <3>2. Key[p] \in Int /\ b[p][d] \in Int
      BY <3>1, <1>4
    <3>3. Beyond(d, Key[n], Key[p])
      BY <2>2, <3>2, <1>4 DEF Beyond, Sides
    <3>4. ~Beyond(d, b[p][d], Key[q])
      BY <3>1, <3>3, <1>8
    <3>5. c[a][s] = Key[q] /\ c[p][1 - s] = b[p][d]
      BY <2>2, <3>1, <1>1, <1>3
    <3> QED BY <2>2, <3>2, <3>4, <3>5, <1>4 DEF Beyond, Sides
  <2>3. CASE p = n /\ s = d
    <3>1. a \in M /\ L[a][d] = Null /\ c[a][d] = b[a][d] /\ a # q
      BY <2>0, <2>3, <1>7
    <3> QED BY <2>3, <3>1, <1>1, <1>3, <1>8
  <2>4. CASE p = n /\ s = 1 - d
    <3>1. a \in M /\ L[a][1 - d] = Null /\ c[a][1 - d] = b[a][1 - d]
      BY <2>0, <2>4, <1>7
    <3>2. Key[a] \in Int /\ b[a][1 - d] \in Int
      BY <3>1, <1>1, <1>4
    <3>3. Beyond(d, Key[a], Key[n])
      BY <2>4, <3>2, <1>4 DEF Beyond, Sides
    <3>4. ~Beyond(d, b[q][d], b[a][1 - d])
      BY <3>1, <3>3, <1>9
    <3>5. c[a][s] = b[a][1 - d] /\ c[p][1 - s] = b[q][d]
      BY <2>4, <3>1, <1>1, <1>3
    <3> QED BY <2>4, <3>2, <3>4, <3>5, <1>4 DEF Beyond, Sides
  <2>5. CASE a \in M /\ p \in M
    <3>1. L[a][s] = Null /\ c[a][s] = b[a][s] /\ L[p][1 - s] = Null /\ c[p][1 - s] = b[p][1 - s]
      BY <2>0, <2>5, <1>7, <1>1
    <3> QED BY <2>5, <3>1, <1>w DEF Apart
  <2> QED BY <2>0, <2>1, <2>2, <2>3, <2>4, <2>5, <1>1
<1>16. Parents(K, R, N)
  <2> SUFFICES ASSUME NEW a \in N
               PROVE  IF R[a] = Null THEN K[Tree][0] = a
                      ELSE R[a] \in N /\ \E s \in Sides : K[R[a]][s] = a
    BY DEF Parents
  <2>1. CASE a = n
    BY <2>1, <1>1, <1>k, <1>r
  <2>2. CASE a \in M /\ P[a] = Null
    BY <2>2, <1>k, <1>r, <1>w DEF Parents
  <2>3. CASE a \in M /\ P[a] # Null
    <3>1. PICK s \in Sides : P[a] \in M /\ L[P[a]][s] = a
      BY <2>3, <1>w DEF Parents
    <3>2. K[P[a]][s] = a
      BY <2>3, <3>1, <1>1, <1>5, <1>k
    <3> QED BY <2>3, <3>1, <3>2, <1>r
  <2> QED BY <2>1, <2>2, <2>3
<1>17. N \in SUBSET Nodes
  OBVIOUS
<1>19. Marked(N, c)
  <2>1. Marked(M, b)
    BY DEF Shape
  <2> SUFFICES ASSUME NEW a \in N, NEW s \in Sides
               PROVE  c[a][s] = Limit[s] \/ \E p \in N : c[a][s] = Key[p]
    BY DEF Marked
  <2>2. CASE a = n /\ s = d
    BY <2>1, <2>2, <1>3 DEF Marked
  <2>3. CASE a = n /\ s = 1 - d
    BY <2>3, <1>3
  <2>4. CASE a \in M
    BY <2>1, <2>4, <1>3 DEF Marked
  <2> QED BY <2>2, <2>3, <2>4, <1>1
<1> HIDE DEF N
<1>18. Shape(K, R, N, c)
  BY <1>2, <1>19, <1>10, <1>11, <1>12, <1>13, <1>14, <1>15, <1>16, <1>17 DEF Shape
<1> QED BY <1>18 DEF N

-----------------------------------------------------------------------------
(* Limits, and the ends of a subtree.                                       *)

(* Of the nodes of a set one lies furthest to side d. *)
LEMMA Furthest ==
  ASSUME NEW S \in SUBSET Nodes, S # {}, NEW d \in Sides
  PROVE  \E x \in S : \A y \in S : ~Beyond(d, Key[y], Key[x])
<1> DEFINE R == StrictSubsetOrdering(Nodes)
           Rest(x) == {y \in S : ~Beyond(d, Key[x], Key[y])}
           TT == {Rest(x) : x \in S}
<1>1. IsWellFoundedOn(R, SUBSET Nodes)
  BY NodesAssumption, FS_FiniteSubsetsOfFinite, FS_StrictSubsetOrderingWellFounded
<1>2. TT \subseteq SUBSET Nodes /\ TT # {}
  OBVIOUS
<1> HIDE DEF TT, R
<1>3. PICK A \in TT : \A B \in TT : ~ (<<B, A>> \in R)
  BY <1>1, <1>2, WFMin
<1> USE DEF TT, R
<1>4. PICK x \in S : A = Rest(x)
  BY <1>3
<1>5. ASSUME NEW y \in S, Beyond(d, Key[y], Key[x]) PROVE FALSE
  <2>1. \A z \in S : Key[z] \in Int
    BY KeyType
  <2>2. Rest(y) \subseteq Rest(x) /\ x \in Rest(x) /\ x \notin Rest(y)
    BY <1>5, <2>1 DEF Beyond, Sides
  <2>3. <<Rest(y), Rest(x)>> \in R
    BY <2>2 DEF StrictSubsetOrdering
  <2> QED BY <2>3, <1>3, <1>4
<1> QED BY <1>5

(* There are finitely many nodes, so there are limits.                      *)
LEMMA LimitsExist == Limit \in Limits
<1>1. \A d \in Sides : \E v \in Int : \A n \in Nodes : Beyond(d, v, Key[n])
  <2> SUFFICES ASSUME NEW d \in Sides PROVE \E v \in Int : \A n \in Nodes : Beyond(d, v, Key[n])
    OBVIOUS
  <2>1. CASE Nodes = {}
    BY <2>1
  <2>2. CASE Nodes # {}
    <3>1. PICK x \in Nodes : \A y \in Nodes : ~Beyond(d, Key[y], Key[x])
      BY <2>2, Furthest
    <3>2. \A n \in Nodes : Beyond(d, IF d = 1 THEN Key[x] + 1 ELSE Key[x] - 1, Key[n])
      BY <3>1, KeyType DEF Beyond, Sides
    <3> QED BY <3>2, KeyType
  <2> QED BY <2>1, <2>2
<1> DEFINE lim == [d \in Sides |-> CHOOSE v \in Int : \A n \in Nodes : Beyond(d, v, Key[n])]
<1>2. lim \in Limits
  BY <1>1 DEF Limits
<1> QED BY <1>2 DEF Limit

(* Each side of a subtree ends in a node with nothing there. *)
LEMMA Bottom ==
  ASSUME NEW L, NEW P, NEW M, NEW b, Shape(L, P, M, b), NEW n \in M, NEW d \in Sides
  PROVE  \E u \in M : L[u][d] = Null /\ b[u][d] = b[n][d] /\ ~Beyond(d, Key[n], Key[u])
<1> DEFINE S == {u \in M : b[u][d] = b[n][d]}
<1>1. M \subseteq Nodes
  BY DEF Shape
<1>2. PICK u \in S : \A y \in S : ~Beyond(d, Key[y], Key[u])
  BY <1>1, Furthest
<1>3. L[u][d] = Null
  <2>1. SUFFICES ASSUME L[u][d] # Null PROVE FALSE
    OBVIOUS
  <2>2. IsChild(L, P, M, b, u, d, L[u][d])
    BY <2>1, ChildIsChild
  <2> QED BY <2>2, <1>2 DEF IsChild
<1> QED BY <1>2, <1>3

(* Only members and the root decide. *)
LEMMA ShapeDepends ==
  ASSUME NEW L, NEW P, NEW M, NEW b, Shape(L, P, M, b),
         NEW K \in Links, NEW R \in Words, K[Tree][0] = L[Tree][0],
         \A n \in M : K[n][0] = L[n][0] /\ K[n][1] = L[n][1] /\ R[n] = P[n]
  PROVE  Shape(K, R, M, b)
<1>0. /\ M \in SUBSET Nodes /\ b \in Bounds
      /\ \A n \in M, s \in Sides : K[n][s] = L[n][s]
      /\ Distinct(M) /\ Within(M, b) /\ Gaps(L, M, b) /\ Apart(L, M, b) /\ Children(L, P, M, b)
      /\ Rooted(L, P, M, b) /\ Parents(L, P, M) /\ Marked(M, b)
  BY DEF Shape, Sides
<1>1. Rooted(K, R, M, b)
  BY <1>0 DEF Rooted
<1>2. Children(K, R, M, b)
  BY <1>0 DEF Children
<1>3. Gaps(K, M, b)
  BY <1>0 DEF Gaps
<1>4. Apart(K, M, b)
  <2> SUFFICES ASSUME NEW n \in M, NEW p \in M, NEW s \in Sides,
                      K[n][s] = Null, K[p][1 - s] = Null, Beyond(s, Key[p], Key[n])
               PROVE  ~Beyond(s, b[n][s], b[p][1 - s])
    BY DEF Apart
  <2>1. 1 - s \in Sides
    BY DEF Sides
  <2>2. L[n][s] = Null /\ L[p][1 - s] = Null
    BY <2>1, <1>0
  <2> QED BY <2>2, <1>0 DEF Apart
<1>5. Parents(K, R, M)
  <2> SUFFICES ASSUME NEW n \in M
               PROVE  IF R[n] = Null THEN K[Tree][0] = n
                      ELSE R[n] \in M /\ \E s \in Sides : K[R[n]][s] = n
    BY DEF Parents
  <2>1. IF P[n] = Null THEN L[Tree][0] = n ELSE P[n] \in M /\ \E s \in Sides : L[P[n]][s] = n
    BY <1>0 DEF Parents
  <2>2. CASE P[n] # Null
    <3>1. PICK s \in Sides : P[n] \in M /\ L[P[n]][s] = n
      BY <2>1, <2>2
    <3>2. K[P[n]][s] = n
      BY <3>1, <1>0
    <3> QED BY <2>2, <3>1, <3>2
  <2> QED BY <2>1, <2>2
<1> QED BY <1>0, <1>1, <1>2, <1>3, <1>4, <1>5 DEF Shape

-----------------------------------------------------------------------------
(* A node with an empty side goes out.                                      *)

\* K and R are the links and parents after p's only child has taken its place
Bypassed(L, P, K, R, M, p, d, q, e, l) ==
    /\ l = L[p][1 - d] /\ K[q][e] = l
    /\ \A a \in M, s \in Sides : a # p /\ ~(a = q /\ s = e) => K[a][s] = L[a][s]
    /\ q # Tree => K[Tree][0] = L[Tree][0]
    /\ l # Null => R[l] = P[p]
    /\ \A a \in M : a # p /\ a # l => R[a] = P[a]

(* Taking out a node with nothing on one side keeps the shape.              *)
LEMMA BypassShape ==
  ASSUME NEW L, NEW P, NEW M, NEW b, Shape(L, P, M, b),
         NEW p, NEW q, NEW e, Hangs(L, P, M, p, q, e),
         NEW d \in Sides, L[p][d] = Null,
         NEW K \in Links, NEW R \in Words, NEW l,
         Bypassed(L, P, K, R, M, p, d, q, e, l)
  PROVE  \E c : Shape(K, R, M \ {p}, c)
<1> DEFINE c == [a \in Nodes |-> [s \in Sides |->
                    IF s = d /\ b[a][s] = Key[p] THEN b[p][d] ELSE b[a][s]]]
           N == M \ {p}
<1>0. /\ L \in Links /\ P \in Words /\ M \in SUBSET Nodes /\ b \in Bounds
      /\ p \in M /\ q \in M \cup {Tree} /\ e \in Sides
  BY DEF Shape, Hangs
<1> USE <1>0
<1>1. /\ 1 - d \in Sides /\ 1 - (1 - d) = d /\ 1 - d # d
      /\ \A s \in Sides : s = d \/ s = 1 - d
      /\ Null \notin M /\ Tree \notin M
  BY NoNodes DEF Sides
<1>w. Distinct(M) /\ Within(M, b) /\ Gaps(L, M, b) /\ Apart(L, M, b) /\ Children(L, P, M, b)
      /\ Rooted(L, P, M, b) /\ Parents(L, P, M) /\ Marked(M, b)
  BY DEF Shape
<1>k. /\ K[q][e] = l
      /\ \A a \in M, s \in Sides : a # p /\ ~(a = q /\ s = e) => K[a][s] = L[a][s]
      /\ q # Tree => K[Tree][0] = L[Tree][0]
  BY DEF Bypassed
<1>r. /\ l # Null => R[l] = P[p]
      /\ \A a \in M : a # p /\ a # l => R[a] = P[a]
  BY DEF Bypassed
<1>2. c \in Bounds
  BY DEF Bounds
<1>3. \A a \in M : /\ c[a][1 - d] = b[a][1 - d]
                   /\ c[a][d] = IF b[a][d] = Key[p] THEN b[p][d] ELSE b[a][d]
  BY <1>1
<1> HIDE DEF c
<1>4. \A a \in M : /\ Key[a] \in Int
                   /\ \A s \in Sides : b[a][s] \in Int /\ c[a][s] \in Int
  BY <1>2, KeyType DEF Bounds
<1>5. \A a \in M : Key[a] = Key[p] => a = p
  BY <1>w DEF Distinct
<1>6. /\ Beyond(d, b[p][d], Key[p]) /\ Beyond(1 - d, b[p][1 - d], Key[p])
      /\ \A a \in M : Beyond(d, Key[a], Key[p]) => ~Beyond(d, b[p][d], Key[a])
  BY <1>1, <1>w DEF Within, Gaps
\* the subtree on p's side d is empty, so p bounds nothing from there
<1>7. \A a \in M : b[a][1 - d] # Key[p]
  <2> SUFFICES ASSUME NEW a \in M, b[a][1 - d] = Key[p] PROVE FALSE
    OBVIOUS
  <2>1. PICK u \in M : L[u][1 - d] = Null /\ b[u][1 - d] = Key[p]
    BY <1>1, Bottom
  <2>2. Beyond(1 - d, Key[p], Key[u])
    BY <2>1, <1>1, <1>w DEF Within
  <2>3. Beyond(d, Key[u], Key[p])
    BY <2>2, <1>4, BeyondOrder
  <2>4. ~Beyond(d, b[p][d], b[u][1 - d])
    BY <2>1, <2>3, <1>w DEF Apart
  <2> QED BY <2>1, <2>4, <1>6
<1>l. l # Null => /\ l \in M /\ l # p /\ P[l] = p /\ b[l][1 - d] = b[p][1 - d] /\ b[l][d] = Key[p]
  <2>1. l # Null => IsChild(L, P, M, b, p, 1 - d, l)
    BY <1>1, ChildIsChild DEF Bypassed
  <2> QED BY <2>1, <1>1 DEF IsChild
<1>L. L[p][1 - d] = l
  BY DEF Bypassed
<1>q. q # p
  BY HangsOnce
<1>o. \A a \in M, s \in Sides : L[a][s] = p => a = q /\ s = e
  BY HangsOnce
<1>t. L[q][e] = p
  BY DEF Hangs
\* the bounds where l comes to hang
<1>8. q # Tree => b[p][e] = b[q][e] /\ b[p][1 - e] = Key[q] /\ P[p] = q
                  /\ Beyond(e, Key[p], Key[q])
  <2> SUFFICES ASSUME q # Tree PROVE b[p][e] = b[q][e] /\ b[p][1 - e] = Key[q] /\ P[p] = q
                  /\ Beyond(e, Key[p], Key[q])
    OBVIOUS
  <2>1. IsChild(L, P, M, b, q, e, p)
    BY <1>1, <1>t, ChildIsChild
  <2> QED BY <2>1 DEF IsChild
<1>10. Distinct(N)
  BY <1>w DEF Distinct
<1>11. Within(N, c)
  <2> SUFFICES ASSUME NEW a \in N, NEW s \in Sides PROVE Beyond(s, c[a][s], Key[a])
    BY DEF Within
  <2>1. Beyond(s, b[a][s], Key[a])
    BY <1>w DEF Within
  <2>2. CASE c[a][s] = b[a][s]
    BY <2>1, <2>2
  <2>3. CASE s = d /\ b[a][d] = Key[p] /\ c[a][d] = b[p][d]
    BY <2>1, <2>3, <1>4, <1>6, BeyondOrder
  <2> QED BY <2>2, <2>3, <1>1, <1>3
<1>12. Rooted(K, R, N, c)
  <2>1. CASE q = Tree
    <3>1. e = 0 /\ P[p] = Null /\ b[p] = Limit /\ K[Tree][0] = l
      BY <2>1, <1>k, <1>t, <1>w, <1>1 DEF Hangs, Rooted
    <3>2. CASE l # Null
      <4>1. l \in N /\ R[l] = Null
        BY <3>1, <3>2, <1>l, <1>r
      <4>2. c[l][d] = Limit[d] /\ c[l][1 - d] = Limit[1 - d]
        BY <3>1, <3>2, <1>l, <1>3
      <4>3. c[l] = Limit
        <5>1. c[l] \in [Sides -> Int] /\ Limit \in [Sides -> Int]
          BY <1>2, <4>1, LimitsExist DEF Bounds, Limits
        <5> QED BY <5>1, <4>2, <1>1
      <4> QED BY <3>1, <4>1, <4>3, <1>1 DEF Rooted
    <3>3. CASE l = Null
      <4>1. ASSUME NEW a \in N PROVE FALSE
        <5>1. /\ Beyond(d, b[p][d], Key[a])
              /\ Beyond(1 - d, b[p][1 - d], Key[a])
          BY <3>1, <1>1, LimitsExist DEF Limits
        <5>2. Beyond(1 - d, Key[a], Key[p]) => ~Beyond(1 - d, b[p][1 - d], Key[a])
          BY <3>3, <1>L, <1>1, <1>w DEF Gaps
        <5>3. Beyond(d, Key[a], Key[p]) \/ Beyond(1 - d, Key[a], Key[p])
          BY <1>4, <1>5, BeyondOrder
        <5> QED BY <5>1, <5>2, <5>3, <1>6
      <4> QED BY <3>1, <3>3, <4>1 DEF Rooted
    <3> QED BY <3>2, <3>3
  <2>2. CASE q # Tree
    <3>1. K[Tree][0] = L[Tree][0] /\ L[Tree][0] # p
      BY <2>2, <1>k, HangsOnce
    <3>2. L[Tree][0] # Null /\ L[Tree][0] \in N /\ P[L[Tree][0]] = Null /\ b[L[Tree][0]] = Limit
      BY <3>1, <1>w DEF Rooted
    <3>3. L[Tree][0] # l
      BY <3>2, <1>l, <1>1
    <3>4. R[L[Tree][0]] = Null
      BY <3>2, <3>3, <1>r
    <3>5. c[L[Tree][0]] = Limit
      <4> DEFINE t == L[Tree][0]
      <4>1. c[t] \in [Sides -> Int] /\ Limit \in [Sides -> Int]
        BY <1>2, <3>2, LimitsExist DEF Bounds, Limits
      <4>2. Limit[d] # Key[p]
        BY LimitsExist, <1>4 DEF Limits, Beyond
      <4>3. c[t][d] = Limit[d] /\ c[t][1 - d] = Limit[1 - d]
        BY <3>2, <4>2, <1>3
      <4> QED BY <4>1, <4>3, <1>1
    <3> QED BY <3>1, <3>2, <3>4, <3>5 DEF Rooted
  <2> QED BY <2>1, <2>2
<1>13. Children(K, R, N, c)
  <2> SUFFICES ASSUME NEW a \in N, NEW s \in Sides, K[a][s] # Null
               PROVE  /\ K[a][s] \in N /\ R[K[a][s]] = a
                      /\ c[K[a][s]][s] = c[a][s] /\ c[K[a][s]][1 - s] = Key[a]
    BY DEF Children
  <2>1. CASE a = q /\ s = e
    <3>1. q # Tree /\ K[a][s] = l /\ l # Null
      BY <2>1, <1>k, <1>1
    <3>2. l \in N /\ R[l] = q
      BY <3>1, <1>l, <1>r, <1>8
    <3>3. b[q][d] # Key[p] \/ e = 1 - d
      BY <3>1, <1>8, <1>6, <1>4, <1>1 DEF Beyond
    <3>4. c[l][d] = b[p][d] /\ c[l][1 - d] = b[p][1 - d]
      BY <3>1, <1>l, <1>3
    <3>5. CASE e = d
      BY <2>1, <3>1, <3>2, <3>3, <3>4, <3>5, <1>1, <1>3, <1>8
    <3>6. CASE e = 1 - d
      BY <2>1, <3>1, <3>2, <3>4, <3>6, <1>1, <1>3, <1>8
    <3> QED BY <3>5, <3>6, <1>1
  <2>2. CASE ~(a = q /\ s = e)
    <3> DEFINE k == L[a][s]
    <3>1. K[a][s] = k /\ k # Null
      BY <2>2, <1>k
    <3>2. /\ k \in M /\ P[k] = a
          /\ b[k][s] = b[a][s] /\ b[k][1 - s] = Key[a]
      BY <3>1, <1>w DEF Children
    <3>3. k # p
      BY <2>2, <1>o
    <3>4. k # l
      BY <3>1, <3>2, <1>l
    <3>5. R[k] = a
      BY <3>2, <3>3, <3>4, <1>r
    <3>6. Key[a] # Key[p]
      BY <1>5
    <3> HIDE DEF k
    <3>7. CASE s = d
      BY <3>1, <3>2, <3>3, <3>5, <3>7, <1>1, <1>3
    <3>8. CASE s = 1 - d
      BY <3>1, <3>2, <3>3, <3>5, <3>6, <3>8, <1>1, <1>3
    <3> QED BY <3>7, <3>8, <1>1
  <2> QED BY <2>1, <2>2
\* an empty side of the new tree: an old one, or p's place, where l was not
<1>14. ASSUME NEW a \in N, NEW s \in Sides, K[a][s] = Null
       PROVE  \/ L[a][s] = Null
              \/ a = q /\ s = e /\ q # Tree /\ l = Null
  BY <1>14, <1>k, <1>1
\* if p's place stays empty there is no member between p's bounds
<1>15. ASSUME l = Null, NEW a \in N, Beyond(d, Key[a], b[p][1 - d])
       PROVE  ~Beyond(d, b[p][d], Key[a]) /\ Beyond(d, Key[a], Key[p])
  <2>1. Beyond(1 - d, Key[a], Key[p]) => ~Beyond(1 - d, b[p][1 - d], Key[a])
    BY <1>15, <1>L, <1>1, <1>w DEF Gaps
  <2>2. Beyond(1 - d, b[p][1 - d], Key[a])
    BY <1>15, <1>4, <1>1, BeyondOrder
  <2>3. Beyond(d, Key[a], Key[p])
    BY <2>1, <2>2, <1>4, <1>5, BeyondOrder
  <2> QED BY <2>3, <1>6
\* on side d: no member, and no start of an empty side, up to the new bound
<1>16. ASSUME NEW a \in N, K[a][d] = Null, NEW x \in N, Beyond(d, Key[x], Key[a])
       PROVE  /\ ~Beyond(d, c[a][d], Key[x])
              /\ L[x][1 - d] = Null => ~Beyond(d, c[a][d], b[x][1 - d])
  <2>0. Beyond(d, Key[x], Key[p]) => /\ ~Beyond(d, b[p][d], Key[x])
                                     /\ L[x][1 - d] = Null => ~Beyond(d, b[p][d], b[x][1 - d])
    BY <1>6, <1>w DEF Apart
  <2>1. CASE L[a][d] = Null
    <3>1. /\ ~Beyond(d, b[a][d], Key[x])
          /\ L[x][1 - d] = Null => ~Beyond(d, b[a][d], b[x][1 - d])
      BY <2>1, <1>16, <1>w DEF Gaps, Apart
    <3>2. CASE b[a][d] # Key[p]
      BY <3>1, <3>2, <1>3
    <3>3. CASE b[a][d] = Key[p]
      <4>1. Beyond(d, Key[x], Key[p])
        BY <3>1, <3>3, <1>4, <1>5, BeyondOrder
      <4> QED BY <4>1, <3>3, <2>0, <1>3
    <3> QED BY <3>2, <3>3
  <2>2. CASE a = q /\ d = e /\ q # Tree /\ l = Null
    <3>1. b[p][d] = b[q][d] /\ b[p][1 - d] = Key[q] /\ b[q][d] # Key[p]
      BY <2>2, <1>8, <1>6, <1>4 DEF Beyond
    <3>2. Beyond(d, Key[x], Key[p])
      BY <2>2, <3>1, <1>15, <1>16
    <3> QED BY <2>0, <2>2, <3>1, <3>2, <1>3
  <2> QED BY <2>1, <2>2, <1>14, <1>16
\* on the other side
<1>17. ASSUME NEW a \in N, K[a][1 - d] = Null, NEW x \in N, Beyond(1 - d, Key[x], Key[a])
       PROVE  /\ ~Beyond(1 - d, c[a][1 - d], Key[x])
              /\ L[x][d] = Null => ~Beyond(1 - d, b[a][1 - d], c[x][d])
  <2>1. CASE L[a][1 - d] = Null
    <3>1. /\ ~Beyond(1 - d, b[a][1 - d], Key[x])
          /\ L[x][d] = Null => ~Beyond(1 - d, b[a][1 - d], b[x][d])
      BY <2>1, <1>1, <1>17, <1>w DEF Gaps, Apart
    <3>2. L[x][d] = Null /\ b[x][d] = Key[p] => ~Beyond(1 - d, b[a][1 - d], c[x][d])
      <4> SUFFICES ASSUME L[x][d] = Null, b[x][d] = Key[p] PROVE ~Beyond(1 - d, b[a][1 - d], c[x][d])
        OBVIOUS
      <4>1. ~Beyond(1 - d, b[a][1 - d], Key[p]) /\ b[a][1 - d] # Key[p] /\ c[x][d] = b[p][d]
        BY <3>1, <1>3, <1>7
      <4>2. Beyond(d, b[a][1 - d], Key[p])
        BY <4>1, <1>4, <1>1, BeyondOrder
      <4>3. Beyond(d, Key[a], b[a][1 - d])
        <5>1. Beyond(1 - d, b[a][1 - d], Key[a])
          BY <1>1, <1>w DEF Within
        <5> QED BY <5>1, <1>4, <1>1, BeyondOrder
      <4>4. Beyond(d, Key[a], Key[p])
        BY <4>2, <4>3, <1>4, <1>1, BeyondOrder
      <4>5. ~Beyond(d, b[p][d], b[a][1 - d])
        BY <4>4, <2>1, <1>w DEF Apart
      <4> QED BY <4>1, <4>5, <1>4, <1>1, BeyondOrder
    <3>3. c[a][1 - d] = b[a][1 - d] /\ (b[x][d] # Key[p] => c[x][d] = b[x][d])
      BY <1>3
    <3> QED BY <3>1, <3>2, <3>3
  <2>2. CASE a = q /\ 1 - d = e /\ q # Tree /\ l = Null
    <3>1. b[p][1 - d] = b[q][1 - d] /\ b[p][d] = Key[q] /\ c[a][1 - d] = b[p][1 - d]
      BY <2>2, <1>8, <1>1, <1>3
    <3>2. Beyond(d, Key[q], Key[x])
      BY <2>2, <1>17, <1>4, <1>1, BeyondOrder
    <3>3. ~Beyond(1 - d, c[a][1 - d], Key[x])
      <4> SUFFICES ASSUME Beyond(1 - d, b[p][1 - d], Key[x]) PROVE FALSE
        BY <3>1
      <4>1. Beyond(d, Key[x], b[p][1 - d])
        BY <1>4, <1>1, BeyondOrder
      <4> QED BY <2>2, <3>1, <3>2, <4>1, <1>15
    <3>4. ASSUME L[x][d] = Null PROVE ~Beyond(1 - d, b[p][1 - d], c[x][d])
      <4>1. ~Beyond(1 - d, b[p][1 - d], Key[x])
        BY <3>1, <3>3
      <4>2. Beyond(1 - d, Key[x], Key[p])
        BY <4>1, <1>6, <1>4, <1>1 DEF Beyond, Sides
      <4>3. ~Beyond(1 - d, b[p][1 - d], b[x][d])
        BY <2>2, <3>4, <4>2, <1>L, <1>1, <1>w DEF Apart
      <4>4. b[x][d] # Key[p]
        BY <4>3, <1>6
      <4> QED BY <4>3, <4>4, <1>3
    <3> QED BY <2>2, <3>1, <3>3, <3>4
  <2> QED BY <2>1, <2>2, <1>14, <1>17, <1>1
<1>18. Gaps(K, N, c)
  <2> SUFFICES ASSUME NEW a \in N, NEW s \in Sides, NEW x \in N,
                      K[a][s] = Null, Beyond(s, Key[x], Key[a])
               PROVE  ~Beyond(s, c[a][s], Key[x])
    BY DEF Gaps
  <2> QED BY <1>1, <1>16, <1>17
\* two empty sides facing each other
<1>19. ASSUME NEW a \in N, NEW x \in N, K[a][d] = Null, K[x][1 - d] = Null,
              Beyond(d, Key[x], Key[a])
       PROVE  ~Beyond(d, c[a][d], c[x][1 - d])
  <2>0. c[x][1 - d] = b[x][1 - d]
    BY <1>3
  <2>1. CASE L[x][1 - d] = Null
    BY <2>0, <2>1, <1>16, <1>19
  <2>2. CASE L[x][1 - d] # Null
    <3>1. x = q /\ e = 1 - d /\ q # Tree /\ l = Null
      BY <2>2, <1>1, <1>14, <1>19
    <3>2. L[a][d] = Null
      BY <3>1, <1>1, <1>14, <1>19
    <3>3. b[p][1 - d] = b[x][1 - d] /\ b[p][d] = Key[x]
      BY <3>1, <1>8, <1>1
    <3>4. Beyond(1 - d, Key[a], Key[x])
      BY <1>19, <1>4, BeyondOrder
    <3>5. ~Beyond(1 - d, b[x][1 - d], c[a][d])
      BY <3>2, <3>4, <1>17, <1>19
    <3> QED BY <2>0, <3>5, <1>4, <1>1, BeyondOrder
  <2> QED BY <2>1, <2>2
<1>20. Apart(K, N, c)
  <2> SUFFICES ASSUME NEW a \in N, NEW x \in N, NEW s \in Sides,
                      K[a][s] = Null, K[x][1 - s] = Null, Beyond(s, Key[x], Key[a])
               PROVE  ~Beyond(s, c[a][s], c[x][1 - s])
    BY DEF Apart
  <2>1. CASE s = d
    BY <2>1, <1>19
  <2>2. CASE s = 1 - d
    <3>1. Beyond(d, Key[a], Key[x])
      BY <2>2, <1>4, BeyondOrder
    <3>2. ~Beyond(d, c[x][d], c[a][1 - d])
      BY <2>2, <3>1, <1>1, <1>19
    <3> QED BY <2>2, <3>2, <1>1, <1>4, BeyondOrder
  <2> QED BY <2>1, <2>2, <1>1
<1>21. Marked(N, c)
  <2> SUFFICES ASSUME NEW a \in N, NEW s \in Sides
               PROVE  c[a][s] = Limit[s] \/ \E x \in N : c[a][s] = Key[x]
    BY DEF Marked
  <2>1. /\ b[a][s] = Limit[s] \/ \E x \in M : b[a][s] = Key[x]
        /\ b[p][d] = Limit[d] \/ \E x \in M : b[p][d] = Key[x]
    BY <1>w DEF Marked
  <2>2. b[p][d] # Key[p]
    BY <1>6, <1>4 DEF Beyond
  <2>3. CASE s = d
    BY <2>1, <2>2, <2>3, <1>3
  <2>4. CASE s = 1 - d
    BY <2>1, <2>4, <1>3, <1>7
  <2> QED BY <2>3, <2>4, <1>1
<1>22. Parents(K, R, N)
  <2> SUFFICES ASSUME NEW a \in N
               PROVE  IF R[a] = Null THEN K[Tree][0] = a
                      ELSE R[a] \in N /\ \E s \in Sides : K[R[a]][s] = a
    BY DEF Parents
  <2>1. CASE a = l
    BY <2>1, <1>1, <1>k, <1>r, <1>q DEF Hangs
  <2>2. CASE a # l
    <3>1. R[a] = P[a]
      BY <2>2, <1>r
    <3>2. CASE P[a] = Null
      <4>1. L[Tree][0] = a
        BY <3>2, <1>w DEF Parents
      <4>2. q # Tree
        BY <4>1 DEF Hangs
      <4> QED BY <3>1, <3>2, <4>1, <4>2, <1>k
    <3>3. CASE P[a] # Null
      <4>1. PICK s \in Sides : P[a] \in M /\ L[P[a]][s] = a
        BY <3>3, <1>w DEF Parents
      <4>2. P[a] # p
        BY <4>1, <2>2, <1>L, <1>1
      <4>3. ~(P[a] = q /\ s = e)
        BY <4>1, <1>t
      <4>4. K[P[a]][s] = a
        BY <4>1, <4>2, <4>3, <1>k
      <4> QED BY <3>1, <3>3, <4>1, <4>2, <4>4
    <3> QED BY <3>2, <3>3
  <2> QED BY <2>1, <2>2
<1> HIDE DEF N
<1>23. N \in SUBSET Nodes
  BY DEF N
<1>24. Shape(K, R, N, c)
  BY <1>2, <1>23, <1>10, <1>11, <1>12, <1>13, <1>18, <1>20, <1>21, <1>22 DEF Shape
<1> QED BY <1>24 DEF N

-----------------------------------------------------------------------------
(* Another node takes the place of p.                                       *)

\* no member lies between p and n
Adjacent(M, p, n) ==
    \A a \in M : a # p => /\ Key[a] # Key[n]
                          /\ \A d \in Sides : Beyond(d, Key[a], Key[n]) <=> Beyond(d, Key[a], Key[p])

\* K and R are the links and parents with n in the place of p
Replaced(L, P, K, R, M, p, n) ==
    /\ \A s \in Sides : K[n][s] = L[p][s]
    /\ \A a \in M, s \in Sides : a # p => K[a][s] = IF L[a][s] = p THEN n ELSE L[a][s]
    /\ K[Tree][0] = IF L[Tree][0] = p THEN n ELSE L[Tree][0]
    /\ R[n] = P[p]
    /\ \A a \in M : a # p => R[a] = IF P[a] = p THEN n ELSE P[a]

(* Putting another node in the place of p keeps the shape.                  *)
LEMMA ReplaceShape ==
  ASSUME NEW L, NEW P, NEW M, NEW b, Shape(L, P, M, b),
         NEW p \in M, NEW n \in Nodes, n \notin M, Adjacent(M, p, n),
         NEW K \in Links, NEW R \in Words, Replaced(L, P, K, R, M, p, n)
  PROVE  \E c : Shape(K, R, (M \ {p}) \cup {n}, c)
<1> DEFINE N == (M \ {p}) \cup {n}
           old(a) == IF a = n THEN p ELSE a
           new(x) == IF x = p THEN n ELSE x
           to(v) == IF v = Key[p] THEN Key[n] ELSE v
           V == {Key[x] : x \in M} \cup {Limit[0], Limit[1]}
           c == [a \in Nodes |-> [s \in Sides |-> to(b[old(a)][s])]]
<1>0. /\ L \in Links /\ P \in Words /\ M \in SUBSET Nodes /\ b \in Bounds
  BY DEF Shape
<1> USE <1>0
<1>1. Null \notin M /\ Tree \notin M /\ n # Null /\ n # Tree /\ n # p
  BY NoNodes
<1>w. Distinct(M) /\ Within(M, b) /\ Gaps(L, M, b) /\ Apart(L, M, b) /\ Children(L, P, M, b)
      /\ Rooted(L, P, M, b) /\ Parents(L, P, M) /\ Marked(M, b)
  BY DEF Shape
<1>2. /\ V \subseteq Int /\ \A v \in V : to(v) \in Int
      /\ \A x \in M : Key[x] \in V
      /\ Limit[0] \in V /\ Limit[1] \in V
      /\ to(Limit[0]) = Limit[0] /\ to(Limit[1]) = Limit[1]
  <2>1. Limit[0] \in Int /\ Limit[1] \in Int
    BY LimitsExist DEF Limits, Sides
  <2>2. Limit[0] # Key[p] /\ Limit[1] # Key[p]
    BY LimitsExist, KeyType DEF Limits, Sides, Beyond
  <2> QED BY <2>1, <2>2, KeyType
\* the keys and bounds keep their order
<1>3. \A v, w \in V, d \in Sides : Beyond(d, to(v), to(w)) <=> Beyond(d, v, w)
  <2>1. \A v \in V, d \in Sides : v # Key[p] => /\ v # Key[n]
                                                /\ Beyond(d, v, Key[n]) <=> Beyond(d, v, Key[p])
    <3> SUFFICES ASSUME NEW v \in V, NEW d \in Sides, v # Key[p]
                 PROVE  v # Key[n] /\ (Beyond(d, v, Key[n]) <=> Beyond(d, v, Key[p]))
      OBVIOUS
    <3>1. CASE v \in {Limit[0], Limit[1]}
      BY <3>1, LimitsExist, KeyType DEF Limits, Sides, Beyond
    <3>2. CASE \E x \in M : v = Key[x]
      BY <3>2 DEF Adjacent
    <3> QED BY <3>1, <3>2
  <2> SUFFICES ASSUME NEW v \in V, NEW w \in V, NEW d \in Sides
               PROVE  Beyond(d, to(v), to(w)) <=> Beyond(d, v, w)
    OBVIOUS
  <2>2. v \in Int /\ w \in Int /\ Key[n] \in Int /\ Key[p] \in Int
    BY <1>2, KeyType
  <2>3. CASE v = Key[p] /\ w = Key[p]
    BY <2>2, <2>3 DEF Beyond
  <2>4. CASE v = Key[p] /\ w # Key[p]
    <3>1. w # Key[n] /\ (Beyond(d, w, Key[n]) <=> Beyond(d, w, Key[p]))
      BY <2>1, <2>4
    <3> QED BY <2>2, <2>4, <3>1, BeyondOrder
  <2>5. CASE v # Key[p] /\ w = Key[p]
    BY <2>1, <2>5
  <2>6. CASE v # Key[p] /\ w # Key[p]
    BY <2>6
  <2> QED BY <2>3, <2>4, <2>5, <2>6
<1>4. /\ \A a \in N : old(a) \in M /\ new(old(a)) = a /\ Key[a] = to(Key[old(a)])
      /\ \A x \in M : new(x) \in N /\ old(new(x)) = x /\ Key[new(x)] = to(Key[x])
  BY <1>1, <1>w DEF Distinct
<1>5. \A x \in M, s \in Sides : b[x][s] \in V
  <2> SUFFICES ASSUME NEW x \in M, NEW s \in Sides PROVE b[x][s] \in V
    OBVIOUS
  <2>1. b[x][s] = Limit[s] \/ \E y \in M : b[x][s] = Key[y]
    BY <1>w DEF Marked
  <2> QED BY <2>1, <1>2 DEF Sides
<1>6. \A a \in N, s \in Sides : c[a][s] = to(b[old(a)][s])
  OBVIOUS
<1>7. c \in Bounds
  <2>1. \A a \in Nodes, s \in Sides : to(b[old(a)][s]) \in Int
    <3> SUFFICES ASSUME NEW a \in Nodes, NEW s \in Sides PROVE to(b[old(a)][s]) \in Int
      OBVIOUS
    <3>1. b[old(a)][s] \in Int
      BY DEF Bounds
    <3> QED BY <3>1, KeyType
  <2> QED BY <2>1 DEF Bounds
<1>8. \A x \in M, s \in Sides : L[x][s] # p \/ x # p
  BY ChildFacts, <1>1
<1>9. \A a \in N, s \in Sides :
         K[a][s] = IF L[old(a)][s] = Null THEN Null ELSE new(L[old(a)][s])
  BY <1>1, <1>8 DEF Replaced
<1>10. \A a \in N : R[a] = IF P[old(a)] = Null THEN Null ELSE new(P[old(a)])
  <2>1. P[p] # p
    <3>1. P[p] = Null \/ \E s \in Sides : L[P[p]][s] = p
      BY <1>w DEF Parents
    <3> QED BY <3>1, <1>8, <1>1
  <2> QED BY <1>1, <2>1 DEF Replaced
<1>11. K[Tree][0] = IF L[Tree][0] = Null THEN Null ELSE new(L[Tree][0])
  BY <1>1 DEF Replaced
<1>12. N \subseteq Nodes
  OBVIOUS
<1> HIDE DEF c, N, old, new, to, V
<1>13. /\ \A a \in N : old(a) \in M /\ Key[a] = to(Key[old(a)])
       /\ \A a \in N, s \in Sides : c[a][s] = to(b[old(a)][s])
       /\ \A a \in N, s \in Sides : K[a][s] = Null => L[old(a)][s] = Null
       /\ \A a, x \in N, d \in Sides : Beyond(d, Key[x], Key[a]) => Beyond(d, Key[old(x)], Key[old(a)])
  <2>1. \A a \in N, s \in Sides : K[a][s] = Null => L[old(a)][s] = Null
    <3> SUFFICES ASSUME NEW a \in N, NEW s \in Sides, L[old(a)][s] # Null PROVE K[a][s] # Null
      OBVIOUS
    <3>1. L[old(a)][s] \in M
      BY <1>4, <1>w DEF Children
    <3>2. new(L[old(a)][s]) \in N
      BY <3>1, <1>4
    <3> QED BY <3>2, <1>9, <1>12, NoNodes
  <2> QED BY <2>1, <1>2, <1>3, <1>4, <1>6
<1>14. Distinct(N)
  <2> SUFFICES ASSUME NEW a \in N, NEW x \in N, Key[a] = Key[x] PROVE a = x
    BY DEF Distinct
  <2>1. ~Beyond(1, to(Key[old(a)]), to(Key[old(x)])) /\ ~Beyond(0, to(Key[old(a)]), to(Key[old(x)]))
    <3>1. Key[a] \in Int
      BY <1>12, KeyType
    <3> QED BY <3>1, <1>4 DEF Beyond
  <2>2. ~Beyond(1, Key[old(a)], Key[old(x)]) /\ ~Beyond(0, Key[old(a)], Key[old(x)])
    BY <2>1, <1>2, <1>3, <1>4 DEF Sides
  <2>3. Key[old(a)] = Key[old(x)]
    <3>1. Key[old(a)] \in Int /\ Key[old(x)] \in Int
      BY <1>4, KeyType
    <3> QED BY <2>2, <3>1 DEF Beyond
  <2>4. old(a) = old(x)
    BY <2>3, <1>4, <1>w DEF Distinct
  <2> QED BY <2>4, <1>4
<1>15. Within(N, c)
  <2> SUFFICES ASSUME NEW a \in N, NEW s \in Sides PROVE Beyond(s, c[a][s], Key[a])
    BY DEF Within
  <2>1. Beyond(s, b[old(a)][s], Key[old(a)])
    BY <1>4, <1>w DEF Within
  <2> QED BY <2>1, <1>2, <1>3, <1>4, <1>5, <1>6
<1>16. Rooted(K, R, N, c)
  <2>1. CASE L[Tree][0] = Null
    BY <2>1, <1>11, <1>w DEF Rooted, N
  <2>2. CASE L[Tree][0] # Null
    <3> DEFINE t == L[Tree][0]
    <3>1. t \in M /\ P[t] = Null /\ b[t] = Limit
      BY <2>2, <1>w DEF Rooted
    <3>2. K[Tree][0] = new(t) /\ new(t) \in N /\ old(new(t)) = t
      BY <2>2, <3>1, <1>4, <1>11
    <3> HIDE DEF t
    <3>3. R[new(t)] = Null
      BY <3>1, <3>2, <1>10
    <3>4. c[new(t)][0] = Limit[0] /\ c[new(t)][1] = Limit[1]
      BY <3>1, <3>2, <1>2, <1>6 DEF Sides
    <3>5. c[new(t)] = Limit
      <4>1. c[new(t)] \in [Sides -> Int] /\ Limit \in [Sides -> Int]
        BY <1>7, <3>2, <1>12, LimitsExist DEF Bounds, Limits
      <4> QED BY <4>1, <3>4 DEF Sides
    <3> QED BY <3>2, <3>3, <3>5, <1>12, NoNodes DEF Rooted
  <2> QED BY <2>1, <2>2
<1>17. Children(K, R, N, c)
  <2> SUFFICES ASSUME NEW a \in N, NEW s \in Sides, K[a][s] # Null
               PROVE  /\ K[a][s] \in N /\ R[K[a][s]] = a
                      /\ c[K[a][s]][s] = c[a][s] /\ c[K[a][s]][1 - s] = Key[a]
    BY DEF Children
  <2> DEFINE k == L[old(a)][s]
  <2>1. k # Null /\ K[a][s] = new(k) /\ old(a) \in M /\ new(old(a)) = a /\ old(a) # Null /\ 1 - s \in Sides
    BY <1>4, <1>9, <1>1 DEF Sides
  <2>2. k \in M /\ P[k] = old(a) /\ b[k][s] = b[old(a)][s] /\ b[k][1 - s] = Key[old(a)]
    BY <2>1, <1>w DEF Children
  <2> HIDE DEF k
  <2>3. new(k) \in N /\ old(new(k)) = k
    BY <2>2, <1>4
  <2>4. R[new(k)] = a
    BY <2>1, <2>2, <2>3, <1>10
  <2>5. c[new(k)][s] = to(b[k][s]) /\ c[new(k)][1 - s] = to(b[k][1 - s]) /\ c[a][s] = to(b[old(a)][s])
    BY <2>1, <2>3, <1>6
  <2>6. Key[a] = to(Key[old(a)])
    BY <1>4
  <2> QED BY <2>1, <2>2, <2>3, <2>4, <2>5, <2>6
<1>18. Gaps(K, N, c)
  <2> SUFFICES ASSUME NEW a \in N, NEW s \in Sides, NEW x \in N,
                      K[a][s] = Null, Beyond(s, Key[x], Key[a])
               PROVE  ~Beyond(s, c[a][s], Key[x])
    BY DEF Gaps
  <2>1. L[old(a)][s] = Null /\ Beyond(s, Key[old(x)], Key[old(a)]) /\ old(a) \in M /\ old(x) \in M
    BY <1>13
  <2>2. ~Beyond(s, b[old(a)][s], Key[old(x)])
    BY <2>1, <1>w DEF Gaps
  <2>3. b[old(a)][s] \in V /\ Key[old(x)] \in V
    BY <2>1, <1>2, <1>5
  <2>4. c[a][s] = to(b[old(a)][s]) /\ Key[x] = to(Key[old(x)])
    BY <1>13
  <2> QED BY <2>2, <2>3, <2>4, <1>3
<1>19. Apart(K, N, c)
  <2> SUFFICES ASSUME NEW a \in N, NEW x \in N, NEW s \in Sides,
                      K[a][s] = Null, K[x][1 - s] = Null, Beyond(s, Key[x], Key[a])
               PROVE  ~Beyond(s, c[a][s], c[x][1 - s])
    BY DEF Apart
  <2>0. 1 - s \in Sides
    BY DEF Sides
  <2>1. /\ L[old(a)][s] = Null /\ L[old(x)][1 - s] = Null
        /\ Beyond(s, Key[old(x)], Key[old(a)]) /\ old(a) \in M /\ old(x) \in M
    BY <2>0, <1>13
  <2>2. ~Beyond(s, b[old(a)][s], b[old(x)][1 - s])
    BY <2>1, <1>w DEF Apart
  <2>3. b[old(a)][s] \in V /\ b[old(x)][1 - s] \in V
    BY <2>0, <2>1, <1>5
  <2>4. c[a][s] = to(b[old(a)][s]) /\ c[x][1 - s] = to(b[old(x)][1 - s])
    BY <2>0, <1>6
  <2> QED BY <2>2, <2>3, <2>4, <1>3
<1>20. Marked(N, c)
  <2> SUFFICES ASSUME NEW a \in N, NEW s \in Sides
               PROVE  c[a][s] = Limit[s] \/ \E x \in N : c[a][s] = Key[x]
    BY DEF Marked
  <2>1. c[a][s] = to(b[old(a)][s]) /\ old(a) \in M
    BY <1>4, <1>6
  <2>2. CASE b[old(a)][s] = Limit[s]
    BY <2>1, <2>2, <1>2 DEF Sides
  <2>3. CASE \E y \in M : b[old(a)][s] = Key[y]
    <3>1. PICK y \in M : b[old(a)][s] = Key[y]
      BY <2>3
    <3>2. new(y) \in N /\ Key[new(y)] = to(Key[y])
      BY <1>4
    <3> QED BY <2>1, <3>1, <3>2
  <2> QED BY <2>1, <2>2, <2>3, <1>w DEF Marked
<1>21. Parents(K, R, N)
  <2> SUFFICES ASSUME NEW a \in N
               PROVE  IF R[a] = Null THEN K[Tree][0] = a
                      ELSE R[a] \in N /\ \E s \in Sides : K[R[a]][s] = a
    BY DEF Parents
  <2>1. old(a) \in M /\ new(old(a)) = a /\ old(a) # Null
    BY <1>1, <1>4
  <2>2. CASE P[old(a)] = Null
    BY <2>1, <2>2, <1>10, <1>11, <1>w DEF Parents
  <2>3. CASE P[old(a)] # Null
    <3> DEFINE r == P[old(a)]
    <3>1. PICK s \in Sides : r \in M /\ L[r][s] = old(a)
      BY <2>1, <2>3, <1>w DEF Parents
    <3>2. R[a] = new(r)
      BY <2>3, <1>10
    <3> HIDE DEF r
    <3>3. new(r) \in N /\ old(new(r)) = r
      BY <3>1, <1>4
    <3>4. K[new(r)][s] = a
      BY <2>1, <3>1, <3>3, <1>9
    <3>5. new(r) # Null
      BY <3>3, <1>12, NoNodes
    <3> QED BY <3>2, <3>3, <3>4, <3>5
  <2> QED BY <2>2, <2>3
<1>22. Shape(K, R, N, c)
  BY <1>7, <1>12, <1>14, <1>15, <1>16, <1>17, <1>18, <1>19, <1>20, <1>21 DEF Shape
<1> QED BY <1>22 DEF N

-----------------------------------------------------------------------------
(* The accessors and the single rotation of avl.c.                          *)

(* A factor has three bits.                                                 *)
LEMMA Modulo == \A i \in Int : i % 8 \in 0..7
OBVIOUS

\* u is t with one link, one parent, or nothing of the two changed
Relinked(t, u, n, d, v) ==
    /\ u \in Trees /\ u.par = t.par /\ u.bal = t.bal /\ u.fault = t.fault
    /\ \A a \in Nodes \cup {Tree}, s \in Sides :
          u.link[a][s] = IF a = n /\ s = d THEN v ELSE t.link[a][s]

\* ... or the parent of n changed
Reparented(t, u, n, p) ==
    /\ u \in Trees /\ u.link = t.link /\ u.fault = t.fault
    /\ \A a \in Nodes : u.par[a] = IF a = n THEN p ELSE t.par[a]

(* What the accessors of avl.c change and leave alone.                      *)
LEMMA SetLink ==
  ASSUME NEW t \in Trees, NEW n \in Nodes \cup {Tree}, NEW d \in Sides, NEW v \in Nodes \cup {Null}
  PROVE  Relinked(t, setLink(t, n, d, v), n, d, v) /\ setLink(t, n, d, v) \in Trees
BY DEF setLink, Trees, Sides, Relinked

(* setBoth changes a parent and a factor.                                   *)
LEMMA SetBoth ==
  ASSUME NEW t \in Trees, NEW n \in Nodes, NEW p \in Nodes \cup {Null}, NEW i \in Int
  PROVE  Reparented(t, setBoth(t, n, p, i), n, p) /\ setBoth(t, n, p, i) \in Trees
BY Modulo DEF setBoth, Trees, Reparented

(* addBalance changes neither links nor parents.                            *)
LEMMA AddBalance ==
  ASSUME NEW t \in Trees, NEW n \in Nodes, NEW i \in Int
  PROVE  /\ addBalance(t, n, i) \in Trees
         /\ addBalance(t, n, i).link = t.link /\ addBalance(t, n, i).par = t.par
         /\ addBalance(t, n, i).fault = t.fault
<1>1. t.bal[n] + i \in Int
  BY DEF Trees
<1>2. (t.bal[n] + i) % 8 \in 0..7
  BY <1>1, Modulo
<1> QED BY <1>2 DEF addBalance, Trees

(* adopt changes a parent, or nothing.                                      *)
LEMMA Adopt ==
  ASSUME NEW t \in Trees, NEW n \in Nodes \cup {Null}, NEW p \in Nodes \cup {Null}
  PROVE  Reparented(t, adopt(t, n, p), n, p) /\ adopt(t, n, p) \in Trees
BY NoNodes DEF adopt, Trees, Reparented

(* A null pointer used changes nothing else.                                *)
LEMMA Faulty ==
  ASSUME NEW t \in Trees
  PROVE  Fault(t) \in Trees /\ Fault(t).fault = TRUE /\ Fault(t).link = t.link /\ Fault(t).par = t.par
BY DEF Fault, Trees

(* Forgetting n leaves every other node alone.                              *)
LEMMA Forgotten ==
  ASSUME NEW t \in Trees, NEW n \in Nodes
  PROVE  /\ Forget(t, n) \in Trees /\ Forget(t, n).fault = t.fault
         /\ Forget(t, n).link[Tree] = t.link[Tree]
         /\ \A a \in Nodes : a # n => /\ Forget(t, n).link[a] = t.link[a]
                                      /\ Forget(t, n).par[a] = t.par[a]
<1> DEFINE bare == Empty.link[n]
           u == Forget(t, n)
<1>1. bare \in [{0, 1} -> Nodes \cup {Null}]
  BY DEF Empty
<1> HIDE DEF bare
<1>0. u = [t EXCEPT !.link[n] = bare, !.par[n] = Null, !.bal[n] = 0]
  BY DEF Forget, bare
<1>2. u = [link |-> [t.link EXCEPT ![n] = bare], par |-> [t.par EXCEPT ![n] = Null],
           bal |-> [t.bal EXCEPT ![n] = 0], fault |-> t.fault]
  BY <1>0 DEF Trees
<1> HIDE DEF u
<1>3. /\ t.link \in [Nodes \cup {Tree} -> [{0, 1} -> Nodes \cup {Null}]]
      /\ t.par \in [Nodes -> Nodes \cup {Null}] /\ t.bal \in [Nodes -> 0..7]
      /\ t.fault \in BOOLEAN
  BY DEF Trees
<1>4. u \in Trees
  BY <1>1, <1>2, <1>3 DEF Trees
<1>5. n # Tree
  BY NoNodes
<1>6. u.link = [t.link EXCEPT ![n] = bare] /\ u.par = [t.par EXCEPT ![n] = Null] /\ u.fault = t.fault
  BY <1>2
<1>7. u.link[Tree] = t.link[Tree]
  BY <1>3, <1>5, <1>6
<1>8. \A a \in Nodes : a # n => u.link[a] = t.link[a] /\ u.par[a] = t.par[a]
  BY <1>3, <1>6
<1> QED BY <1>4, <1>6, <1>7, <1>8 DEF u

(* What a tree in memory holds.                                             *)
LEMMA LinkTypes ==
  ASSUME NEW t \in Trees
  PROVE  /\ t.link \in Links /\ t.par \in Words
         /\ \A a \in Nodes \cup {Tree}, s \in Sides : Link(t, a, s) = t.link[a][s] /\ Link(t, a, s) \in Nodes \cup {Null}
         /\ \A a \in Nodes : Parent(t, a) = t.par[a] /\ Parent(t, a) \in Nodes \cup {Null}
         /\ \A a \in Nodes : t.bal[a] \in 0..7
         /\ t.fault \in BOOLEAN
BY DEF Trees, Links, Words, Sides, Link, Parent

(* There are two sides.                                                     *)
LEMMA Sides2 == \A d \in Sides : /\ d = 0 \/ d = 1
                                 /\ 1 - d \in Sides /\ 1 - (1 - d) = d /\ 1 - d # d
                                 /\ \A s \in Sides : s = d \/ s = 1 - d
                                 /\ Sign(d) \in Int /\ -Sign(d) \in Int
BY DEF Sides, Sign

-----------------------------------------------------------------------------
(* A rotation keeps the tree well typed, whatever its links. *)
LEMMA SingleTypes ==
  ASSUME NEW t \in Trees, NEW y \in Nodes, NEW d \in Sides, NEW i \in Int, NEW j \in Int,
         Link(t, y, d) # Null
  PROVE  /\ SingleRotation(t, y, d, i, j).t \in Trees
         /\ SingleRotation(t, y, d, i, j).t.fault = t.fault
         /\ SingleRotation(t, y, d, i, j).w = Link(t, y, d)
<1> DEFINE x == Link(t, y, d)
           t0 == setLink(t, y, d, Link(t, x, 1 - d))
           t1 == setLink(t0, x, 1 - d, y)
           t2 == setBoth(t1, x, Parent(t, y), i)
           t3 == setBoth(t2, y, x, j)
           t4 == adopt(t3, Link(t3, y, d), y)
<1>7. SingleRotation(t, y, d, i, j) = [t |-> t4, w |-> x]
  BY DEF SingleRotation
<1>1. x \in Nodes /\ 1 - d \in Sides
  BY LinkTypes, Sides2
<1> HIDE DEF x
<1>2. t0 \in Trees /\ Relinked(t, t0, y, d, Link(t, x, 1 - d))
  BY <1>1, LinkTypes, SetLink
<1> HIDE DEF t0
<1>3. t1 \in Trees /\ Relinked(t0, t1, x, 1 - d, y)
  BY <1>1, <1>2, SetLink
<1> HIDE DEF t1
<1>4. t2 \in Trees /\ Reparented(t1, t2, x, Parent(t, y))
  BY <1>1, <1>3, SetBoth, LinkTypes
<1> HIDE DEF t2
<1>5. t3 \in Trees /\ Reparented(t2, t3, y, x)
  BY <1>1, <1>4, SetBoth
<1> HIDE DEF t3
<1>6. t4 \in Trees /\ Reparented(t3, t4, Link(t3, y, d), y)
  BY <1>1, <1>5, LinkTypes, Adopt
<1> HIDE DEF t4
<1>8. t4.fault = t.fault
  BY <1>2, <1>3, <1>4, <1>5, <1>6 DEF Relinked, Reparented
<1> QED BY <1>6, <1>7, <1>8 DEF x

\* x and z are the child and the grandchild that a rotation moves
Elbow(t, y, d, x, z) == x = Link(t, y, d) /\ x # Null /\ z = Link(t, x, 1 - d)

(* The links and parents after SingleRotation.                              *)
LEMMA SingleEffect ==
  ASSUME NEW t \in Trees, NEW y \in Nodes, NEW d \in Sides, NEW i \in Int, NEW j \in Int,
         NEW x, NEW z, Elbow(t, y, d, x, z), x # y,
         NEW u, u = SingleRotation(t, y, d, i, j).t
  PROVE  /\ \A a \in Nodes \cup {Tree}, s \in Sides :
               u.link[a][s] = IF a = y /\ s = d THEN z ELSE IF a = x /\ s = 1 - d THEN y
                              ELSE t.link[a][s]
         /\ \A a \in Nodes : u.par[a] = IF a = z THEN y ELSE IF a = y THEN x
                                        ELSE IF a = x THEN t.par[y] ELSE t.par[a]
<1> DEFINE r == Parent(t, y)
           t0 == setLink(t, y, d, z)
           t1 == setLink(t0, x, 1 - d, y)
           t2 == setBoth(t1, x, r, i)
           t3 == setBoth(t2, y, x, j)
           t4 == adopt(t3, Link(t3, y, d), y)
<1>7. u = t4
  BY DEF SingleRotation, Elbow
<1>1. x \in Nodes /\ 1 - d \in Sides /\ z \in Nodes \cup {Null} /\ r = t.par[y]
      /\ r \in Nodes \cup {Null}
  BY LinkTypes, Sides2 DEF Elbow
<1> HIDE DEF r
<1>2. t0 \in Trees /\ Relinked(t, t0, y, d, z)
  BY <1>1, SetLink
<1> HIDE DEF t0
<1>3. t1 \in Trees /\ Relinked(t0, t1, x, 1 - d, y)
  BY <1>1, <1>2, SetLink
<1> HIDE DEF t1
<1>4. t2 \in Trees /\ Reparented(t1, t2, x, r)
  BY <1>1, <1>3, SetBoth
<1> HIDE DEF t2
<1>5. t3 \in Trees /\ Reparented(t2, t3, y, x)
  BY <1>1, <1>4, SetBoth
<1> HIDE DEF t3
<1>8. Link(t3, y, d) = z
  <2>1. Link(t3, y, d) = t1.link[y][d]
    BY <1>4, <1>5, LinkTypes DEF Reparented
  <2> QED BY <2>1, <1>1, <1>2, <1>3 DEF Relinked
<1>6. t4 \in Trees /\ Reparented(t3, t4, z, y)
  BY <1>1, <1>5, <1>8, Adopt
<1> HIDE DEF t4
<1>9. \A a \in Nodes \cup {Tree}, s \in Sides :
          u.link[a][s] = IF a = y /\ s = d THEN z ELSE IF a = x /\ s = 1 - d THEN y
                         ELSE t.link[a][s]
  <2>1. u.link = t1.link
    BY <1>4, <1>5, <1>6, <1>7 DEF Reparented
  <2>2. \A a \in Nodes \cup {Tree}, s \in Sides :
           t1.link[a][s] = IF a = x /\ s = 1 - d THEN y ELSE t0.link[a][s]
    BY <1>3 DEF Relinked
  <2>3. \A a \in Nodes \cup {Tree}, s \in Sides :
           t0.link[a][s] = IF a = y /\ s = d THEN z ELSE t.link[a][s]
    BY <1>2 DEF Relinked
  <2> QED BY <2>1, <2>2, <2>3, <1>1
<1>10. \A a \in Nodes : u.par[a] = IF a = z THEN y ELSE IF a = y THEN x
                                        ELSE IF a = x THEN t.par[y] ELSE t.par[a]
  <2>1. t1.par = t.par
    BY <1>2, <1>3 DEF Relinked
  <2>2. \A a \in Nodes : t2.par[a] = IF a = x THEN r ELSE t1.par[a]
    BY <1>4 DEF Reparented
  <2>3. \A a \in Nodes : t3.par[a] = IF a = y THEN x ELSE t2.par[a]
    BY <1>5 DEF Reparented
  <2>4. \A a \in Nodes : t4.par[a] = IF a = z THEN y ELSE t3.par[a]
    BY <1>6 DEF Reparented
  <2> QED BY <2>1, <2>2, <2>3, <2>4, <1>1, <1>7
<1> QED BY <1>9, <1>10

-----------------------------------------------------------------------------
(* The double rotation of avl.c.                                            *)

(* A double rotation of a child with nothing to go up uses a null pointer.  *)
LEMMA DoubleTypes ==
  ASSUME NEW t \in Trees, NEW y \in Nodes, NEW d \in Sides, Link(t, y, d) # Null
  PROVE  LET x == Link(t, y, d)  w == Link(t, x, 1 - d)  r == DoubleRotation(t, y, d)
         IN  /\ r.t \in Trees
             /\ w = Null => r.t.fault = TRUE /\ r.w = y
             /\ w # Null => r.t.fault = t.fault /\ r.w = w
<1> DEFINE x == Link(t, y, d)
           w == Link(t, x, 1 - d)
           s == Sign(d)
           b == t.bal[w]
           ta == setLink(t, x, 1 - d, Link(t, w, d))
           tb == setLink(ta, w, d, x)
           tc == setLink(tb, y, d, Link(tb, w, 1 - d))
           td == setLink(tc, w, 1 - d, y)
           t3 == setBoth(td, x, w, IF b = s \/ b = 0 THEN 0 ELSE s)
           t4 == setBoth(t3, y, w, IF b = s THEN -s ELSE 0)
           r == Parent(t, y)
           o == 0
           t5 == setBoth(t4, w, r, o)
           t6 == adopt(t5, Link(t5, x, 1 - d), x)
           t7 == adopt(t6, Link(t6, y, d), y)
<1>1. x \in Nodes /\ w \in Nodes \cup {Null} /\ 1 - d \in Sides /\ s \in Int /\ -s \in Int
  BY LinkTypes, Sides2
<1>2. /\ w = Null => DoubleRotation(t, y, d) = [t |-> Fault(t), w |-> y]
      /\ w # Null => DoubleRotation(t, y, d) = [t |-> t7, w |-> w]
  BY DEF DoubleRotation
<1>3. CASE w = Null
  <2>1. DoubleRotation(t, y, d) = [t |-> Fault(t), w |-> y]
    BY <1>2, <1>3
  <2>2. Fault(t) \in Trees /\ Fault(t).fault = TRUE
    BY Faulty
  <2> HIDE DEF t7
  <2> QED BY <2>1, <2>2, <1>3
<1>4. CASE w # Null
  <2>1. w \in Nodes /\ r \in Nodes \cup {Null} /\ o \in Int
    BY <1>1, <1>4, LinkTypes
  <2> HIDE DEF x, w, s, r, o
  <2>2. ta \in Trees /\ Relinked(t, ta, x, 1 - d, Link(t, w, d))
    BY <1>1, <2>1, LinkTypes, SetLink
  <2> HIDE DEF ta
  <2>3. tb \in Trees /\ Relinked(ta, tb, w, d, x)
    BY <1>1, <2>1, <2>2, SetLink
  <2> HIDE DEF tb
  <2>4. tc \in Trees /\ Relinked(tb, tc, y, d, Link(tb, w, 1 - d))
    BY <1>1, <2>1, <2>3, LinkTypes, SetLink
  <2> HIDE DEF tc
  <2>5. td \in Trees /\ Relinked(tc, td, w, 1 - d, y)
    BY <1>1, <2>1, <2>4, SetLink
  <2> HIDE DEF td
  <2>6. t3 \in Trees /\ t3.fault = td.fault
    <3> DEFINE i == IF b = s \/ b = 0 THEN 0 ELSE s
    <3>1. i \in Int
      BY <1>1
    <3> HIDE DEF i
    <3>3. Reparented(td, setBoth(td, x, w, i), x, w)
      BY <1>1, <2>1, <2>5, <3>1, SetBoth
    <3>2. setBoth(td, x, w, i) \in Trees /\ setBoth(td, x, w, i).fault = td.fault
      BY <3>3 DEF Reparented
    <3> QED BY <3>2 DEF i
  <2> HIDE DEF t3
  <2>7. t4 \in Trees /\ t4.fault = t3.fault
    <3> DEFINE i == IF b = s THEN -s ELSE 0
    <3>1. i \in Int
      BY <1>1
    <3> HIDE DEF i
    <3>3. Reparented(t3, setBoth(t3, y, w, i), y, w)
      BY <1>1, <2>1, <2>6, <3>1, SetBoth
    <3>2. setBoth(t3, y, w, i) \in Trees /\ setBoth(t3, y, w, i).fault = t3.fault
      BY <3>3 DEF Reparented
    <3> QED BY <3>2 DEF i
  <2> HIDE DEF t4
  <2>13. Reparented(t4, t5, w, r)
    BY <2>1, <2>7, SetBoth
  <2>8. t5 \in Trees /\ t5.fault = t4.fault
    BY <2>13 DEF Reparented
  <2> HIDE DEF t5
  <2>9. t6 \in Trees /\ t6.fault = t5.fault
    BY <1>1, <2>8, LinkTypes, Adopt DEF Reparented
  <2> HIDE DEF t6
  <2>10. t7 \in Trees /\ t7.fault = t6.fault
    BY <1>1, <2>9, LinkTypes, Adopt DEF Reparented
  <2> HIDE DEF t7
  <2>11. td.fault = t.fault
    BY <2>2, <2>3, <2>4, <2>5 DEF Relinked
  <2>12. t7.fault = t.fault
    BY <2>6, <2>7, <2>8, <2>9, <2>10, <2>11
  <2> QED BY <1>2, <1>4, <2>10, <2>12 DEF x, w
<1> QED BY <1>3, <1>4

\* the four nodes that a double rotation moves
Elbows(t, y, d, x, w, u, v) ==
    /\ x = Link(t, y, d) /\ x # Null /\ w = Link(t, x, 1 - d) /\ w # Null
    /\ u = Link(t, w, d) /\ v = Link(t, w, 1 - d)

(* The links and parents after DoubleRotation.                              *)
LEMMA DoubleEffect ==
  ASSUME NEW t \in Trees, NEW y \in Nodes, NEW d \in Sides,
         NEW x, NEW w, NEW u, NEW v, Elbows(t, y, d, x, w, u, v),
         x # y, w # x, w # y, u # w,
         NEW k, k = DoubleRotation(t, y, d).t
  PROVE  /\ \A a \in Nodes \cup {Tree}, s \in Sides :
               k.link[a][s] = IF a = x /\ s = 1 - d THEN u ELSE IF a = w /\ s = d THEN x
                              ELSE IF a = y /\ s = d THEN v ELSE IF a = w THEN y
                              ELSE t.link[a][s]
         /\ \A a \in Nodes : k.par[a] = IF a = v THEN y ELSE IF a = u THEN x
                                        ELSE IF a = w THEN t.par[y]
                                        ELSE IF a = y THEN w ELSE IF a = x THEN w
                                        ELSE t.par[a]
<1> DEFINE s == Sign(d)
           b == t.bal[w]
           r == Parent(t, y)
           ta == setLink(t, x, 1 - d, u)
           tb == setLink(ta, w, d, x)
           tc == setLink(tb, y, d, Link(tb, w, 1 - d))
           td == setLink(tc, w, 1 - d, y)
           i == IF b = s \/ b = 0 THEN 0 ELSE s
           j == IF b = s THEN -s ELSE 0
           t3 == setBoth(td, x, w, i)
           t4 == setBoth(t3, y, w, j)
           o == 0
           t5 == setBoth(t4, w, r, o)
           t6 == adopt(t5, Link(t5, x, 1 - d), x)
           t7 == adopt(t6, Link(t6, y, d), y)
<1>1. k = t7
  BY DEF DoubleRotation, Elbows
<1>2. x \in Nodes /\ w \in Nodes /\ 1 - d \in Sides /\ i \in Int /\ j \in Int /\ o \in Int
      /\ u \in Nodes \cup {Null} /\ v \in Nodes \cup {Null} /\ r = t.par[y]
      /\ r \in Nodes \cup {Null} /\ d # 1 - d /\ v = t.link[w][1 - d]
      /\ \A z \in Sides : z = d \/ z = 1 - d
  <2>1. x \in Nodes /\ w \in Nodes
    <3>1. Link(t, y, d) \in Nodes \cup {Null}
      BY LinkTypes
    <3>2. x \in Nodes
      BY <3>1 DEF Elbows
    <3>3. Link(t, x, 1 - d) \in Nodes \cup {Null}
      BY <3>2, LinkTypes, Sides2
    <3> QED BY <3>2, <3>3 DEF Elbows
  <2>2. 1 - d \in Sides /\ s \in Int /\ -s \in Int /\ d # 1 - d /\ \A z \in Sides : z = d \/ z = 1 - d
    BY Sides2
  <2>3. Link(t, w, d) \in Nodes \cup {Null} /\ Link(t, w, 1 - d) \in Nodes \cup {Null}
        /\ Link(t, w, 1 - d) = t.link[w][1 - d]
    BY <2>1, <2>2, LinkTypes
  <2>4. r = t.par[y] /\ r \in Nodes \cup {Null}
    BY LinkTypes
  <2> HIDE DEF s, b, r
  <2> QED BY <2>1, <2>2, <2>3, <2>4 DEF Elbows
<1> HIDE DEF r, i, j, o
<1>3. ta \in Trees /\ Relinked(t, ta, x, 1 - d, u)
  BY <1>2, SetLink
<1> HIDE DEF ta
<1>4. tb \in Trees /\ Relinked(ta, tb, w, d, x)
  BY <1>2, <1>3, SetLink
<1> HIDE DEF tb
<1>5. Link(tb, w, 1 - d) = v
  <2>1. Link(tb, w, 1 - d) = tb.link[w][1 - d]
    BY <1>2, <1>4, LinkTypes
  <2>2. tb.link[w][1 - d] = ta.link[w][1 - d]
    BY <1>2, <1>4 DEF Relinked
  <2>3. ta.link[w][1 - d] = t.link[w][1 - d]
    BY <1>2, <1>3 DEF Relinked
  <2> QED BY <2>1, <2>2, <2>3, <1>2
<1>6. tc \in Trees /\ Relinked(tb, tc, y, d, v)
  BY <1>2, <1>4, <1>5, SetLink
<1> HIDE DEF tc
<1>7. td \in Trees /\ Relinked(tc, td, w, 1 - d, y)
  BY <1>2, <1>6, SetLink
<1> HIDE DEF td
<1>8. \A a \in Nodes \cup {Tree}, z \in Sides :
         td.link[a][z] = IF a = x /\ z = 1 - d THEN u ELSE IF a = w /\ z = d THEN x
                         ELSE IF a = y /\ z = d THEN v ELSE IF a = w THEN y
                         ELSE t.link[a][z]
  <2>1. \A a \in Nodes \cup {Tree}, z \in Sides :
           ta.link[a][z] = IF a = x /\ z = 1 - d THEN u ELSE t.link[a][z]
    BY <1>3 DEF Relinked
  <2>2. \A a \in Nodes \cup {Tree}, z \in Sides :
           tb.link[a][z] = IF a = w /\ z = d THEN x ELSE ta.link[a][z]
    BY <1>4 DEF Relinked
  <2>3. \A a \in Nodes \cup {Tree}, z \in Sides :
           tc.link[a][z] = IF a = y /\ z = d THEN v ELSE tb.link[a][z]
    BY <1>6 DEF Relinked
  <2>4. \A a \in Nodes \cup {Tree}, z \in Sides :
           td.link[a][z] = IF a = w /\ z = 1 - d THEN y ELSE tc.link[a][z]
    BY <1>7 DEF Relinked
  <2> QED BY <2>1, <2>2, <2>3, <2>4, <1>2
<1>9. t3 \in Trees /\ Reparented(td, t3, x, w)
  BY <1>2, <1>7, SetBoth
<1> HIDE DEF t3
<1>10. t4 \in Trees /\ Reparented(t3, t4, y, w)
  BY <1>2, <1>9, SetBoth
<1> HIDE DEF t4
<1>11. t5 \in Trees /\ Reparented(t4, t5, w, r)
  BY <1>2, <1>10, SetBoth
<1> HIDE DEF t5
<1>12. t5.link = td.link
  <2>1. t3.link = td.link
    BY <1>9 DEF Reparented
  <2>2. t4.link = t3.link
    BY <1>10 DEF Reparented
  <2>3. t5.link = t4.link
    BY <1>11 DEF Reparented
  <2> QED BY <2>1, <2>2, <2>3
<1>13. Link(t5, x, 1 - d) = u
  <2>1. Link(t5, x, 1 - d) = td.link[x][1 - d]
    BY <1>2, <1>11, <1>12, LinkTypes
  <2> QED BY <2>1, <1>2, <1>8
<1>14. t6 \in Trees /\ Reparented(t5, t6, u, x)
  BY <1>2, <1>11, <1>13, Adopt
<1> HIDE DEF t6
<1>15. Link(t6, y, d) = v
  <2>1. Link(t6, y, d) = td.link[y][d]
    BY <1>2, <1>12, <1>14, LinkTypes DEF Reparented
  <2> QED BY <2>1, <1>2, <1>8
<1>16. t7 \in Trees /\ Reparented(t6, t7, v, y)
  BY <1>2, <1>14, <1>15, Adopt
<1> HIDE DEF t7
<1>17. k.link = td.link
  BY <1>1, <1>12, <1>14, <1>16 DEF Reparented
<1>18. td.par = t.par
  BY <1>3, <1>4, <1>6, <1>7 DEF Relinked
<1>19. \A a \in Nodes : k.par[a] = IF a = v THEN y ELSE IF a = u THEN x
                                        ELSE IF a = w THEN t.par[y]
                                        ELSE IF a = y THEN w ELSE IF a = x THEN w
                                        ELSE t.par[a]
  <2>1. \A a \in Nodes : t3.par[a] = IF a = x THEN w ELSE td.par[a]
    BY <1>9 DEF Reparented
  <2>2. \A a \in Nodes : t4.par[a] = IF a = y THEN w ELSE t3.par[a]
    BY <1>10 DEF Reparented
  <2>3. \A a \in Nodes : t5.par[a] = IF a = w THEN r ELSE t4.par[a]
    BY <1>11 DEF Reparented
  <2>4. \A a \in Nodes : t6.par[a] = IF a = u THEN x ELSE t5.par[a]
    BY <1>14 DEF Reparented
  <2>5. \A a \in Nodes : t7.par[a] = IF a = v THEN y ELSE t6.par[a]
    BY <1>16 DEF Reparented
  <2> QED BY <2>1, <2>2, <2>3, <2>4, <2>5, <1>1, <1>2, <1>18
<1> QED BY <1>8, <1>17, <1>19

-----------------------------------------------------------------------------
(* The rotations of avl.c keep the shape.                                   *)

\* t is well typed and M hangs together in it, within bounds b
Sound(t, M, b) == t \in Trees /\ Shape(t.link, t.par, M, b)

\* u is t with another node where y hung; r is u before it is linked there
Turned(t, r, u, M, y, q) ==
    /\ r.t \in Trees /\ u \in Trees /\ u.fault = t.fault /\ r.w \in M
    /\ Parent(r.t, r.w) = Parent(t, y) /\ (q # Tree => SideOf(r.t, q, y) = SideOf(t, q, y))
    /\ \E c : Sound(u, M, c)

(* SideOf finds the side y hangs on.                                        *)
LEMMA SideOfHangs ==
  ASSUME NEW t \in Trees, NEW M, NEW b, Shape(t.link, t.par, M, b),
         NEW y, NEW q, NEW e, Hangs(t.link, t.par, M, y, q, e)
  PROVE  SideOf(t, q, y) = e /\ q \in Nodes \cup {Tree} /\ y \in Nodes /\ e \in Sides
<1>1. M \subseteq Nodes
  BY DEF Shape
<1>2. y \in Nodes /\ e \in Sides /\ q \in Nodes \cup {Tree}
  BY <1>1 DEF Hangs
<1>3. SideOf(t, q, y) = e
  <2>1. CASE q = Tree
    BY <2>1 DEF Hangs, SideOf, Link
  <2>2. CASE q # Tree
    <3>1. q \in M /\ y \in M /\ t.link[q][e] = y
      BY <2>2 DEF Hangs
    <3>2. \A s \in Sides : t.link[q][s] = y => s = e
      BY <3>1, HangsOnce
    <3> QED BY <3>1, <3>2, <1>2 DEF SideOf, Link, Sides
  <2> QED BY <2>1, <2>2
<1> QED BY <1>2, <1>3

(* SingleRotation, linked where y hung, keeps the tree sound.               *)
LEMMA SingleKeeps ==
  ASSUME NEW t \in Trees, NEW M, NEW b, Shape(t.link, t.par, M, b),
         NEW y, NEW q, NEW e, Hangs(t.link, t.par, M, y, q, e),
         NEW d \in Sides, NEW i \in Int, NEW j \in Int, Link(t, y, d) # Null,
         NEW r, r = SingleRotation(t, y, d, i, j)
  PROVE  Turned(t, r, setLink(r.t, q, e, r.w), M, y, q)
<1> DEFINE x == Link(t, y, d)
           z == Link(t, x, 1 - d)
           v == setLink(r.t, q, e, r.w)
<1>1. y \in Nodes /\ y \in M /\ q \in Nodes \cup {Tree} /\ e \in Sides /\ 1 - d \in Sides
      /\ M \subseteq Nodes
  BY SideOfHangs, Sides2 DEF Hangs, Shape
<1>2. IsChild(t.link, t.par, M, b, y, d, x)
  BY <1>1, ChildIsChild, LinkTypes
<1>3. x \in M /\ x \in Nodes /\ x # y /\ x # Null
  BY <1>1, <1>2 DEF IsChild
<1>4. Elbow(t, y, d, x, z)
  BY DEF Elbow
<1>5. x = t.link[y][d] /\ z = t.link[x][1 - d] /\ z \in Nodes \cup {Null}
  BY <1>1, <1>3, LinkTypes
<1>6. q \notin {x, y, z, Null}
  <2>0. t.link[y][d] # Null
    BY <1>3, <1>5
  <2> DEFINE K == t.link
             R == t.par
  <2>2. Shape(K, R, M, b) /\ Hangs(K, R, M, y, q, e) /\ K[y][d] # Null
    BY <2>0
  <2> HIDE DEF K, R
  <2>3. q \notin {K[y][d], y, K[K[y][d]][1 - d], Null}
    BY <2>2, GrandchildApart
  <2>1. q \notin {t.link[y][d], y, t.link[t.link[y][d]][1 - d], Null}
    BY <2>3 DEF K
  <2> QED BY <2>1, <1>5
<1>z. z # x /\ z # y
  <2>1. z # Null => IsChild(t.link, t.par, M, b, x, 1 - d, z)
    BY <1>1, <1>3, <1>5, ChildIsChild
  <2>2. z # Null => z # x
    BY <2>1 DEF IsChild
  <2>3. z # y
    <3>1. \A s \in Sides : t.link[x][s] # y
      BY <1>2 DEF IsChild
    <3>2. z = t.link[x][1 - d]
      BY <1>5
    <3> HIDE DEF x, z
    <3> QED BY <3>1, <3>2, <1>1
  <2> QED BY <2>2, <2>3, <1>3
<1>7. r.t \in Trees /\ r.t.fault = t.fault /\ r.w = x
  BY <1>1, <1>3, SingleTypes
<1> HIDE DEF x, z
<1>8. /\ \A a \in Nodes \cup {Tree}, s \in Sides :
            r.t.link[a][s] = IF a = y /\ s = d THEN z ELSE IF a = x /\ s = 1 - d THEN y
                              ELSE t.link[a][s]
      /\ \A a \in Nodes : r.t.par[a] = IF a = z THEN y ELSE IF a = y THEN x
                                        ELSE IF a = x THEN t.par[y] ELSE t.par[a]
  <2>1. r.t = SingleRotation(t, y, d, i, j).t
    OBVIOUS
  <2> DEFINE u == r.t
  <2> HIDE DEF u
  <2>2. u = SingleRotation(t, y, d, i, j).t
    BY <2>1 DEF u
  <2>3. /\ \A a \in Nodes \cup {Tree}, s \in Sides :
            u.link[a][s] = IF a = y /\ s = d THEN z ELSE IF a = x /\ s = 1 - d THEN y
                              ELSE t.link[a][s]
        /\ \A a \in Nodes : u.par[a] = IF a = z THEN y ELSE IF a = y THEN x
                                        ELSE IF a = x THEN t.par[y] ELSE t.par[a]
    BY <1>1, <1>3, <1>4, <2>2, SingleEffect
  <2> QED BY <2>3 DEF u
<1> DEFINE u == r.t
<1>9. Relinked(u, v, q, e, x)
  BY <1>1, <1>3, <1>7, SetLink
<1> HIDE DEF u, v
<1>10. v \in Trees /\ v.fault = t.fault /\ v.par = u.par
  BY <1>7, <1>9 DEF Relinked, u
<1>11. \A a \in Nodes \cup {Tree}, s \in Sides : v.link[a][s] = IF a = q /\ s = e THEN x ELSE u.link[a][s]
  BY <1>9 DEF Relinked
<1>12. v.link \in Links /\ v.par \in Words
  BY <1>10, LinkTypes
<1>13. Rotated(t.link, t.par, v.link, v.par, M, y, d, q, e, x, z)
  <2>1. v.link[y][d] = z /\ v.link[x][1 - d] = y /\ v.link[q][e] = x
    BY <1>1, <1>3, <1>6, <1>8, <1>11 DEF u
  <2>2. \A a \in M, s \in Sides :
          ~(a = y /\ s = d) /\ ~(a = x /\ s = 1 - d) /\ ~(a = q /\ s = e) => v.link[a][s] = t.link[a][s]
    BY <1>1, <1>8, <1>11 DEF u
  <2>3. q # Tree => v.link[Tree][0] = t.link[Tree][0]
    <3>1. Tree # x /\ Tree # y /\ 0 \in Sides
      BY <1>1, <1>3, NoNodes DEF Sides
    <3> QED BY <3>1, <1>8, <1>11 DEF u
  <2>4. v.par[x] = t.par[y] /\ v.par[y] = x /\ (z # Null => v.par[z] = y)
    BY <1>1, <1>3, <1>5, <1>8, <1>10, <1>z DEF u
  <2>5. \A a \in M : a \notin {x, y, z} => v.par[a] = t.par[a]
    BY <1>1, <1>8, <1>10 DEF u
  <2> QED BY <2>1, <2>2, <2>3, <2>4, <2>5 DEF Rotated
<1>14. \E c : Shape(v.link, v.par, M, c)
  BY <1>3, <1>5, <1>12, <1>13, RotationShape
<1>15. Parent(r.t, r.w) = Parent(t, y)
  BY <1>1, <1>3, <1>7, <1>8, <1>z, LinkTypes
<1>16. q # Tree => SideOf(r.t, q, y) = SideOf(t, q, y)
  BY <1>1, <1>6, <1>8 DEF SideOf, Link, Sides
<1> QED BY <1>3, <1>7, <1>10, <1>14, <1>15, <1>16 DEF Turned, Sound, v

(* So does DoubleRotation.                                                  *)
LEMMA DoubleKeeps ==
  ASSUME NEW t \in Trees, NEW M, NEW b, Shape(t.link, t.par, M, b),
         NEW y, NEW q, NEW e, Hangs(t.link, t.par, M, y, q, e),
         NEW d \in Sides, Link(t, y, d) # Null, Link(t, Link(t, y, d), 1 - d) # Null,
         NEW r, r = DoubleRotation(t, y, d)
  PROVE  Turned(t, r, setLink(r.t, q, e, r.w), M, y, q)
<1> DEFINE x == Link(t, y, d)
           w == Link(t, x, 1 - d)
           k1 == Link(t, w, d)
           k2 == Link(t, w, 1 - d)
           v == setLink(r.t, q, e, r.w)
<1>1. y \in Nodes /\ y \in M /\ q \in Nodes \cup {Tree} /\ e \in Sides /\ 1 - d \in Sides
      /\ M \subseteq Nodes /\ d # 1 - d
  BY SideOfHangs, Sides2 DEF Hangs, Shape
<1>2. IsChild(t.link, t.par, M, b, y, d, x)
  BY <1>1, ChildIsChild, LinkTypes
<1>3. x \in M /\ x \in Nodes /\ x # y /\ x # Null
  BY <1>1, <1>2 DEF IsChild
<1>4. Elbows(t, y, d, x, w, k1, k2)
  BY DEF Elbows
<1>7. r.t \in Trees /\ r.t.fault = t.fault /\ r.w = w
  BY <1>1, <1>3, DoubleTypes
<1>5. x = t.link[y][d] /\ w = t.link[x][1 - d]
  BY <1>1, <1>3, LinkTypes
<1>6. q \notin {x, y, w, Null}
  <2>0. t.link[y][d] # Null
    BY <1>3, <1>5
  <2>1. q \notin {t.link[y][d], y, t.link[t.link[y][d]][1 - d], Null}
    BY <2>0, GrandchildApart
  <2> QED BY <2>1, <1>5
<1>w. w # Null
  OBVIOUS
<1> HIDE DEF x
<1>17. IsChild(t.link, t.par, M, b, x, 1 - d, w)
  BY <1>1, <1>3, <1>5, <1>w, ChildIsChild
<1> HIDE DEF w
<1>18. w \in M /\ w \in Nodes /\ w # x /\ w # y
  <2>1. w # y
    BY <1>2, <1>5, <1>1 DEF IsChild
  <2> QED BY <2>1, <1>17, <1>1 DEF IsChild
<1>19. k1 = t.link[w][d] /\ k2 = t.link[w][1 - d] /\ k1 \in Nodes \cup {Null} /\ k2 \in Nodes \cup {Null}
  BY <1>1, <1>18, LinkTypes
<1> HIDE DEF k1, k2
<1>20. /\ k1 # w /\ k1 # x /\ k2 # w /\ k2 # x
       /\ k1 # y /\ k2 # y /\ (k1 # Null => k1 # k2)
  <2>1. /\ k1 # Null => IsChild(t.link, t.par, M, b, w, d, k1)
        /\ k2 # Null => IsChild(t.link, t.par, M, b, w, 1 - d, k2)
    BY <1>1, <1>18, <1>19, ChildIsChild
  <2>2. k1 # w /\ k2 # w
    BY <2>1, <1>18, <1>w DEF IsChild
  <2>3. k1 # x /\ k2 # x
    BY <1>17, <1>19, <1>1 DEF IsChild
  <2>4. k1 # Null => k1 # k2
    BY <2>1, <1>19, <1>1 DEF IsChild
  <2>5. \A s \in Sides : t.link[w][s] # y
    <3>1. \A n \in M, s \in Sides : t.link[n][s] = y => n = q
      BY HangsOnce
    <3> QED BY <3>1, <1>6, <1>18
  <2> QED BY <2>2, <2>3, <2>4, <2>5, <1>19, <1>1
<1> DEFINE u == r.t
<1>8. /\ \A a \in Nodes \cup {Tree}, s \in Sides :
            u.link[a][s] = IF a = x /\ s = 1 - d THEN k1 ELSE IF a = w /\ s = d THEN x
                           ELSE IF a = y /\ s = d THEN k2 ELSE IF a = w THEN y
                           ELSE t.link[a][s]
      /\ \A a \in Nodes : u.par[a] = IF a = k2 THEN y ELSE IF a = k1 THEN x
                                     ELSE IF a = w THEN t.par[y]
                                     ELSE IF a = y THEN w ELSE IF a = x THEN w
                                     ELSE t.par[a]
  <2>1. u = DoubleRotation(t, y, d).t
    OBVIOUS
  <2> HIDE DEF u
  <2> QED BY <1>1, <1>3, <1>4, <1>18, <1>20, <2>1, DoubleEffect
<1>9. Relinked(u, v, q, e, w)
  BY <1>1, <1>18, <1>7, SetLink
<1> HIDE DEF v
<1>15. Parent(r.t, r.w) = Parent(t, y)
  BY <1>1, <1>18, <1>7, <1>8, <1>20, LinkTypes
<1>16. q # Tree => SideOf(r.t, q, y) = SideOf(t, q, y)
  BY <1>1, <1>6, <1>8 DEF SideOf, Link, Sides
<1> HIDE DEF u
<1>10. v \in Trees /\ v.fault = t.fault /\ v.par = u.par
  BY <1>7, <1>9 DEF Relinked, u
<1>11. \A a \in Nodes \cup {Tree}, s \in Sides : v.link[a][s] = IF a = q /\ s = e THEN w ELSE u.link[a][s]
  BY <1>9 DEF Relinked
<1>12. v.link \in Links /\ v.par \in Words
  BY <1>10, LinkTypes
<1>13. DoublyRotated(t.link, t.par, v.link, v.par, M, y, d, q, e, x, w, k1, k2)
  <2>1. v.link[x][1 - d] = k1 /\ v.link[w][d] = x /\ v.link[y][d] = k2 /\ v.link[w][1 - d] = y /\ v.link[q][e] = w
    BY <1>1, <1>3, <1>6, <1>18, <1>8, <1>11
  <2>2. \A a \in M, s \in Sides :
          ~(a = x /\ s = 1 - d) /\ a # w /\ ~(a = y /\ s = d) /\ ~(a = q /\ s = e) => v.link[a][s] = t.link[a][s]
    BY <1>1, <1>8, <1>11
  <2>3. q # Tree => v.link[Tree][0] = t.link[Tree][0]
    <3>1. Tree # x /\ Tree # y /\ Tree # w /\ 0 \in Sides
      BY <1>1, <1>3, <1>18, NoNodes DEF Sides
    <3> QED BY <3>1, <1>8, <1>11
  <2>4. v.par[x] = w /\ v.par[y] = w /\ v.par[w] = t.par[y]
    BY <1>1, <1>3, <1>18, <1>20, <1>8, <1>10
  <2>6. (k1 # Null => v.par[k1] = x) /\ (k2 # Null => v.par[k2] = y)
    BY <1>19, <1>20, <1>8, <1>10
  <2>5. \A a \in M : a \notin {x, y, w, k1, k2} => v.par[a] = t.par[a]
    BY <1>1, <1>8, <1>10
  <2> QED BY <2>1, <2>2, <2>3, <2>4, <2>5, <2>6 DEF DoublyRotated
<1>21. Arms(t.link, y, d, x, w, k1, k2)
  BY <1>3, <1>5, <1>w, <1>19 DEF Arms
<1>14. \E c : Shape(v.link, v.par, M, c)
  BY <1>12, <1>13, <1>21, DoubleRotationShape
<1> QED BY <1>18, <1>7, <1>10, <1>14, <1>15, <1>16 DEF Turned, Sound, v

-----------------------------------------------------------------------------
(* Loops down the tree and along it come to their end within Deepest        *)
(* rounds.                                                                  *)

\* the members a subtree may hold
Inside(M, b, n) == {x \in M : \A d \in Sides : Beyond(d, b[n][d], Key[x])}

(* A child may hold fewer members than its parent: a way down ends.         *)
LEMMA InsideShrinks ==
  ASSUME NEW L, NEW P, NEW M, NEW b, Shape(L, P, M, b), NEW n \in M
  PROVE  /\ n \in Inside(M, b, n)
         /\ Cardinality(Inside(M, b, n)) \in Nat /\ Cardinality(Inside(M, b, n)) <= Deepest
         /\ \A d \in Sides : L[n][d] # Null =>
               /\ Inside(M, b, L[n][d]) = {x \in Inside(M, b, n) : Beyond(d, Key[x], Key[n])}
               /\ Cardinality(Inside(M, b, L[n][d])) < Cardinality(Inside(M, b, n))
         /\ \A d \in Sides : L[n][d] = Null =>
               {x \in Inside(M, b, n) : Beyond(d, Key[x], Key[n])} = {}
<1> DEFINE A == Inside(M, b, n)
<1>0. /\ M \in SUBSET Nodes /\ b \in Bounds /\ Within(M, b) /\ Gaps(L, M, b)
      /\ \A x \in M : Key[x] \in Int /\ \A s \in Sides : b[x][s] \in Int
  BY KeyType DEF Shape, Bounds
<1>1. n \in A
  BY <1>0 DEF Within, Inside
<1>2. A \subseteq M /\ IsFiniteSet(A) /\ Cardinality(A) \in Nat /\ Cardinality(A) <= Deepest
  <2>1. A \subseteq M
    BY DEF Inside
  <2> HIDE DEF A
  <2>2. IsFiniteSet(Nodes) /\ A \subseteq Nodes
    BY <1>0, <2>1, NodesAssumption
  <2>3. IsFiniteSet(A) /\ Cardinality(A) <= Cardinality(Nodes)
    BY <2>2, FS_Subset
  <2> QED BY <2>1, <2>3, FS_CardinalityType DEF Deepest
<1>3. ASSUME NEW d \in Sides, L[n][d] # Null
      PROVE  /\ Inside(M, b, L[n][d]) = {x \in A : Beyond(d, Key[x], Key[n])}
             /\ Cardinality(Inside(M, b, L[n][d])) < Cardinality(A)
  <2> DEFINE c == L[n][d]
             B == Inside(M, b, c)
  <2>1. c \in M /\ b[c][d] = b[n][d] /\ b[c][1 - d] = Key[n]
    <3>1. IsChild(L, P, M, b, n, d, c)
      BY <1>3, ChildIsChild
    <3> QED BY <3>1 DEF IsChild
  <2> HIDE DEF c
  <2>2. 1 - d \in Sides /\ \A s \in Sides : s = d \/ s = 1 - d
    BY Sides2
  <2>3. ASSUME NEW x \in M
        PROVE  x \in B <=> x \in A /\ Beyond(d, Key[x], Key[n])
    <3>1. x \in B <=> Beyond(d, b[n][d], Key[x]) /\ Beyond(1 - d, Key[n], Key[x])
      BY <2>1, <2>2, <2>3 DEF Inside
    <3>2. x \in A <=> Beyond(d, b[n][d], Key[x]) /\ Beyond(1 - d, b[n][1 - d], Key[x])
      BY <2>2, <2>3 DEF Inside
    <3>3. Beyond(1 - d, b[n][1 - d], Key[n])
      BY <2>2, <1>0 DEF Within
    <3>4. b[n][1 - d] \in Int /\ Key[n] \in Int /\ Key[x] \in Int
      BY <2>2, <1>0
    <3>5. Beyond(1 - d, Key[n], Key[x]) <=> Beyond(d, Key[x], Key[n])
      BY <3>4, BeyondOrder
    <3>6. Beyond(1 - d, Key[n], Key[x]) => Beyond(1 - d, b[n][1 - d], Key[x])
      BY <3>3, <3>4, <2>2, BeyondOrder
    <3> QED BY <3>1, <3>2, <3>5, <3>6
  <2>4. B = {x \in A : Beyond(d, Key[x], Key[n])}
    <3>1. B \subseteq M
      BY DEF Inside
    <3> QED BY <3>1, <2>3, <1>2
  <2>5. n \notin B
    BY <2>4, <1>0 DEF Beyond
  <2> HIDE DEF A, B
  <2>6. B \subseteq A /\ B # A
    BY <2>4, <2>5, <1>1
  <2>7. Cardinality(B) < Cardinality(A)
    <3>1. Cardinality(B) <= Cardinality(A) /\ (Cardinality(B) = Cardinality(A) => B = A) /\ IsFiniteSet(B)
      BY <2>6, <1>2, FS_Subset
    <3>2. Cardinality(B) \in Nat
      BY <3>1, FS_CardinalityType
    <3> QED BY <3>1, <3>2, <2>6, <1>2
  <2> QED BY <2>4, <2>7 DEF c, B
<1>4. ASSUME NEW d \in Sides, L[n][d] = Null, NEW x \in A, Beyond(d, Key[x], Key[n]) PROVE FALSE
  BY <1>4, <1>0 DEF Gaps, Inside
<1> QED BY <1>1, <1>2, <1>3, <1>4

\* the members beyond n on side d
Past(M, n, d) == {x \in M : Beyond(d, Key[x], Key[n])}

(* There are fewer members beyond p than beyond n: a way along ends.        *)
LEMMA PastShrinks ==
  ASSUME NEW M \in SUBSET Nodes, NEW d \in Sides, NEW n \in M, NEW p \in M,
         Beyond(d, Key[p], Key[n])
  PROVE  Cardinality(Past(M, p, d)) < Cardinality(Past(M, n, d))
<1> DEFINE A == Past(M, n, d)
           B == Past(M, p, d)
<1>0. \A x \in M : Key[x] \in Int
  BY KeyType
<1>1. p \in A /\ p \notin B
  BY <1>0 DEF Past, Beyond
<1>2. B \subseteq A
  BY <1>0 DEF Past, Beyond
<1>3. IsFiniteSet(A)
  <2>1. A \subseteq Nodes
    BY DEF Past
  <2> HIDE DEF A
  <2> QED BY <2>1, NodesAssumption, FS_Subset
<1> HIDE DEF A, B
<1>4. Cardinality(B) <= Cardinality(A) /\ (Cardinality(B) = Cardinality(A) => B = A) /\ IsFiniteSet(B)
  BY <1>2, <1>3, FS_Subset
<1>5. Cardinality(B) \in Nat /\ Cardinality(A) \in Nat
  BY <1>3, <1>4, FS_CardinalityType
<1>6. Cardinality(B) < Cardinality(A)
  BY <1>1, <1>4, <1>5
<1> QED BY <1>6 DEF A, B

(* There are at most Deepest members beyond a node.                         *)
LEMMA PastBounded ==
  ASSUME NEW M \in SUBSET Nodes, NEW d \in Sides
  PROVE  \A n \in M : Cardinality(Past(M, n, d)) \in Nat /\ Cardinality(Past(M, n, d)) <= Deepest
<1> SUFFICES ASSUME NEW n \in M
             PROVE  Cardinality(Past(M, n, d)) \in Nat /\ Cardinality(Past(M, n, d)) <= Deepest
  OBVIOUS
<1> DEFINE A == Past(M, n, d)
<1>1. A \subseteq Nodes
  BY DEF Past
<1> HIDE DEF A
<1>2. IsFiniteSet(A) /\ Cardinality(A) <= Cardinality(Nodes)
  BY <1>1, NodesAssumption, FS_Subset
<1>3. Cardinality(A) \in Nat
  BY <1>2, FS_CardinalityType
<1> QED BY <1>2, <1>3 DEF A, Deepest

(* There are finitely many nodes.                                           *)
LEMMA DeepestType == Deepest \in Nat
BY NodesAssumption, FS_CardinalityType DEF Deepest

(* The walk to one side ends where nothing hangs on that side. *)
LEMMA OutermostIs ==
  ASSUME NEW t, NEW M, NEW b, Sound(t, M, b), NEW n \in M, NEW d \in Sides
  PROVE  /\ Outermost(t, n, d) \in M /\ t.link[Outermost(t, n, d)][d] = Null
         /\ b[Outermost(t, n, d)][d] = b[n][d]
         /\ ~Beyond(d, Key[n], Key[Outermost(t, n, d)])
<1>0. t \in Trees /\ Shape(t.link, t.par, M, b) /\ M \in SUBSET Nodes /\ n # Null /\ n \in Nodes
      /\ \A x \in M : Key[x] \in Int
  <2>1. t \in Trees /\ Shape(t.link, t.par, M, b) /\ M \in SUBSET Nodes
    BY DEF Sound, Shape
  <2> QED BY <2>1, NoNodes, KeyType
<1> DEFINE R == Outward(t, d)
           I == {e \in M : b[e][d] = b[n][d] /\ ~Beyond(d, Key[n], Key[e])}
           rank == [e \in I |-> Cardinality(Past(M, e, d))]
           k == Deepest
<1>1. R \in [Nodes -> Nodes]
  BY <1>0, LinkTypes DEF Outward
<1>2. I \in SUBSET Nodes /\ n \in I /\ rank \in [I -> Nat] /\ rank[n] <= k
  <2>1. I \in SUBSET Nodes /\ n \in I /\ \A e \in I : e \in M
    BY <1>0 DEF Beyond
  <2> HIDE DEF I
  <2> QED BY <2>1, <1>0, PastBounded
<1>3. \A e \in M : R[e] = IF t.link[e][d] = Null THEN e ELSE t.link[e][d]
  BY <1>0, LinkTypes DEF Outward
<1>4. ASSUME NEW e \in I, t.link[e][d] # Null
      PROVE  /\ t.link[e][d] \in I /\ t.link[e][d] # e
             /\ Beyond(d, Key[t.link[e][d]], Key[e])
  <2> DEFINE c == t.link[e][d]
  <2>1. IsChild(t.link, t.par, M, b, e, d, c)
    BY <1>0, <1>4, ChildIsChild
  <2> HIDE DEF c
  <2>2. c \in M /\ b[c][d] = b[e][d] /\ Beyond(d, Key[c], Key[e]) /\ c # e
    BY <2>1 DEF IsChild
  <2>3. ~Beyond(d, Key[n], Key[c])
    <3>1. Key[c] \in Int /\ Key[e] \in Int /\ Key[n] \in Int
      BY <2>2, <1>0
    <3> QED BY <2>2, <3>1 DEF Beyond
  <2> QED BY <2>2, <2>3 DEF c
<1>5. \A e \in I : /\ R[e] \in I
                   /\ R[e] = e \/ rank[R[e]] < rank[e]
  <2> SUFFICES ASSUME NEW e \in I PROVE R[e] \in I /\ (R[e] = e \/ rank[R[e]] < rank[e])
    OBVIOUS
  <2>1. CASE t.link[e][d] = Null
    BY <2>1, <1>3
  <2>2. CASE t.link[e][d] # Null
    <3> DEFINE c == t.link[e][d]
    <3>1. R[e] = c /\ c \in I /\ Beyond(d, Key[c], Key[e])
      BY <2>2, <1>3, <1>4
    <3>2. c \in M /\ e \in M
      BY <3>1
    <3> HIDE DEF c
    <3>3. Cardinality(Past(M, c, d)) < Cardinality(Past(M, e, d))
      BY <3>1, <3>2, <1>0, PastShrinks
    <3> QED BY <3>1, <3>3
  <2> QED BY <2>1, <2>2
<1> DEFINE e == Loop(R, n, k)
<1>6. e \in I /\ R[e] = e
  <2> HIDE DEF R, I, rank, k
  <2>1. k \in Nat
    BY DeepestType DEF k
  <2> QED BY <2>1, <1>1, <1>2, <1>5, LoopEnds
<1>7. Outermost(t, n, d) = e
  BY <1>0 DEF Outermost
<1> HIDE DEF e, R
<1>8. t.link[e][d] = Null
  BY <1>3, <1>4, <1>6
<1> QED BY <1>6, <1>7, <1>8

-----------------------------------------------------------------------------
(* The search.                                                              *)

\* the key k may be in the subtree at p
Around(b, p, k) == \A d \in Sides : Beyond(d, b[p][d], k)

\* where a descent may be: above k's place, or past it
OnTheWay(L, M, b, k, at) ==
    /\ IF at.p # Null THEN at.p \in M /\ Around(b, at.p, k)
       ELSE IF at.q # Null THEN Fits(L, M, b, k, at.q, at.dir)
       ELSE M = {}
    /\ M # {} => at.y \in M

(* A round of a descent leads from place to place.                          *)
LEMMA DescendType ==
  ASSUME NEW t \in Trees, NEW k \in Int
  PROVE  Descend(t, k) \in [Places -> Places]
<1> SUFFICES ASSUME NEW at \in Places PROVE Descend(t, k)[at] \in Places
  BY DEF Descend
<1>1. CASE at.p = Null \/ Key[at.p] = k
  BY <1>1 DEF Descend
<1>2. CASE ~(at.p = Null \/ Key[at.p] = k)
  <2> DEFINE p == at.p
             d == Side(k, p)
             y == IF t.bal[p] # 0 THEN p ELSE at.y
  <2>1. p \in Nodes /\ at.y \in Nodes \cup {Null}
    BY <1>2 DEF Places
  <2>2. d \in Sides /\ d \in {0, 1}
    BY DEF Side, Sides
  <2>3. Link(t, p, d) \in Nodes \cup {Null}
    BY <2>1, <2>2, LinkTypes
  <2>4. y \in Nodes \cup {Null}
    BY <2>1
  <2>5. Descend(t, k)[at] = [p |-> Link(t, p, d), q |-> p, dir |-> d, y |-> y]
    BY <1>2 DEF Descend
  <2> HIDE DEF p, d, y
  <2> QED BY <2>1, <2>2, <2>3, <2>4, <2>5 DEF Places
<1> QED BY <1>1, <1>2

(* A search finds the node of its key, or the place where it belongs.       *)
LEMMA SearchIs ==
  ASSUME NEW t, NEW M, NEW b, Sound(t, M, b), NEW k \in Keys
  PROVE  /\ Search(t, k) \in Places
         /\ OnTheWay(t.link, M, b, k, Search(t, k))
         /\ Search(t, k).p = Null \/ Key[Search(t, k).p] = k
<1>0. /\ t \in Trees /\ Shape(t.link, t.par, M, b) /\ M \in SUBSET Nodes /\ Null \notin M
      /\ k \in Int /\ b \in Bounds
      /\ \A x \in M : Key[x] \in Int /\ \A s \in Sides : b[x][s] \in Int
  <2>1. t \in Trees /\ Shape(t.link, t.par, M, b) /\ M \in SUBSET Nodes /\ b \in Bounds
    BY DEF Sound, Shape
  <2>2. k \in Int
    BY KeyType DEF Keys
  <2> QED BY <2>1, <2>2, NoNodes, KeyType DEF Bounds
<1> DEFINE L == t.link
           R == Descend(t, k)
           I == {at \in Places : OnTheWay(L, M, b, k, at)}
           size(p) == IF p = Null THEN 0 ELSE Cardinality(Inside(M, b, p))
           rank == [at \in I |-> size(at.p)]
           root == Link(t, Tree, 0)
           start == [p |-> root, q |-> Null, dir |-> 0, y |-> root]
           n == Deepest
<1>1. R \in [Places -> Places]
  BY <1>0, DescendType
<1>2. /\ \A p \in M : size(p) \in Nat /\ size(p) <= n
      /\ size(Null) = 0 /\ n \in Nat
  <2>1. \A p \in M : Cardinality(Inside(M, b, p)) \in Nat /\ Cardinality(Inside(M, b, p)) <= Deepest
    BY <1>0, InsideShrinks
  <2> QED BY <2>1, <1>0, DeepestType
<1>3. \A at \in I : at \in Places /\ (at.p = Null \/ at.p \in M)
  BY DEF OnTheWay
<1> HIDE DEF size
<1>4. start \in I /\ rank \in [I -> Nat] /\ rank[start] <= n
  <2>1. start \in Places
    <3>1. root \in Nodes \cup {Null}
      BY <1>0, LinkTypes DEF Sides
    <3> HIDE DEF root
    <3> QED BY <3>1 DEF Places
  <2>2. L[Tree][0] = root
    BY DEF Link
  <2>3. IF root = Null THEN M = {} ELSE root \in M /\ b[root] = Limit
    BY <2>2, <1>0 DEF Shape, Rooted
  <2>4. root # Null => Around(b, root, k)
    BY <2>3, LimitsExist DEF Around, Limits, Keys
  <2> HIDE DEF root
  <2>5. OnTheWay(L, M, b, k, start)
    BY <2>3, <2>4 DEF OnTheWay
  <2>6. start \in I
    BY <2>1, <2>5
  <2>7. rank \in [I -> Nat]
    BY <1>2, <1>3
  <2>8. rank[start] = size(start.p)
    BY <2>6
  <2>9. start.p = Null \/ start.p \in M
    BY <2>6, <1>3
  <2> QED BY <2>6, <2>7, <2>8, <2>9, <1>2
<1>5. ASSUME NEW at \in I, at.p # Null, Key[at.p] # k
      PROVE  R[at] \in I /\ R[at].p # at.p /\ rank[R[at]] < rank[at]
  <2> DEFINE p == at.p
             d == Side(k, p)
             c == L[p][d]
             y == IF t.bal[p] # 0 THEN p ELSE at.y
             next == [p |-> c, q |-> p, dir |-> d, y |-> y]
  <2>1. p \in M /\ Around(b, p, k) /\ at \in Places
    BY <1>5 DEF OnTheWay
  <2>2. d \in Sides /\ Beyond(d, k, Key[p]) /\ 1 - d \in Sides /\ 1 - (1 - d) = d
        /\ \A s \in Sides : s = d \/ s = 1 - d
    <3>1. d \in Sides /\ Beyond(d, k, Key[p])
      BY <1>5, <1>0, <2>1 DEF Side, Sides, Beyond
    <3> HIDE DEF d
    <3> QED BY <3>1, Sides2
  <2>3. R[at] = next
    <3>1. p \in Nodes
      BY <2>1, <1>0
    <3>2. Link(t, p, d) = c
      BY DEF Link
    <3>3. Descend(t, k)[at] = [p |-> Link(t, p, d), q |-> p, dir |-> d, y |-> y]
      BY <2>1, <1>5 DEF Descend
    <3> QED BY <3>2, <3>3
  <2>4. next \in Places
    BY <2>1, <2>3, <1>1
  <2>5. M # {} => y \in M
    BY <2>1, <1>5 DEF OnTheWay
  <2>6. Beyond(d, b[p][d], k)
    BY <2>1, <2>2 DEF Around
  <2>c. c # Null => IsChild(L, t.par, M, b, p, d, c)
    BY <2>1, <2>2, <1>0, ChildIsChild
  <2> HIDE DEF d, y, p
  <2>7. OnTheWay(L, M, b, k, next)
    <3>1. CASE c = Null
      <4>1. Fits(L, M, b, k, p, d)
        BY <3>1, <2>1, <2>2, <2>6 DEF Fits
      <4>2. p # Null
        BY <2>1, <1>0
      <4> HIDE DEF c
      <4> QED BY <3>1, <4>1, <4>2, <2>5 DEF OnTheWay
    <3>2. CASE c # Null
      <4>1. c \in M /\ b[c][d] = b[p][d] /\ b[c][1 - d] = Key[p]
        BY <3>2, <2>c DEF IsChild
      <4>2. Beyond(1 - d, Key[p], k)
        BY <2>1, <2>2, <1>0, BeyondOrder
      <4>3. Around(b, c, k)
        BY <4>1, <4>2, <2>2, <2>6 DEF Around
      <4> HIDE DEF c
      <4> QED BY <3>2, <4>1, <4>3, <2>5 DEF OnTheWay
    <3> QED BY <3>1, <3>2
  <2>8. c # p
    <3>1. p # Null
      BY <2>1, <1>0
    <3> QED BY <3>1, <2>c DEF IsChild
  <2>9. rank[R[at]] = size(c) /\ rank[at] = size(p)
    <3>1. next \in I /\ next.p = c
      BY <2>4, <2>7
    <3> HIDE DEF c
    <3> QED BY <3>1, <2>3 DEF p
  <2>10. size(c) < size(p)
    <3>1. /\ p \in Inside(M, b, p) /\ Cardinality(Inside(M, b, p)) \in Nat
          /\ c # Null => Cardinality(Inside(M, b, c)) < Cardinality(Inside(M, b, p))
      BY <2>1, <2>2, <1>0, InsideShrinks
    <3>2. Cardinality(Inside(M, b, p)) # 0
      <4> DEFINE A == Inside(M, b, p)
      <4>1. A \subseteq Nodes /\ A # {}
        BY <3>1, <1>0 DEF Inside
      <4> HIDE DEF A
      <4>2. IsFiniteSet(A)
        BY <4>1, NodesAssumption, FS_Subset
      <4>3. Cardinality(A) # 0
        BY <4>1, <4>2, FS_EmptySet
      <4> QED BY <4>3 DEF A
    <3>3. p # Null
      BY <2>1, <1>0
    <3> HIDE DEF c
    <3> QED BY <3>1, <3>2, <3>3 DEF size
  <2>11. next \in I /\ next.p = c
    BY <2>4, <2>7
  <2> QED BY <2>3, <2>8, <2>9, <2>10, <2>11 DEF p
<1>6. ASSUME NEW at \in I, at.p = Null \/ Key[at.p] = k
      PROVE  R[at] = at
  BY <1>6 DEF Descend
<1>7. \A at \in I : R[at] \in I /\ (R[at] = at \/ rank[R[at]] < rank[at])
  <2> HIDE DEF I, R, rank
  <2> QED BY <1>5, <1>6
<1> DEFINE s == Loop(R, start, n)
<1>8. s \in I /\ R[s] = s
  <2>1. I \in SUBSET Places
    OBVIOUS
  <2>2. n \in Nat
    BY <1>2
  <2> HIDE DEF R, I, rank, start, n
  <2> QED BY <2>1, <2>2, <1>1, <1>4, <1>7, LoopEnds
<1>9. Search(t, k) = s
  BY DEF Search
<1> HIDE DEF s, R, rank
<1>10. s.p = Null \/ Key[s.p] = k
  BY <1>5, <1>8
<1> QED BY <1>8, <1>9, <1>10

-----------------------------------------------------------------------------
(* AVL_Insert.  The rotation at y is chosen by factors this proof knows     *)
(* nothing of; it either keeps the shape or uses a null pointer.            *)

\* a null pointer was used, or M is a search tree in t
Fine(t, M) == t \in Trees /\ (t.fault \/ \E b : Sound(t, M, b))

(* The first node is a tree.                                                *)
LEMMA FirstShape ==
  ASSUME NEW n \in Nodes, NEW K \in Links, NEW R \in Words,
         K[Tree][0] = n, K[n][0] = Null, K[n][1] = Null, R[n] = Null
  PROVE  \E c : Shape(K, R, {n}, c)
<1> DEFINE c == [a \in Nodes |-> Limit]
           N == {n}
<1>1. /\ Limit \in [Sides -> Int] /\ \A d \in Sides : Beyond(d, Limit[d], Key[n])
      /\ Key[n] \in Int /\ n # Null
  BY LimitsExist, KeyType, NoNodes DEF Limits
<1>2. c \in Bounds /\ c[n] = Limit
  BY <1>1 DEF Bounds
<1>3. \A a \in N, s \in Sides : K[a][s] = Null
  BY DEF Sides
<1>4. Distinct(N) /\ Rooted(K, R, N, c)
  BY <1>1, <1>2 DEF Distinct, Rooted
<1>5. \A x \in N, a \in N, d \in Sides : ~Beyond(d, Key[x], Key[a])
  BY <1>1 DEF Beyond
<1> HIDE DEF c
<1>6. Within(N, c) /\ Marked(N, c)
  BY <1>1, <1>2 DEF Within, Marked
<1>7. Children(K, R, N, c)
  BY <1>3 DEF Children
<1>8. Gaps(K, N, c) /\ Apart(K, N, c)
  BY <1>5 DEF Gaps, Apart
<1>9. Parents(K, R, N)
  BY DEF Parents
<1>10. N \in SUBSET Nodes
  OBVIOUS
<1> HIDE DEF N
<1>11. Shape(K, R, N, c)
  BY <1>2, <1>4, <1>6, <1>7, <1>8, <1>9, <1>10 DEF Shape
<1> QED BY <1>11 DEF N

-----------------------------------------------------------------------------
\* where Reweigh is
Weighings == [t : Trees, p : Nodes]

(* A round of Reweigh changes neither links nor parents.                    *)
LEMMA WeighIs ==
  ASSUME NEW y, NEW at \in Weighings
  PROVE  Weigh(y)[at] \in Weighings /\ Weigh(y)[at].t.link = at.t.link /\ Weigh(y)[at].t.par = at.t.par
<1> DEFINE t == at.t
           p == at.p
           q == Parent(t, p)
           i == Sign(SideOf(t, q, p))
           r == Weigh(y)[at]
<1>1. t \in Trees /\ p \in Nodes /\ at = [t |-> t, p |-> p]
  BY DEF Weighings
<1>2. r = CASE p = y -> at
            [] p # y /\ q = Null -> [at EXCEPT !.t = Fault(t)]
            [] OTHER -> [t |-> addBalance(t, q, i), p |-> q]
  BY DEF Weigh, Weighings
<1>3. q \in Nodes \cup {Null} /\ i \in Int
  BY <1>1, LinkTypes DEF Sign
<1> HIDE DEF t, p, q, i, r
<1>4. CASE p = y
  BY <1>2, <1>4 DEF t, r
<1>5. CASE p # y /\ q = Null
  <2>1. r = [at EXCEPT !.t = Fault(t)]
    BY <1>2, <1>5
  <2>2. r = [t |-> Fault(t), p |-> p]
    BY <1>1, <2>1
  <2>3. Fault(t) \in Trees /\ Fault(t).link = t.link /\ Fault(t).par = t.par
    BY <1>1, Faulty
  <2>4. r \in Weighings /\ r.t.link = t.link /\ r.t.par = t.par
    BY <1>1, <2>2, <2>3 DEF Weighings
  <2> QED BY <2>4 DEF t, r
<1>6. CASE p # y /\ q # Null
  <2>1. r = [t |-> addBalance(t, q, i), p |-> q]
    BY <1>2, <1>6
  <2>2. q \in Nodes
    BY <1>3, <1>6
  <2>3. /\ addBalance(t, q, i) \in Trees /\ addBalance(t, q, i).link = t.link
        /\ addBalance(t, q, i).par = t.par
    BY <1>1, <1>3, <2>2, AddBalance
  <2>4. r \in Weighings /\ r.t.link = t.link /\ r.t.par = t.par
    BY <2>1, <2>2, <2>3 DEF Weighings
  <2> QED BY <2>4 DEF t, r
<1> QED BY <1>4, <1>5, <1>6

(* The factors change on the way up, the links do not. *)
LEMMA ReweighIs ==
  ASSUME NEW t \in Trees, NEW n \in Nodes, NEW y
  PROVE  /\ Reweigh(t, n, y) \in Trees
         /\ Reweigh(t, n, y).link = t.link /\ Reweigh(t, n, y).par = t.par
<1> DEFINE R == Weigh(y)
           I == {at \in Weighings : at.t.link = t.link /\ at.t.par = t.par}
           x == [t |-> t, p |-> n]
           k == Deepest
           r == Loop(R, x, k)
<1>1. R \in [Weighings -> Weighings]
  <2>1. \A at \in Weighings : R[at] \in Weighings
    BY WeighIs
  <2>2. R = [at \in Weighings |-> R[at]]
    BY DEF Weigh, Weighings
  <2> HIDE DEF R
  <2> QED BY <2>1, <2>2
<1>2. x \in I /\ I \in SUBSET Weighings
  BY DEF Weighings
<1>3. \A at \in I : R[at] \in I
  BY WeighIs
<1>4. k \in Nat
  BY DeepestType
<1>5. r \in I
  <2> HIDE DEF R, I, x, k
  <2> QED BY <1>1, <1>2, <1>3, <1>4, LoopKeeps
<1>6. Reweigh(t, n, y) = r.t
  BY DEF Reweigh
<1>7. r \in Weighings /\ r.t.link = t.link /\ r.t.par = t.par
  BY <1>5
<1> HIDE DEF r
<1> QED BY <1>6, <1>7 DEF Weighings

-----------------------------------------------------------------------------
(* What Place links is where y hung. *)
LEMMA PlaceIs ==
  ASSUME NEW t, NEW M, NEW b, Sound(t, M, b),
         NEW y, NEW q, NEW e, Hangs(t.link, t.par, M, y, q, e),
         NEW r, NEW v, Turned(t, r, v, M, y, q), v = setLink(r.t, q, e, r.w)
  PROVE  Place(r.t, r.w, y) = v
<1> DEFINE p == Parent(r.t, r.w)
<1>1. t \in Trees /\ Shape(t.link, t.par, M, b)
  BY DEF Sound
<1>2. SideOf(t, q, y) = e /\ y \in Nodes
  BY <1>1, SideOfHangs
<1>3. p = t.par[y]
  BY <1>1, <1>2, LinkTypes DEF Turned
<1>4. Place(r.t, r.w, y) = IF p = Null THEN setLink(r.t, Tree, 0, r.w)
                           ELSE setLink(r.t, p, SideOf(r.t, p, y), r.w)
  BY DEF Place
<1> HIDE DEF p
<1>5. CASE q = Tree
  <2>1. p = Null /\ e = 0
    BY <1>3, <1>5 DEF Hangs
  <2> QED BY <1>4, <1>5, <2>1
<1>6. CASE q # Tree
  <2>1. p = q /\ q # Null
    <3>1. q \in M /\ M \subseteq Nodes
      BY <1>1, <1>6 DEF Hangs, Shape
    <3> QED BY <1>3, <1>6, <3>1, NoNodes DEF Hangs
  <2>2. SideOf(r.t, q, y) = e
    BY <1>2, <1>6 DEF Turned
  <2> QED BY <1>4, <2>1, <2>2
<1> QED BY <1>5, <1>6

(* The end of AVL_Insert keeps the tree sound, or uses a null pointer.      *)
LEMMA RebalancedIs ==
  ASSUME NEW t, NEW M, NEW b, Sound(t, M, b), NEW y \in M
  PROVE  Fine(Rebalanced(t, y), M)
<1>0. t \in Trees /\ Shape(t.link, t.par, M, b) /\ y \in Nodes
  BY DEF Sound, Shape
<1> DEFINE heavy == {d \in {0, 1} : t.bal[y] = 2 * Sign(d)}
           d == CHOOSE d \in heavy : TRUE
           x == Link(t, y, d)
           r == IF t.bal[x] = Sign(d) THEN SingleRotation(t, y, d, 0, 0)
                ELSE DoubleRotation(t, y, d)
           u == Rebalanced(t, y)
<1>1. u = IF heavy = {} THEN t
          ELSE IF x = Null THEN Fault(t)
          ELSE IF r.t.fault THEN r.t ELSE Place(r.t, r.w, y)
  BY DEF Rebalanced
<1>2. heavy # {} => d \in Sides
  <2>1. heavy # {} => d \in heavy
    OBVIOUS
  <2> QED BY <2>1 DEF Sides
<1> DEFINE q == IF t.par[y] = Null THEN Tree ELSE t.par[y]
           e == IF t.par[y] = Null \/ t.link[t.par[y]][0] = y THEN 0 ELSE 1
<1>3. Hangs(t.link, t.par, M, y, q, e)
  BY <1>0, HangsSomewhere
<1> HIDE DEF heavy, d, q, e
<1>4. CASE heavy = {}
  BY <1>0, <1>1, <1>4 DEF Fine
<1>5. CASE heavy # {} /\ x = Null
  <2>1. u = Fault(t)
    BY <1>1, <1>5
  <2>2. Fault(t) \in Trees /\ Fault(t).fault = TRUE
    BY <1>0, Faulty
  <2> QED BY <2>1, <2>2 DEF Fine
<1>6. CASE heavy # {} /\ x # Null
  <2>1. d \in Sides
    BY <1>2, <1>6
  <2>2. \/ r.t \in Trees /\ r.t.fault
        \/ Turned(t, r, setLink(r.t, q, e, r.w), M, y, q)
    <3>1. CASE t.bal[x] = Sign(d)
      <4> DEFINE i == 0
      <4>1. i \in Int
        OBVIOUS
      <4>2. r = SingleRotation(t, y, d, i, i)
        BY <3>1
      <4> HIDE DEF i, r
      <4> QED BY <2>1, <4>1, <4>2, <1>0, <1>3, <1>6, SingleKeeps
    <3>2. CASE t.bal[x] # Sign(d)
      <4>1. r = DoubleRotation(t, y, d)
        BY <3>2
      <4> HIDE DEF r
      <4> DEFINE w == Link(t, x, 1 - d)
      <4>2. CASE w = Null
        BY <2>1, <4>1, <4>2, <1>0, <1>6, DoubleTypes
      <4>3. CASE w # Null
        BY <2>1, <4>1, <4>3, <1>0, <1>3, <1>6, DoubleKeeps
      <4> QED BY <4>2, <4>3
    <3> QED BY <3>1, <3>2
  <2> HIDE DEF r, x
  <2>3. CASE r.t.fault /\ r.t \in Trees
    BY <1>1, <1>6, <2>3 DEF Fine
  <2>4. CASE Turned(t, r, setLink(r.t, q, e, r.w), M, y, q) /\ ~r.t.fault
    <3>1. u = Place(r.t, r.w, y)
      BY <1>1, <1>6, <2>4
    <3>2. Place(r.t, r.w, y) = setLink(r.t, q, e, r.w)
      <4> DEFINE v == setLink(r.t, q, e, r.w)
      <4>1. Turned(t, r, v, M, y, q)
        BY <2>4
      <4>2. v = setLink(r.t, q, e, r.w)
        OBVIOUS
      <4> HIDE DEF v
      <4>3. Place(r.t, r.w, y) = v
        BY <4>1, <4>2, <1>3, PlaceIs
      <4> QED BY <4>3 DEF v
    <3>3. u \in Trees /\ \E c : Sound(u, M, c)
      BY <3>1, <3>2, <2>4 DEF Turned
    <3> QED BY <3>3 DEF Fine
  <2>5. CASE Turned(t, r, setLink(r.t, q, e, r.w), M, y, q) /\ r.t.fault
    <3>1. u = r.t
      BY <1>1, <1>6, <2>5
    <3>2. r.t \in Trees
      BY <2>5 DEF Turned
    <3> QED BY <3>1, <3>2, <2>5 DEF Fine
  <2> QED BY <2>2, <2>3, <2>4, <2>5
<1> QED BY <1>4, <1>5, <1>6

(* AVL_Insert, from the place its search has found.                         *)
LEMMA InsertedIs ==
  ASSUME NEW t, NEW M, NEW b, Sound(t, M, b), NEW n \in Nodes, n \notin M,
         NEW s, s = Search(t, Key[n]), s.p = Null
  PROVE  Fine(Inserted(t, n, s), M \cup {n})
<1> DEFINE none == Null
           zero == 0
           one == 1
           q == s.q
           d == s.dir
           y == s.y
           ta == setLink(t, n, zero, none)
           tb == setLink(ta, n, one, none)
           t1 == setBoth(tb, n, q, zero)
           N == M \cup {n}
<1>0. t \in Trees /\ Shape(t.link, t.par, M, b) /\ M \in SUBSET Nodes
  BY DEF Sound, Shape
<1>1. s \in Places /\ OnTheWay(t.link, M, b, Key[n], s)
  <2>1. Key[n] \in Keys
    BY DEF Keys
  <2> QED BY <2>1, SearchIs
<1>2. /\ q \in Nodes \cup {Null} /\ zero \in Sides /\ one \in Sides /\ none \in Nodes \cup {Null}
      /\ zero \in Int /\ zero = 0 /\ one = 1 /\ none = Null
      /\ n \in Nodes \cup {Tree} /\ n \in Nodes \cup {Null} /\ n # Null /\ n # Tree
      /\ \A i \in Sides : i = zero \/ i = one
  BY <1>1, NoNodes DEF Places, Sides
<1>3. Inserted(t, n, s) = IF q = Null THEN setLink(t1, Tree, 0, n)
                          ELSE Rebalanced(Reweigh(setLink(t1, q, d, n), n, y), y)
  BY DEF Inserted
<1>4. q # Null => Fits(t.link, M, b, Key[n], q, d) /\ y \in M
  BY <1>1 DEF OnTheWay, Fits
<1>5. q = Null => M = {}
  BY <1>1 DEF OnTheWay
<1> HIDE DEF q, d, y, zero, one, none
<1>6. ta \in Trees /\ Relinked(t, ta, n, zero, none)
  BY <1>0, <1>2, SetLink
<1> HIDE DEF ta
<1>7. tb \in Trees /\ Relinked(ta, tb, n, one, none)
  BY <1>2, <1>6, SetLink
<1> HIDE DEF tb
<1>8. t1 \in Trees /\ Reparented(tb, t1, n, q)
  BY <1>2, <1>7, SetBoth
<1> HIDE DEF t1
<1>9. /\ \A a \in Nodes \cup {Tree}, i \in Sides :
            t1.link[a][i] = IF a = n THEN Null ELSE t.link[a][i]
      /\ \A a \in Nodes : t1.par[a] = IF a = n THEN q ELSE t.par[a]
  <2>1. \A a \in Nodes \cup {Tree}, i \in Sides :
            ta.link[a][i] = IF a = n /\ i = zero THEN none ELSE t.link[a][i]
    BY <1>6 DEF Relinked
  <2>2. \A a \in Nodes \cup {Tree}, i \in Sides :
            tb.link[a][i] = IF a = n /\ i = one THEN none ELSE ta.link[a][i]
    BY <1>7 DEF Relinked
  <2>3. t1.link = tb.link
    BY <1>8 DEF Reparented
  <2>4. tb.par = t.par
    BY <1>6, <1>7 DEF Relinked
  <2>5. \A a \in Nodes : t1.par[a] = IF a = n THEN q ELSE tb.par[a]
    BY <1>8 DEF Reparented
  <2> QED BY <2>1, <2>2, <2>3, <2>4, <2>5, <1>2
<1>10. CASE q = Null
  <2> DEFINE root == Tree
             v == setLink(t1, root, zero, n)
  <2>1. root \in Nodes \cup {Tree} /\ root = Tree
    OBVIOUS
  <2> HIDE DEF root
  <2>2. v \in Trees /\ Relinked(t1, v, root, zero, n)
    BY <1>2, <1>8, <2>1, SetLink
  <2> HIDE DEF v
  <2>3. v.link \in Links /\ v.par \in Words
    BY <2>2, LinkTypes
  <2>4. v.link[Tree][0] = n /\ v.link[n][0] = Null /\ v.link[n][1] = Null /\ v.par[n] = Null
    BY <2>1, <2>2, <1>2, <1>9, <1>10 DEF Relinked
  <2>5. \E c : Shape(v.link, v.par, {n}, c)
    BY <2>3, <2>4, FirstShape
  <2>6. N = {n}
    BY <1>5, <1>10
  <2>7. Inserted(t, n, s) = v
    BY <1>2, <1>3, <1>10, <2>1 DEF v
  <2> QED BY <2>2, <2>5, <2>6, <2>7 DEF Fine, Sound
<1>11. CASE q # Null
  <2> DEFINE t2 == setLink(t1, q, d, n)
             t3 == Reweigh(t2, n, y)
  <2>1. q \in M /\ d \in Sides /\ q \in Nodes \cup {Tree} /\ q # n
    BY <1>0, <1>4, <1>11 DEF Fits
  <2>2. t2 \in Trees /\ Relinked(t1, t2, q, d, n)
    BY <2>1, <1>2, <1>8, SetLink
  <2> HIDE DEF t2
  <2>3. t2.link \in Links /\ t2.par \in Words
    BY <2>2, LinkTypes
  <2>4. Added(t.link, t.par, t2.link, t2.par, M, n, q, d)
    <3>1. \A a \in Nodes \cup {Tree}, i \in Sides :
             t2.link[a][i] = IF a = q /\ i = d THEN n ELSE t1.link[a][i]
      BY <2>2 DEF Relinked
    <3>2. t2.par = t1.par
      BY <2>2 DEF Relinked
    <3>3. t2.link[q][d] = n
      BY <2>1, <3>1
    <3>4. t2.link[n][0] = Null /\ t2.link[n][1] = Null
      BY <2>1, <3>1, <1>2, <1>9
    <3>5. \A a \in M, i \in Sides : ~(a = q /\ i = d) => t2.link[a][i] = t.link[a][i]
      BY <3>1, <1>0, <1>9
    <3>6. t2.link[Tree][0] = t.link[Tree][0]
      <4>1. Tree # q /\ 0 \in Sides /\ Tree # n
        BY <2>1, <1>0, <1>2, NoNodes
      <4> QED BY <4>1, <3>1, <1>9
    <3>7. t2.par[n] = q /\ \A a \in M : t2.par[a] = t.par[a]
      BY <3>2, <1>0, <1>9
    <3> QED BY <3>3, <3>4, <3>5, <3>6, <3>7 DEF Added
  <2>5. \E c : Shape(t2.link, t2.par, N, c)
    BY <2>3, <2>4, <1>0, <1>4, <1>11, InsertShape
  <2>6. t3 \in Trees /\ t3.link = t2.link /\ t3.par = t2.par
    BY <2>2, ReweighIs
  <2> HIDE DEF t3
  <2>7. PICK c : Sound(t3, N, c)
    BY <2>5, <2>6 DEF Sound
  <2>8. y \in N
    BY <1>4, <1>11
  <2> HIDE DEF N
  <2>9. Fine(Rebalanced(t3, y), N)
    BY <2>7, <2>8, RebalancedIs
  <2>10. Inserted(t, n, s) = Rebalanced(t3, y)
    BY <1>3, <1>11 DEF t3, t2
  <2> QED BY <2>9, <2>10 DEF N
<1> QED BY <1>10, <1>11

-----------------------------------------------------------------------------
(* AVL_Move and AVL_Replace.                                                *)

\* u is t with the fields of p copied to item
Copied(t, u, p, item) ==
    /\ u \in Trees /\ u.fault = t.fault
    /\ \A a \in Nodes \cup {Tree} : u.link[a] = IF a = item THEN t.link[p] ELSE t.link[a]
    /\ \A a \in Nodes : u.par[a] = IF a = item THEN t.par[p] ELSE t.par[a]

(* What AVL_Move does first.                                                *)
LEMMA Copy ==
  ASSUME NEW t \in Trees, NEW p \in Nodes, NEW item \in Nodes
  PROVE  LET u == [t EXCEPT !.link[item] = t.link[p],
                            !.par[item] = t.par[p], !.bal[item] = t.bal[p]]
         IN  u \in Trees /\ Copied(t, u, p, item)
<1> DEFINE u == [t EXCEPT !.link[item] = t.link[p],
                          !.par[item] = t.par[p], !.bal[item] = t.bal[p]]
<1>1. /\ t.link \in [Nodes \cup {Tree} -> [{0, 1} -> Nodes \cup {Null}]]
      /\ t.par \in [Nodes -> Nodes \cup {Null}] /\ t.bal \in [Nodes -> 0..7]
      /\ t.fault \in BOOLEAN
  BY DEF Trees
<1>2. u = [link |-> [t.link EXCEPT ![item] = t.link[p]], par |-> [t.par EXCEPT ![item] = t.par[p]],
           bal |-> [t.bal EXCEPT ![item] = t.bal[p]], fault |-> t.fault]
  <2> DEFINE lp == t.link[p]
             pp == t.par[p]
             bp == t.bal[p]
  <2>1. u = [t EXCEPT !.link[item] = lp, !.par[item] = pp, !.bal[item] = bp]
    OBVIOUS
  <2> HIDE DEF u, lp, pp, bp
  <2>2. u = [link |-> [t.link EXCEPT ![item] = lp], par |-> [t.par EXCEPT ![item] = pp],
             bal |-> [t.bal EXCEPT ![item] = bp], fault |-> t.fault]
    BY <2>1 DEF Trees
  <2> QED BY <2>2 DEF lp, pp, bp
<1> HIDE DEF u
<1>3. u \in Trees
  BY <1>1, <1>2 DEF Trees
<1>4. /\ u.link = [t.link EXCEPT ![item] = t.link[p]] /\ u.par = [t.par EXCEPT ![item] = t.par[p]]
      /\ u.fault = t.fault
  BY <1>2
<1>5. Copied(t, u, p, item)
  BY <1>1, <1>3, <1>4 DEF Copied
<1> QED BY <1>3, <1>5 DEF u

(* AVL_Move, to a node of the same key.                                     *)
LEMMA MovedIs ==
  ASSUME NEW t, NEW M, NEW b, Sound(t, M, b), NEW p \in M,
         NEW item \in Nodes, item \notin M, Key[item] = Key[p]
  PROVE  Fine(Moved(t, p, item), (M \ {p}) \cup {item})
<1> DEFINE zero == 0
           one == 1
           a == Parent(t, p)
           l == Link(t, p, zero)
           r == Link(t, p, one)
           t1 == [t EXCEPT !.link[item] = t.link[p],
                           !.par[item] = t.par[p], !.bal[item] = t.bal[p]]
           e == SideOf(t1, a, p)
           t2 == IF a = Null THEN Fault(t1) ELSE setLink(t1, a, e, item)
           t3 == adopt(t2, l, item)
           t4 == adopt(t3, r, item)
           u == Forget(t4, p)
           N == (M \ {p}) \cup {item}
<1>0. /\ t \in Trees /\ Shape(t.link, t.par, M, b) /\ M \in SUBSET Nodes /\ p \in Nodes
      /\ item # p /\ item # Null /\ item # Tree /\ p # Null /\ p # Tree
  <2>1. t \in Trees /\ Shape(t.link, t.par, M, b) /\ M \in SUBSET Nodes
    BY DEF Sound, Shape
  <2> QED BY <2>1, NoNodes
<1>1. Moved(t, p, item) = u
  BY DEF Moved
<1>2. /\ zero \in Sides /\ one \in Sides /\ a \in Nodes \cup {Null} /\ a = t.par[p]
      /\ \A s \in Sides : s = zero \/ s = one
  BY <1>0, LinkTypes DEF Sides
<1>3. /\ l = t.link[p][zero] /\ r = t.link[p][one] /\ l \in Nodes \cup {Null} /\ r \in Nodes \cup {Null}
      /\ item \in Nodes \cup {Null} /\ e \in Sides /\ zero = 0 /\ one = 1
  <2>1. zero \in Sides /\ one \in Sides /\ e \in Sides
    BY DEF SideOf, Sides
  <2> HIDE DEF zero, one, e
  <2>2. l = t.link[p][zero] /\ r = t.link[p][one] /\ l \in Nodes \cup {Null} /\ r \in Nodes \cup {Null}
    BY <2>1, <1>0, LinkTypes
  <2> QED BY <2>1, <2>2 DEF zero, one
<1>4. t1 \in Trees /\ Copied(t, t1, p, item)
  BY <1>0, Copy
<1>e. a # Null => /\ a \in M /\ a # p /\ a # item /\ t.link[a][e] = p
                  /\ \A s \in Sides, n \in M : t.link[n][s] = p => n = a /\ s = e
                  /\ t.link[Tree][0] # p
  <2> SUFFICES ASSUME a # Null
               PROVE  /\ a \in M /\ a # p /\ a # item /\ t.link[a][e] = p
                      /\ \A s \in Sides, n \in M : t.link[n][s] = p => n = a /\ s = e
                      /\ t.link[Tree][0] # p
    OBVIOUS
  <2> DEFINE q == IF t.par[p] = Null THEN Tree ELSE t.par[p]
             f == IF t.par[p] = Null \/ t.link[t.par[p]][0] = p THEN 0 ELSE 1
  <2>1. Hangs(t.link, t.par, M, p, q, f)
    BY <1>0, HangsSomewhere
  <2>2. q = a
    BY <1>2
  <2> HIDE DEF q, f
  <2>3. /\ \A n \in M, s \in Sides : t.link[n][s] = p => n = q /\ s = f
        /\ t.link[Tree][0] = p => q = Tree
        /\ q # p
    BY <1>0, <2>1, HangsOnce
  <2>4. a # Tree /\ a \in M
    BY <1>0, <1>2, <2>1, <2>2, NoNodes DEF Hangs
  <2>5. t.link[a][f] = p /\ f \in Sides
    BY <2>1, <2>2 DEF Hangs
  <2>6. t1.link[a] = t.link[a]
    BY <1>0, <1>4, <2>4 DEF Copied
  <2>7. e = f
    <3>1. e = IF t1.link[a][0] = p THEN 0 ELSE 1
      BY DEF SideOf, Link
    <3>2. 0 \in Sides /\ (f = 0 \/ f = 1)
      BY <2>5 DEF Sides
    <3> HIDE DEF e, t1
    <3> QED BY <3>1, <3>2, <2>2, <2>3, <2>4, <2>5, <2>6
  <2> QED BY <2>2, <2>3, <2>4, <2>5, <2>7
<1> HIDE DEF t1, a, l, r, e, zero, one
<1>5. CASE a = Null
  <2>1. t2 \in Trees /\ t2.fault = TRUE
    BY <1>4, <1>5, Faulty
  <2> HIDE DEF t2
  <2>2. t3 \in Trees /\ Reparented(t2, t3, l, item)
    BY <2>1, <1>3, Adopt
  <2> HIDE DEF t3
  <2>3. t4 \in Trees /\ Reparented(t3, t4, r, item)
    BY <2>2, <1>3, Adopt
  <2> HIDE DEF t4
  <2>4. u \in Trees /\ u.fault = t4.fault
    BY <2>3, <1>0, Forgotten
  <2> HIDE DEF u
  <2>5. u.fault = TRUE
    BY <2>1, <2>2, <2>3, <2>4 DEF Reparented
  <2> QED BY <2>4, <2>5, <1>1 DEF Fine
<1>6. CASE a # Null
  <2>1. t2 \in Trees /\ Relinked(t1, t2, a, e, item)
    <3>1. a \in Nodes \cup {Tree}
      BY <1>2, <1>6
    <3>2. setLink(t1, a, e, item) \in Trees /\ Relinked(t1, setLink(t1, a, e, item), a, e, item)
      BY <3>1, <1>3, <1>4, SetLink
    <3> QED BY <3>2, <1>6
  <2> HIDE DEF t2
  <2>2. t3 \in Trees /\ Reparented(t2, t3, l, item)
    BY <2>1, <1>3, Adopt
  <2> HIDE DEF t3
  <2>3. t4 \in Trees /\ Reparented(t3, t4, r, item)
    BY <2>2, <1>3, Adopt
  <2> HIDE DEF t4
  <2>4. /\ u \in Trees
        /\ u.link[Tree] = t4.link[Tree]
        /\ \A x \in Nodes : x # p => u.link[x] = t4.link[x] /\ u.par[x] = t4.par[x]
    BY <2>3, <1>0, Forgotten
  <2> HIDE DEF u
  <2>5. u.link \in Links /\ u.par \in Words
    BY <2>4, LinkTypes
  <2>6. t4.link = t2.link
    BY <2>2, <2>3 DEF Reparented
  <2>7. \A x \in Nodes \cup {Tree}, s \in Sides : x # p =>
           u.link[x][s] = IF x = a /\ s = e THEN item
                          ELSE IF x = item THEN t.link[p][s] ELSE t.link[x][s]
    <3>1. \A x \in Nodes \cup {Tree}, s \in Sides :
             t2.link[x][s] = IF x = a /\ s = e THEN item ELSE t1.link[x][s]
      BY <2>1 DEF Relinked
    <3>2. \A x \in Nodes \cup {Tree} : t1.link[x] = IF x = item THEN t.link[p] ELSE t.link[x]
      BY <1>4 DEF Copied
    <3> QED BY <3>1, <3>2, <2>4, <2>6
  <2>8. \A x \in Nodes : x # p =>
           u.par[x] = IF x = r \/ x = l THEN item ELSE IF x = item THEN t.par[p] ELSE t.par[x]
    <3>1. \A x \in Nodes : t3.par[x] = IF x = l THEN item ELSE t2.par[x]
      BY <2>2 DEF Reparented
    <3>2. \A x \in Nodes : t4.par[x] = IF x = r THEN item ELSE t3.par[x]
      BY <2>3 DEF Reparented
    <3>3. t2.par = t1.par
      BY <2>1 DEF Relinked
    <3>4. \A x \in Nodes : t1.par[x] = IF x = item THEN t.par[p] ELSE t.par[x]
      BY <1>4 DEF Copied
    <3> QED BY <3>1, <3>2, <3>3, <3>4, <2>4
  <2>9. \A s \in Sides : t.link[p][s] # Null =>
           IsChild(t.link, t.par, M, b, p, s, t.link[p][s])
    BY <1>0, ChildIsChild
  <2>10. l # item /\ r # item /\ (l # Null => l \in M /\ t.par[l] = p) /\ (r # Null => r \in M /\ t.par[r] = p)
    BY <2>9, <1>0, <1>2, <1>3 DEF IsChild
  <2>11. \A x \in M : t.par[x] = p => x = l \/ x = r
    <3> SUFFICES ASSUME NEW x \in M, t.par[x] = p PROVE x = l \/ x = r
      OBVIOUS
    <3>1. \E s \in Sides : t.link[p][s] = x
      BY <1>0 DEF Shape, Parents
    <3> QED BY <3>1, <1>2, <1>3
  <2>12. Replaced(t.link, t.par, u.link, u.par, M, p, item)
    <3>1. \A s \in Sides : u.link[item][s] = t.link[p][s]
      BY <2>7, <1>0, <1>e, <1>6
    <3>2. \A x \in M, s \in Sides : x # p => u.link[x][s] = IF t.link[x][s] = p THEN item ELSE t.link[x][s]
      <4> SUFFICES ASSUME NEW x \in M, NEW s \in Sides, x # p
                   PROVE  u.link[x][s] = IF t.link[x][s] = p THEN item ELSE t.link[x][s]
        OBVIOUS
      <4>1. x # item /\ x \in Nodes
        BY <1>0
      <4>2. t.link[x][s] = p <=> x = a /\ s = e
        BY <1>e, <1>6
      <4> QED BY <4>1, <4>2, <2>7
    <3>3. u.link[Tree][0] = IF t.link[Tree][0] = p THEN item ELSE t.link[Tree][0]
      <4>1. Tree # p /\ Tree # item /\ Tree # a /\ 0 \in Sides
        BY <1>0, <1>e, <1>6, NoNodes DEF Sides
      <4> QED BY <4>1, <2>7, <1>e, <1>6
    <3>4. u.par[item] = t.par[p]
      BY <2>8, <2>10, <1>0
    <3>5. \A x \in M : x # p => u.par[x] = IF t.par[x] = p THEN item ELSE t.par[x]
      <4> SUFFICES ASSUME NEW x \in M, x # p
                   PROVE  u.par[x] = IF t.par[x] = p THEN item ELSE t.par[x]
        OBVIOUS
      <4>1. x # item /\ x \in Nodes /\ x # Null
        BY <1>0, NoNodes
      <4>2. t.par[x] = p <=> x = l \/ x = r
        BY <4>1, <2>10, <2>11
      <4> QED BY <4>1, <4>2, <2>8
    <3> QED BY <3>1, <3>2, <3>3, <3>4, <3>5 DEF Replaced
  <2>13. Adjacent(M, p, item)
    BY <1>0 DEF Adjacent, Shape, Distinct
  <2>14. \E c : Shape(u.link, u.par, (M \ {p}) \cup {item}, c)
    BY <2>5, <2>12, <2>13, <1>0, ReplaceShape
  <2> QED BY <2>4, <2>14, <1>1 DEF Fine, Sound
<1> QED BY <1>5, <1>6

-----------------------------------------------------------------------------
(* AVL_Remove: the node after p takes its place.                            *)

\* K and R are the links and parents after s, whose child on side 1 is v and
\* which hung on side f of rs, has left its place and taken p's
Taken(L, P, K, R, M, p, s, rs, f, v) ==
    /\ v = L[s][1]
    /\ \A a \in M, i \in Sides : a # p /\ a # s =>
          K[a][i] = IF L[a][i] = p THEN s ELSE IF a = rs /\ i = f THEN v ELSE L[a][i]
    /\ K[s][0] = L[p][0] /\ K[s][1] = IF rs = p THEN v ELSE L[p][1]
    /\ K[Tree][0] = IF L[Tree][0] = p THEN s ELSE L[Tree][0]
    /\ R[s] = P[p]
    /\ \A a \in M : a # p /\ a # s =>
          R[a] = IF a = v THEN IF rs = p THEN s ELSE rs
                 ELSE IF P[a] = p THEN s ELSE P[a]

\* s is the lowest node above p: nothing is on its side 0 but p
Follows(L, M, b, p, s) == /\ p \in M /\ s \in M /\ s # p
                          /\ L[s][0] = Null /\ b[s][0] = Key[p]

(* What lies next to s, the node after p.                                   *)
LEMMA FollowsFacts ==
  ASSUME NEW L, NEW P, NEW M, NEW b, Shape(L, P, M, b),
         NEW p, NEW s, Follows(L, M, b, p, s), NEW rs, NEW f, Hangs(L, P, M, s, rs, f)
  PROVE  /\ rs # Tree /\ rs \in M /\ rs # s /\ P[s] = rs
         /\ rs = p <=> f = 1
         /\ L[s][1] # p
         /\ Beyond(1, Key[s], Key[p])
         /\ \A a \in M : a = s \/ a = p \/ Beyond(1, Key[a], Key[s]) \/ Beyond(1, Key[p], Key[a])
<1> DEFINE one == 1
           zero == 0
<1>0. /\ p \in M /\ s \in M /\ s # p /\ L[s][0] = Null /\ b[s][0] = Key[p] /\ M \in SUBSET Nodes
      /\ b \in Bounds /\ one \in Sides /\ zero \in Sides /\ zero = 0 /\ one = 1 /\ 1 - one = zero /\ 1 - zero = one
      /\ zero # one /\ \A d \in Sides : d = zero \/ d = one
  BY DEF Follows, Shape, Sides
<1>w. Distinct(M) /\ Within(M, b) /\ Gaps(L, M, b) /\ Rooted(L, P, M, b)
  BY DEF Shape
<1>1. \A a \in M : Key[a] \in Int /\ \A i \in Sides : b[a][i] \in Int
  BY <1>0, KeyType DEF Bounds
<1> HIDE DEF one, zero
<1>2. Beyond(one, Key[s], Key[p])
  <2>1. Beyond(zero, b[s][zero], Key[s])
    BY <1>0, <1>w DEF Within
  <2> QED BY <2>1, <1>0, <1>1, BeyondOrder
<1>3. rs # Tree /\ rs \in M
  <2>1. SUFFICES ASSUME rs = Tree PROVE FALSE
    BY DEF Hangs
  <2>2. L[Tree][0] = s
    BY <2>1 DEF Hangs
  <2>3. b[s] = Limit
    BY <2>2, <1>w, <1>0, NoNodes DEF Rooted
  <2>4. Beyond(zero, Limit[zero], Key[p])
    BY <1>0, LimitsExist DEF Limits
  <2> QED BY <2>3, <2>4, <1>0, <1>1 DEF Beyond
<1>4. f \in Sides /\ L[rs][f] = s /\ P[s] = rs
  BY <1>3 DEF Hangs
<1>5. IsChild(L, P, M, b, rs, f, s)
  BY <1>0, <1>3, <1>4, NoNodes, ChildIsChild
<1>6. rs = p <=> f = one
  <2>1. ASSUME f = one PROVE rs = p
    <3>1. b[s][zero] = Key[rs]
      BY <2>1, <1>0, <1>5 DEF IsChild
    <3> QED BY <3>1, <1>0, <1>3, <1>w DEF Distinct
  <2>2. ASSUME f = zero, rs = p PROVE FALSE
    <3>1. b[s][zero] = b[p][zero]
      BY <2>2, <1>5 DEF IsChild
    <3>2. Beyond(zero, b[p][zero], Key[p])
      BY <1>0, <1>w DEF Within
    <3> QED BY <3>1, <3>2, <1>0, <1>1 DEF Beyond
  <2> QED BY <2>1, <2>2, <1>0, <1>4
<1>7. L[s][one] # p
  <2>1. SUFFICES ASSUME L[s][one] = p PROVE FALSE
    OBVIOUS
  <2>2. IsChild(L, P, M, b, s, one, p)
    BY <2>1, <1>0, NoNodes, ChildIsChild
  <2>3. Beyond(one, Key[p], Key[s])
    BY <2>2 DEF IsChild
  <2> QED BY <2>3, <1>0, <1>1, <1>2, BeyondOrder
<1>8. ASSUME NEW a \in M, a # s, a # p
      PROVE  Beyond(one, Key[a], Key[s]) \/ Beyond(one, Key[p], Key[a])
  <2>1. Beyond(zero, Key[a], Key[s]) => ~Beyond(zero, b[s][zero], Key[a])
    BY <1>0, <1>w DEF Gaps
  <2>2. Key[a] # Key[s] /\ Key[a] # Key[p]
    BY <1>8, <1>0, <1>w DEF Distinct
  <2>3. Beyond(zero, Key[a], Key[s]) \/ Beyond(one, Key[a], Key[s])
    BY <2>2, <1>0, <1>1, BeyondOrder
  <2>4. Beyond(zero, Key[p], Key[a]) \/ Beyond(one, Key[p], Key[a])
    BY <2>2, <1>0, <1>1, BeyondOrder
  <2> QED BY <2>1, <2>3, <2>4, <1>0
<1> QED BY <1>0, <1>2, <1>3, <1>4, <1>5, <1>6, <1>7, <1>8 DEF IsChild, one

(* Taking s out of its place and putting it in that of p keeps the shape:   *)
(* as if p had gone out of the place of s, and s had got the name of p.     *)
LEMMA TakenShape ==
  ASSUME NEW L, NEW P, NEW M, NEW b, Shape(L, P, M, b),
         NEW p, NEW s, Follows(L, M, b, p, s),
         NEW rs, NEW f, Hangs(L, P, M, s, rs, f),
         NEW K \in Links, NEW R \in Words, NEW v, Taken(L, P, K, R, M, p, s, rs, f, v)
  PROVE  \E c : Shape(K, R, M \ {p}, c)
<1> DEFINE L1 == [a \in Nodes \cup {Tree} |-> [i \in Sides |->
                     IF a = rs /\ i = f THEN v ELSE L[a][i]]]
           P1 == [a \in Nodes |-> IF a = v THEN rs ELSE P[a]]
           N1 == M \ {s}
           zero == 0
           one == 1
<1>0. /\ L \in Links /\ P \in Words /\ M \in SUBSET Nodes
      /\ p \in M /\ s \in M /\ s # p /\ L[s][0] = Null /\ b[s][0] = Key[p]
      /\ Null \notin M /\ Tree \notin M
  BY NoNodes DEF Follows, Shape
<1>1. /\ zero \in Sides /\ one \in Sides /\ zero = 0 /\ one = 1 /\ 1 - zero = one /\ zero # one
      /\ \A i \in Sides : i = zero \/ i = one
  BY DEF Sides
<1> HIDE DEF zero, one
<1>2. /\ rs # Tree /\ rs \in M /\ rs # s /\ P[s] = rs
      /\ rs = p <=> f = one
      /\ L[s][one] # p
      /\ Beyond(one, Key[s], Key[p])
      /\ \A a \in M : a = s \/ a = p \/ Beyond(one, Key[a], Key[s]) \/ Beyond(one, Key[p], Key[a])
  BY FollowsFacts, <1>1
<1>3. f \in Sides /\ L[rs][f] = s /\ v = L[s][one] /\ v \in Nodes \cup {Null}
  BY <1>0, <1>1, <1>2 DEF Hangs, Taken, Links
<1>4. L1 \in Links /\ P1 \in Words
  <2>1. \A a \in Nodes \cup {Tree}, i \in Sides : L[a][i] \in Nodes \cup {Null}
    BY <1>0 DEF Links
  <2>2. \A a \in Nodes : P[a] \in Nodes \cup {Null}
    BY <1>0 DEF Words
  <2> QED BY <2>1, <2>2, <1>0, <1>2, <1>3 DEF Links, Words
<1>5. /\ \A a \in Nodes \cup {Tree}, i \in Sides : L1[a][i] = IF a = rs /\ i = f THEN v ELSE L[a][i]
      /\ \A a \in Nodes : P1[a] = IF a = v THEN rs ELSE P[a]
  OBVIOUS
<1> HIDE DEF L1, P1
<1>6. Bypassed(L, P, L1, P1, M, s, zero, rs, f, v)
  <2>1. v = L[s][1 - zero] /\ L1[rs][f] = v
    BY <1>0, <1>1, <1>2, <1>3, <1>5
  <2>2. \A a \in M, i \in Sides : a # s /\ ~(a = rs /\ i = f) => L1[a][i] = L[a][i]
    BY <1>0, <1>5
  <2>3. L1[Tree][0] = L[Tree][0]
    BY <1>1, <1>2, <1>5
  <2>4. v # Null => P1[v] = P[s]
    BY <1>2, <1>3, <1>5
  <2>5. \A a \in M : a # s /\ a # v => P1[a] = P[a]
    BY <1>0, <1>5
  <2> QED BY <2>1, <2>2, <2>3, <2>4, <2>5 DEF Bypassed
<1>7. PICK c1 : Shape(L1, P1, N1, c1)
  <2>1. L[s][zero] = Null
    BY <1>0, <1>1
  <2> QED BY <2>1, <1>1, <1>4, <1>6, BypassShape
<1>8. Replaced(L1, P1, K, R, N1, p, s)
  <2>k. /\ \A a \in M, i \in Sides : a # p /\ a # s =>
              K[a][i] = IF L[a][i] = p THEN s ELSE IF a = rs /\ i = f THEN v ELSE L[a][i]
        /\ K[s][zero] = L[p][zero] /\ K[s][one] = IF rs = p THEN v ELSE L[p][one]
        /\ K[Tree][0] = IF L[Tree][0] = p THEN s ELSE L[Tree][0]
    BY <1>1 DEF Taken
  <2>r. /\ R[s] = P[p]
        /\ \A a \in M : a # p /\ a # s =>
              R[a] = IF a = v THEN IF rs = p THEN s ELSE rs
                     ELSE IF P[a] = p THEN s ELSE P[a]
    BY DEF Taken
  <2>1. \A i \in Sides : K[s][i] = L1[p][i]
    <3>1. K[s][zero] = L1[p][zero]
      BY <2>k, <1>0, <1>1, <1>2, <1>5
    <3>2. K[s][one] = L1[p][one]
      BY <2>k, <1>0, <1>1, <1>2, <1>5
    <3> QED BY <3>1, <3>2, <1>1
  <2>2. \A a \in N1, i \in Sides : a # p => K[a][i] = IF L1[a][i] = p THEN s ELSE L1[a][i]
    <3> SUFFICES ASSUME NEW a \in N1, NEW i \in Sides, a # p
                 PROVE  K[a][i] = IF L1[a][i] = p THEN s ELSE L1[a][i]
      OBVIOUS
    <3>1. a \in M /\ a # s /\ a \in Nodes
      BY <1>0
    <3>2. CASE a = rs /\ i = f
      BY <3>1, <3>2, <2>k, <1>0, <1>2, <1>3, <1>5
    <3>3. CASE ~(a = rs /\ i = f)
      BY <3>1, <3>3, <2>k, <1>5
    <3> QED BY <3>2, <3>3
  <2>3. K[Tree][0] = IF L1[Tree][0] = p THEN s ELSE L1[Tree][0]
    <3>1. L1[Tree][0] = L[Tree][0]
      BY <1>1, <1>2, <1>5
    <3> QED BY <3>1, <2>k
  <2>4. R[s] = P1[p]
    <3>1. p # v
      BY <1>2, <1>3
    <3> QED BY <3>1, <2>r, <1>0, <1>5
  <2>5. \A a \in N1 : a # p => R[a] = IF P1[a] = p THEN s ELSE P1[a]
    BY <2>r, <1>0, <1>5
  <2> QED BY <2>1, <2>2, <2>3, <2>4, <2>5 DEF Replaced
<1>9. Adjacent(N1, p, s)
  <2> SUFFICES ASSUME NEW a \in N1, a # p
               PROVE  /\ Key[a] # Key[s]
                      /\ \A d \in Sides : Beyond(d, Key[a], Key[s]) <=> Beyond(d, Key[a], Key[p])
    BY DEF Adjacent
  <2>1. a \in M /\ Key[a] \in Int /\ Key[s] \in Int /\ Key[p] \in Int
    BY <1>0, KeyType
  <2>2. Key[a] # Key[s] /\ Key[a] # Key[p]
    BY <1>0 DEF Shape, Distinct
  <2>3. Key[s] > Key[p] /\ (Key[a] > Key[s] \/ Key[p] > Key[a])
    BY <1>1, <1>2 DEF Beyond
  <2> QED BY <2>1, <2>2, <2>3 DEF Beyond, Sides
<1>10. \E c : Shape(K, R, (N1 \ {p}) \cup {s}, c)
  <2>1. p \in N1 /\ s \in Nodes /\ s \notin N1
    BY <1>0
  <2> HIDE DEF N1
  <2> QED BY <2>1, <1>7, <1>8, <1>9, ReplaceShape
<1>11. (N1 \ {p}) \cup {s} = M \ {p}
  BY <1>0
<1> QED BY <1>10, <1>11

\* u.t is t without p, and one of the sides of u.q got lower
Shrunk(t, u, M, p) ==
    /\ u.t.fault = t.fault /\ u.q \in (M \ {p}) \cup {Tree} /\ u.dir \in Sides
    /\ \E c : Sound(u.t, M \ {p}, c)

(* s gets the parent and the factor of p.                                   *)
LEMMA Inherited ==
  ASSUME NEW t \in Trees, NEW n \in Nodes, NEW p \in Nodes \cup {Null}, NEW i \in 0..7,
         NEW u, u = [t EXCEPT !.par[n] = p, !.bal[n] = i]
  PROVE  u \in Trees /\ Reparented(t, u, n, p)
BY DEF Trees, Reparented

\* what p has on side 0 takes its place on side e of q
OnLeft(t, u, p, q, e) == u = adopt(setLink(t, q, e, t.link[p][0]), t.link[p][0], t.par[p])

(* p had nothing on side 1. *)
LEMMA UnlinkedAlone ==
  ASSUME NEW t, NEW M, NEW b, Sound(t, M, b), NEW p,
         NEW q, NEW e, Hangs(t.link, t.par, M, p, q, e),
         t.link[p][1] = Null, NEW u, OnLeft(t, u, p, q, e)
  PROVE  u.fault = t.fault /\ \E c : Sound(u, M \ {p}, c)
<1> DEFINE l == t.link[p][0]
           a == t.par[p]
           one == 1
           v == setLink(t, q, e, l)
<1>u. u = adopt(setLink(t, q, e, l), l, a)
  BY DEF OnLeft
<1>l. l = t.link[p][0] /\ a = t.par[p]
  OBVIOUS
<1> HIDE DEF l, a
<1>0. t \in Trees /\ Shape(t.link, t.par, M, b) /\ M \in SUBSET Nodes /\ p \in M /\ p \in Nodes
  BY DEF Sound, Shape, Hangs
<1>1. q \in Nodes \cup {Tree} /\ e \in Sides
  BY <1>0, SideOfHangs
<1>2. l \in Nodes \cup {Null} /\ a \in Nodes \cup {Null}
  BY <1>0, <1>l DEF Trees
<1>3. one \in Sides /\ 1 - one = 0 /\ one = 1 /\ 0 \in Sides
  BY DEF Sides
<1>4. v \in Trees /\ Relinked(t, v, q, e, l)
  BY <1>0, <1>1, <1>2, SetLink
<1>5. u = adopt(v, l, a)
  BY <1>u
<1> HIDE DEF v, one
<1>6. u \in Trees /\ Reparented(v, u, l, a)
  BY <1>2, <1>4, <1>5, Adopt
<1>7. u.link \in Links /\ u.par \in Words
  BY <1>6, LinkTypes
<1>8. \A x \in Nodes \cup {Tree}, i \in Sides : u.link[x][i] = IF x = q /\ i = e THEN l ELSE t.link[x][i]
  BY <1>4, <1>6 DEF Relinked, Reparented
<1>9. \A x \in Nodes : u.par[x] = IF x = l THEN a ELSE t.par[x]
  BY <1>4, <1>6 DEF Relinked, Reparented
<1>10. Bypassed(t.link, t.par, u.link, u.par, M, p, one, q, e, l)
  <2>1. l = t.link[p][1 - one]
    BY <1>3, <1>l
  <2>2. u.link[q][e] = l
    BY <1>1, <1>8
  <2>3. \A x \in M, s \in Sides : x # p /\ ~(x = q /\ s = e) => u.link[x][s] = t.link[x][s]
    BY <1>0, <1>8
  <2>4. q # Tree => u.link[Tree][0] = t.link[Tree][0]
    BY <1>3, <1>8
  <2>5. l # Null => u.par[l] = t.par[p]
    BY <1>2, <1>9, <1>l
  <2>6. \A x \in M : x # p /\ x # l => u.par[x] = t.par[x]
    BY <1>0, <1>9
  <2> QED BY <2>1, <2>2, <2>3, <2>4, <2>5, <2>6 DEF Bypassed
<1>11. t.link[p][one] = Null
  BY <1>3
<1>12. \E c : Shape(u.link, u.par, M \ {p}, c)
  BY <1>0, <1>3, <1>7, <1>10, <1>11, BypassShape
<1>13. u.fault = t.fault
  BY <1>4, <1>6 DEF Relinked, Reparented
<1> QED BY <1>6, <1>12, <1>13 DEF Sound

\* u is t after s, which hung on side f of rs, has taken the place of p on side e of q
Spliced(t, u, p, q, e, s, rs, f) ==
    LET l == t.link[p][0]
        r == t.link[p][1]
        v == t.link[s][1]
    IN  /\ u \in Trees /\ u.fault = t.fault
        /\ \A x \in Nodes \cup {Tree}, i \in Sides : x # p =>
              u.link[x][i] = IF x = q /\ i = e THEN s
                             ELSE IF x = s THEN IF i = 0 THEN l ELSE IF rs = p THEN v ELSE r
                             ELSE IF x = rs /\ i = f THEN v
                             ELSE t.link[x][i]
        /\ \A x \in Nodes : x # p =>
              u.par[x] = IF x = s THEN t.par[p]
                         ELSE IF x = v THEN IF rs = p THEN s ELSE rs
                         ELSE IF x = l \/ x = r THEN s ELSE t.par[x]

(* what the two cases with a node on side 1 have in common *)
LEMMA UnlinkedTaken ==
  ASSUME NEW t, NEW M, NEW b, Sound(t, M, b), NEW p, NEW s, Follows(t.link, M, b, p, s),
         NEW q, NEW e, Hangs(t.link, t.par, M, p, q, e),
         NEW rs, NEW f, Hangs(t.link, t.par, M, s, rs, f),
         NEW u, Spliced(t, u, p, q, e, s, rs, f)
  PROVE  u.fault = t.fault /\ \E c : Sound(u, M \ {p}, c)
<1> DEFINE l == t.link[p][0]
           r == t.link[p][1]
           v == t.link[s][1]
<1>s. /\ u \in Trees /\ u.fault = t.fault
      /\ \A x \in Nodes \cup {Tree}, i \in Sides : x # p =>
              u.link[x][i] = IF x = q /\ i = e THEN s
                             ELSE IF x = s THEN IF i = 0 THEN l ELSE IF rs = p THEN v ELSE r
                             ELSE IF x = rs /\ i = f THEN v
                             ELSE t.link[x][i]
      /\ \A x \in Nodes : x # p =>
              u.par[x] = IF x = s THEN t.par[p]
                         ELSE IF x = v THEN IF rs = p THEN s ELSE rs
                         ELSE IF x = l \/ x = r THEN s ELSE t.par[x]
  BY DEF Spliced
<1>d. l = t.link[p][0] /\ r = t.link[p][1] /\ v = t.link[s][1]
  OBVIOUS
<1> HIDE DEF l, r, v
<1>0. /\ t \in Trees /\ Shape(t.link, t.par, M, b) /\ M \in SUBSET Nodes
      /\ p \in M /\ s \in M /\ s # p /\ t.link[s][0] = Null
      /\ Null \notin M /\ Tree \notin M
  BY NoNodes DEF Sound, Shape, Follows
<1>1. /\ rs # Tree /\ rs \in M /\ rs # s
      /\ t.link[s][1] # p
  BY <1>0, FollowsFacts
<1>2. e \in Sides /\ f \in Sides /\ 0 \in Sides /\ 1 \in Sides /\ \A i \in Sides : i = 0 \/ i = 1
  BY DEF Hangs, Sides
<1>3. /\ \A n \in M, i \in Sides : t.link[n][i] = p => n = q /\ i = e
      /\ t.link[Tree][0] = p => q = Tree
      /\ q # p /\ t.link[q][e] = p
      /\ q = Tree => e = 0
  <2>1. /\ \A n \in M, i \in Sides : t.link[n][i] = p => n = q /\ i = e
        /\ t.link[Tree][0] = p => q = Tree
        /\ q # p
    BY <1>0, HangsOnce
  <2> QED BY <2>1 DEF Hangs
<1>4. q # s
  BY <1>0, <1>1, <1>2, <1>3
<1>5. \A x \in M : t.par[x] = p => x = l \/ x = r
  <2> SUFFICES ASSUME NEW x \in M, t.par[x] = p PROVE x = l \/ x = r
    OBVIOUS
  <2>1. \E d \in Sides : t.link[p][d] = x
    BY <1>0 DEF Shape, Parents
  <2> QED BY <2>1, <1>2, <1>d
<1>6. (l # Null => t.par[l] = p) /\ (r # Null => t.par[r] = p)
  BY <1>0, <1>2, <1>d DEF Shape, Children
<1>7. u.link \in Links /\ u.par \in Words
  BY <1>s, LinkTypes
<1>8. Taken(t.link, t.par, u.link, u.par, M, p, s, rs, f, v)
  <2>1. \A a \in M, i \in Sides : a # p /\ a # s =>
          u.link[a][i] = IF t.link[a][i] = p THEN s ELSE IF a = rs /\ i = f THEN v ELSE t.link[a][i]
    BY <1>0, <1>3, <1>s
  <2>2. u.link[s][0] = t.link[p][0] /\ u.link[s][1] = IF rs = p THEN v ELSE t.link[p][1]
    BY <1>0, <1>2, <1>4, <1>s, <1>d
  <2>3. u.link[Tree][0] = IF t.link[Tree][0] = p THEN s ELSE t.link[Tree][0]
    <3>1. q = Tree => t.link[Tree][0] = p
      BY <1>3
    <3> QED BY <3>1, <1>0, <1>1, <1>2, <1>3, <1>s
  <2>4. u.par[s] = t.par[p]
    BY <1>0, <1>s
  <2>5. \A a \in M : a # p /\ a # s =>
          u.par[a] = IF a = v THEN IF rs = p THEN s ELSE rs
                     ELSE IF t.par[a] = p THEN s ELSE t.par[a]
    BY <1>0, <1>5, <1>6, <1>s
  <2> QED BY <2>1, <2>2, <2>3, <2>4, <2>5, <1>d DEF Taken
<1>9. \E c : Shape(u.link, u.par, M \ {p}, c)
  BY <1>0, <1>7, <1>8, TakenShape
<1> QED BY <1>9, <1>s DEF Sound

\* s, on side 1 of p, takes p's place on side e of q
OnRight(t, u, p, q, e, s) ==
    LET l == t.link[p][0]
    IN  u = [adopt(setLink(setLink(t, s, 0, l), q, e, s), l, s) EXCEPT
               !.par[s] = t.par[p], !.bal[s] = t.bal[p]]

\* the links and parents after that
RightEffect(t, u, p, q, e, s) ==
    LET l == t.link[p][0]
    IN  /\ u \in Trees /\ u.fault = t.fault
        /\ \A x \in Nodes \cup {Tree}, j \in Sides :
              u.link[x][j] = IF x = q /\ j = e THEN s ELSE IF x = s /\ j = 0 THEN l ELSE t.link[x][j]
        /\ \A x \in Nodes : u.par[x] = IF x = s THEN t.par[p] ELSE IF x = l THEN s ELSE t.par[x]

(* AVL_Remove, where the node after p hangs on p itself.                    *)
LEMMA RightTaken ==
  ASSUME NEW t \in Trees, NEW p \in Nodes, NEW r \in Nodes,
         NEW q \in Nodes \cup {Tree}, NEW e \in Sides, q # r,
         NEW u, OnRight(t, u, p, q, e, r)
  PROVE  RightEffect(t, u, p, q, e, r)
<1> DEFINE l == t.link[p][0]
           a == t.par[p]
           i == t.bal[p]
<1>l. l \in Nodes \cup {Null} /\ a \in Nodes \cup {Null} /\ i \in 0..7
  BY DEF Trees
<1>u. u = [adopt(setLink(setLink(t, r, 0, l), q, e, r), l, r) EXCEPT !.par[r] = a, !.bal[r] = i]
  BY DEF OnRight
<1>e. RightEffect(t, u, p, q, e, r) <=>
        /\ u \in Trees /\ u.fault = t.fault
        /\ \A x \in Nodes \cup {Tree}, j \in Sides :
              u.link[x][j] = IF x = q /\ j = e THEN r ELSE IF x = r /\ j = 0 THEN l ELSE t.link[x][j]
        /\ \A x \in Nodes : u.par[x] = IF x = r THEN a ELSE IF x = l THEN r ELSE t.par[x]
  BY DEF RightEffect
<1> HIDE DEF l, a, i
<1> DEFINE zero == 0
           t1 == setLink(t, r, zero, l)
           t2 == setLink(t1, q, e, r)
           t3 == adopt(t2, l, r)
<1>0. u = [t3 EXCEPT !.par[r] = a, !.bal[r] = i]
  BY <1>u
<1>1. zero \in Sides /\ zero = 0
  BY DEF Sides
<1> HIDE DEF zero
<1>2. t1 \in Trees /\ Relinked(t, t1, r, zero, l)
  BY <1>1, <1>l, SetLink
<1> HIDE DEF t1
<1>3. t2 \in Trees /\ Relinked(t1, t2, q, e, r)
  BY <1>2, SetLink
<1> HIDE DEF t2
<1>4. t3 \in Trees /\ Reparented(t2, t3, l, r)
  BY <1>3, <1>l, Adopt
<1> HIDE DEF t3
<1>5. u \in Trees /\ Reparented(t3, u, r, a)
  <2>1. a \in Nodes \cup {Null} /\ i \in 0..7
    BY <1>l
  <2> QED BY <2>1, <1>0, <1>4, Inherited
<1>6. \A x \in Nodes \cup {Tree}, s \in Sides :
        u.link[x][s] = IF x = q /\ s = e THEN r ELSE IF x = r /\ s = zero THEN l ELSE t.link[x][s]
  BY <1>1, <1>2, <1>3, <1>4, <1>5 DEF Relinked, Reparented
<1>7. \A x \in Nodes : u.par[x] = IF x = r THEN a ELSE IF x = l THEN r ELSE t.par[x]
  BY <1>2, <1>3, <1>4, <1>5 DEF Relinked, Reparented
<1>8. u.fault = t.fault
  BY <1>2, <1>3, <1>4, <1>5 DEF Relinked, Reparented
<1> QED BY <1>1, <1>5, <1>6, <1>7, <1>8, <1>e

\* s, on side 0 of rs, takes p's place on side e of q
OnDeep(t, u, p, q, e, s, rs) ==
    LET l == t.link[p][0]
        d1 == setLink(t, rs, 0, t.link[s][1])
        d2 == setLink(setLink(d1, s, 0, l), s, 1, Link(d1, p, 1))
        d3 == adopt(adopt(setLink(d2, q, e, s), l, s), Link(d2, s, 1), s)
    IN  u = [adopt(d3, Link(d3, rs, 0), rs) EXCEPT !.par[s] = t.par[p], !.bal[s] = t.bal[p]]

\* the links and parents after that
DeepEffect(t, u, p, q, e, s, rs) ==
    LET l == t.link[p][0]
        r == t.link[p][1]
        v == t.link[s][1]
    IN  /\ u \in Trees /\ u.fault = t.fault
        /\ \A x \in Nodes \cup {Tree}, j \in Sides :
              u.link[x][j] = IF x = q /\ j = e THEN s
                             ELSE IF x = s THEN IF j = 0 THEN l ELSE r
                             ELSE IF x = rs /\ j = 0 THEN v ELSE t.link[x][j]
        /\ \A x \in Nodes : u.par[x] = IF x = s THEN t.par[p] ELSE IF x = v THEN rs
                                       ELSE IF x = l \/ x = r THEN s ELSE t.par[x]

(* AVL_Remove, where the node after p hangs further down.                   *)
LEMMA DeepTaken ==
  ASSUME NEW t \in Trees, NEW p \in Nodes, NEW s \in Nodes, NEW rs \in Nodes,
         NEW q \in Nodes \cup {Tree}, NEW e \in Sides,
         rs # p, rs # s, s # q, ~(rs = q /\ e = 0),
         NEW u, OnDeep(t, u, p, q, e, s, rs)
  PROVE  DeepEffect(t, u, p, q, e, s, rs)
<1> DEFINE l == t.link[p][0]
           r == t.link[p][1]
           v == t.link[s][1]
           a == t.par[p]
           i == t.bal[p]
           d1 == setLink(t, rs, 0, v)
           d2 == setLink(setLink(d1, s, 0, l), s, 1, Link(d1, p, 1))
           d3 == adopt(adopt(setLink(d2, q, e, s), l, s), Link(d2, s, 1), s)
<1>l. l \in Nodes \cup {Null} /\ r \in Nodes \cup {Null} /\ v \in Nodes \cup {Null}
      /\ a \in Nodes \cup {Null} /\ i \in 0..7 /\ r = t.link[p][1]
  BY DEF Trees
<1>u. u = [adopt(d3, Link(d3, rs, 0), rs) EXCEPT !.par[s] = a, !.bal[s] = i]
  BY DEF OnDeep
<1>e. DeepEffect(t, u, p, q, e, s, rs) <=>
        /\ u \in Trees /\ u.fault = t.fault
        /\ \A x \in Nodes \cup {Tree}, j \in Sides :
              u.link[x][j] = IF x = q /\ j = e THEN s
                             ELSE IF x = s THEN IF j = 0 THEN l ELSE r
                             ELSE IF x = rs /\ j = 0 THEN v ELSE t.link[x][j]
        /\ \A x \in Nodes : u.par[x] = IF x = s THEN a ELSE IF x = v THEN rs
                                       ELSE IF x = l \/ x = r THEN s ELSE t.par[x]
  BY DEF DeepEffect
<1>c1. d1 = setLink(t, rs, 0, v)
  OBVIOUS
<1>c2. d2 = setLink(setLink(d1, s, 0, l), s, 1, Link(d1, p, 1))
  OBVIOUS
<1>c3. d3 = adopt(adopt(setLink(d2, q, e, s), l, s), Link(d2, s, 1), s)
  OBVIOUS
<1> HIDE DEF l, r, v, a, i, d1, d2, d3
<1> DEFINE zero == 0
           one == 1
           e1 == setLink(d1, s, zero, l)
           e2 == setLink(d2, q, e, s)
           e3 == adopt(e2, l, s)
           e4 == adopt(d3, v, rs)
<1>1. /\ zero \in Sides /\ zero = 0 /\ one \in Sides /\ one = 1 /\ zero # one
      /\ \A j \in Sides : j = zero \/ j = one
  BY DEF Sides
<1>2. e1 = setLink(d1, s, 0, l)
  OBVIOUS
<1> HIDE DEF zero, one
<1>3. d1 \in Trees /\ Relinked(t, d1, rs, zero, v)
  BY <1>1, <1>l, <1>c1, SetLink
<1>4. Link(d1, p, one) = r
  <2>1. Link(d1, p, one) = d1.link[p][one]
    BY DEF Link
  <2> QED BY <2>1, <1>1, <1>3, <1>l DEF Relinked
<1>5. e1 \in Trees /\ Relinked(d1, e1, s, zero, l)
  BY <1>1, <1>3, <1>l, SetLink
<1>6. d2 = setLink(e1, s, one, r)
  BY <1>1, <1>2, <1>4, <1>c2
<1> HIDE DEF e1
<1>7. d2 \in Trees /\ Relinked(e1, d2, s, one, r)
  <2>1. Relinked(e1, setLink(e1, s, one, r), s, one, r) /\ setLink(e1, s, one, r) \in Trees
    BY <1>1, <1>5, <1>l, SetLink
  <2> QED BY <2>1, <1>6
<1>8. Link(d2, s, one) = r
  <2>1. Link(d2, s, one) = d2.link[s][one]
    BY DEF Link
  <2> QED BY <2>1, <1>1, <1>7 DEF Relinked
<1>9. e2 \in Trees /\ Relinked(d2, e2, q, e, s)
  BY <1>7, SetLink
<1>10. d3 = adopt(e3, r, s)
  BY <1>1, <1>8, <1>c3
<1> HIDE DEF e2
<1>11. e3 \in Trees /\ Reparented(e2, e3, l, s)
  BY <1>9, <1>l, Adopt
<1> HIDE DEF e3
<1>12. d3 \in Trees /\ Reparented(e3, d3, r, s)
  BY <1>10, <1>11, <1>l, Adopt
<1>13. \A x \in Nodes \cup {Tree}, j \in Sides :
         d3.link[x][j] = IF x = q /\ j = e THEN s
                         ELSE IF x = s THEN IF j = zero THEN l ELSE r
                         ELSE IF x = rs /\ j = zero THEN v ELSE t.link[x][j]
  <2> SUFFICES ASSUME NEW x \in Nodes \cup {Tree}, NEW j \in Sides
               PROVE  d3.link[x][j] = IF x = q /\ j = e THEN s
                         ELSE IF x = s THEN IF j = zero THEN l ELSE r
                         ELSE IF x = rs /\ j = zero THEN v ELSE t.link[x][j]
    OBVIOUS
  <2>1. d3.link[x][j] = e2.link[x][j]
    BY <1>11, <1>12 DEF Reparented
  <2>2. e2.link[x][j] = IF x = q /\ j = e THEN s ELSE d2.link[x][j]
    BY <1>9 DEF Relinked
  <2>3. d2.link[x][j] = IF x = s /\ j = one THEN r ELSE IF x = s /\ j = zero THEN l ELSE d1.link[x][j]
    BY <1>5, <1>7 DEF Relinked
  <2>4. d1.link[x][j] = IF x = rs /\ j = zero THEN v ELSE t.link[x][j]
    BY <1>3 DEF Relinked
  <2> QED BY <2>1, <2>2, <2>3, <2>4, <1>1
<1>14. Link(d3, rs, zero) = v
  <2>1. Link(d3, rs, zero) = d3.link[rs][zero]
    BY DEF Link
  <2>2. ~(rs = q /\ zero = e)
    BY <1>1
  <2> QED BY <2>1, <2>2, <1>1, <1>13
<1>15. e4 \in Trees /\ Reparented(d3, e4, v, rs)
  BY <1>12, <1>l, Adopt
<1>16. u = [e4 EXCEPT !.par[s] = a, !.bal[s] = i]
  BY <1>1, <1>14, <1>u
<1> HIDE DEF e4
<1>17. u \in Trees /\ Reparented(e4, u, s, a)
  <2>1. a \in Nodes \cup {Null} /\ i \in 0..7
    BY <1>l
  <2> QED BY <2>1, <1>15, <1>16, Inherited
<1>18. \A x \in Nodes \cup {Tree}, j \in Sides : u.link[x][j] = d3.link[x][j]
  BY <1>15, <1>17 DEF Reparented
<1>19. \A x \in Nodes : u.par[x] = IF x = s THEN a ELSE IF x = v THEN rs
                                   ELSE IF x = l \/ x = r THEN s ELSE t.par[x]
  <2>1. \A x \in Nodes : u.par[x] = IF x = s THEN a ELSE IF x = v THEN rs ELSE d3.par[x]
    BY <1>15, <1>17 DEF Reparented
  <2>2. \A x \in Nodes : d3.par[x] = IF x = l \/ x = r THEN s ELSE e2.par[x]
    BY <1>11, <1>12 DEF Reparented
  <2>3. e2.par = t.par
    BY <1>3, <1>5, <1>7, <1>9 DEF Relinked
  <2> QED BY <2>1, <2>2, <2>3
<1>20. u.fault = t.fault
  BY <1>3, <1>5, <1>7, <1>9, <1>11, <1>12, <1>15, <1>17 DEF Relinked, Reparented
<1> QED BY <1>1, <1>13, <1>17, <1>18, <1>19, <1>20, <1>e

(* The lowest node above p, down side 0 of what p has on side 1. *)
LEMMA FollowsIs ==
  ASSUME NEW t, NEW M, NEW b, Sound(t, M, b), NEW p \in M,
         NEW r, r = t.link[p][1], r # Null
  PROVE  /\ Follows(t.link, M, b, p, Outermost(t, r, 0))
         /\ r \in M /\ t.par[r] = p
<1> DEFINE zero == 0
           one == 1
           s == Outermost(t, r, zero)
<1>1. /\ one \in Sides /\ one = 1 /\ 1 - one = zero /\ zero \in Sides /\ zero = 0
  BY DEF Sides
<1>2. t \in Trees /\ Shape(t.link, t.par, M, b) /\ Within(M, b) /\ M \in SUBSET Nodes
  BY DEF Sound, Shape
<1> HIDE DEF zero, one
<1>3. IsChild(t.link, t.par, M, b, p, one, r)
  BY <1>1, <1>2, ChildIsChild
<1>4. r \in M /\ b[r][zero] = Key[p] /\ t.par[r] = p
  BY <1>1, <1>3 DEF IsChild
<1>5. s \in M /\ t.link[s][zero] = Null /\ b[s][zero] = b[r][zero]
  BY <1>1, <1>4, OutermostIs
<1> HIDE DEF s
<1>6. s # p
  <2>1. Beyond(zero, b[s][zero], Key[s])
    BY <1>1, <1>2, <1>5 DEF Within
  <2>2. Key[p] \in Int
    BY <1>2, KeyType
  <2>3. s = p => Beyond(zero, Key[p], Key[p])
    BY <2>1, <1>4, <1>5
  <2> QED BY <2>2, <2>3 DEF Beyond
<1>7. Follows(t.link, M, b, p, s)
  BY <1>1, <1>4, <1>5, <1>6 DEF Follows
<1> QED BY <1>1, <1>4, <1>7 DEF s

(* In the first of these cases the tree without p is sound,                 *)
LEMMA UnlinkedRight ==
  ASSUME NEW t, NEW M, NEW b, Sound(t, M, b), NEW p,
         NEW q, NEW e, Hangs(t.link, t.par, M, p, q, e),
         NEW s, Follows(t.link, M, b, p, s), t.link[p][1] = s,
         NEW u, OnRight(t, u, p, q, e, s)
  PROVE  u.fault = t.fault /\ \E c : Sound(u, M \ {p}, c)
<1> DEFINE zero == 0
           one == 1
<1>0. /\ t \in Trees /\ Shape(t.link, t.par, M, b) /\ M \in SUBSET Nodes /\ p \in M /\ p \in Nodes
      /\ s \in M /\ s \in Nodes /\ s # p /\ t.link[s][0] = Null /\ Null \notin Nodes
  BY NoNodes DEF Sound, Shape, Follows, Hangs
<1>1. /\ one \in Sides /\ one = 1 /\ zero \in Sides /\ zero = 0 /\ \A d \in Sides : d = zero \/ d = one
  BY DEF Sides
<1> HIDE DEF zero, one
<1>2. q \in Nodes \cup {Tree} /\ e \in Sides /\ t.link[q][e] = p /\ q # p
  BY <1>0, SideOfHangs, HangsOnce DEF Hangs
<1>4. PICK rs, f : Hangs(t.link, t.par, M, s, rs, f)
  BY <1>0, HangsSomewhere
<1>5. rs # Tree /\ t.par[s] = rs /\ (rs = p <=> f = 1) /\ t.link[s][1] # p
  BY <1>0, <1>4, FollowsFacts
<1>6. IsChild(t.link, t.par, M, b, p, one, s)
  <2>1. t.link[p][one] = s /\ s # Null
    BY <1>0, <1>1
  <2> QED BY <2>1, <1>0, <1>1, ChildIsChild
<1>7. rs = p /\ f = one
  BY <1>1, <1>5, <1>6 DEF IsChild
<1>8. q # s
  <2>1. e = zero \/ e = one
    BY <1>1, <1>2
  <2> QED BY <2>1, <1>0, <1>1, <1>2, <1>5
<1> DEFINE l == t.link[p][0]
           r == t.link[p][1]
           v == t.link[s][1]
<1>9. v # Null => t.par[v] = s
  <2>1. v = t.link[s][one]
    BY <1>1
  <2> HIDE DEF v
  <2>2. v # Null => IsChild(t.link, t.par, M, b, s, one, v)
    BY <2>1, <1>0, <1>1, ChildIsChild
  <2> QED BY <2>2 DEF IsChild
<1>10. RightEffect(t, u, p, q, e, s)
  BY <1>0, <1>2, <1>8, RightTaken
<1>11. /\ u \in Trees /\ u.fault = t.fault
       /\ \A x \in Nodes \cup {Tree}, j \in Sides :
              u.link[x][j] = IF x = q /\ j = e THEN s ELSE IF x = s /\ j = 0 THEN l ELSE t.link[x][j]
       /\ \A x \in Nodes : u.par[x] = IF x = s THEN t.par[p] ELSE IF x = l THEN s ELSE t.par[x]
  BY <1>10 DEF RightEffect
<1>12. r = s /\ v = t.link[s][one] /\ 0 = zero
  BY <1>1
<1>e. Spliced(t, u, p, q, e, s, rs, f) <=>
        /\ u \in Trees /\ u.fault = t.fault
        /\ \A x \in Nodes \cup {Tree}, i \in Sides : x # p =>
              u.link[x][i] = IF x = q /\ i = e THEN s
                             ELSE IF x = s THEN IF i = 0 THEN l ELSE IF rs = p THEN v ELSE r
                             ELSE IF x = rs /\ i = f THEN v
                             ELSE t.link[x][i]
        /\ \A x \in Nodes : x # p =>
              u.par[x] = IF x = s THEN t.par[p]
                         ELSE IF x = v THEN IF rs = p THEN s ELSE rs
                         ELSE IF x = l \/ x = r THEN s ELSE t.par[x]
  BY DEF Spliced
<1> HIDE DEF l, r, v
<1>13. \A x \in Nodes \cup {Tree}, i \in Sides : x # p =>
              u.link[x][i] = IF x = q /\ i = e THEN s
                             ELSE IF x = s THEN IF i = 0 THEN l ELSE IF rs = p THEN v ELSE r
                             ELSE IF x = rs /\ i = f THEN v
                             ELSE t.link[x][i]
  <2> SUFFICES ASSUME NEW x \in Nodes \cup {Tree}, NEW i \in Sides, x # p
               PROVE  u.link[x][i] = IF x = q /\ i = e THEN s
                             ELSE IF x = s THEN IF i = 0 THEN l ELSE IF rs = p THEN v ELSE r
                             ELSE IF x = rs /\ i = f THEN v
                             ELSE t.link[x][i]
    OBVIOUS
  <2>1. u.link[x][i] = IF x = q /\ i = e THEN s ELSE IF x = s /\ i = 0 THEN l ELSE t.link[x][i]
    BY <1>11
  <2>2. i = zero \/ i = one
    BY <1>1
  <2> QED BY <2>1, <2>2, <1>7, <1>12
<1>14. \A x \in Nodes : x # p =>
              u.par[x] = IF x = s THEN t.par[p]
                         ELSE IF x = v THEN IF rs = p THEN s ELSE rs
                         ELSE IF x = l \/ x = r THEN s ELSE t.par[x]
  <2> SUFFICES ASSUME NEW x \in Nodes, x # p
               PROVE  u.par[x] = IF x = s THEN t.par[p]
                         ELSE IF x = v THEN IF rs = p THEN s ELSE rs
                         ELSE IF x = l \/ x = r THEN s ELSE t.par[x]
    OBVIOUS
  <2>1. u.par[x] = IF x = s THEN t.par[p] ELSE IF x = l THEN s ELSE t.par[x]
    BY <1>11
  <2> QED BY <2>1, <1>0, <1>7, <1>9, <1>12
<1>15. Spliced(t, u, p, q, e, s, rs, f)
  BY <1>e, <1>11, <1>13, <1>14
<1> QED BY <1>4, <1>15, UnlinkedTaken

\* s, which hangs on rs and not on p itself, has taken p's place in u
Deeper(t, u, M, b, p, q, e, s, rs) ==
    /\ Sound(t, M, b) /\ Hangs(t.link, t.par, M, p, q, e) /\ Follows(t.link, M, b, p, s)
    /\ t.link[p][1] # s /\ rs = t.par[s] /\ OnDeep(t, u, p, q, e, s, rs)

(* in the second it is,                                                     *)
LEMMA UnlinkedDeep ==
  ASSUME NEW t, NEW u, NEW M, NEW b, NEW p, NEW q, NEW e, NEW s, NEW rs,
         Deeper(t, u, M, b, p, q, e, s, rs)
  PROVE  u.fault = t.fault /\ rs \in M /\ rs # p /\ \E c : Sound(u, M \ {p}, c)
<1>a. /\ Sound(t, M, b) /\ Hangs(t.link, t.par, M, p, q, e) /\ Follows(t.link, M, b, p, s)
      /\ t.link[p][1] # s /\ rs = t.par[s] /\ OnDeep(t, u, p, q, e, s, rs)
  BY DEF Deeper
<1> DEFINE zero == 0
           one == 1
<1>0. /\ t \in Trees /\ Shape(t.link, t.par, M, b) /\ M \in SUBSET Nodes /\ p \in M /\ p \in Nodes
      /\ s \in M /\ s \in Nodes /\ s # p /\ t.link[s][0] = Null /\ Null \notin Nodes /\ Tree \notin Nodes
  BY <1>a, NoNodes DEF Sound, Shape, Follows, Hangs
<1>1. /\ one \in Sides /\ one = 1 /\ zero \in Sides /\ zero = 0 /\ \A d \in Sides : d = zero \/ d = one
  BY DEF Sides
<1> HIDE DEF zero, one
<1>2. q \in Nodes \cup {Tree} /\ e \in Sides /\ t.link[q][e] = p /\ q # p
  BY <1>a, <1>0, SideOfHangs, HangsOnce DEF Hangs
<1>4. PICK f : Hangs(t.link, t.par, M, s, rs, f)
  <2>1. PICK rq, f : Hangs(t.link, t.par, M, s, rq, f)
    BY <1>a, <1>0, HangsSomewhere
  <2>2. t.par[s] = rq
    BY <1>a, <1>0, <2>1, FollowsFacts
  <2> QED BY <1>a, <2>1, <2>2
<1>5. rs # Tree /\ rs \in M /\ rs # s /\ (rs = p <=> f = 1) /\ t.link[s][1] # p
  BY <1>a, <1>0, <1>4, FollowsFacts
<1>6. f \in Sides /\ t.link[rs][f] = s
  BY <1>a, <1>4 DEF Hangs
<1>7. rs # p /\ f = zero
  <2>1. rs # p
    BY <1>a, <1>1, <1>5, <1>6
  <2> QED BY <2>1, <1>1, <1>5, <1>6
<1>8. q # s
  <2>1. e = zero \/ e = one
    BY <1>a, <1>1, <1>2
  <2> QED BY <1>a, <2>1, <1>0, <1>1, <1>2, <1>5
<1>9. ~(rs = q /\ e = 0)
  BY <1>a, <1>0, <1>1, <1>2, <1>6, <1>7
<1>10. rs \in Nodes
  BY <1>a, <1>0, <1>5
<1>11. DeepEffect(t, u, p, q, e, s, rs)
  BY <1>a, <1>0, <1>2, <1>5, <1>7, <1>8, <1>9, <1>10, DeepTaken
<1>12. Spliced(t, u, p, q, e, s, rs, f)
  BY <1>1, <1>7, <1>11 DEF DeepEffect, Spliced
<1>13. u.fault = t.fault /\ \E c : Sound(u, M \ {p}, c)
  BY <1>a, <1>4, <1>12, UnlinkedTaken
<1> QED BY <1>a, <1>5, <1>7, <1>13

(* and whichever way AVL_Remove has taken p out.                            *)
LEMMA UnlinkedIs ==
  ASSUME NEW t, NEW M, NEW b, Sound(t, M, b), NEW p \in M
  PROVE  Shrunk(t, Unlinked(t, p), M, p)
<1> DEFINE pq  == Parent(t, p)
           q   == IF pq = Null THEN Tree ELSE pq
           e   == IF pq = Null THEN 0 ELSE SideOf(t, q, p)
           l   == Link(t, p, 0)
           r   == Link(t, p, 1)
           s   == Outermost(t, r, 0)
           rs  == Parent(t, s)
           u1  == adopt(setLink(t, q, e, l), l, pq)
           u2  == [adopt(setLink(setLink(t, r, 0, l), q, e, r), l, r) EXCEPT
                     !.par[r] = t.par[p], !.bal[r] = t.bal[p]]
           d1  == setLink(t, rs, 0, Link(t, s, 1))
           d2  == setLink(setLink(d1, s, 0, l), s, 1, Link(d1, p, 1))
           d3  == adopt(adopt(setLink(d2, q, e, s), l, s), Link(d2, s, 1), s)
           u3  == [adopt(d3, Link(d3, rs, 0), rs) EXCEPT !.par[s] = t.par[p], !.bal[s] = t.bal[p]]
           u   == Unlinked(t, p)
<1>1. u = CASE r = Null -> [t |-> u1, q |-> q, dir |-> e]
            [] r # Null /\ s = r -> [t |-> u2, q |-> r, dir |-> 1]
            [] OTHER -> [t |-> u3, q |-> rs, dir |-> 0]
  BY DEF Unlinked
<1>2. /\ t \in Trees /\ Shape(t.link, t.par, M, b) /\ M \in SUBSET Nodes /\ p \in Nodes /\ 0 \in Sides /\ 1 \in Sides
  BY DEF Sound, Shape, Sides
<1>3. Hangs(t.link, t.par, M, p, q, e)
  <2>1. q = IF t.par[p] = Null THEN Tree ELSE t.par[p]
    BY <1>2, LinkTypes
  <2>2. e = IF t.par[p] = Null \/ t.link[t.par[p]][0] = p THEN 0 ELSE 1
    BY <2>1, <1>2 DEF SideOf, Link, Parent
  <2>3. Hangs(t.link, t.par, M, p, IF t.par[p] = Null THEN Tree ELSE t.par[p],
              IF t.par[p] = Null \/ t.link[t.par[p]][0] = p THEN 0 ELSE 1)
    BY <1>2, HangsSomewhere
  <2> HIDE DEF q, e
  <2> QED BY <2>1, <2>2, <2>3
<1>4. /\ pq = t.par[p] /\ l = t.link[p][0] /\ r = t.link[p][1] /\ rs = t.par[s]
      /\ Link(t, s, 1) = t.link[s][1]
  BY DEF Parent, Link
<1>a. OnLeft(t, u1, p, q, e)
  <2>1. u1 = adopt(setLink(t, q, e, l), l, pq)
    OBVIOUS
  <2> HIDE DEF q, e, l, pq, u1
  <2> QED BY <2>1, <1>4 DEF OnLeft
<1>b. OnRight(t, u2, p, q, e, r)
  <2>1. u2 = [adopt(setLink(setLink(t, r, 0, l), q, e, r), l, r) EXCEPT
                     !.par[r] = t.par[p], !.bal[r] = t.bal[p]]
    OBVIOUS
  <2> HIDE DEF q, e, r, l, u2
  <2> QED BY <2>1, <1>4 DEF OnRight
<1>c. OnDeep(t, u3, p, q, e, s, rs)
  <2>1. u3 = [adopt(d3, Link(d3, rs, 0), rs) EXCEPT !.par[s] = t.par[p], !.bal[s] = t.bal[p]]
    OBVIOUS
  <2> HIDE DEF q, e, r, l, s, rs, u3
  <2> QED BY <2>1, <1>4 DEF OnDeep
<1> HIDE DEF q, e
<1>5. q \in (M \ {p}) \cup {Tree} /\ e \in Sides
  <2>1. q # p
    BY <1>2, <1>3, HangsOnce
  <2> QED BY <2>1, <1>3 DEF Hangs
<1> HIDE DEF u, u1, u2, u3, s, r, l, pq, rs, d1, d2, d3
<1>6. CASE r = Null
  <2>1. u1.fault = t.fault /\ \E c : Sound(u1, M \ {p}, c)
    <3>1. t.link[p][1] = Null
      BY <1>4, <1>6
    <3> QED BY <3>1, <1>a, <1>3, UnlinkedAlone
  <2>2. u.t = u1 /\ u.q = q /\ u.dir = e
    BY <1>1, <1>6
  <2>3. Shrunk(t, u, M, p)
    BY <2>1, <2>2, <1>5 DEF Shrunk
  <2> QED BY <2>3 DEF u
<1>s. SUFFICES ASSUME r # Null PROVE Shrunk(t, u, M, p)
  BY <1>6 DEF u
<1>7. Follows(t.link, M, b, p, s) /\ r \in M /\ t.par[r] = p
  <2>1. r = t.link[p][1] /\ r # Null
    BY <1>4, <1>s
  <2>2. Follows(t.link, M, b, p, Outermost(t, r, 0)) /\ r \in M /\ t.par[r] = p
    BY <2>1, FollowsIs
  <2> QED BY <2>2 DEF s
<1>8. CASE s = r
  <2>1. u2.fault = t.fault /\ \E c : Sound(u2, M \ {p}, c)
    <3>1. Follows(t.link, M, b, p, r)
      BY <1>7, <1>8
    <3> QED BY <3>1, <1>b, <1>3, <1>4, UnlinkedRight
  <2>2. u.t = u2 /\ u.q = r /\ u.dir = 1
    BY <1>1, <1>8, <1>s
  <2>3. r # p
    BY <1>7, <1>8 DEF Follows
  <2> QED BY <2>1, <2>2, <2>3, <1>2, <1>7 DEF Shrunk
<1>9. CASE s # r
  <2>1. u3.fault = t.fault /\ rs \in M /\ rs # p /\ \E c : Sound(u3, M \ {p}, c)
    <3>1. Deeper(t, u3, M, b, p, q, e, s, rs)
      BY <1>c, <1>3, <1>4, <1>7, <1>9 DEF Deeper
    <3> QED BY <3>1, UnlinkedDeep
  <2>2. u.t = u3 /\ u.q = rs /\ u.dir = 0
    BY <1>1, <1>9, <1>s
  <2> QED BY <2>1, <2>2, <1>2 DEF Shrunk
<1> QED BY <1>8, <1>9

-----------------------------------------------------------------------------
(* AVL_Remove: the way up.                                                  *)

\* r.w is to be linked where y hung
Swung(r, M, q, e) ==
    /\ r.t \in Trees /\ r.w \in Nodes
    /\ r.t.fault \/ \E c : Sound(setLink(r.t, q, e, r.w), M, c)

(* A single rotation in AVL_Remove.                                         *)
LEMMA SingleSwung ==
  ASSUME NEW t, NEW M, NEW b, Sound(t, M, b),
         NEW y, NEW q, NEW e, Hangs(t.link, t.par, M, y, q, e),
         NEW d \in Sides, NEW i \in Int, NEW j \in Int, Link(t, y, d) # Null
  PROVE  Swung(SingleRotation(t, y, d, i, j), M, q, e)
<1> DEFINE r == SingleRotation(t, y, d, i, j)
<1>1. t \in Trees /\ Shape(t.link, t.par, M, b) /\ M \subseteq Nodes
  BY DEF Sound, Shape
<1>2. r = SingleRotation(t, y, d, i, j)
  OBVIOUS
<1> HIDE DEF r
<1>3. Turned(t, r, setLink(r.t, q, e, r.w), M, y, q)
  BY <1>1, <1>2, SingleKeeps
<1>4. Swung(r, M, q, e)
  BY <1>1, <1>3 DEF Turned, Swung
<1> QED BY <1>4 DEF r

(* A double rotation in AVL_Remove.                                         *)
LEMMA DoubleSwung ==
  ASSUME NEW t, NEW M, NEW b, Sound(t, M, b),
         NEW y, NEW q, NEW e, Hangs(t.link, t.par, M, y, q, e),
         NEW d \in Sides, Link(t, y, d) # Null
  PROVE  Swung(DoubleRotation(t, y, d), M, q, e)
<1> DEFINE r == DoubleRotation(t, y, d)
           w == Link(t, Link(t, y, d), 1 - d)
<1>1. t \in Trees /\ Shape(t.link, t.par, M, b) /\ M \subseteq Nodes /\ y \in Nodes
  BY SideOfHangs DEF Sound, Shape
<1>2. r = DoubleRotation(t, y, d)
  OBVIOUS
<1>3. CASE w = Null
  <2>1. r.t \in Trees /\ r.t.fault = TRUE /\ r.w = y
    BY <1>1, <1>3, DoubleTypes
  <2> HIDE DEF r
  <2>2. Swung(r, M, q, e)
    BY <2>1, <1>1 DEF Swung
  <2> QED BY <2>2, <1>2
<1>4. CASE w # Null
  <2>1. Link(t, Link(t, y, d), 1 - d) # Null
    BY <1>4
  <2> HIDE DEF r, w
  <2>2. Turned(t, r, setLink(r.t, q, e, r.w), M, y, q)
    BY <2>1, <1>1, <1>2, DoubleKeeps
  <2>3. Swung(r, M, q, e)
    BY <1>1, <2>2 DEF Turned, Swung
  <2> QED BY <2>3, <1>2
<1> QED BY <1>3, <1>4

(* A rotation on the way up, whichever the factors call for, keeps the tree *)
(* sound; one that uses a null pointer ends the way.                        *)
LEMMA RelievedIs ==
  ASSUME NEW t, NEW M, NEW b, Sound(t, M, b),
         NEW y, NEW q, NEW e, Hangs(t.link, t.par, M, y, q, e), NEW d \in Sides
  PROVE  /\ Fine(Relieved(t, y, d, q, e).t, M)
         /\ Relieved(t, y, d, q, e).t.fault => Relieved(t, y, d, q, e).done
<1> DEFINE x == Link(t, y, d)
           s == Sign(d)
           r1 == DoubleRotation(t, y, d)
           r2 == SingleRotation(t, y, d, -s, s)
           r3 == SingleRotation(t, y, d, 0, 0)
           r == CASE t.bal[x] = -s -> r1 [] t.bal[x] = 0 -> r2 [] OTHER -> r3
           v == setLink(r.t, q, e, r.w)
           u == Relieved(t, y, d, q, e)
<1>1. u = IF x = Null THEN [t |-> Fault(t), done |-> TRUE]
          ELSE [t |-> IF r.t.fault THEN r.t ELSE v, done |-> r.t.fault \/ t.bal[x] = 0]
  BY DEF Relieved
<1>2. t \in Trees /\ y \in Nodes /\ q \in Nodes \cup {Tree} /\ e \in Sides
  BY SideOfHangs DEF Sound
<1>3. CASE x = Null
  <2>1. u.t = Fault(t) /\ u.done = TRUE
    BY <1>1, <1>3
  <2>2. Fine(Fault(t), M)
    BY <1>2, Faulty DEF Fine
  <2> HIDE DEF u
  <2>3. Fine(u.t, M) /\ (u.t.fault => u.done)
    BY <2>1, <2>2
  <2> QED BY <2>3 DEF u
<1>4. CASE x # Null
  <2> HIDE DEF u
  <2>1. s \in Int /\ -s \in Int /\ 0 \in Int
    BY Sides2
  <2>2. x # Null
    BY <1>4
  <2>3. Swung(r1, M, q, e)
    BY <2>2, DoubleSwung
  <2>4. Swung(r2, M, q, e)
    <3> DEFINE ms == -s
    <3>1. ms \in Int /\ r2 = SingleRotation(t, y, d, ms, s)
      BY <2>1
    <3> HIDE DEF s, ms, r2
    <3> QED BY <3>1, <2>1, <2>2, SingleSwung
  <2>5. Swung(r3, M, q, e)
    <3> DEFINE zero == 0
    <3>1. zero \in Int /\ r3 = SingleRotation(t, y, d, zero, zero)
      OBVIOUS
    <3> HIDE DEF zero, r3
    <3> QED BY <3>1, <2>2, SingleSwung
  <2> HIDE DEF r1, r2, r3, s
  <2>6. Swung(r, M, q, e)
    BY <2>3, <2>4, <2>5
  <2> HIDE DEF r
  <2>7. r.t \in Trees /\ r.w \in Nodes /\ (r.t.fault \/ \E c : Sound(v, M, c))
    BY <2>6 DEF Swung
  <2>8. v \in Trees /\ v.fault = r.t.fault
    <3>1. r.w \in Nodes \cup {Null}
      BY <2>7
    <3>2. v \in Trees /\ Relinked(r.t, v, q, e, r.w)
      BY <2>7, <3>1, <1>2, SetLink
    <3> QED BY <3>2 DEF Relinked
  <2> HIDE DEF v
  <2>9. u.t = (IF r.t.fault THEN r.t ELSE v) /\ u.done = (r.t.fault \/ t.bal[x] = 0)
    BY <1>1, <1>4
  <2>10. CASE r.t.fault
    <3>1. u.t = r.t /\ u.done
      BY <2>9, <2>10
    <3> QED BY <3>1, <2>7, <2>10 DEF u, Fine
  <2>11. CASE ~r.t.fault
    <3>1. u.t = v
      BY <2>9, <2>11
    <3>2. Fine(v, M)
      <4>1. PICK c : Sound(v, M, c)
        BY <2>7, <2>11
      <4> QED BY <4>1, <2>8 DEF Fine
    <3>3. ~u.t.fault
      BY <3>1, <2>8, <2>11
    <3> QED BY <3>1, <3>2, <3>3 DEF u
  <2> QED BY <2>10, <2>11
<1> QED BY <1>3, <1>4

\* where Lowered is
Risings == [t : Trees, y : Nodes \cup {Tree}, dir : {0, 1}, done : BOOLEAN]

(* Relieved is well typed, whatever the links.                              *)
LEMMA RelievedTypes ==
  ASSUME NEW t \in Trees, NEW y \in Nodes, NEW d \in Sides, NEW q \in Nodes \cup {Tree}, NEW e \in Sides
  PROVE  Relieved(t, y, d, q, e).t \in Trees /\ Relieved(t, y, d, q, e).done \in BOOLEAN
<1> DEFINE x == Link(t, y, d)
           s == Sign(d)
           r1 == DoubleRotation(t, y, d)
           r2 == SingleRotation(t, y, d, -s, s)
           r3 == SingleRotation(t, y, d, 0, 0)
           r == CASE t.bal[x] = -s -> r1 [] t.bal[x] = 0 -> r2 [] OTHER -> r3
           v == setLink(r.t, q, e, r.w)
           u == Relieved(t, y, d, q, e)
<1>1. u = IF x = Null THEN [t |-> Fault(t), done |-> TRUE]
          ELSE [t |-> IF r.t.fault THEN r.t ELSE v, done |-> r.t.fault \/ t.bal[x] = 0]
  BY DEF Relieved
<1>2. CASE x = Null
  <2>1. u.t = Fault(t) /\ u.done = TRUE
    BY <1>1, <1>2
  <2> HIDE DEF u
  <2>2. u.t \in Trees /\ u.done \in BOOLEAN
    BY <2>1, Faulty
  <2> QED BY <2>2 DEF u
<1>3. CASE x # Null
  <2> HIDE DEF u
  <2>0. x \in Nodes /\ s \in Int /\ -s \in Int /\ 0 \in Int /\ 1 - d \in Sides
    BY <1>3, LinkTypes, Sides2
  <2>1. r1.t \in Trees /\ r1.w \in Nodes
    <3> DEFINE w == Link(t, x, 1 - d)
    <3>1. r1.t \in Trees /\ (w = Null => r1.w = y) /\ (w # Null => r1.w = w)
      BY <1>3, DoubleTypes
    <3>2. w \in Nodes \cup {Null}
      BY <2>0, LinkTypes
    <3> HIDE DEF r1, w
    <3> QED BY <3>1, <3>2
  <2>2. r2.t \in Trees /\ r2.w \in Nodes
    <3> DEFINE ms == -s
    <3>1. ms \in Int /\ r2 = SingleRotation(t, y, d, ms, s)
      BY <2>0
    <3> HIDE DEF s, ms, r2
    <3> QED BY <3>1, <2>0, <1>3, SingleTypes
  <2>3. r3.t \in Trees /\ r3.w \in Nodes
    <3> DEFINE zero == 0
    <3>1. zero \in Int /\ r3 = SingleRotation(t, y, d, zero, zero)
      OBVIOUS
    <3> HIDE DEF zero, r3
    <3> QED BY <3>1, <2>0, <1>3, SingleTypes
  <2> HIDE DEF r1, r2, r3, s
  <2>4. r.t \in Trees /\ r.w \in Nodes
    BY <2>1, <2>2, <2>3
  <2> HIDE DEF r
  <2>5. v \in Trees /\ r.t.fault \in BOOLEAN
    BY <2>4, SetLink, LinkTypes
  <2> HIDE DEF v
  <2>6. u.t = (IF r.t.fault THEN r.t ELSE v) /\ u.done = (r.t.fault \/ t.bal[x] = 0)
    BY <1>1, <1>3
  <2>7. u.t \in Trees /\ u.done \in BOOLEAN
    BY <2>4, <2>5, <2>6
  <2> QED BY <2>7 DEF u
<1> QED BY <1>2, <1>3

(* So is a round of the way up.                                             *)
LEMMA LowerTypes ==
  ASSUME NEW t \in Trees, NEW y \in Nodes, NEW dir \in Sides
  PROVE  Lower(t, y, dir) \in Risings
<1> DEFINE q   == IF Parent(t, y) = Null THEN Tree ELSE Parent(t, y)
           up  == SideOf(t, q, y)
           d   == 1 - dir
           t1  == addBalance(t, y, Sign(d))
           r   == Relieved(t1, y, d, q, up)
           u   == Lower(t, y, dir)
<1>1. u = CASE t1.bal[y] = Sign(d)     -> [t |-> t1, y |-> y, dir |-> dir, done |-> TRUE]
            [] t1.bal[y] = 2 * Sign(d) -> [t |-> r.t, y |-> q, dir |-> up, done |-> r.done]
            [] OTHER                   -> [t |-> t1, y |-> q, dir |-> up, done |-> FALSE]
  BY DEF Lower
<1>2. q \in Nodes \cup {Tree}
  BY LinkTypes
<1>3. up \in Sides /\ d \in Sides /\ dir \in Sides /\ Sign(d) \in Int
  BY DEF SideOf, Sides, Sign
<1>4. t1 \in Trees
  BY <1>3, AddBalance
<1> HIDE DEF q, up, d, t1
<1>5. r.t \in Trees /\ r.done \in BOOLEAN
  BY <1>2, <1>3, <1>4, RelievedTypes
<1> HIDE DEF r, u
<1>6. u \in Risings
  BY <1>1, <1>2, <1>3, <1>4, <1>5 DEF Risings, Sides
<1> QED BY <1>6 DEF u

(* A round of the way up keeps the tree sound.                              *)
LEMMA LowerIs ==
  ASSUME NEW t, NEW M, NEW b, Sound(t, M, b), ~t.fault, NEW y \in M, NEW dir \in Sides
  PROVE  LET u == Lower(t, y, dir)
         IN  Fine(u.t, M) /\ (u.t.fault => u.done) /\ u.y \in M \cup {Tree}
<1> DEFINE q   == IF Parent(t, y) = Null THEN Tree ELSE Parent(t, y)
           up  == SideOf(t, q, y)
           d   == 1 - dir
           t1  == addBalance(t, y, Sign(d))
           r   == Relieved(t1, y, d, q, up)
           u   == Lower(t, y, dir)
<1>1. u = CASE t1.bal[y] = Sign(d)     -> [t |-> t1, y |-> y, dir |-> dir, done |-> TRUE]
            [] t1.bal[y] = 2 * Sign(d) -> [t |-> r.t, y |-> q, dir |-> up, done |-> r.done]
            [] OTHER                   -> [t |-> t1, y |-> q, dir |-> up, done |-> FALSE]
  BY DEF Lower
<1>2. t \in Trees /\ Shape(t.link, t.par, M, b) /\ y \in Nodes
  BY DEF Sound, Shape
<1>3. d \in Sides /\ Sign(d) \in Int
  BY DEF Sides, Sign
<1>4. Hangs(t.link, t.par, M, y, q, up)
  <2>1. q = IF t.par[y] = Null THEN Tree ELSE t.par[y]
    BY <1>2, LinkTypes
  <2>2. PICK qq, ee : Hangs(t.link, t.par, M, y, qq, ee)
    BY <1>2, HangsSomewhere
  <2>3. qq = q
    BY <2>1, <2>2, NoNodes, <1>2 DEF Hangs, Shape
  <2>4. ee = up
    BY <2>2, <2>3, <1>2, SideOfHangs
  <2> QED BY <2>2, <2>3, <2>4
<1>5. q \in M \cup {Tree}
  BY <1>4 DEF Hangs
<1>6. t1 \in Trees /\ t1.link = t.link /\ t1.par = t.par /\ t1.fault = t.fault
  BY <1>2, <1>3, AddBalance
<1> HIDE DEF q, up, d, t1
<1>7. Sound(t1, M, b) /\ Hangs(t1.link, t1.par, M, y, q, up)
  BY <1>2, <1>4, <1>6 DEF Sound
<1>8. Fine(r.t, M) /\ (r.t.fault => r.done)
  BY <1>3, <1>7, RelievedIs
<1>9. Fine(t1, M) /\ ~t1.fault
  BY <1>6, <1>7 DEF Fine
<1> HIDE DEF r, u
<1>10. Fine(u.t, M) /\ (u.t.fault => u.done) /\ u.y \in M \cup {Tree}
  BY <1>1, <1>5, <1>8, <1>9
<1> QED BY <1>10 DEF u

(* Whatever the rotations do, the tree holds together on the way up. *)
LEMMA LoweredIs ==
  ASSUME NEW t, NEW M, NEW b, Sound(t, M, b), ~t.fault,
         NEW q \in M \cup {Tree}, NEW dir \in Sides
  PROVE  Fine(Lowered(t, q, dir), M)
<1> DEFINE x == [t |-> t, y |-> q, dir |-> dir, done |-> FALSE]
           R == Rise
           I == {at \in Risings : /\ Fine(at.t, M) /\ (at.t.fault => at.done)
                                  /\ at.y \in M \cup {Tree}}
           k == Deepest
           u == Loop(R, x, k)
<1>1. t \in Trees /\ M \subseteq Nodes /\ Fine(t, M)
  BY DEF Sound, Shape, Fine
<1>2. R \in [Risings -> Risings]
  <2>1. R = [at \in Risings |-> IF at.done \/ at.y = Tree THEN at ELSE Lower(at.t, at.y, at.dir)]
    BY DEF Rise, Risings
  <2> HIDE DEF R
  <2>2. ASSUME NEW at \in Risings, ~at.done, at.y # Tree PROVE Lower(at.t, at.y, at.dir) \in Risings
    <3>1. at.t \in Trees /\ at.y \in Nodes /\ at.dir \in Sides
      BY <2>2 DEF Risings, Sides
    <3> QED BY <3>1, LowerTypes
  <2> QED BY <2>1, <2>2
<1>3. \A at \in Risings : R[at] = IF at.done \/ at.y = Tree THEN at ELSE Lower(at.t, at.y, at.dir)
  BY DEF Rise, Risings
<1>4. I \in SUBSET Risings /\ x \in I
  <2>1. x \in Risings
    BY <1>1 DEF Risings, Sides
  <2>2. x.t = t /\ x.y = q
    OBVIOUS
  <2> HIDE DEF x
  <2> QED BY <2>1, <2>2, <1>1
<1>5. \A at \in I : R[at] \in I
  <2> SUFFICES ASSUME NEW at \in I PROVE R[at] \in I
    OBVIOUS
  <2>1. at \in Risings /\ Fine(at.t, M) /\ (at.t.fault => at.done) /\ at.y \in M \cup {Tree}
    OBVIOUS
  <2>2. CASE at.done \/ at.y = Tree
    BY <2>1, <2>2, <1>3
  <2>3. CASE ~(at.done \/ at.y = Tree)
    <3> DEFINE v == Lower(at.t, at.y, at.dir)
    <3>1. R[at] = v
      BY <2>1, <2>3, <1>3
    <3>2. at.y \in M /\ at.dir \in Sides /\ ~at.t.fault
      BY <2>1, <2>3 DEF Risings, Sides
    <3>3. PICK c : Sound(at.t, M, c)
      BY <2>1, <3>2 DEF Fine
    <3>4. Fine(v.t, M) /\ (v.t.fault => v.done) /\ v.y \in M \cup {Tree}
      BY <3>2, <3>3, LowerIs
    <3>5. v \in Risings
      BY <2>1, <3>1, <1>2
    <3> QED BY <3>1, <3>4, <3>5
  <2> QED BY <2>2, <2>3
<1> HIDE DEF R, x
<1>6. u \in I
  <2> HIDE DEF I, k
  <2>1. k \in Nat
    BY DeepestType DEF k
  <2> QED BY <2>1, <1>2, <1>4, <1>5, LoopKeeps
<1>7. Lowered(t, q, dir) = u.t
  BY DEF Lowered, R, x
<1> HIDE DEF u
<1> QED BY <1>6, <1>7

(* AVL_Remove. *)
LEMMA RemovedIs ==
  ASSUME NEW t, NEW M, NEW b, Sound(t, M, b), ~t.fault, NEW p \in M, NEW u, u = Unlinked(t, p)
  PROVE  Fine(Forget(Lowered(u.t, u.q, u.dir), p), M \ {p})
<1> DEFINE N == M \ {p}
           v == Lowered(u.t, u.q, u.dir)
           w == Forget(v, p)
<1>1. Shrunk(t, u, M, p)
  BY UnlinkedIs
<1>2. u.t.fault = t.fault /\ u.q \in N \cup {Tree} /\ u.dir \in Sides /\ \E c : Sound(u.t, N, c)
  BY <1>1 DEF Shrunk
<1>3. p \in Nodes /\ N \subseteq Nodes /\ p \notin N
  BY DEF Sound, Shape
<1> HIDE DEF N
<1>4. Fine(v, N)
  BY <1>2, LoweredIs
<1> HIDE DEF v
<1>5. v \in Trees /\ (v.fault \/ \E c : Sound(v, N, c))
  BY <1>4 DEF Fine
<1>6. /\ w \in Trees /\ w.fault = v.fault /\ w.link[Tree] = v.link[Tree]
      /\ \A a \in Nodes : a # p => w.link[a] = v.link[a] /\ w.par[a] = v.par[a]
  BY <1>3, <1>5, Forgotten
<1> HIDE DEF w
<1>7. CASE v.fault
  BY <1>6, <1>7 DEF Fine, w, v, N
<1>8. CASE ~v.fault
  <2>1. PICK c : Sound(v, N, c)
    BY <1>5, <1>8
  <2>2. w.link \in Links /\ w.par \in Words /\ Shape(v.link, v.par, N, c)
    BY <1>6, <2>1, LinkTypes DEF Sound
  <2>3. w.link[Tree][0] = v.link[Tree][0]
    BY <1>6
  <2>4. \A a \in N : w.link[a][0] = v.link[a][0] /\ w.link[a][1] = v.link[a][1] /\ w.par[a] = v.par[a]
    BY <1>3, <1>6
  <2>5. Shape(w.link, w.par, N, c)
    BY <2>2, <2>3, <2>4, ShapeDepends
  <2>6. Fine(w, N)
    BY <2>5, <1>6 DEF Fine, Sound
  <2> QED BY <2>6 DEF w, v, N
<1> QED BY <1>7, <1>8

-----------------------------------------------------------------------------
(* The invariant.                                                           *)

\* the inductive invariant
Woven == members \subseteq Nodes /\ Fine(m, members)

(* AVL_InitTree.                                                            *)
LEMMA EmptyShape == Fine(Empty, {})
<1> DEFINE b == [n \in Nodes |-> Limit]
           M == {}
<1>1. Empty \in Trees
  BY DEF Empty, Trees
<1>2. Empty.link \in Links /\ Empty.par \in Words
  BY <1>1, LinkTypes
<1>3. b \in Bounds /\ M \in SUBSET Nodes
  BY LimitsExist DEF Limits, Bounds
<1>4. Rooted(Empty.link, Empty.par, M, b)
  BY DEF Empty, Rooted
<1> HIDE DEF b
<1>5. \A x : x \notin M
  OBVIOUS
<1>6. Shape(Empty.link, Empty.par, M, b)
  <2> HIDE DEF M
  <2>1. Distinct(M)
    BY <1>5 DEF Distinct
  <2>2. Within(M, b)
    BY <1>5 DEF Within
  <2>3. Children(Empty.link, Empty.par, M, b)
    BY <1>5 DEF Children
  <2>4. Gaps(Empty.link, M, b)
    BY <1>5 DEF Gaps
  <2>5. Apart(Empty.link, M, b)
    BY <1>5 DEF Apart
  <2>6. Marked(M, b)
    BY <1>5 DEF Marked
  <2>7. Parents(Empty.link, Empty.par, M)
    BY <1>5 DEF Parents
  <2> QED BY <1>2, <1>3, <1>4, <2>1, <2>2, <2>3, <2>4, <2>5, <2>6, <2>7 DEF Shape
<1> HIDE DEF M
<1>7. Fine(Empty, M)
  BY <1>1, <1>6 DEF Sound, Fine
<1> QED BY <1>7 DEF M

(* Every operation keeps the tree sound, or uses a null pointer.            *)
LEMMA WovenStep == Woven /\ FullNext => Woven'
<1> SUFFICES ASSUME Woven, FullNext PROVE Woven'
  OBVIOUS
<1>1. ~m.fault
  BY DEF FullNext, Next
<1>2. members \subseteq Nodes
  BY DEF Woven
<1>3. PICK b : Sound(m, members, b)
  BY <1>1 DEF Woven, Fine
<1>4. ASSUME NEW n \in Nodes, AVL_Insert(n) PROVE Woven'
  <2> DEFINE s == Search(m, Key[n])
             M == members
  <2>1. n \notin M /\ s.p = Null /\ m' = Inserted(m, n, s) /\ members' = M \cup {n} /\ s = Search(m, Key[n])
    BY <1>4 DEF AVL_Insert
  <2> HIDE DEF s
  <2>2. Fine(Inserted(m, n, s), M \cup {n})
    BY <2>1, <1>3, InsertedIs
  <2>3. members' \subseteq Nodes /\ Fine(m', members')
    BY <2>1, <2>2, <1>2
  <2> QED BY <2>3 DEF Woven
<1>5. ASSUME NEW n \in Nodes, AVL_Remove(n) PROVE Woven'
  <2> DEFINE u == Unlinked(m, n)
  <2>1. n \in members /\ m' = Forget(Lowered(u.t, u.q, u.dir), n) /\ members' = members \ {n} /\ u = Unlinked(m, n)
    BY <1>5 DEF AVL_Remove
  <2> HIDE DEF u
  <2>2. Fine(Forget(Lowered(u.t, u.q, u.dir), n), members \ {n})
    BY <2>1, <1>1, <1>3, RemovedIs
  <2>3. members' \subseteq Nodes /\ Fine(m', members')
    BY <2>1, <2>2, <1>2
  <2> QED BY <2>3 DEF Woven
<1>6. ASSUME NEW n \in Nodes, AVL_Replace(n) PROVE Woven'
  <2> DEFINE s == Search(m, Key[n])
  <2>1. /\ n \notin members /\ s = Search(m, Key[n])
        /\ m' = IF s.p = Null THEN Inserted(m, n, s) ELSE Moved(m, s.p, n)
        /\ members' = (members \ {s.p}) \cup {n}
    BY <1>6 DEF AVL_Replace
  <2>2. Key[n] \in Keys
    BY DEF Keys
  <2>3. OnTheWay(m.link, members, b, Key[n], Search(m, Key[n])) /\ (Search(m, Key[n]).p = Null \/ Key[Search(m, Key[n]).p] = Key[n])
    BY <2>2, <1>3, SearchIs
  <2> HIDE DEF s
  <2>4. s.p = Null \/ (s.p \in members /\ Key[n] = Key[s.p])
    BY <2>1, <2>3 DEF OnTheWay
  <2>5. CASE s.p = Null
    <3>1. Fine(Inserted(m, n, s), members \cup {n})
      BY <2>1, <2>5, <1>3, InsertedIs
    <3>2. members \ {s.p} = members
      BY <2>5, <1>2, NoNodes
    <3>3. members' \subseteq Nodes /\ Fine(m', members')
      BY <2>1, <2>5, <3>1, <3>2, <1>2
    <3> QED BY <3>3 DEF Woven
  <2>6. CASE s.p # Null
    <3> DEFINE p == s.p
    <3>1. p \in members /\ Key[n] = Key[p] /\ m' = Moved(m, p, n) /\ members' = (members \ {p}) \cup {n}
      BY <2>1, <2>4, <2>6
    <3> HIDE DEF p
    <3>2. Fine(Moved(m, p, n), (members \ {p}) \cup {n})
      BY <3>1, <2>1, <1>3, MovedIs
    <3>3. members' \subseteq Nodes /\ Fine(m', members')
      BY <3>1, <3>2, <1>2
    <3> QED BY <3>3 DEF Woven
  <2> QED BY <2>5, <2>6
<1>7. ASSUME NEW n \in Nodes, NEW p \in Nodes, AVL_Move(p, n) PROVE Woven'
  <2>1. /\ p \in members /\ n \notin members /\ Key[n] = Key[p]
        /\ m' = Moved(m, p, n) /\ members' = (members \ {p}) \cup {n}
    BY <1>7 DEF AVL_Move
  <2>2. Fine(Moved(m, p, n), (members \ {p}) \cup {n})
    BY <2>1, <1>3, MovedIs
  <2>3. members' \subseteq Nodes /\ Fine(m', members')
    BY <2>1, <2>2, <1>2
  <2> QED BY <2>3 DEF Woven
<1> QED BY <1>4, <1>5, <1>6, <1>7 DEF FullNext, Next

(* Whatever is inserted, removed, moved and replaced, and whatever balance  *)
(* factors avl.c makes of it, as long as no null pointer has been used      *)
(* there are bounds under which the members hang together as one search     *)
(* tree.                                                                    *)
THEOREM WovenInvariant == FullSpec => []Woven
<1>1. Init => Woven
  BY EmptyShape DEF Init, Woven
<1>2. Woven /\ UNCHANGED vars => Woven'
  BY DEF Woven, vars
<1>3. Woven /\ [FullNext]_vars => Woven'
  BY <1>2, WovenStep
<1> QED BY <1>1, <1>3, PTL DEF FullSpec

-----------------------------------------------------------------------------
(* In order.                                                                *)

\* s holds the nodes A in key order
Sorted(s, A) == /\ s \in Seq(Nodes) /\ {s[i] : i \in DOMAIN s} = A
                /\ \A i, j \in DOMAIN s : i < j => Key[s[i]] < Key[s[j]]

(* Nothing is sorted.                                                       *)
LEMMA NothingSorted == Sorted(<<>>, {})
BY DEF Sorted

(* Two sorted sequences, and a node between them.                           *)
LEMMA SortedJoin ==
  ASSUME NEW s, NEW r, NEW A, NEW B, Sorted(s, A), Sorted(r, B), NEW n \in Nodes,
         \A x \in A : Key[x] < Key[n], \A x \in B : Key[n] < Key[x]
  PROVE  Sorted(s \o <<n>> \o r, A \cup {n} \cup B)
<1> DEFINE u == s \o <<n>> \o r
           k == Len(s)
<1>1. /\ s \in Seq(Nodes) /\ r \in Seq(Nodes) /\ k \in Nat /\ Len(r) \in Nat
      /\ {s[i] : i \in 1..k} = A /\ {r[i] : i \in 1..Len(r)} = B
      /\ DOMAIN s = 1..k /\ DOMAIN r = 1..Len(r)
  BY DEF Sorted
<1>2. /\ u \in Seq(Nodes) /\ Len(u) = k + 1 + Len(r) /\ DOMAIN u = 1..k + 1 + Len(r)
      /\ \A i \in 1..k : u[i] = s[i]
      /\ u[k + 1] = n
      /\ \A i \in 1..Len(r) : u[k + 1 + i] = r[i]
  BY <1>1
<1>3. \A i \in DOMAIN u : i \in 1..k \/ i = k + 1 \/ (i - (k + 1) \in 1..Len(r) /\ i = k + 1 + (i - (k + 1)))
  BY <1>1, <1>2
<1>4. \A i \in DOMAIN u : i <= k => u[i] \in A /\ u[i] = s[i] /\ i \in 1..k
  BY <1>1, <1>2
<1>5. \A i \in DOMAIN u : i > k + 1 => /\ i - (k + 1) \in 1..Len(r)
                                       /\ u[i] = r[i - (k + 1)] /\ u[i] \in B
  BY <1>1, <1>2, <1>3
<1> HIDE DEF u, k
<1>6. {u[i] : i \in DOMAIN u} = A \cup {n} \cup B
  <2>1. ASSUME NEW i \in DOMAIN u PROVE u[i] \in A \cup {n} \cup B
    BY <1>1, <1>2, <1>3, <1>4, <1>5
  <2>2. ASSUME NEW x \in A PROVE \E i \in DOMAIN u : u[i] = x
    <3>1. PICK i \in 1..k : s[i] = x
      BY <1>1
    <3>2. i \in DOMAIN u /\ u[i] = x
      BY <3>1, <1>1, <1>2
    <3> QED BY <3>2
  <2>3. ASSUME NEW x \in B PROVE \E i \in DOMAIN u : u[i] = x
    <3>1. PICK i \in 1..Len(r) : r[i] = x
      BY <1>1
    <3>2. k + 1 + i \in DOMAIN u /\ u[k + 1 + i] = x
      BY <3>1, <1>1, <1>2
    <3> QED BY <3>2
  <2>4. k + 1 \in DOMAIN u /\ u[k + 1] = n
    BY <1>1, <1>2
  <2> QED BY <2>1, <2>2, <2>3, <2>4
<1>7. ASSUME NEW i \in DOMAIN u, NEW j \in DOMAIN u, i < j PROVE Key[u[i]] < Key[u[j]]
  <2>0. i \in Int /\ j \in Int /\ k \in Nat /\ u[k + 1] = n /\ Key[n] \in Int
        /\ \A x \in A \cup B : Key[x] \in Int
    <3>1. A \subseteq Nodes /\ B \subseteq Nodes
      BY <1>1
    <3> QED BY <3>1, <1>1, <1>2, KeyType
  <2>1. CASE j <= k
    <3>1. Key[s[i]] < Key[s[j]]
      BY <2>0, <2>1, <1>1, <1>4, <1>7 DEF Sorted
    <3> QED BY <3>1, <2>0, <2>1, <1>4, <1>7
  <2>2. CASE i > k + 1
    <3>1. Key[r[i - (k + 1)]] < Key[r[j - (k + 1)]]
      <4>1. i - (k + 1) \in DOMAIN r /\ j - (k + 1) \in DOMAIN r /\ i - (k + 1) < j - (k + 1)
        BY <2>0, <2>2, <1>1, <1>5, <1>7
      <4> QED BY <4>1 DEF Sorted
    <3> QED BY <3>1, <2>0, <2>2, <1>5, <1>7
  <2>3. CASE i <= k + 1 /\ j > k
    <3>1. Key[u[i]] < Key[n] \/ i = k + 1
      BY <2>0, <2>3, <1>4
    <3>2. Key[n] < Key[u[j]] \/ j = k + 1
      BY <2>0, <2>3, <1>5
    <3>3. u[i] \in Nodes /\ u[j] \in Nodes
      BY <1>2
    <3> QED BY <3>1, <3>2, <3>3, <2>0, <1>7, KeyType
  <2> QED BY <2>0, <2>1, <2>2, <2>3
<1> QED BY <1>2, <1>6, <1>7 DEF Sorted, u

\* what Expand maps to what
Levels == [Nodes \cup {Null} -> Seq(Nodes)]

(* What a level more of the tree adds.                                      *)
LEMMA ExpandIs ==
  ASSUME NEW t \in Trees
  PROVE  /\ Expand(t) \in [Levels -> Levels]
         /\ \A s \in Levels : /\ Expand(t)[s][Null] = <<>>
                              /\ \A n \in Nodes : Expand(t)[s][n] = s[Link(t, n, 0)] \o <<n>> \o s[Link(t, n, 1)]
<1>1. ASSUME NEW s \in Levels
      PROVE  /\ Expand(t)[s] \in Levels
             /\ Expand(t)[s][Null] = <<>>
             /\ \A n \in Nodes : Expand(t)[s][n] = s[Link(t, n, 0)] \o <<n>> \o s[Link(t, n, 1)]
  <2> DEFINE r == [n \in Nodes \cup {Null} |->
                      IF n = Null THEN <<>> ELSE s[Link(t, n, 0)] \o <<n>> \o s[Link(t, n, 1)]]
  <2>1. Expand(t)[s] = r
    BY DEF Expand, Levels
  <2>2. ASSUME NEW n \in Nodes PROVE s[Link(t, n, 0)] \o <<n>> \o s[Link(t, n, 1)] \in Seq(Nodes)
    <3>1. Link(t, n, 0) \in Nodes \cup {Null} /\ Link(t, n, 1) \in Nodes \cup {Null}
      BY LinkTypes DEF Sides
    <3>2. s[Link(t, n, 0)] \in Seq(Nodes) /\ s[Link(t, n, 1)] \in Seq(Nodes)
      BY <3>1 DEF Levels
    <3> QED BY <3>2
  <2>3. r \in Levels
    <3>1. <<>> \in Seq(Nodes)
      OBVIOUS
    <3> QED BY <3>1, <2>2 DEF Levels
  <2> QED BY <2>1, <2>3, NoNodes
<1>2. Expand(t) = [s \in Levels |-> Expand(t)[s]]
  BY DEF Expand, Levels
<1> QED BY <1>1, <1>2

(* The nodes of a sound tree in order are its members, sorted.              *)
LEMMA InOrderIs ==
  ASSUME NEW t, NEW M, NEW b, Sound(t, M, b)
  PROVE  Sorted(InOrder(t), M)
<1> DEFINE R == Expand(t)
           x == [n \in Nodes \cup {Null} |-> <<>>]
           S(k) == Loop(R, x, k)
           C(n) == Cardinality(Inside(M, b, n))
           K == {k \in Nat : /\ S(k) \in Levels /\ S(k)[Null] = <<>>
                             /\ \A n \in M : C(n) <= k => Sorted(S(k)[n], Inside(M, b, n))}
<1>1. /\ t \in Trees /\ Shape(t.link, t.par, M, b) /\ M \in SUBSET Nodes /\ Null \notin M
      /\ 0 \in Sides /\ 1 \in Sides
  BY NoNodes DEF Sound, Shape, Sides
<1>2. R \in [Levels -> Levels]
  BY <1>1, ExpandIs
<1>3. \A s \in Levels : /\ R[s][Null] = <<>>
                        /\ \A n \in Nodes : R[s][n] = s[Link(t, n, 0)] \o <<n>> \o s[Link(t, n, 1)]
  BY <1>1, ExpandIs
<1>4. x \in Levels /\ x[Null] = <<>>
  <2>1. <<>> \in Seq(Nodes)
    OBVIOUS
  <2> QED BY <2>1 DEF Levels
<1> HIDE DEF R, x
<1>5. S(0) = x /\ \A k \in Nat : S(k + 1) = R[S(k)]
  BY <1>2, <1>4, LoopSteps
<1> HIDE DEF S
<1>6. \A n \in M : C(n) \in Nat /\ C(n) <= Deepest /\ n \in Inside(M, b, n)
  BY <1>1, InsideShrinks
<1>7. 0 \in K
  <2>1. \A n \in M : ~(C(n) <= 0)
    <3> SUFFICES ASSUME NEW n \in M, C(n) <= 0 PROVE FALSE
      OBVIOUS
    <3> DEFINE A == Inside(M, b, n)
    <3>1. n \in A /\ Cardinality(A) = 0
      BY <1>6
    <3>2. IsFiniteSet(A)
      <4>1. A \subseteq Nodes
        BY <1>1 DEF Inside
      <4> HIDE DEF A
      <4> QED BY <4>1, NodesAssumption, FS_Subset
    <3> HIDE DEF A
    <3> QED BY <3>1, <3>2, FS_EmptySet
  <2> QED BY <2>1, <1>4, <1>5
<1>8. ASSUME NEW k \in Nat, k \in K PROVE k + 1 \in K
  <2> DEFINE s == S(k)
             r == S(k + 1)
  <2>1. s \in Levels /\ s[Null] = <<>> /\ \A n \in M : C(n) <= k => Sorted(s[n], Inside(M, b, n))
    BY <1>8
  <2>2. r = R[s]
    BY <1>5
  <2> HIDE DEF s, r
  <2>3. r \in Levels /\ r[Null] = <<>>
    BY <2>1, <2>2, <1>2, <1>3
  <2>4. ASSUME NEW n \in M, C(n) <= k + 1 PROVE Sorted(r[n], Inside(M, b, n))
    <3> DEFINE zero == 0
               one == 1
               A(d) == {a \in Inside(M, b, n) : Beyond(d, Key[a], Key[n])}
               c(d) == t.link[n][d]
    <3>1. n \in Nodes /\ Key[n] \in Int
      BY <1>1, KeyType
    <3>2. zero \in Sides /\ one \in Sides /\ zero = 0 /\ one = 1
      BY <1>1
    <3>3. r[n] = s[c(0)] \o <<n>> \o s[c(1)]
      <4>1. r[n] = s[Link(t, n, 0)] \o <<n>> \o s[Link(t, n, 1)]
        BY <3>1, <2>1, <2>2, <1>3
      <4>2. Link(t, n, 0) = c(0) /\ Link(t, n, 1) = c(1)
        BY DEF Link
      <4> HIDE DEF c
      <4> QED BY <4>1, <4>2
    <3> HIDE DEF zero, one
    <3>4. ASSUME NEW d \in Sides PROVE Sorted(s[c(d)], A(d))
      <4>1. CASE c(d) = Null
        <5>1. A(d) = {}
          BY <4>1, <1>1, InsideShrinks
        <5> QED BY <5>1, <4>1, <2>1, NothingSorted
      <4>2. CASE c(d) # Null
        <5> DEFINE e == c(d)
        <5>1. Inside(M, b, e) = A(d) /\ Cardinality(Inside(M, b, e)) < Cardinality(Inside(M, b, n))
          BY <4>2, <1>1, InsideShrinks
        <5>2. e \in M
          BY <4>2, <1>1 DEF Shape, Children
        <5> HIDE DEF e, A
        <5>3. C(e) < C(n)
          BY <5>1
        <5>4. C(e) \in Nat /\ C(n) \in Nat
          BY <5>2, <1>6
        <5> HIDE DEF C
        <5>5. C(e) <= k
          BY <5>3, <5>4, <2>4
        <5>6. Sorted(s[e], Inside(M, b, e))
          BY <5>2, <5>5, <2>1
        <5> QED BY <5>1, <5>6 DEF e
      <4> QED BY <4>1, <4>2
    <3>5. Sorted(s[c(0)], A(0)) /\ Sorted(s[c(1)], A(1))
      BY <3>4, <3>2
    <3>6. Inside(M, b, n) = A(0) \cup {n} \cup A(1)
      <4>1. Inside(M, b, n) \subseteq M
        BY DEF Inside
      <4>2. \A a \in M : Key[a] \in Int /\ (Key[a] = Key[n] => a = n)
        BY <1>1, KeyType DEF Shape, Distinct
      <4>3. n \in Inside(M, b, n)
        BY <1>6
      <4> QED BY <4>1, <4>2, <4>3, <3>1 DEF Beyond
    <3>7. (\A a \in A(0) : Key[a] < Key[n]) /\ (\A a \in A(1) : Key[n] < Key[a])
      <4>1. \A a \in Inside(M, b, n) : Key[a] \in Int
        BY <1>1, KeyType DEF Inside
      <4> QED BY <4>1, <3>1 DEF Beyond
    <3> DEFINE sl == s[c(0)]
               sr == s[c(1)]
               Al == A(0)
               Ar == A(1)
    <3>8. /\ Sorted(sl, Al) /\ Sorted(sr, Ar) /\ r[n] = sl \o <<n>> \o sr
          /\ Inside(M, b, n) = Al \cup {n} \cup Ar
          /\ (\A a \in Al : Key[a] < Key[n]) /\ (\A a \in Ar : Key[n] < Key[a])
      BY <3>3, <3>5, <3>6, <3>7
    <3> HIDE DEF sl, sr, Al, Ar
    <3> QED BY <3>8, <3>1, SortedJoin
  <2> QED BY <2>3, <2>4 DEF r
<1> HIDE DEF K
<1>9. Nat \subseteq K
  BY <1>7, <1>8, SetInduction
<1>10. Deepest \in K
  BY <1>9, DeepestType
<1>11. /\ S(Deepest)[Null] = <<>>
       /\ \A n \in M : Sorted(S(Deepest)[n], Inside(M, b, n))
  BY <1>10, <1>6 DEF K
<1> DEFINE root == t.link[Tree][0]
<1>12. InOrder(t) = S(Deepest)[root]
  BY DEF InOrder, S, R, x, Link
<1>13. CASE root = Null
  <2>1. M = {}
    BY <1>1, <1>13 DEF Shape, Rooted
  <2> QED BY <2>1, <1>11, <1>12, <1>13, NothingSorted
<1>14. CASE root # Null
  <2>1. root \in M /\ b[root] = Limit
    BY <1>1, <1>14 DEF Shape, Rooted
  <2>2. Inside(M, b, root) = M
    BY <2>1, <1>1, LimitsExist DEF Inside, Limits
  <2> QED BY <2>1, <2>2, <1>11, <1>12
<1> QED BY <1>13, <1>14

(* A woven tree is a search tree.                                           *)
LEMMA WovenIsSearchTree == Woven => SearchTree
<1> SUFFICES ASSUME Woven PROVE SearchTree
  OBVIOUS
<1>1. TypeOK
  BY DEF Woven, Fine, TypeOK
<1>2. ASSUME ~m.fault
      PROVE  /\ LET s == InOrder(m)
                IN  /\ {s[i] : i \in DOMAIN s} = members
                    /\ \A i, j \in DOMAIN s : i < j => Key[s[i]] < Key[s[j]]
             /\ \A n \in members : IF Parent(m, n) = Null THEN Link(m, Tree, 0) = n
                                   ELSE \E d \in {0, 1} : Link(m, Parent(m, n), d) = n
  <2>1. PICK b : Sound(m, members, b)
    BY <1>2 DEF Woven, Fine
  <2>2. Sorted(InOrder(m), members)
    BY <2>1, InOrderIs
  <2>3. Parents(m.link, m.par, members)
    BY <2>1 DEF Sound, Shape
  <2>4. \A n \in members : IF Parent(m, n) = Null THEN Link(m, Tree, 0) = n
                           ELSE \E d \in {0, 1} : Link(m, Parent(m, n), d) = n
    BY <2>3 DEF Parents, Parent, Link, Sides
  <2> HIDE DEF InOrder
  <2> QED BY <2>2, <2>4 DEF Sorted
<1> QED BY <1>1, <1>2 DEF SearchTree

(* The tree avl.c keeps holds the client's nodes, each once, in key order,  *)
(* and every parent word points back to the link above it, until a null     *)
(* pointer is used: for any number of nodes and any keys.                   *)
THEOREM SearchTreeInvariant == FullSpec => []SearchTree
BY WovenInvariant, WovenIsSearchTree, PTL

-----------------------------------------------------------------------------
(* The searches.                                                            *)

\* where Climb is
Climbs == [n : Nodes, q : Nodes \cup {Null}]

\* u is the member next to n on side d, or null
Nearby(M, n, d, u) ==
    IF u = Null THEN \A x \in M : ~Beyond(d, Key[x], Key[n])
    ELSE /\ u \in M /\ Beyond(d, Key[u], Key[n])
         /\ \A x \in M : Beyond(d, Key[x], Key[n]) => ~Beyond(d, Key[u], Key[x])

(* A climb from a node with nothing on side d ends at its neighbour there.  *)
LEMMA ClimbIs ==
  ASSUME NEW t, NEW M, NEW b, Sound(t, M, b), NEW n \in M, NEW d \in Sides, t.link[n][d] = Null
  PROVE  Nearby(M, n, d, Climb(t, n, d))
<1> DEFINE e == 1 - d
           R == Upward(t, d)
           I == {at \in Climbs : at.n \in M /\ at.q = t.par[at.n] /\ b[at.n][d] = b[n][d]}
           x == [n |-> n, q |-> Parent(t, n)]
           rank == [at \in I |-> Cardinality(Past(M, at.n, e))]
           k == Deepest
           z == Loop(R, x, k)
<1>0. /\ t \in Trees /\ Shape(t.link, t.par, M, b) /\ M \in SUBSET Nodes /\ n \in Nodes /\ b \in Bounds
      /\ Null \notin M /\ e \in Sides /\ 1 - e = d /\ e # d /\ \A s \in Sides : s = d \/ s = e
      /\ \A p \in M : Key[p] \in Int /\ \A s \in Sides : b[p][s] \in Int
  <2>1. t \in Trees /\ Shape(t.link, t.par, M, b) /\ M \in SUBSET Nodes /\ b \in Bounds
    BY DEF Sound, Shape
  <2> QED BY <2>1, NoNodes, KeyType, Sides2 DEF Bounds
<1> HIDE DEF e
<1>1. \A at \in Climbs : R[at] = IF at.q = Null \/ at.n = Link(t, at.q, e) THEN at
                                 ELSE [n |-> at.q, q |-> Parent(t, at.q)]
  BY DEF Upward, Climbs, e
<1>2. R \in [Climbs -> Climbs]
  <2>1. \A at \in Climbs : R[at] \in Climbs
    <3> SUFFICES ASSUME NEW at \in Climbs PROVE R[at] \in Climbs
      OBVIOUS
    <3>1. CASE at.q = Null \/ at.n = Link(t, at.q, e)
      BY <3>1, <1>1
    <3>2. CASE ~(at.q = Null \/ at.n = Link(t, at.q, e))
      <4>1. at.q \in Nodes
        BY <3>2 DEF Climbs
      <4>2. Parent(t, at.q) \in Nodes \cup {Null}
        BY <4>1, <1>0, LinkTypes
      <4>3. R[at] = [n |-> at.q, q |-> Parent(t, at.q)]
        BY <3>2, <1>1
      <4> HIDE DEF R
      <4> QED BY <4>1, <4>2, <4>3 DEF Climbs
    <3> QED BY <3>1, <3>2
  <2>2. R = [at \in Climbs |-> R[at]]
    BY DEF Upward, Climbs
  <2> QED BY <2>1, <2>2
<1>3. I \in SUBSET Climbs /\ x \in I /\ x.n = n
  BY <1>0, LinkTypes DEF Climbs
<1>4. rank \in [I -> Nat] /\ \A at \in I : rank[at] <= k
  <2>1. \A at \in I : at.n \in M
    OBVIOUS
  <2> HIDE DEF I
  <2> QED BY <2>1, <1>0, PastBounded
<1> HIDE DEF R, x
<1>5. ASSUME NEW at \in I, at.q # Null, at.n # Link(t, at.q, e)
      PROVE  /\ R[at] \in I /\ R[at] # at /\ rank[R[at]] < rank[at]
  <2> DEFINE p == at.q
             c == at.n
  <2>1. p \in M /\ c \in M /\ t.par[c] = p /\ \E s \in Sides : t.link[p][s] = c
    BY <1>0, <1>5 DEF Shape, Parents
  <2>2. t.link[p][d] = c
    <3>1. Link(t, p, e) = t.link[p][e]
      BY DEF Link
    <3> QED BY <3>1, <2>1, <1>0, <1>5
  <2>3. IsChild(t.link, t.par, M, b, p, d, c)
    <3>1. t.link[p][d] # Null
      BY <2>1, <2>2, <1>0
    <3> QED BY <3>1, <2>1, <2>2, <1>0, ChildIsChild
  <2>4. b[c][d] = b[p][d] /\ Beyond(d, Key[c], Key[p]) /\ c # p
    BY <2>3 DEF IsChild
  <2>5. R[at] = [n |-> p, q |-> t.par[p]] /\ at \in Climbs /\ b[c][d] = b[n][d]
    BY <1>1, <1>5 DEF Parent
  <2>6. R[at] \in Climbs
    BY <2>5, <1>2
  <2>7. R[at].n = p /\ R[at].q = t.par[p]
    BY <2>5
  <2>8. R[at] \in I
    BY <2>1, <2>4, <2>5, <2>6, <2>7
  <2>9. R[at] # at
    BY <2>4, <2>7
  <2>10. Beyond(e, Key[p], Key[c])
    BY <2>1, <2>4, <1>0, BeyondOrder DEF e
  <2>11. Cardinality(Past(M, p, e)) < Cardinality(Past(M, c, e))
    BY <2>1, <2>10, <1>0, PastShrinks
  <2> HIDE DEF p, c
  <2>12. rank[R[at]] = Cardinality(Past(M, p, e))
    BY <2>7, <2>8
  <2>13. rank[at] = Cardinality(Past(M, c, e))
    BY DEF c
  <2> QED BY <2>8, <2>9, <2>11, <2>12, <2>13
<1>6. \A at \in I : R[at] \in I /\ (R[at] = at \/ rank[R[at]] < rank[at])
  <2> SUFFICES ASSUME NEW at \in I PROVE R[at] \in I /\ (R[at] = at \/ rank[R[at]] < rank[at])
    OBVIOUS
  <2> HIDE DEF rank
  <2>1. CASE at.q = Null \/ at.n = Link(t, at.q, e)
    BY <2>1, <1>1, <1>3
  <2>2. CASE ~(at.q = Null \/ at.n = Link(t, at.q, e))
    BY <2>2, <1>5
  <2> QED BY <2>1, <2>2
<1>7. z \in I /\ R[z] = z
  <2> HIDE DEF I, k, rank
  <2>1. k \in Nat
    BY DeepestType DEF k
  <2> QED BY <2>1, <1>2, <1>3, <1>4, <1>6, LoopEnds
<1>8. Climb(t, n, d) = z.q
  BY DEF Climb, R, x
<1> HIDE DEF z, rank
<1>9. z.q = Null \/ z.n = Link(t, z.q, e)
  BY <1>5, <1>7
<1>10. z.n \in M /\ z.q = t.par[z.n] /\ b[z.n][d] = b[n][d]
  BY <1>7
<1>11. \A p \in M : Beyond(d, Key[p], Key[n]) => ~Beyond(d, b[n][d], Key[p])
  BY <1>0 DEF Shape, Gaps
<1>12. CASE z.q = Null
  <2>1. b[z.n] = Limit
    <3>1. t.link[Tree][0] = z.n
      BY <1>0, <1>10, <1>12 DEF Shape, Parents
    <3>2. t.link[Tree][0] # Null
      BY <3>1, <1>0, <1>10
    <3> QED BY <3>1, <3>2, <1>0 DEF Shape, Rooted
  <2>2. \A p \in M : Beyond(d, b[n][d], Key[p])
    BY <2>1, <1>0, <1>10, LimitsExist DEF Limits
  <2>3. \A p \in M : ~Beyond(d, Key[p], Key[n])
    BY <2>2, <1>11
  <2> QED BY <2>3, <1>8, <1>12 DEF Nearby
<1>13. CASE z.q # Null
  <2> DEFINE u == z.q
  <2>1. u \in M
    BY <1>0, <1>10, <1>13 DEF Shape, Parents
  <2>2. t.link[u][e] = z.n /\ z.n # Null
    BY <1>0, <1>9, <1>10, <1>13 DEF Link
  <2>3. IsChild(t.link, t.par, M, b, u, e, z.n)
    BY <2>1, <2>2, <1>0, ChildIsChild
  <2>4. b[z.n][d] = Key[u]
    BY <2>3, <1>0 DEF IsChild
  <2>5. b[n][d] = Key[u]
    BY <2>4, <1>10
  <2>6. Beyond(d, Key[u], Key[n])
    <3>1. Beyond(d, b[n][d], Key[n])
      BY <1>0 DEF Shape, Within
    <3> QED BY <3>1, <2>5
  <2>7. u # Null
    BY <1>13
  <2> HIDE DEF u
  <2>8. Nearby(M, n, d, u)
    BY <2>1, <2>5, <2>6, <2>7, <1>11 DEF Nearby
  <2> QED BY <2>8, <1>8 DEF u
<1> QED BY <1>12, <1>13

(* AVL_Next and AVL_Prev find the neighbour.                                *)
LEMMA NeighbourIs ==
  ASSUME NEW t, NEW M, NEW b, Sound(t, M, b), NEW n \in M, NEW d \in Sides
  PROVE  Nearby(M, n, d, Neighbour(t, n, d))
<1> DEFINE e == 1 - d
           c == t.link[n][d]
           u == Outermost(t, c, e)
<1>0. /\ t \in Trees /\ Shape(t.link, t.par, M, b) /\ M \in SUBSET Nodes /\ n \in Nodes
      /\ Null \notin M /\ e \in Sides /\ 1 - e = d
      /\ \A p \in M : Key[p] \in Int /\ \A s \in Sides : b[p][s] \in Int
  <2>1. t \in Trees /\ Shape(t.link, t.par, M, b) /\ M \in SUBSET Nodes /\ b \in Bounds
    BY DEF Sound, Shape
  <2> QED BY <2>1, NoNodes, KeyType, Sides2 DEF Bounds
<1>1. Neighbour(t, n, d) = IF c = Null THEN Climb(t, n, d) ELSE u
  BY DEF Neighbour, Link
<1>2. CASE c = Null
  BY <1>1, <1>2, ClimbIs
<1>3. CASE c # Null
  <2>1. IsChild(t.link, t.par, M, b, n, d, c)
    BY <1>0, <1>3, ChildIsChild
  <2> HIDE DEF c
  <2>2. c \in M /\ b[c][e] = Key[n]
    BY <2>1 DEF IsChild, e
  <2> HIDE DEF e
  <2>3. u \in M /\ t.link[u][e] = Null /\ b[u][e] = Key[n]
    BY <2>2, <1>0, OutermostIs
  <2> HIDE DEF u
  <2>4. Beyond(e, Key[n], Key[u])
    <3>1. Beyond(e, b[u][e], Key[u])
      BY <2>3, <1>0 DEF Shape, Within
    <3> QED BY <3>1, <2>3
  <2>5. \A p \in M : Beyond(e, Key[p], Key[u]) => ~Beyond(e, Key[n], Key[p])
    BY <2>3, <1>0 DEF Shape, Gaps
  <2>6. \A i, j \in Int : Beyond(d, i, j) <=> Beyond(e, j, i)
    BY <1>0 DEF Beyond, Sides
  <2>7. Beyond(d, Key[u], Key[n])
    BY <2>3, <2>4, <2>6, <1>0
  <2>8. \A p \in M : Beyond(d, Key[p], Key[n]) => ~Beyond(d, Key[u], Key[p])
    BY <2>3, <2>5, <2>6, <1>0
  <2>9. u # Null
    BY <2>3, <1>0
  <2>10. Nearby(M, n, d, u)
    BY <2>3, <2>7, <2>8, <2>9 DEF Nearby
  <2> QED BY <2>10, <1>1, <1>3
<1> QED BY <1>2, <1>3

(* Extreme finds what it says. *)
LEMMA ExtremeIs ==
  ASSUME members \subseteq Nodes, Distinct(members), NEW K, NEW d \in Sides,
         NEW u, IF u = Null THEN \A x \in members : Key[x] \notin K
                ELSE /\ u \in members /\ Key[u] \in K
                     /\ \A x \in members : Key[x] \in K => ~Beyond(d, Key[u], Key[x])
  PROVE  Extreme(K, d) = u
<1> DEFINE S == {n \in members : Key[n] \in K}
           Best(n) == \A p \in S : Sign(d) * Key[n] <= Sign(d) * Key[p]
<1>0. \A x \in members : Key[x] \in Int /\ x # Null
  BY KeyType, NoNodes
<1>1. Extreme(K, d) = IF S = {} THEN Null ELSE CHOOSE n \in S : Best(n)
  BY DEF Extreme
<1>2. CASE u = Null
  BY <1>1, <1>2
<1>3. CASE u # Null
  <2>1. u \in S
    BY <1>3
  <2>2. \A n, p \in members : Sign(d) * Key[n] <= Sign(d) * Key[p] <=> ~Beyond(d, Key[n], Key[p])
    <3>1. CASE d = 1
      BY <3>1, <1>0 DEF Sign, Beyond
    <3>2. CASE d = 0
      BY <3>2, <1>0 DEF Sign, Beyond
    <3> QED BY <3>1, <3>2 DEF Sides
  <2>3. Best(u)
    BY <1>3, <2>1, <2>2
  <2>4. ASSUME NEW n \in S, Best(n) PROVE n = u
    <3>1. ~Beyond(d, Key[n], Key[u]) /\ ~Beyond(d, Key[u], Key[n])
      BY <1>3, <2>1, <2>2, <2>4
    <3>2. Key[n] = Key[u]
      BY <3>1, <1>0, <2>1, BeyondOrder
    <3> QED BY <3>2, <2>1 DEF Distinct
  <2> HIDE DEF Best
  <2> QED BY <1>1, <2>1, <2>3, <2>4
<1> QED BY <1>2, <1>3

(* AVL_First and AVL_Last find the ends.                                    *)
LEMMA EndIs ==
  ASSUME NEW b, Sound(m, members, b), NEW d \in Sides
  PROVE  Outermost(m, Link(m, Tree, 0), 1 - d) = Extreme(Keys, d)
<1> DEFINE root == m.link[Tree][0]
           e == 1 - d
           u == Outermost(m, root, e)
           M == members
<1>0. /\ m \in Trees /\ Shape(m.link, m.par, M, b) /\ members \subseteq Nodes /\ Null \notin M
      /\ e \in Sides /\ \A p \in M : Key[p] \in Int /\ Key[p] \in Keys
      /\ Distinct(members)
  <2>1. m \in Trees /\ Shape(m.link, m.par, M, b) /\ M \in SUBSET Nodes /\ Distinct(members)
    BY DEF Sound, Shape
  <2> QED BY <2>1, NoNodes, KeyType, Sides2 DEF Keys
<1>1. Link(m, Tree, 0) = root
  BY DEF Link
<1>2. CASE root = Null
  <2>1. members = {}
    BY <1>0, <1>2 DEF Shape, Rooted
  <2>2. u = Null
    BY <1>2 DEF Outermost
  <2>3. Extreme(Keys, d) = Null
    BY <2>1 DEF Extreme
  <2> QED BY <1>1, <2>2, <2>3
<1>3. CASE root # Null
  <2>1. root \in M /\ b[root] = Limit
    BY <1>0, <1>3 DEF Shape, Rooted
  <2> HIDE DEF root, e
  <2>2. u \in M /\ m.link[u][e] = Null /\ b[u][e] = b[root][e]
    BY <2>1, <1>0, OutermostIs
  <2> HIDE DEF u
  <2>3. \A p \in M : Beyond(e, b[u][e], Key[p])
    BY <2>1, <2>2, <1>0, LimitsExist DEF Limits
  <2>4. \A p \in M : ~Beyond(e, Key[p], Key[u])
    BY <2>2, <2>3, <1>0 DEF Shape, Gaps
  <2>5. \A p \in M : ~Beyond(d, Key[u], Key[p])
    BY <2>2, <2>4, <1>0, BeyondOrder DEF e
  <2>6. Extreme(Keys, d) = u
    BY <2>2, <2>5, <1>0, ExtremeIs
  <2> QED BY <2>6, <1>1 DEF u, e
<1> QED BY <1>2, <1>3

(* AVL_Find finds the node of a key.                                        *)
LEMMA FindIs ==
  ASSUME NEW b, Sound(m, members, b), NEW k \in Keys
  PROVE  /\ AVL_Find(m, k) = Extreme({k}, 1)
         /\ AVL_Find(m, k) = Null => \A x \in members : Key[x] # k
<1> DEFINE s == Search(m, k)
           M == members
           one == 1
<1>0. /\ Shape(m.link, m.par, M, b) /\ members \subseteq Nodes /\ Null \notin M
      /\ b \in Bounds /\ \A p \in M : Key[p] \in Int
      /\ Distinct(members) /\ Gaps(m.link, M, b) /\ one \in Sides
  <2>1. Shape(m.link, m.par, M, b) /\ M \in SUBSET Nodes /\ Distinct(members)
        /\ b \in Bounds /\ Gaps(m.link, M, b) /\ one \in Sides
    BY DEF Sound, Shape, Sides
  <2> QED BY <2>1, NoNodes, KeyType
<1>1. OnTheWay(m.link, M, b, k, s) /\ (s.p = Null \/ Key[s.p] = k)
  BY SearchIs
<1>2. AVL_Find(m, k) = s.p
  BY DEF AVL_Find
<1> DEFINE u == s.p
<1>3. u = Null => \A x \in members : Key[x] # k
  <2> SUFFICES ASSUME u = Null, NEW x \in members, Key[x] = k PROVE FALSE
    OBVIOUS
  <2>1. Fits(m.link, M, b, k, s.q, s.dir)
    BY <1>1 DEF OnTheWay
  <2> QED BY <2>1, <1>0 DEF Fits, Gaps
<1>4. u # Null => u \in members /\ Key[u] = k
  BY <1>1 DEF OnTheWay
<1> HIDE DEF u, one
<1>5. Extreme({k}, one) = u
  <2>1. \A x \in members : ~Beyond(one, Key[x], Key[x])
    BY <1>0 DEF Beyond
  <2> DEFINE K == {k}
  <2>2. \A x \in members : Key[x] \in K <=> Key[x] = k
    OBVIOUS
  <2> HIDE DEF K
  <2>3. IF u = Null THEN \A x \in members : Key[x] \notin K
        ELSE /\ u \in members /\ Key[u] \in K
             /\ \A x \in members : Key[x] \in K => ~Beyond(one, Key[u], Key[x])
    BY <2>1, <2>2, <1>3, <1>4
  <2>4. Extreme(K, one) = u
    BY <2>3, <1>0, ExtremeIs
  <2> QED BY <2>4 DEF K
<1> QED BY <1>2, <1>3, <1>5 DEF u, one

\* the keys beyond k on side d, with k itself or without
KeysPast(k, d) == {j \in Keys : Beyond(d, j, k)}

(* The keys on a side are those SearchesAgree speaks of.                    *)
LEMMA SidesOfKeys == \A k \in Keys : KeysPast(k, 1) = Above(k) /\ KeysPast(k, 0) = Below(k)
BY DEF KeysPast, Above, Below, Beyond

(* AVL_Next and AVL_Prev, as SearchesAgree states it.                       *)
LEMMA NextIs ==
  ASSUME NEW b, Sound(m, members, b), NEW n \in members, NEW d \in Sides
  PROVE  Neighbour(m, n, d) = Extreme(KeysPast(Key[n], d), d)
<1> DEFINE u == Neighbour(m, n, d)
           K == KeysPast(Key[n], d)
<1>1. members \subseteq Nodes /\ Distinct(members) /\ Null \notin members
  BY NoNodes DEF Sound, Shape
<1>2. Nearby(members, n, d, u)
  BY NeighbourIs
<1>3. \A x \in members : Key[x] \in K <=> Beyond(d, Key[x], Key[n])
  BY <1>1 DEF KeysPast, Keys
<1> HIDE DEF u, K
<1>4. IF u = Null THEN \A x \in members : Key[x] \notin K
      ELSE /\ u \in members /\ Key[u] \in K
           /\ \A x \in members : Key[x] \in K => ~Beyond(d, Key[u], Key[x])
  BY <1>2, <1>3 DEF Nearby
<1>5. Extreme(K, d) = u
  BY <1>1, <1>4, ExtremeIs
<1> QED BY <1>5 DEF u, K

(* AVL_FindNext and AVL_FindPrev, as SearchesAgree states it.               *)
LEMMA NearestIs ==
  ASSUME NEW b, Sound(m, members, b), NEW k \in Keys, NEW d \in Sides
  PROVE  Nearest(m, k, d) = Extreme(KeysPast(k, d) \cup {k}, d)
<1> DEFINE s == Search(m, k)
           q == s.q
           u == Nearest(m, k, d)
           M == members
           e == 1 - d
           K == KeysPast(k, d) \cup {k}
<1>0. /\ Shape(m.link, m.par, M, b) /\ members \subseteq Nodes /\ Null \notin M
      /\ b \in Bounds /\ k \in Int
      /\ \A p \in M : Key[p] \in Int /\ \A i \in Sides : b[p][i] \in Int
      /\ Distinct(members) /\ Gaps(m.link, M, b)
      /\ \A i \in Sides : i = d \/ i = e
      /\ \A i, j \in Int : Beyond(d, i, j) <=> Beyond(e, j, i)
  <2>1. Shape(m.link, m.par, M, b) /\ M \in SUBSET Nodes /\ Distinct(members)
        /\ b \in Bounds /\ Gaps(m.link, M, b)
    BY DEF Sound, Shape
  <2>2. k \in Int
    BY KeyType DEF Keys
  <2>3. \A i, j \in Int : Beyond(d, i, j) <=> Beyond(e, j, i)
    BY DEF Beyond, Sides
  <2>4. \A p \in M : Key[p] \in Int /\ \A i \in Sides : b[p][i] \in Int
    BY <2>1, KeyType DEF Bounds
  <2> QED BY <2>1, <2>2, <2>3, <2>4, NoNodes, Sides2
<1>1. OnTheWay(m.link, M, b, k, s) /\ (s.p = Null \/ Key[s.p] = k)
  BY SearchIs
<1>2. \A x \in members : Key[x] \in K <=> Key[x] = k \/ Beyond(d, Key[x], k)
  BY <1>0 DEF KeysPast, Keys
<1>3. u = IF s.p # Null \/ q = Null THEN s.p
          ELSE IF s.dir # d THEN q ELSE Neighbour(m, q, d)
  BY DEF Nearest
<1> HIDE DEF u, K, e
<1>4. IF u = Null THEN \A x \in members : Key[x] \notin K
      ELSE /\ u \in members /\ Key[u] \in K
           /\ \A x \in members : Key[x] \in K => ~Beyond(d, Key[u], Key[x])
  <2>1. CASE s.p # Null
    <3>1. u = s.p /\ u \in members /\ Key[u] = k /\ u # Null
      BY <2>1, <1>1, <1>3 DEF OnTheWay
    <3>2. \A x \in members : Key[x] \in K => ~Beyond(d, Key[u], Key[x])
      BY <3>1, <1>0, <1>2 DEF Beyond
    <3> QED BY <3>1, <3>2, <1>2
  <2>2. CASE s.p = Null /\ q = Null
    <3>1. u = Null /\ members = {}
      BY <2>2, <1>1, <1>3 DEF OnTheWay
    <3> QED BY <3>1
  <2>3. CASE s.p = Null /\ q # Null
    <3>1. Fits(m.link, M, b, k, q, s.dir)
      BY <2>3, <1>1 DEF OnTheWay
    <3> DEFINE i == s.dir
    <3>2. /\ q \in M /\ i \in Sides /\ m.link[q][i] = Null
          /\ Beyond(i, k, Key[q]) /\ Beyond(i, b[q][i], k)
      BY <3>1 DEF Fits
    <3>3. \A x \in M : Beyond(i, Key[x], Key[q]) => ~Beyond(i, b[q][i], Key[x])
      BY <3>2, <1>0 DEF Gaps
    <3>4. \A x \in M : Beyond(i, Key[x], Key[q]) => Beyond(i, Key[x], k)
      <4> SUFFICES ASSUME NEW x \in M, Beyond(i, Key[x], Key[q]) PROVE Beyond(i, Key[x], k)
        OBVIOUS
      <4>1. ~Beyond(i, b[q][i], Key[x]) /\ b[q][i] \in Int /\ Key[x] \in Int
        BY <3>2, <3>3, <1>0
      <4> QED BY <4>1, <3>2, <1>0 DEF Beyond
    <3>5. \A x \in M : Key[x] # k
      BY <3>2, <3>4, <1>0 DEF Beyond
    <3>6. CASE i # d
      <4>1. u = q /\ i = e /\ u # Null
        BY <2>3, <3>2, <3>6, <1>0, <1>3
      <4>2. Beyond(d, Key[u], k)
        BY <4>1, <3>2, <1>0
      <4>3. ASSUME NEW x \in M, Beyond(d, Key[x], k) PROVE ~Beyond(d, Key[u], Key[x])
        <5>1. Beyond(d, Key[u], Key[x]) => Beyond(i, Key[x], Key[q])
          BY <4>1, <3>2, <1>0
        <5>2. Beyond(i, Key[x], Key[q]) => Beyond(d, k, Key[x])
          BY <3>4, <4>1, <1>0
        <5>3. ~Beyond(d, k, Key[x])
          BY <4>3, <1>0, BeyondOrder
        <5> QED BY <5>1, <5>2, <5>3
      <4> QED BY <4>1, <4>2, <4>3, <3>2, <3>5, <1>2
    <3>7. CASE i = d
      <4>1. u = Neighbour(m, q, d)
        BY <2>3, <3>7, <1>3
      <4>2. Nearby(M, q, d, u)
        BY <3>2, <4>1, NeighbourIs
      <4>3. \A x \in M : Beyond(d, Key[x], Key[q]) <=> Beyond(d, Key[x], k)
        <5>1. \A x \in M : Beyond(d, Key[x], k) => Beyond(d, Key[x], Key[q])
          BY <3>2, <3>7, <1>0 DEF Beyond
        <5> QED BY <5>1, <3>4, <3>7
      <4>4. \A x \in M : Key[x] \in K <=> Beyond(d, Key[x], Key[q])
        BY <4>3, <3>5, <1>2
      <4> QED BY <4>2, <4>4 DEF Nearby
    <3> QED BY <3>6, <3>7
  <2> QED BY <2>1, <2>2, <2>3
<1>5. Extreme(K, d) = u
  BY <1>0, <1>4, ExtremeIs
<1> QED BY <1>5 DEF u, K

(* The searches are right in a woven tree.                                  *)
LEMMA WovenAgrees == Woven => SearchesAgree
<1> SUFFICES ASSUME Woven, ~m.fault PROVE SearchesAgree
  BY DEF SearchesAgree
<1> DEFINE zero == 0
           one == 1
<1>1. PICK b : Sound(m, members, b)
  BY DEF Woven, Fine
<1>2. zero \in Sides /\ one \in Sides /\ zero = 0 /\ one = 1 /\ 1 - zero = one /\ 1 - one = zero
  BY DEF Sides
<1>3. members \subseteq Nodes
  BY DEF Woven
<1> HIDE DEF zero, one
<1>4. AVL_First(m) = Extreme(Keys, 1) /\ AVL_Last(m) = Extreme(Keys, 0)
  <2>1. Outermost(m, Link(m, Tree, 0), 1 - one) = Extreme(Keys, one)
    BY <1>1, <1>2, EndIs
  <2>2. Outermost(m, Link(m, Tree, 0), 1 - zero) = Extreme(Keys, zero)
    BY <1>1, <1>2, EndIs
  <2> QED BY <2>1, <2>2, <1>2 DEF AVL_First, AVL_Last
<1>5. ASSUME NEW k \in Keys
      PROVE  /\ AVL_Find(m, k) = Extreme({k}, 1)
             /\ AVL_FindNext(m, k) = Extreme(Above(k) \cup {k}, 1)
             /\ AVL_FindPrev(m, k) = Extreme(Below(k) \cup {k}, 0)
  <2>1. AVL_Find(m, k) = Extreme({k}, 1)
    BY <1>1, FindIs
  <2>2. Nearest(m, k, one) = Extreme(KeysPast(k, one) \cup {k}, one)
    BY <1>1, <1>2, NearestIs
  <2>3. Nearest(m, k, zero) = Extreme(KeysPast(k, zero) \cup {k}, zero)
    BY <1>1, <1>2, NearestIs
  <2>4. KeysPast(k, one) = Above(k) /\ KeysPast(k, zero) = Below(k)
    BY <1>2, SidesOfKeys
  <2>5. AVL_FindNext(m, k) = Extreme(Above(k) \cup {k}, 1)
    BY <2>2, <2>4, <1>2 DEF AVL_FindNext
  <2>6. AVL_FindPrev(m, k) = Extreme(Below(k) \cup {k}, 0)
    BY <2>3, <2>4, <1>2 DEF AVL_FindPrev
  <2> QED BY <2>1, <2>5, <2>6
<1>6. ASSUME NEW n \in members
      PROVE  /\ AVL_Next(m, n) = Extreme(Above(Key[n]), 1)
             /\ AVL_Prev(m, n) = Extreme(Below(Key[n]), 0)
  <2>1. Neighbour(m, n, one) = Extreme(KeysPast(Key[n], one), one)
    BY <1>1, <1>2, NextIs
  <2>2. Neighbour(m, n, zero) = Extreme(KeysPast(Key[n], zero), zero)
    BY <1>1, <1>2, NextIs
  <2>3. KeysPast(Key[n], one) = Above(Key[n]) /\ KeysPast(Key[n], zero) = Below(Key[n])
    <3>1. Key[n] \in Keys
      BY <1>3 DEF Keys
    <3> QED BY <3>1, <1>2, SidesOfKeys
  <2>4. AVL_Next(m, n) = Extreme(Above(Key[n]), 1)
    BY <2>1, <2>3, <1>2 DEF AVL_Next
  <2>5. AVL_Prev(m, n) = Extreme(Below(Key[n]), 0)
    BY <2>2, <2>3, <1>2 DEF AVL_Prev
  <2> QED BY <2>4, <2>5
<1> QED BY <1>4, <1>5, <1>6 DEF SearchesAgree

(* Each of the seven searches of avl.c returns what it looks for, in every  *)
(* tree the operations can make, until a null pointer is used.              *)
THEOREM SearchesAgreeInvariant == FullSpec => []SearchesAgree
BY WovenInvariant, WovenAgrees, PTL
=============================================================================
