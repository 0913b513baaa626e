---------------------------- MODULE CommonProofs ----------------------------
(* The lemmas several components' proofs share: what the list operations do *)
(* to the elements and the order of a sequence, induction over the naturals,*)
(* and what loops keep and when they end.                                   *)
EXTENDS NodeSeqs, Loops, FiniteSets, SequenceTheorems, FiniteSetTheorems,
        WellFoundedInduction, TLAPS

-----------------------------------------------------------------------------
(* Sequences of nodes.                                                      *)

(* A node of s is at its position.                                          *)
LEMMA PositionProperties ==
  ASSUME NEW S, NEW s \in Seq(S), NEW n \in Range(s)
  PROVE  /\ Position(s, n) \in 1..Len(s)
         /\ s[Position(s, n)] = n
BY DEF Position, Range

(* Dropping a position keeps the others, in order.                          *)
LEMMA DropAtProperties ==
  ASSUME NEW S, NEW s \in Seq(S), NEW i \in 1..Len(s)
  PROVE  /\ DropAt(s, i) \in Seq(S)
         /\ Len(DropAt(s, i)) = Len(s) - 1
         /\ \A j \in 1..(Len(s) - 1) : DropAt(s, i)[j] = IF j < i THEN s[j] ELSE s[j + 1]
<1> DEFINE e(j) == IF j < i THEN s[j] ELSE s[j + 1]
<1>1. Len(s) - 1 \in Nat
  OBVIOUS
<1>2. \A j \in 1..(Len(s) - 1) : e(j) \in S
  OBVIOUS
<1>3. DropAt(s, i) = [j \in 1..(Len(s) - 1) |-> e(j)]
  BY DEF DropAt
<1>4. DropAt(s, i) \in Seq(S)
  BY <1>1, <1>2, <1>3, IsASeq
<1>5. DOMAIN DropAt(s, i) = 1..(Len(s) - 1)
  BY <1>3
<1>6. Len(DropAt(s, i)) = Len(s) - 1
  BY <1>1, <1>4, <1>5, LenProperties
<1> QED
  BY <1>3, <1>4, <1>6

(* Remove takes out its node and no other, and keeps the rest distinct.     *)
LEMMA WithoutProperties ==
  ASSUME NEW S, NEW s \in Seq(S), NEW n, IsInjective(s)
  PROVE  /\ Without(s, n) \in Seq(S)
         /\ IsInjective(Without(s, n))
         /\ Range(Without(s, n)) = Range(s) \ {n}
         /\ n \in Range(s) => Len(Without(s, n)) = Len(s) - 1
<1>1. CASE n \notin Range(s)
  BY <1>1 DEF Without
<1>2. CASE n \in Range(s)
  <2> DEFINE i == Position(s, n)
             w == DropAt(s, i)
  <2>1. i \in 1..Len(s) /\ s[i] = n
    BY <1>2, PositionProperties
  <2>2. /\ w \in Seq(S)
        /\ Len(w) = Len(s) - 1
        /\ \A j \in 1..(Len(s) - 1) : w[j] = IF j < i THEN s[j] ELSE s[j + 1]
    BY <2>1, DropAtProperties
  <2> HIDE DEF i, w
  <2>3. DOMAIN w = 1..(Len(s) - 1) /\ DOMAIN s = 1..Len(s) /\ Len(s) \in Nat
    BY <2>2
  <2>4. IsInjective(w)
    BY <2>1, <2>2, <2>3 DEF IsInjective
  <2>5. ASSUME NEW x \in Range(w)
        PROVE  x \in Range(s) /\ x # n
    BY <2>1, <2>2, <2>3 DEF Range, IsInjective
  <2>6. ASSUME NEW x \in Range(s), x # n
        PROVE  x \in Range(w)
    <3>1. PICK k \in 1..Len(s) : s[k] = x
      BY <2>3 DEF Range
    <3>2. CASE k < i
      <4>1. k \in 1..(Len(s) - 1) /\ w[k] = x
        BY <2>1, <2>2, <2>3, <3>1, <3>2
      <4> QED
        BY <4>1, <2>3 DEF Range
    <3>3. CASE k > i
      <4>1. k - 1 \in 1..(Len(s) - 1) /\ w[k - 1] = x
        BY <2>1, <2>2, <2>3, <3>1, <3>3
      <4> QED
        BY <4>1, <2>3 DEF Range
    <3> QED
      BY <2>1, <2>6, <3>1, <3>2, <3>3
  <2>7. Range(w) = Range(s) \ {n}
    BY <2>5, <2>6
  <2>8. Without(s, n) = w
    BY <1>2 DEF Without, w, i
  <2> QED
    BY <2>2, <2>4, <2>7, <2>8
<1> QED
  BY <1>1, <1>2

(* AddHead makes its node the first and AddTail the last.                   *)
LEMMA PushProperties ==
  ASSUME NEW S, NEW s \in Seq(S), NEW n \in S, IsInjective(s), n \notin Range(s)
  PROVE  /\ Push(s, n) \in Seq(S)
         /\ IsInjective(Push(s, n))
         /\ Range(Push(s, n)) = Range(s) \cup {n}
         /\ Len(Push(s, n)) = Len(s) + 1
         /\ Head(Push(s, n)) = n
         /\ \A i \in 1..Len(s) + 1 : Push(s, n)[i] = IF i = 1 THEN n ELSE s[i - 1]
<1> DEFINE p == Push(s, n)
<1>1. /\ <<n>> \in Seq(S) /\ Len(<<n>>) = 1 /\ <<n>>[1] = n
      /\ Len(s) \in Nat /\ DOMAIN s = 1..Len(s)
  OBVIOUS
<1>2. /\ p \in Seq(S) /\ Len(p) = Len(s) + 1
      /\ \A i \in 1..Len(s) + 1 : p[i] = IF i = 1 THEN n ELSE s[i - 1]
  BY <1>1, ConcatProperties DEF Push
<1> HIDE DEF p
<1>3. DOMAIN p = 1..Len(s) + 1
  BY <1>1, <1>2
<1>4. IsInjective(p)
  <2> SUFFICES ASSUME NEW a \in 1..Len(s) + 1, NEW b \in 1..Len(s) + 1, p[a] = p[b], a < b
               PROVE  FALSE
    BY <1>1, <1>3 DEF IsInjective
  <2>1. b - 1 \in 1..Len(s) /\ p[b] = s[b - 1]
    BY <1>1, <1>2
  <2>2. s[b - 1] # n
    BY <1>1, <2>1 DEF Range
  <2>3. CASE a = 1
    BY <1>2, <2>1, <2>2, <2>3
  <2>4. CASE a # 1
    <3>1. a - 1 \in 1..Len(s) /\ p[a] = s[a - 1]
      BY <1>1, <1>2, <2>4
    <3> QED
      BY <1>1, <2>1, <3>1 DEF IsInjective
  <2> QED
    BY <2>3, <2>4
<1>5. ASSUME NEW x \in Range(p)
      PROVE  x \in Range(s) \cup {n}
  <2>1. PICK i \in 1..Len(s) + 1 : p[i] = x
    BY <1>3 DEF Range
  <2> QED
    BY <1>1, <1>2, <2>1 DEF Range
<1>6. ASSUME NEW x \in Range(s)
      PROVE  x \in Range(p)
  <2>1. PICK i \in 1..Len(s) : s[i] = x
    BY <1>1 DEF Range
  <2>2. i + 1 \in 1..Len(s) + 1 /\ p[i + 1] = x
    BY <1>1, <1>2, <2>1
  <2> QED
    BY <1>3, <2>2 DEF Range
<1>7. p[1] = n /\ 1 \in DOMAIN p
  BY <1>1, <1>2, <1>3
<1>8. Range(p) = Range(s) \cup {n}
  BY <1>5, <1>6, <1>7 DEF Range
<1>9. Head(p) = n
  BY <1>1, <1>2, <1>7
<1> QED
  BY <1>2, <1>4, <1>8, <1>9 DEF p

LEMMA AppendElements ==
  ASSUME NEW S, NEW s \in Seq(S), NEW n \in S, IsInjective(s), n \notin Range(s)
  PROVE  /\ Append(s, n) \in Seq(S)
         /\ IsInjective(Append(s, n))
         /\ Range(Append(s, n)) = Range(s) \cup {n}
         /\ Len(Append(s, n)) = Len(s) + 1
<1> DEFINE p == Append(s, n)
<1>1. /\ p \in Seq(S) /\ Len(p) = Len(s) + 1 /\ Len(s) \in Nat
      /\ \A i \in 1..Len(s) : p[i] = s[i]
      /\ p[Len(s) + 1] = n /\ DOMAIN s = 1..Len(s) /\ DOMAIN p = 1..Len(s) + 1
  OBVIOUS
<1> HIDE DEF p
<1>2. IsInjective(p)
  BY <1>1 DEF IsInjective, Range
<1>3. ASSUME NEW x \in Range(p)
      PROVE  x \in Range(s) \cup {n}
  BY <1>1 DEF Range
<1>4. ASSUME NEW x \in Range(s) \cup {n}
      PROVE  x \in Range(p)
  BY <1>1 DEF Range
<1> QED
  BY <1>1, <1>2, <1>3, <1>4 DEF p

(* AddTail's node is the last one, the others keep their places.            *)
LEMMA AppendPlaces ==
  ASSUME NEW S, NEW s \in Seq(S), NEW n \in S
  PROVE  /\ Append(s, n) \in Seq(S)
         /\ Len(Append(s, n)) = Len(s) + 1
         /\ \A i \in 1..Len(s) + 1 : Append(s, n)[i] = IF i = Len(s) + 1 THEN n ELSE s[i]
BY AppendProperties

(* A removed node leaves the others in order, each at its place or the one  *)
(* before.                                                                  *)
LEMMA WithoutPlaces ==
  ASSUME NEW S, NEW s \in Seq(S), NEW i \in 1..Len(s), IsInjective(s)
  PROVE  /\ Without(s, s[i]) \in Seq(S)
         /\ Len(Without(s, s[i])) = Len(s) - 1
         /\ \A j \in 1..(Len(s) - 1) :
              Without(s, s[i])[j] = IF j < i THEN s[j] ELSE s[j + 1]
<1>1. s[i] \in Range(s) /\ DOMAIN s = 1..Len(s)
  BY DEF Range
<1>2. Position(s, s[i]) = i
  BY <1>1, PositionProperties DEF IsInjective
<1>3. Without(s, s[i]) = DropAt(s, i)
  BY <1>1, <1>2 DEF Without
<1> QED
  BY <1>3, DropAtProperties

(* A list with an element has a first one.                                  *)
LEMMA HeadProperties ==
  ASSUME NEW S, NEW s \in Seq(S), NEW x \in Range(s)
  PROVE  s # <<>> /\ Head(s) \in S /\ Head(s) \in Range(s) /\ Head(s) = s[1] /\ 1 \in DOMAIN s
BY DEF Range

-----------------------------------------------------------------------------
(* Induction and loops.                                                     *)

(* A non-empty set of naturals up to n has a least element.                 *)
LEMMA LeastIn ==
  ASSUME NEW n \in Nat, NEW U \in SUBSET (0..n), U # {}
  PROVE  \E x \in U : \A y \in U : x <= y
<1> DEFINE W == 0..n
           R == StrictSubsetOrdering(W)
           TT == {0..x : x \in U}
<1>1. IsFiniteSet(W)
  BY FS_Interval
<1>2. IsWellFoundedOn(R, SUBSET W)
  BY <1>1, FS_FiniteSubsetsOfFinite, FS_StrictSubsetOrderingWellFounded
<1>3. TT \subseteq SUBSET W /\ TT # {}
  <2>1. \A x \in U : 0..x \subseteq W
    OBVIOUS
  <2> QED BY <2>1
<1> HIDE DEF TT, R, W
<1>4. PICK A \in TT : \A B \in TT : ~ (<<B, A>> \in R)
  BY <1>2, <1>3, WFMin
<1> USE DEF TT, R, W
<1>5. PICK x \in U : A = 0..x
  BY <1>4
<1>6. ASSUME NEW y \in U, ~(x <= y) PROVE FALSE
  <2>1. 0..y \subseteq 0..x /\ 0..y # 0..x /\ 0..x \subseteq W /\ 0..y \in TT
    <3>1. x \in 0..x /\ x \notin 0..y
      BY <1>6
    <3> QED BY <1>6, <3>1
  <2>2. <<0..y, 0..x>> \in R
    BY <2>1 DEF StrictSubsetOrdering
  <2> QED BY <2>1, <2>2, <1>4, <1>5
<1> QED BY <1>6

(* Induction over the naturals, for a set instead of a predicate.           *)
LEMMA SetInduction ==
  ASSUME NEW S, 0 \in S, \A n \in Nat : n \in S => n+1 \in S
  PROVE Nat \subseteq S
<1> SUFFICES ASSUME NEW n \in Nat, n \notin S PROVE FALSE
  OBVIOUS
<1> DEFINE U == {k \in 0..n : k \notin S}
<1>1. PICK x \in U : \A y \in U : x <= y
  <2>1. U \in SUBSET (0..n) /\ U # {}
    OBVIOUS
  <2> HIDE DEF U
  <2> QED BY <2>1, LeastIn
<1>2. x # 0 /\ x \in Nat /\ x <= n
  OBVIOUS
<1>3. x - 1 \in Nat /\ x - 1 <= n /\ x - 1 \in S
  BY <1>1, <1>2
<1> QED BY <1>1, <1>2, <1>3

(* The sequence of states that Loop speaks of exists.                     *)
LEMMA LoopExists ==
  ASSUME NEW S, NEW Round \in [S -> S], NEW x \in S
  PROVE  \E f : f = [i \in Nat |-> IF i = 0 THEN x ELSE Round[f[i - 1]]]
<1> DEFINE Run(k) == {g \in [0..k -> S] : g[0] = x /\ \A i \in 1..k : g[i] = Round[g[i - 1]]}
<1>1. \A k \in Nat : Run(k) # {}
  <2> DEFINE A == {k \in Nat : Run(k) # {}}
  <2>1. 0 \in A
    <3>1. [i \in 0..0 |-> x] \in Run(0)
      OBVIOUS
    <3> QED BY <3>1
  <2>2. ASSUME NEW k \in Nat, k \in A PROVE k + 1 \in A
    <3>1. PICK g : g \in Run(k)
      BY <2>2
    <3> DEFINE h == [i \in 0..k + 1 |-> IF i <= k THEN g[i] ELSE Round[g[k]]]
    <3>2. h \in [0..k+1 -> S]
      BY <3>1
    <3>3. h[0] = x
      BY <3>1
    <3>4. ASSUME NEW i \in 1..k + 1 PROVE h[i] = Round[h[i - 1]]
      <4>1. CASE i <= k
        BY <3>1, <4>1
      <4>2. CASE i = k + 1
        BY <3>1, <4>2
      <4> QED BY <4>1, <4>2
    <3>5. h \in Run(k + 1)
      BY <3>2, <3>3, <3>4
    <3> QED BY <3>5
  <2> HIDE DEF A
  <2>3. Nat \subseteq A
    BY <2>1, <2>2, SetInduction
  <2> USE DEF A
  <2> QED BY <2>3
<1>2. ASSUME NEW j \in Nat, NEW k \in Nat, j <= k, NEW g \in Run(j), NEW h \in Run(k)
      PROVE  \A i \in 0..j : g[i] = h[i]
  <2> DEFINE A == {i \in Nat : i <= j => g[i] = h[i]}
  <2>1. 0 \in A
    BY <1>2
  <2>2. ASSUME NEW i \in Nat, i \in A PROVE i + 1 \in A
    <3>1. SUFFICES ASSUME i + 1 <= j PROVE g[i + 1] = h[i + 1]
      OBVIOUS
    <3>2. i + 1 \in 1..j /\ i + 1 \in 1..k /\ (i + 1) - 1 = i
      BY <1>2, <3>1
    <3>3. g[i + 1] = Round[g[i]] /\ h[i + 1] = Round[h[i]]
      BY <3>2
    <3> QED BY <3>1, <3>3, <2>2
  <2> HIDE DEF A
  <2>3. Nat \subseteq A
    BY <2>1, <2>2, SetInduction
  <2> USE DEF A
  <2> QED BY <2>3
<1> DEFINE c(k) == CHOOSE g : g \in Run(k)
           f == [i \in Nat |-> c(i)[i]]
<1>3. \A k \in Nat : c(k) \in Run(k)
  BY <1>1
<1> HIDE DEF c
<1>4. f[0] = x
  <2>1. c(0)[0] = x
    BY <1>3
  <2> QED BY <2>1
<1>5. ASSUME NEW i \in Nat, i # 0 PROVE f[i] = Round[f[i - 1]]
  <2>1. i - 1 \in Nat /\ i - 1 <= i /\ i \in 1..i /\ i - 1 \in 0..i - 1
    BY <1>5
  <2>2. c(i)[i] = Round[c(i)[i - 1]]
    BY <2>1, <1>3
  <2>3. c(i - 1) \in Run(i - 1) /\ c(i) \in Run(i)
    BY <2>1, <1>3
  <2> HIDE DEF Run
  <2>4. c(i - 1)[i - 1] = c(i)[i - 1]
    BY <2>1, <2>3, <1>2
  <2> QED BY <2>1, <2>2, <2>4
<1> HIDE DEF f
<1>6. \A i \in Nat : f[i] = IF i = 0 THEN x ELSE Round[f[i - 1]]
  BY <1>4, <1>5
<1>7. f = [i \in Nat |-> f[i]]
  BY DEF f
<1>8. f = [i \in Nat |-> IF i = 0 THEN x ELSE Round[f[i - 1]]]
  BY <1>6, <1>7
<1> QED BY <1>8

(* Loop(..., 0) is the first state, and each round adds one.              *)
LEMMA LoopSteps ==
  ASSUME NEW S, NEW Round \in [S -> S], NEW x \in S
  PROVE  /\ Loop(Round, x, 0) = x
         /\ \A k \in Nat : Loop(Round, x, k + 1) = Round[Loop(Round, x, k)]
<1> DEFINE f == CHOOSE f : f = [i \in Nat |-> IF i = 0 THEN x ELSE Round[f[i - 1]]]
<1>1. f = [i \in Nat |-> IF i = 0 THEN x ELSE Round[f[i - 1]]]
  BY LoopExists
<1>2. \A k \in Nat : Loop(Round, x, k) = f[k]
  BY DEF Loop
<1> HIDE DEF f
<1>3. \A k \in Nat : k + 1 \in Nat /\ k + 1 # 0 /\ (k + 1) - 1 = k
  OBVIOUS
<1>4. f[0] = x
  BY <1>1
<1>5. ASSUME NEW k \in Nat PROVE f[k + 1] = Round[f[k]]
  BY <1>1, <1>3
<1> QED BY <1>2, <1>4, <1>5, <1>3

(* What a round keeps, the loop keeps. *)
LEMMA LoopKeeps ==
  ASSUME NEW S, NEW Round \in [S -> S], NEW I \in SUBSET S, NEW x \in I,
         \A s \in I : Round[s] \in I, NEW k \in Nat
  PROVE  Loop(Round, x, k) \in I
<1> DEFINE A == {i \in Nat : Loop(Round, x, i) \in I}
<1>1. 0 \in A
  BY LoopSteps
<1>2. ASSUME NEW i \in Nat, i \in A PROVE i + 1 \in A
  BY <1>2, LoopSteps
<1> HIDE DEF A
<1>3. Nat \subseteq A
  BY <1>1, <1>2, SetInduction
<1> USE DEF A
<1> QED BY <1>3

(* A loop whose measure falls in every round until it is done is done, and  *)
(* keeps what its rounds keep.                                              *)
LEMMA LoopEnds ==
  ASSUME NEW S, NEW Round \in [S -> S], NEW I \in SUBSET S, NEW x \in I, NEW k \in Nat,
         NEW rank \in [I -> Nat], rank[x] <= k,
         \A s \in I : /\ Round[s] \in I
                      /\ Round[s] = s \/ rank[Round[s]] < rank[s]
  PROVE  /\ Loop(Round, x, k) \in I
         /\ Round[Loop(Round, x, k)] = Loop(Round, x, k)
<1> DEFINE r(i) == Loop(Round, x, i)
           A == {i \in Nat : Round[r(i)] = r(i) \/ rank[r(i)] + i <= k}
<1>1. \A i \in Nat : r(i) \in I
  BY LoopKeeps
<1>2. r(0) = x /\ \A i \in Nat : r(i + 1) = Round[r(i)]
  BY LoopSteps
<1> HIDE DEF r
<1>3. 0 \in A
  BY <1>2
<1>4. ASSUME NEW i \in Nat, i \in A PROVE i + 1 \in A
  <2>1. r(i) \in I /\ r(i + 1) = Round[r(i)] /\ r(i + 1) \in I
    BY <1>1, <1>2
  <2>2. CASE Round[r(i)] = r(i)
    BY <2>1, <2>2
  <2>3. CASE Round[r(i)] # r(i)
    <3>1. rank[r(i + 1)] < rank[r(i)] /\ rank[r(i)] + i <= k
      BY <2>1, <2>3, <1>4
    <3>2. rank[r(i + 1)] \in Nat /\ rank[r(i)] \in Nat
      BY <2>1
    <3> QED BY <3>1, <3>2
  <2> QED BY <2>2, <2>3
<1> HIDE DEF A
<1>5. Nat \subseteq A
  BY <1>3, <1>4, SetInduction
<1> USE DEF A
<1>6. Round[r(k)] = r(k) \/ rank[r(k)] + k <= k
  BY <1>5
<1>7. r(k) \in I /\ rank[r(k)] \in Nat
  BY <1>1
<1>8. Round[r(k)] = r(k)
  <2>1. CASE rank[r(k)] + k <= k
    <3>1. rank[r(k)] = 0
      BY <2>1, <1>7
    <3>2. ~(rank[Round[r(k)]] < 0)
      BY <1>7
    <3> QED BY <3>1, <3>2, <1>7
  <2> QED BY <2>1, <1>6
<1> QED BY <1>7, <1>8 DEF r
=============================================================================
